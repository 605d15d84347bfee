---------------------------- MODULE MCScheduling ----------------------------
(* Small instances of Scheduling for TLC. *)
EXTENDS Scheduling
=============================================================================
