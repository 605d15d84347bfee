-------------------------- MODULE MCTaskExecution --------------------------
(* Small instances of TaskExecution for TLC. *)
EXTENDS TaskExecution
=============================================================================
