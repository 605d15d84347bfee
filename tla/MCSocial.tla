------------------------------ MODULE MCSocial ------------------------------
(* Small instances of StorePublishing for TLC. *)
EXTENDS StorePublishing, TLC

CONSTANTS u1, u2, t1, t2

MCSymmetry == Permutations({u1, u2}) \cup Permutations({t1, t2})
=============================================================================
