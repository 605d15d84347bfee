------------------------- MODULE MCWorkflowEngine -------------------------
(* Small instances of WorkflowEngine for TLC. *)
EXTENDS WorkflowEngine, TLC

Symmetry == Permutations(Task) \cup Permutations(Workflow)
              \cup Permutations(User) \cup Permutations(Creator)
=============================================================================
