-------------------------- MODULE MCRuleExecution --------------------------
(* Small instances of RuleExecution for TLC. *)
EXTENDS RuleExecution
=============================================================================
