---------------------------- MODULE MCOperations ----------------------------
(* Small instances of OperationRuntime for TLC. *)
EXTENDS OperationRuntime

CONSTANTS o1, c1, c2

Ask(clear, intent, action, domain, approves) ==
    [clear |-> clear, intent |-> intent, action |-> action, domain |-> domain,
     approves |-> approves]

\* An unclear message, a caption alone, an approving message that schedules and
\* publishes, and a request that ends in an approval step.
MCRequest ==
    {Ask(FALSE, "general_analysis", "other", "content_ops", FALSE),
     Ask(TRUE, "optimize_campaign", "other", "content_ops", FALSE),
     Ask(TRUE, "approve_campaign", "publish_content", "publishing", TRUE),
     Ask(TRUE, "create_campaign", "create_and_publish", "content_ops", FALSE)}
=============================================================================
