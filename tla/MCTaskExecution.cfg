SPECIFICATION FairTaskSpec
CONSTANTS
    Task = {t1, t2}
    Workflow = {w1, w2}
    MaxRetries = 2
    ToolCount = 2
    MaxFaults = 2
INVARIANTS
    RetryBudget
    ToolsInOrder
    StrandedByFault
PROPERTIES
    ImplementsBoard
    TaskSettles
CHECK_DEADLOCK FALSE
