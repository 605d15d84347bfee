SPECIFICATION FairRuleSpec
CONSTANTS
    Requestable = {"wait", "create_coupon", "publish"}
    Delays = {"none", "timing", "config"}
    Tenants = {1, 2}
    ScanLimit = 1
    MaxFaults = 1
INVARIANTS
    ApprovalGate
    EffectsOnce
    DelayRespected
    RowMatchesGraph
PROPERTIES
    VerdictStays
    ExecutionsMoveOn
CHECK_DEADLOCK FALSE
