SPECIFICATION RuleSpec
CONSTANTS
    Requestable = {"publish"}
    Delays = {"timing"}
    Tenants = {1}
    ScanLimit = 1
    MaxFaults = 1
INVARIANTS
    ApprovalAlways
CHECK_DEADLOCK FALSE
