SPECIFICATION FairRuleSpec
CONSTANTS
    Requestable = {"publish"}
    Delays = {"timing"}
    Tenants = {1}
    ScanLimit = 1
    MaxFaults = 0
PROPERTIES
    WaitsEnd
CHECK_DEADLOCK FALSE
