SPECIFICATION FairApprSpec
CONSTANTS
    MaxEvents = 2
    MaxRequests = 2
    Name = {post, report}
    External = {post}
    HourlyLimit = 1
    MaxApprovals = 2
    MaxFaults = 1
INVARIANTS
    ExternalGated
    RequestsNotRepeated
    QuotaHolds
PROPERTIES
    TimelinePasses
CHECK_DEADLOCK FALSE
