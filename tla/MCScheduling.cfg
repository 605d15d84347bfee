SPECIFICATION SchedSpec
CONSTANTS
    MaxEntries = 2
    Name = {n1}
    MaxTime = 1
    MaxFaults = 1
INVARIANTS
    FiringsBounded
    ChainKept
    LinkTruthful
PROPERTIES
    EditsHold
CHECK_DEADLOCK FALSE
