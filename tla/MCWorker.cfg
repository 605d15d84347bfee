SPECIFICATION LoopSpec
CONSTANTS
    Task = {t1, t2}
    Workflow = {w1, w2}
    MaxAttempts = 1
    Name = {auto}
    Critical = {}
    User = {u1, u2}
    Creator = {api}
    MaxFaults = 1
    MaxEntries = 1
    MaxTime = 1
    MaxCrashes = 2
PROPERTIES
    RowsMoveOn
    DueFires
CHECK_DEADLOCK FALSE
