SPECIFICATION EngineSpec
CONSTANTS
    Task = {t1, t2}
    Workflow = {w1, w2}
    MaxAttempts = 1
    Name = {crit, auto}
    Critical = {crit}
    User = {u1}
    Creator = {listener, api}
    MaxFaults = 1
SYMMETRY Symmetry
INVARIANTS
    ActiveUnique
    TasksOfWorkflows
    AbandonedByFault
PROPERTIES
    CancelledStays
CHECK_DEADLOCK FALSE
