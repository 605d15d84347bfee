SPECIFICATION ServicesSpec
CONSTANTS
    Thread = {p1, p2, p3}
    Slot = {k1, k2}
    Call = {f1, f2}
    Workers = 1
    MaxRetries = 2
    Threshold = 2
    Campaign = {m1}
    Actor = {a1, a2, a3}
    Reader = {r1, r2}
    Editor = {e1, e2}
    MaxEdits = 3
    Edit = {d1, d2}
    MaxRows = 3
    Job = {j1, j2}
    Holiday = {j1}
    Poll = {q1, q2}
    JobRetries = 1
    MaxCuts = 1
    Item = {i1}
    Order = {o1}
    Remark = {v1}
    Writer = {w1, w2}
    Structured = 1
    Duties = 2
    MaxChanges = 3
    MaxEchoes = 1
    MaxCutOffs = 1
    MaxPhotos = 2
SYMMETRY ServicesSymmetry
INVARIANTS
    SomeoneGivesBack
    EffectsBounded
    DatesKept
    CacheFresh
    VersionsAccounted
    OutcomesAccounted
    CopyCatchesUp
    PostsAsAnswered
PROPERTIES
    EventsTakenUp
CHECK_DEADLOCK FALSE
