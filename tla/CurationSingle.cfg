SPECIFICATION FairSpec
CONSTANTS
    Memory = {m1, m2}
    Worker = {w1}
    Writer = {p1}
    Content = {c1, c2}
    MergesInPlace = FALSE
    None = None
    BatchSize = 2
    MaxAttempts = 2
    MaxEdits = 2
    MaxFaults = 1
INVARIANTS
    DoneVerdictIsCurrent
    DoneIsIndexed
PROPERTY EventuallySettles
CHECK_DEADLOCK FALSE
