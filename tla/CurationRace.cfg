SPECIFICATION Spec
CONSTANTS
    Memory = {m1}
    Worker = {w1, w2}
    Writer = {p1, p2}
    Content = {c1, c2}
    MergesInPlace = TRUE
    None = None
    BatchSize = 1
    MaxAttempts = 2
    MaxEdits = 4
    MaxFaults = 3
SYMMETRY CurationSymmetry
INVARIANTS
    TypeOK
    VerdictIsCurrent
    EmbeddingIsCurrent
    DoneIsJudged
PROPERTY ClaimNotStolen
CHECK_DEADLOCK FALSE
