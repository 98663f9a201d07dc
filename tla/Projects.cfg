SPECIFICATION Spec
CONSTANTS
    Project = {p1, p2}
    Account = {a, b}
    Admin = {a}
    r1 = r1
    r2 = r2
    s1 = s1
    s2 = s2
    Repo = {r1, r2}
    Ported = {r2}
    Slug = {s1, s2}
    None = None
    Sent <- MCSent
    MaxEdits = 2
SYMMETRY ProjectsSymmetry
INVARIANTS
    TypeOK
    KeyResolvesOnce
    ServedByLive
    NoOrphan
CHECK_DEADLOCK FALSE
