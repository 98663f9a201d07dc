SPECIFICATION Spec
CONSTANTS
    Memory = {m1}
    Foreign = {}
    Client = {a, b, s}
    Split = {s}
    Content = {c1, c2}
    Blocked = {}
    Hidden = {c2}
    None = None
    MaxPerSync = 2
    ChunkSize = 2
    Zone = {0}
    WallClock = FALSE
    Granule = 1
    MaxAge = 1
    MaxTime = 6
    MaxSends = 3
    MaxFaults = 1
SYMMETRY SyncSymmetry
INVARIANTS
    TypeOK
    LiveIsNewest
    BehindOnlyByLate
CHECK_DEADLOCK FALSE
