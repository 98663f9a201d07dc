SPECIFICATION Spec
CONSTANTS
    Memory = {m1, m2, m3}
    Foreign = {m3}
    Client = {a}
    Split = {}
    Content = {c1, c2}
    Blocked = {c2}
    Hidden = {}
    None = None
    MaxPerSync = 2
    ChunkSize = 1
    Zone = {0}
    WallClock = FALSE
    Granule = 1
    MaxAge = 1
    MaxTime = 5
    MaxSends = 2
    MaxFaults = 1
SYMMETRY SyncSymmetry
INVARIANTS
    AcceptedIsStored
CHECK_DEADLOCK FALSE
