SPECIFICATION Spec
CONSTANTS
    dev = dev
    v1 = v1
    v2rc = v2rc
    v2 = v2
    broken = broken
    Tag <- MCTag
    Rank <- MCRank
    Host <- UnixHost
    Task = {t1, t2}
    NoFile = NoFile
    MaxBackup = 2
    MaxPublish = 2
    MaxCrashes = 2
INVARIANTS
    OnlyBrokenRefused
CHECK_DEADLOCK FALSE
