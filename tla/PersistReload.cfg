SPECIFICATION FairSpec
CONSTANTS
    NoProc = NoProc
    k1 = k1
    p1 = p1
    p2 = p2
    Key = {k1}
    Proc = {p1, p2}
    Platforms = {"posix", "win32"}
    MaxDenied = 0
    MaxSaves = 3
    MaxKills = 1
    MaxCrashes = 0
    MaxReloads = 1
    MaxTime = 1
    Threshold = 1
    Interval = 1
    Block = 2
    Inactive = 2
    Capacity = 2
    ExpireLimitFind = 2
    ExpireLimitAlloc = 2
    EvictScanLimit = 2
    TimeMax = 7
CHECK_DEADLOCK FALSE
INVARIANTS
    FileIsComplete
    SnapshotsInOrder
PROPERTIES
    SavesGoOn
    OwnershipPassesOn
