SPECIFICATION Spec
CONSTANTS
    NoProc = NoProc
    k1 = k1
    k2 = k2
    p1 = p1
    Key = {k1, k2}
    Proc = {p1}
    Platforms = {"posix", "win32"}
    MaxDenied = 1
    MaxSaves = 2
    MaxKills = 0
    MaxCrashes = 1
    MaxReloads = 0
    MaxTime = 3
    Threshold = 2
    Interval = 2
    Block = 2
    Inactive = 2
    Capacity = 2
    ExpireLimitFind = 2
    ExpireLimitAlloc = 2
    EvictScanLimit = 2
    TimeMax = 7
SYMMETRY KeySymmetry
CHECK_DEADLOCK FALSE
INVARIANTS
    TypeOK
    NoBanFromDisk
PROPERTIES
    RestartKeepsBans
    RestartKeepsOrder
