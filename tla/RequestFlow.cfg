SPECIFICATION Spec
CONSTANTS
    k1 = k1
    k2 = k2
    r1 = r1
    r2 = r2
    za = za
    zb = zb
    NoZone = NoZone
    NoKey = NoKey
    NoLoc = NoLoc
    Key = {k1, k2}
    Request = {r1, r2}
    Location = {"on", "dry", "off", "other"}
    Zone = {za, zb}
    Conf <- MCConf
    OnFullReject <- MCOnFullReject
    Tracked = {"error", "reject"}
    AllocMayFail = TRUE
    MaxHops = 2
    MaxTime = 2
    Threshold = 1
    Interval = 2
    Block = 2
    Inactive = 2
    Capacity = 1
    ExpireLimitFind = 1
    ExpireLimitAlloc = 1
    EvictScanLimit = 1
    TimeMax = 4
SYMMETRY RequestKeySymmetry
CHECK_DEADLOCK FALSE
INVARIANTS
    TypeOK
    CountedOnce
    BanIsEarned
    OriginWins
    RejectionsArePrivate
    RetryAfterIsTrue
    StatusIsTrue
PROPERTIES
    BannedAreStopped
