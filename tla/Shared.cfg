SPECIFICATION SharedSpec
CONSTANTS
    k1 = k1
    w1 = w1
    w2 = w2
    r1 = r1
    r2 = r2
    NoRequest = NoRequest
    Key = {k1}
    Worker = {w1, w2}
    Request = {r1, r2}
    Threshold = 2
    Interval = 1
    Block = 1
    Inactive = 1
    Second = 1
    BreakerThreshold = 1
    BreakerDuration = 1
    BackoffMax = 1
    LateRefusal = FALSE
    QueueMayFail = FALSE
    AuthMayFail = FALSE
    EventMayFail = FALSE
    MaxOutages = 0
    MaxFlushes = 0
    MaxErrors = 1
    MaxTime = 2
    TimeMax = 9
    Host = {w1, w2}
    HostOf <- MCHostOf
    Capacity = 1
    ExpireLimitFind = 1
    ExpireLimitAlloc = 1
    EvictScanLimit = 1
    MaxLosses = 1
SYMMETRY RequestHostSymmetry
CHECK_DEADLOCK FALSE
INVARIANTS
    EveryErrorCounts
PROPERTIES
    BanReachesEveryHost
    LocalBanAlwaysStops
