SPECIFICATION Spec
CONSTANTS
    k1 = k1
    w1 = w1
    r1 = r1
    r2 = r2
    NoRequest = NoRequest
    Key = {k1}
    Worker = {w1}
    Request = {r1, r2}
    Threshold = 2
    Interval = 1
    Block = 1
    Inactive = 2
    Second = 2
    BreakerThreshold = 2
    BreakerDuration = 1
    BackoffMax = 3
    LateRefusal = TRUE
    QueueMayFail = TRUE
    AuthMayFail = TRUE
    EventMayFail = TRUE
    MaxOutages = 1
    MaxFlushes = 1
    MaxErrors = 2
    MaxTime = 4
    TimeMax = 9
SYMMETRY RequestWorkerSymmetry
CHECK_DEADLOCK FALSE
INVARIANTS
    ParkedOnce
    OneConnection
PROPERTIES
    BreakerCountsFailures
    RedisBanIsEarned
