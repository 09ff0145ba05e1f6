SPECIFICATION FairSpec
CONSTANTS
    k1 = k1
    w1 = w1
    r1 = r1
    NoRequest = NoRequest
    Key = {k1}
    Worker = {w1}
    Request = {r1}
    Threshold = 2
    Interval = 1
    Block = 1
    Inactive = 1
    Second = 1
    BreakerThreshold = 2
    BreakerDuration = 1
    BackoffMax = 3
    LateRefusal = FALSE
    QueueMayFail = FALSE
    AuthMayFail = TRUE
    EventMayFail = TRUE
    MaxOutages = 2
    MaxFlushes = 1
    MaxErrors = 1
    MaxTime = 3
    TimeMax = 9
CHECK_DEADLOCK FALSE
PROPERTIES
    ParkedResumes
    Reconnects
