SPECIFICATION FairSpec
CONSTANTS
    k1 = k1
    k2 = k2
    w1 = w1
    Key = {k1, k2}
    Worker = {w1}
    Threshold = 2
    Interval = 2
    Block = 2
    Inactive = 2
    Capacity = 1
    ExpireLimitFind = 1
    ExpireLimitAlloc = 1
    EvictScanLimit = 1
    MaxLag = 0
    MaxTime = 5
    TimeMax = 6
PROPERTIES
    ReclaimOnlyAgedOut
