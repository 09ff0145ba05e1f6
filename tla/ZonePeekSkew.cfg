SPECIFICATION Spec
CONSTANTS
    k1 = k1
    w1 = w1
    w2 = w2
    Key = {k1}
    Worker = {w1, w2}
    Threshold = 3
    Interval = 2
    Block = 2
    Inactive = 2
    Capacity = 1
    ExpireLimitFind = 1
    ExpireLimitAlloc = 1
    EvictScanLimit = 1
    MaxLag = 1
    MaxTime = 6
    TimeMax = 7
INVARIANTS
    PeekAgrees
