SPECIFICATION Spec
CONSTANTS
    k1 = k1
    k2 = k2
    k3 = k3
    k4 = k4
    w1 = w1
    w2 = w2
    Key = {k1, k2, k3, k4}
    Worker = {w1, w2}
    Threshold = 3
    Interval = 1
    Block = 2
    Inactive = 2
    Capacity = 3
    ExpireLimitFind = 1
    ExpireLimitAlloc = 1
    EvictScanLimit = 2
    MaxLag = 1
    MaxTime = 3
    TimeMax = 4
SYMMETRY KeyWorkerSymmetry
INVARIANTS
    TypeOK
    ListMatchesTree
    RingHasRoom
    EventsBehindLastSeen
    PeekAgreesInOrder
    MissAdvances
PROPERTIES
    BanStands
    LossNeedsFullPool
    ImplementsPolicy
