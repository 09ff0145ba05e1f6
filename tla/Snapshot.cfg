SPECIFICATION ScanSpec
CONSTANTS
    w1 = w1
    Key = {0, 1, 2, 3, 4}
    Client = {1, 2}
    Worker = {w1}
    Threshold = 3
    Interval = 1
    Block = 1
    Inactive = 1
    Capacity = 2
    ExpireLimitFind = 1
    ExpireLimitAlloc = 1
    EvictScanLimit = 2
    MaxLag = 1
    MaxTime = 2
    TimeMax = 4
INVARIANTS
    LoadLandsOnLast
    SnapshotRoundTrip
PROPERTIES
    RingsImplementZone
