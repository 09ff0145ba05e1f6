SPECIFICATION Spec
CONSTANTS
    ZoneArgs <- MCZoneArgs
    EnableArgs <- MCEnableArgs
    RedisArgs <- MCRedisArgs
    MaxSeconds = 4
    MaxThreshold = 2
    MinStatus = 1
    MaxStatus = 5
    DefaultInterval = 2
    DefaultThreshold = 2
    DefaultBlock = 3
    DefaultInactive = 3
    DefaultStatuses <- MCDefaultStatuses
    MaxDirectives = 3
    MaxCycles = 2
INVARIANTS
    ZonesAreSound
    EnabledHasZone
    MemoryFits
CHECK_DEADLOCK FALSE
