SPECIFICATION FairSpec
CONSTANTS
    Rides = {1, 2, 3}
    Settings <- MCBacklog
    DefaultPolicy <- Age1
    ExpungeBatchSize = 1
    ReclaimPages = 1
    TrustFrom = 1
    MaxClock = 1
    MaxEvents = 2
CHECK_DEADLOCK FALSE
PROPERTIES HandlerReturns RetentionConverges
