SPECIFICATION FairSpec
CONSTANTS
    Rides = {1, 2}
    Settings <- MCValues
    DefaultPolicy <- Age1
    ExpungeBatchSize = 1
    ReclaimPages = 1
    TrustFrom = 1
    MaxClock = 2
    MaxEvents = 2
CHECK_DEADLOCK FALSE
INVARIANTS TypeOK OpenRideSurvives VacuumYields StatusAgrees
PROPERTIES DeletesWithinPolicy HandlerReturns RetentionConverges
