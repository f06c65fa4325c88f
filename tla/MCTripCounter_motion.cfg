SPECIFICATION Spec
CONSTANTS
    Policies = {"battery"}
    Duals = {TRUE}
    Serials = {"a", "b"}
    Ids = {1}
    Faults <- FallibleOps
    DriveDuringFetch = FALSE
    TrustFrom = 1
    DayLength = 10
    CommandAge = 9
    MaxCommands = 3
    MaxTime = 0
    MaxOdometer = 1
    MaxRollbacks = 1
    MaxGeneration = 1
    MaxFaults = 1
    MaxCrashes = 1
INVARIANTS TypeOK DistanceTravelled
