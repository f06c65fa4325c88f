SPECIFICATION Spec
CONSTANTS
    Policies = {"manual"}
    Duals = {FALSE}
    Serials = {}
    Ids = {}
    Faults = {}
    DriveDuringFetch = TRUE
    TrustFrom = 1
    DayLength = 20
    CommandAge = 9
    MaxCommands = 3
    MaxTime = 0
    MaxOdometer = 3
    MaxRollbacks = 0
    MaxGeneration = 1
    MaxFaults = 0
    MaxCrashes = 0
INVARIANT DistanceTravelled
