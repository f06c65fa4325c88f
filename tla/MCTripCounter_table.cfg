SPECIFICATION Spec
CONSTANTS
    Policies = {"manual"}
    Duals = {FALSE}
    Serials = {}
    Ids = {1, 2, 3}
    Faults = {}
    DriveDuringFetch = FALSE
    TrustFrom = 1
    DayLength = 10
    CommandAge = 9
    MaxCommands = 1
    MaxTime = 2
    MaxOdometer = 0
    MaxRollbacks = 0
    MaxGeneration = 4
    MaxFaults = 0
    MaxCrashes = 0
INVARIANT CommandsBounded
