SPECIFICATION Spec
CONSTANTS
    Policies = {"manual"}
    Duals = {FALSE}
    Serials = {}
    Ids = {1, 2}
    Faults = {}
    DriveDuringFetch = FALSE
    TrustFrom = 10
    DayLength = 20
    CommandAge = 5
    MaxCommands = 3
    MaxTime = 1
    MaxOdometer = 0
    MaxRollbacks = 0
    MaxGeneration = 3
    MaxFaults = 0
    MaxCrashes = 0
INVARIANT CommandOnce
