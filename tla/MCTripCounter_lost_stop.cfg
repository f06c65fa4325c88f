SPECIFICATION Spec
CONSTANTS
    Policies = {"ride"}
    Duals = {FALSE}
    Serials = {}
    Ids = {1}
    Faults = {"vehicle"}
    DriveDuringFetch = FALSE
    TrustFrom = 1
    DayLength = 20
    CommandAge = 9
    MaxCommands = 3
    MaxTime = 2
    MaxOdometer = 0
    MaxRollbacks = 0
    MaxGeneration = 2
    MaxFaults = 1
    MaxCrashes = 0
INVARIANT DurationObserved
