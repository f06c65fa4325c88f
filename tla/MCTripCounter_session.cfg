SPECIFICATION Spec
CONSTANTS
    Policies = {"ride"}
    Duals = {FALSE}
    Serials = {}
    Ids = {1}
    Faults <- MinorFaults
    DriveDuringFetch = FALSE
    TrustFrom = 10
    DayLength = 10
    CommandAge = 9
    MaxCommands = 3
    MaxTime = 2
    MaxOdometer = 2
    MaxRollbacks = 0
    MaxGeneration = 2
    MaxFaults = 1
    MaxCrashes = 1
INVARIANTS NoMetreLost DurationObserved ActiveMatchesVehicle SessionResetsOnce
