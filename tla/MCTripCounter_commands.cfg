SPECIFICATION Spec
CONSTANTS
    Policies = {"day"}
    Duals = {FALSE}
    Serials = {}
    Ids = {1, 2}
    Faults <- MinorFaults
    DriveDuringFetch = FALSE
    TrustFrom = 1
    DayLength = 2
    CommandAge = 1
    MaxCommands = 3
    MaxTime = 3
    MaxOdometer = 0
    MaxRollbacks = 0
    MaxGeneration = 2
    MaxFaults = 1
    MaxCrashes = 1
INVARIANT CommandOnce
PROPERTY DayResetsOnce
