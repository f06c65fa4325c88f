SPECIFICATION FairSpec
CONSTANTS
    Faults = {}
    MaxFaults = 0
    MaxMoves = 1
    MaxCrashes = 0
    MovesDuringStartup = TRUE
INVARIANT RideFollowsVehicle
