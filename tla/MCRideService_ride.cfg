SPECIFICATION FairSpec
CONSTANTS
    Faults <- FallibleCalls
    MaxFaults = 2
    MaxMoves = 3
    MaxCrashes = 1
    MovesDuringStartup = FALSE
INVARIANTS TypeOK RideFollowsVehicle
PROPERTY RideSettles
