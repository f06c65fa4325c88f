SPECIFICATION Spec
CONSTANTS
    Faults <- FallibleCalls
    MaxFaults = 1
    MaxMoves = 3
    MaxCrashes = 0
    MovesDuringStartup = FALSE
INVARIANT HandledRideFollows
