SPECIFICATION Spec
CONSTANTS
    t1 = t1
    t2 = t2
    NoTrip = NoTrip
    TripIds <- MCTripIds
    Odometers = {0, 1}
    Speeds = {1}
    MinTripDistanceM = 1
    FlushLimit = 1
    Faults <- MostFaults
    MaxTime = 1
    MaxPoints = 1
SYMMETRY Symmetry
INVARIANTS OnlyDrivenTimeCharged EventsMatchHistory BufferIsCurrent
PROPERTIES ClosedRidesFrozen ImplementsRideLog RideMovesAsTold
