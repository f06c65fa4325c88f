SPECIFICATION Spec
CONSTANTS
    t1 = t1
    t2 = t2
    NoTrip = NoTrip
    TripIds <- MCTripIds
    Odometers = {0, 1}
    Speeds = {1}
    MinTripDistanceM = 1
    FlushLimit = 2
    Faults <- NoFaults
    MaxTime = 0
    MaxPoints = 0
SYMMETRY Symmetry
INVARIANT IdleHashWithoutRide
