SPECIFICATION Spec
CONSTANTS
    t1 = t1
    t2 = t2
    NoTrip = NoTrip
    TripIds <- MCTripIds
    Odometers = {0, 1}
    Speeds = {1}
    MinTripDistanceM = 1
    FlushLimit = 2
    Faults <- CleanAndLostWrites
    MaxTime = 1
    MaxPoints = 2
SYMMETRY Symmetry
INVARIANTS OneOpenRide NoPointLost HashTracksRide
