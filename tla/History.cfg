SPECIFICATION Spec
CONSTANTS
    Trips = {1, 2, 3}
    Profiles = {1, 2}
    Limit = 1
    MaxPoints = 2
    MaxCrashes = 1
CHECK_DEADLOCK FALSE
INVARIANTS OrderIsCompletion WalkInOrder WalkComplete TraceWhole
