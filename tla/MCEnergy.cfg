SPECIFICATION Spec
CONSTANTS
    s0 = s0
    s1 = s1
    a = a
    b = b
    Slots <- MCSlots
    Serials <- MCSerials
    Kinds = {"active", "invalid", "idle"}
    States = {"ready-to-drive", "parked"}
    MaxSampleAge = 1
    MaxInterval = 2
    ClockSteps = {1}
    MaxTime = 4
    MaxEvents = 4
SYMMETRY Symmetry
CHECK_DEADLOCK FALSE
INVARIANTS NoTimeCountedTwice PhaseByShare HolesCounted PublishedDurable UnsavedIsShown
