SPECIFICATION Spec
CONSTANTS
    s0 = s0
    s1 = s1
    a = a
    b = b
    Slots = {s0}
    Serials = {a}
    Kinds = {"active"}
    States = {"ready-to-drive", "parked"}
    MaxSampleAge = 1
    MaxInterval = 2
    ClockSteps <- Back
    MaxTime = 4
    MaxEvents = 4

CHECK_DEADLOCK FALSE
INVARIANT PhaseHadShare
