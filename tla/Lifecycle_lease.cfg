SPECIFICATION FairSpec
CONSTANTS
    Ids = {}
    FlushLimit = 2
    MaxEvents = 0
CHECK_DEADLOCK FALSE
INVARIANTS TypeOK LeaseGoneAfterwards
