SPECIFICATION FairSpec
CONSTANTS
    Ids = {1}
    FlushLimit = 2
    MaxEvents = 3
CHECK_DEADLOCK FALSE
INVARIANTS ResultImpliesShown ShutdownFlushes
PROPERTIES PublicationConverges ShutdownCompletes
