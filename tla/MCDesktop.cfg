SPECIFICATION FairSpec
CONSTANTS
    MaxHandlers = 2
    MaxConnects = 3
    MaxJobs = 3
    MaxPaths = 2
INVARIANTS
    TypeOK
    OneCallPerClient
    ConnectedHasClient
    SlotIsNewest

    
CHECK_DEADLOCK FALSE
