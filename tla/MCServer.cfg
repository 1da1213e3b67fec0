SPECIFICATION FairSpec
CONSTANTS
    Fds <- SixFds
    MaxClients = 2
    MaxSignals = 2
INVARIANTS
    TypeOK
    CountersExact
    CleanExit

    
CHECK_DEADLOCK FALSE
