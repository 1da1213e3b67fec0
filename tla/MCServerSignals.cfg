SPECIFICATION Spec
CONSTANTS
    Fds <- SixFds
    MaxClients = 2
    MaxSignals = 2
INVARIANTS
    SessionsKeepDescriptors
CHECK_DEADLOCK FALSE
