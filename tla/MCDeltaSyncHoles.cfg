\* One sync of an unchanged connection: is the result the client's file?
SPECIFICATION Spec
CONSTANTS
    NoFile = NoFile
    Content <- Contents5
    PreferredBlockSize = 2
    ServerBlockSize = 3
    MinBlockSize = 2
    MaxBlockSize = 4
    MaxSyncs = 1
    MaxEdits = 0
    MaxLosses = 0
INVARIANT OkMeansReconstructed
CHECK_DEADLOCK FALSE
