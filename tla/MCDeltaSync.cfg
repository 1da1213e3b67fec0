\* Blocks of two bytes, files of up to three blocks, two syncs with an edit of
\* the local file and a lost connection anywhere.
SPECIFICATION FairSpec
CONSTANTS
    NoFile = NoFile
    Content <- Contents5
    PreferredBlockSize = 2
    ServerBlockSize = 3
    MinBlockSize = 2
    MaxBlockSize = 4
    MaxSyncs = 2
    MaxEdits = 1
    MaxLosses = 1
INVARIANTS TypeOK RequestSufficient RequestMinimal  
PROPERTIES ReturnsAfterShortBlock
CHECK_DEADLOCK FALSE
