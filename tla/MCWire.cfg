SPECIFICATION FairSpec
CONSTANTS
    Frames <- SomeFrames
    MaxFrames = 2
INVARIANTS
    TypeOK
    InStep
PROPERTIES
    ImplementsFrameQueue
    FramesArrive
CHECK_DEADLOCK FALSE
