SPECIFICATION Spec
CONSTANTS
    a = a
    b = b
    c = c
    p = p
    Session = {a, b}
    Path = {p}
    Ino = {n1, n2, n3}
    NoIno = NoIno
    NoFile = NoFile
    InitialFiles <- OneFile
    Requests <- TwoUploads
    BlockSize = 2
    MaxRequests <- OneEach
    MaxCrashes = 0
INVARIANTS
    VisibleOnlyByRename
CHECK_DEADLOCK FALSE
