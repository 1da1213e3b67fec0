SPECIFICATION Spec
CONSTANTS
    a = a
    b = b
    c = c
    p = p
    Session = {a, b, c}
    Path = {p}
    Ino = {n1, n2, n3}
    NoIno = NoIno
    NoFile = NoFile
    InitialFiles <- MaybeFile
    Requests <- ReadersAndUploads
    BlockSize = 2
    MaxRequests <- TwoOfA
    MaxCrashes = 1
INVARIANTS
    TypeOK
    VisibleOnlyByRename
    WholeVersions
    SingleVersionStream
    NeverThrows
CHECK_DEADLOCK FALSE
