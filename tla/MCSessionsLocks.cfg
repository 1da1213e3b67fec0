SPECIFICATION FairSpec
CONSTANTS
    a = a
    b = b
    c = c
    p = p
    Session = {a, b, c}
    Path = {p}
    Ino = {n1, n2, n3, n4, n5}
    NoIno = NoIno
    NoFile = NoFile
    InitialFiles <- OneFile
    Requests <- DeltaSyncs
    BlockSize = 2
    MaxRequests <- TwoOfA
    MaxCrashes = 0
INVARIANTS
    WritesExclusive

    
CHECK_DEADLOCK FALSE
