\* Three threads and two paths; a fourth mutex object lets a path get a
\* second mutex while three are still referenced.  Weak fairness of waking up
\* and releasing; no symmetry, because of the liveness property.
SPECIFICATION FairSpec
CONSTANTS
    t1 = t1
    t2 = t2
    t3 = t3
    p1 = p1
    p2 = p2
    m1 = m1
    m2 = m2
    m3 = m3
    m4 = m4
    NoMutex = NoMutex
    Thread <- Threads3
    Path <- Paths2
    Mutex <- Mutexes4
INVARIANTS TypeOK MutualExclusion EntryPinned ActiveCountExact LockStateExact
PROPERTIES NoLostLock ImplementsRWLock
