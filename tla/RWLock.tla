------------------------------- MODULE RWLock -------------------------------
(***************************************************************************)
(* What FileMutex promises its callers: for every path any number of       *)
(* readers or one writer, and an access is taken and given back in one     *)
(* step.  There are no lock objects, counts or tables at this level.       *)
(***************************************************************************)
CONSTANTS
    Thread,     \* the server's worker threads, one per client connection
    Path        \* the relative paths that are locked

VARIABLE access     \* access[t]: what t holds, NoAccess or <<path, mode>>

Mode == {"read", "write"}
NoAccess == <<>>
Access == Path \X Mode

TypeOK == access \in [Thread -> Access \cup {NoAccess}]

Init == access = [t \in Thread |-> NoAccess]

\* t may be given mode md on p beside everything the other threads hold.
Compatible(t, p, md) ==
    \A u \in Thread \ {t} :
        access[u] \in {p} \X Mode => md = "read" /\ access[u][2] = "read"

Grant(t, p, md) ==
    /\ access[t] = NoAccess
    /\ Compatible(t, p, md)
    /\ access' = [access EXCEPT ![t] = <<p, md>>]

Release(t) ==
    /\ access[t] # NoAccess
    /\ access' = [access EXCEPT ![t] = NoAccess]

Next ==
    \E t \in Thread :
        \/ Release(t)
        \/ \E p \in Path, md \in Mode : Grant(t, p, md)

Spec == Init /\ [][Next]_access
=============================================================================
