------------------------------ MODULE FileMutex ------------------------------
(***************************************************************************)
(* The server's table of per-file reader/writer locks (file_mutex.cpp).    *)
(*                                                                         *)
(* mutex_map_ maps a path to a heap-allocated std::shared_mutex and the    *)
(* number of threads that are using it.  map_mutex_ guards the table only: *)
(* a thread looks its path up under map_mutex_, drops map_mutex_, and then *)
(* blocks on the shared_mutex it found.  Everything done under map_mutex_  *)
(* is one step here, because nothing done there can block; what happens    *)
(* between looking the mutex up and locking it is where other threads,     *)
(* and cleanup_unused, come in.                                            *)
(***************************************************************************)
EXTENDS Integers, FiniteSets

CONSTANTS
    Thread,     \* the server's worker threads, one per client connection
    Path,       \* the relative paths that are locked
    Mutex,      \* the std::shared_mutex objects that can be allocated
    NoMutex     \* a null shared_ptr

ASSUME FileMutexAssumption ==
    /\ IsFiniteSet(Thread)
    /\ NoMutex \notin Mutex

VARIABLES
    mutex_map,  \* mutex_map_[p] = [mtx, active_count]; mtx is NoMutex when p has no entry
    obj,        \* obj[m]: the state of the shared_mutex object m
    pc,         \* where thread t is: not using a lock, blocked in lock(), or holding
    path,       \* the path t last asked for
    mode,       \* the mode t last asked for
    mtx         \* the shared_ptr local to acquire_read/acquire_write

vars == <<mutex_map, obj, pc, path, mode, mtx>>

Mode == {"read", "write"}
NoEntry == [mtx |-> NoMutex, active_count |-> 0]
Unlocked == [writer |-> FALSE, readers |-> 0]

TypeOK ==
    /\ mutex_map \in [Path -> [mtx : Mutex \cup {NoMutex}, active_count : Nat]]
    /\ obj \in [Mutex -> [writer : BOOLEAN, readers : Nat]]
    /\ pc \in [Thread -> {"idle", "locking", "holding"}]
    /\ path \in [Thread -> Path]
    /\ mode \in [Thread -> Mode]
    /\ mtx \in [Thread -> Mutex \cup {NoMutex}]

Init ==
    /\ mutex_map = [p \in Path |-> NoEntry]
    /\ obj = [m \in Mutex |-> Unlocked]
    /\ pc = [t \in Thread |-> "idle"]
    /\ path \in [Thread -> Path]
    /\ mode = [t \in Thread |-> "read"]
    /\ mtx = [t \in Thread |-> NoMutex]

HasEntry(p) == mutex_map[p].mtx # NoMutex

\* Some shared_ptr still points to m, so m is not free to be allocated.
Referenced(m) ==
    \/ \E p \in Path : mutex_map[p].mtx = m
    \/ \E t \in Thread : mtx[t] = m
-----------------------------------------------------------------------------
\* Mutant: the caller is not counted in when the entry exists already.
GetOrCreateUncounted(t, p) ==
    \/ /\ HasEntry(p)
       /\ mtx' = [mtx EXCEPT ![t] = mutex_map[p].mtx]
       /\ UNCHANGED <<mutex_map, obj>>
    \/ /\ ~HasEntry(p)
       /\ \E m \in Mutex :
            /\ ~Referenced(m)
            /\ mutex_map' = [mutex_map EXCEPT ![p] = [mtx |-> m, active_count |-> 1]]
            /\ mtx' = [mtx EXCEPT ![t] = m]
            /\ obj' = [obj EXCEPT ![m] = Unlocked]

\* get_or_create, run by t: count the caller in, or insert a new entry for it.
GetOrCreate(t, p) ==
    \/ /\ HasEntry(p)
       /\ mutex_map' = [mutex_map EXCEPT ![p].active_count = @ + 1]
       /\ mtx' = [mtx EXCEPT ![t] = mutex_map[p].mtx]
       /\ UNCHANGED obj
    \/ /\ ~HasEntry(p)
       /\ \E m \in Mutex :
            /\ ~Referenced(m)
            /\ mutex_map' = [mutex_map EXCEPT ![p] = [mtx |-> m, active_count |-> 1]]
            /\ mtx' = [mtx EXCEPT ![t] = m]
            /\ obj' = [obj EXCEPT ![m] = Unlocked]

\* acquire_read / acquire_write up to the call of lock_shared() / lock().
Acquire(t, p, md) ==
    /\ pc[t] = "idle"
    /\ GetOrCreate(t, p)
    /\ pc' = [pc EXCEPT ![t] = "locking"]
    /\ path' = [path EXCEPT ![t] = p]
    /\ mode' = [mode EXCEPT ![t] = md]

acquire_read(t, p) == Acquire(t, p, "read")

acquire_write(t, p) == Acquire(t, p, "write")

\* lock_shared() and lock() return; the local shared_ptr goes out of scope.
LockShared(t) ==
    /\ pc[t] = "locking" /\ mode[t] = "read"
    /\ ~obj[mtx[t]].writer
    /\ obj' = [obj EXCEPT ![mtx[t]].readers = @ + 1]
    /\ pc' = [pc EXCEPT ![t] = "holding"]
    /\ mtx' = [mtx EXCEPT ![t] = NoMutex]
    /\ UNCHANGED <<mutex_map, path, mode>>

LockExclusive(t) ==
    /\ pc[t] = "locking" /\ mode[t] = "write"
    /\ ~obj[mtx[t]].writer /\ obj[mtx[t]].readers = 0
    /\ obj' = [obj EXCEPT ![mtx[t]].writer = TRUE]
    /\ pc' = [pc EXCEPT ![t] = "holding"]
    /\ mtx' = [mtx EXCEPT ![t] = NoMutex]
    /\ UNCHANGED <<mutex_map, path, mode>>

\* Mutant: the release only counts the caller out and forgets to unlock.
ReleaseKeepsLock(t) ==
    /\ pc[t] = "holding" /\ mode[t] = "write"
    /\ mutex_map' = [mutex_map EXCEPT ![path[t]].active_count = @ - 1]
    /\ pc' = [pc EXCEPT ![t] = "idle"]
    /\ UNCHANGED <<obj, path, mode, mtx>>

\* Mutant: release_write calls unlock_shared(), as release_read does.
ReleaseUnlocksShared(t) ==
    /\ pc[t] = "holding" /\ mode[t] = "write"
    /\ obj' = [obj EXCEPT ![mutex_map[path[t]].mtx].readers = @ - 1]
    /\ mutex_map' = [mutex_map EXCEPT ![path[t]].active_count = @ - 1]
    /\ pc' = [pc EXCEPT ![t] = "idle"]
    /\ UNCHANGED <<path, mode, mtx>>

\* Mutant: the release unlocks and does not count the caller out.
ReleaseStaysCounted(t) ==
    /\ pc[t] = "holding" /\ mode[t] = "read"
    /\ obj' = [obj EXCEPT ![mutex_map[path[t]].mtx].readers = @ - 1]
    /\ pc' = [pc EXCEPT ![t] = "idle"]
    /\ UNCHANGED <<mutex_map, path, mode, mtx>>

\* The releases look the mutex up again by path, and do nothing when the
\* entry is gone.
release_read(t) ==
    /\ pc[t] = "holding" /\ mode[t] = "read"
    /\ \/ /\ HasEntry(path[t])
          /\ obj' = [obj EXCEPT ![mutex_map[path[t]].mtx].readers = @ - 1]
          /\ mutex_map' = [mutex_map EXCEPT ![path[t]].active_count = @ - 1]
       \/ /\ ~HasEntry(path[t])
          /\ UNCHANGED <<obj, mutex_map>>
    /\ pc' = [pc EXCEPT ![t] = "idle"]
    /\ UNCHANGED <<path, mode, mtx>>

release_write(t) ==
    /\ pc[t] = "holding" /\ mode[t] = "write"
    /\ \/ /\ HasEntry(path[t])
          /\ obj' = [obj EXCEPT ![mutex_map[path[t]].mtx].writer = FALSE]
          /\ mutex_map' = [mutex_map EXCEPT ![path[t]].active_count = @ - 1]
       \/ /\ ~HasEntry(path[t])
          /\ UNCHANGED <<obj, mutex_map>>
    /\ pc' = [pc EXCEPT ![t] = "idle"]
    /\ UNCHANGED <<path, mode, mtx>>

\* Mutant: an entry with one user left counts as unused.
CleanupLastUser ==
    /\ mutex_map' = [p \in Path |-> IF mutex_map[p].active_count <= 1
                                    THEN NoEntry ELSE mutex_map[p]]
    /\ UNCHANGED <<obj, pc, path, mode, mtx>>

cleanup_unused ==
    /\ mutex_map' = [p \in Path |-> IF mutex_map[p].active_count <= 0
                                    THEN NoEntry ELSE mutex_map[p]]
    /\ UNCHANGED <<obj, pc, path, mode, mtx>>

Next ==
    \/ cleanup_unused
    \/ \E t \in Thread :
        \/ \E p \in Path : acquire_read(t, p) \/ acquire_write(t, p)
        \/ LockShared(t) \/ LockExclusive(t)
        \/ release_read(t) \/ release_write(t)

Spec == Init /\ [][Next]_vars

\* A thread inside lock() is woken once the mutex is free, and no handler
\* keeps a lock for ever.  Nothing says which of several waiters comes first,
\* and nothing makes a thread ask for a lock or anybody call cleanup_unused.
Fairness ==
    \A t \in Thread :
        /\ WF_vars(LockShared(t) \/ LockExclusive(t))
        /\ WF_vars(release_read(t) \/ release_write(t))

FairSpec == Spec /\ Fairness
-----------------------------------------------------------------------------
Holders(p, md) == {t \in Thread : pc[t] = "holding" /\ path[t] = p /\ mode[t] = md}
Users(p) == {t \in Thread : pc[t] # "idle" /\ path[t] = p}

(***************************************************************************)
(* Two threads that hold the same path at the same time both hold it for   *)
(* reading, whatever cleanup_unused removes in between.  It takes a thread *)
(* that looked the mutex up and has not locked it yet, a cleanup, and a    *)
(* thread that allocates a second mutex for the path to break this.        *)
(***************************************************************************)
MutualExclusion ==
    \A t, u \in Thread :
        (/\ t # u
         /\ pc[t] = "holding" /\ pc[u] = "holding"
         /\ path[t] = path[u])
        => mode[t] = "read" /\ mode[u] = "read"

(***************************************************************************)
(* The entry of a path outlives everyone who is waiting for it or holding  *)
(* it, and a waiter is blocked on the mutex that the table names now: the  *)
(* release finds the mutex that the acquire locked.                        *)
(***************************************************************************)
EntryPinned ==
    \A t \in Thread :
        /\ pc[t] # "idle" => HasEntry(path[t])
        /\ pc[t] = "locking" => mtx[t] = mutex_map[path[t]].mtx

(***************************************************************************)
(* active_count is exactly the number of threads waiting for or holding    *)
(* the path, so cleanup_unused frees every entry that is not in use.       *)
(***************************************************************************)
ActiveCountExact ==
    \A p \in Path : mutex_map[p].active_count = Cardinality(Users(p))

(***************************************************************************)
(* Each shared_mutex of the table is locked exactly by the threads that    *)
(* hold its path, and no two paths share one.                              *)
(***************************************************************************)
LockStateExact ==
    /\ \A p \in Path : HasEntry(p) =>
         LET m == obj[mutex_map[p].mtx]
         IN  /\ m.readers = Cardinality(Holders(p, "read"))
             /\ m.writer <=> Holders(p, "write") # {}
    /\ \A p, q \in Path : HasEntry(p) /\ p # q => mutex_map[p].mtx # mutex_map[q].mtx
    /\ \A t \in Thread : pc[t] # "locking" => mtx[t] = NoMutex

\* The inductive invariant behind MutualExclusion and the refinement.
IInv ==
    /\ TypeOK
    /\ MutualExclusion
    /\ EntryPinned
    /\ ActiveCountExact
    /\ LockStateExact

(***************************************************************************)
(* A lock is never lost: when threads wait for a path and nobody holds it, *)
(* one of them gets it.                                                    *)
(***************************************************************************)
NoLostLock ==
    \A p \in Path :
        (/\ \E t \in Thread : pc[t] = "locking" /\ path[t] = p
         /\ Holders(p, "read") \cup Holders(p, "write") = {})
        ~> (Holders(p, "read") \cup Holders(p, "write") # {})

(***************************************************************************)
(* The table implements the abstract lock: a thread has an access exactly  *)
(* while it is between the return of acquire_* and the call of release_*.  *)
(***************************************************************************)
accessBar == [t \in Thread |-> IF pc[t] = "holding" THEN <<path[t], mode[t]>> ELSE <<>>]

Abstract == INSTANCE RWLock WITH access <- accessBar

ImplementsRWLock == Abstract!Spec
=============================================================================
