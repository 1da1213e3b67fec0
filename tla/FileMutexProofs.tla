--------------------------- MODULE FileMutexProofs ---------------------------
(***************************************************************************)
(* Proofs about FileMutex for any finite set of threads and any sets of    *)
(* paths and mutex objects: the inductive invariant IInv, what follows     *)
(* from it, and that the table implements RWLock.                          *)
(***************************************************************************)
EXTENDS FileMutex, FiniteSetTheorems, TLAPS

(***************************************************************************)
(* Counting one more, or one less, thread.  Every step of FileMutex moves  *)
(* one thread into or out of a set of users or holders.                    *)
(***************************************************************************)
LEMMA CountIn ==
    ASSUME NEW S \in SUBSET Thread, NEW t \in Thread, t \notin S
    PROVE  Cardinality(S \cup {t}) = Cardinality(S) + 1
  <1>1. IsFiniteSet(S)
    BY FileMutexAssumption, FS_Subset
  <1> QED  BY <1>1, FS_AddElement

LEMMA CountOut ==
    ASSUME NEW S \in SUBSET Thread, NEW t \in S
    PROVE  /\ Cardinality(S) \in Nat
           /\ Cardinality(S) >= 1
           /\ Cardinality(S \ {t}) = Cardinality(S) - 1
  <1>1. IsFiniteSet(S)
    BY FileMutexAssumption, FS_Subset
  <1>2. Cardinality(S) \in Nat
    BY <1>1, FS_CardinalityType
  <1>3. Cardinality(S) # 0
    BY <1>1, FS_EmptySet
  <1>4. Cardinality(S \ {t}) = Cardinality(S) - 1
    BY <1>1, FS_RemoveElement
  <1> QED  BY <1>2, <1>3, <1>4

LEMMA CountNone ==
    ASSUME NEW S \in SUBSET Thread
    PROVE  /\ Cardinality(S) \in Nat
           /\ Cardinality(S) = 0 <=> S = {}
  <1>1. IsFiniteSet(S)
    BY FileMutexAssumption, FS_Subset
  <1> QED  BY <1>1, FS_CardinalityType, FS_EmptySet

\* A freshly constructed server has no entries, no users and no holders.
LEMMA InitIInv == Init => IInv
  <1> SUFFICES ASSUME Init PROVE IInv
    OBVIOUS
  <1>1. TypeOK
    BY DEF Init, TypeOK, NoEntry, Unlocked, Mode
  <1>2. \A p \in Path : Users(p) = {} /\ ~HasEntry(p)
    BY DEF Init, Users, HasEntry, NoEntry
  <1>3. ActiveCountExact
    BY <1>2, FS_EmptySet DEF ActiveCountExact, Init, NoEntry
  <1>4. MutualExclusion /\ EntryPinned /\ LockStateExact
    BY <1>2 DEF Init, MutualExclusion, EntryPinned, LockStateExact
  <1> QED  BY <1>1, <1>3, <1>4 DEF IInv
-----------------------------------------------------------------------------
(***************************************************************************)
(* acquire_read and acquire_write keep IInv: the caller becomes a user of  *)
(* the path, blocked on the mutex of its entry.                            *)
(***************************************************************************)
LEMMA AcquireIInv ==
    ASSUME IInv, NEW t \in Thread, NEW p \in Path, NEW md \in Mode, Acquire(t, p, md)
    PROVE  IInv'
  <1> USE DEF IInv
  <1>1. /\ t \notin Users(p)
        /\ Users(p)' = Users(p) \cup {t}
        /\ \A q \in Path \ {p} : Users(q)' = Users(q)
    BY DEF Acquire, TypeOK, Users
  <1>2. \A q \in Path, m \in Mode : Holders(q, m)' = Holders(q, m)
    BY DEF Acquire, TypeOK, Holders
  <1>3. Cardinality(Users(p)') = Cardinality(Users(p)) + 1
    BY <1>1, CountIn DEF Users
  <1>4. CASE HasEntry(p)
    <2>1. /\ mutex_map' = [mutex_map EXCEPT ![p].active_count = @ + 1]
          /\ mtx' = [mtx EXCEPT ![t] = mutex_map[p].mtx]
          /\ obj' = obj
      BY <1>4 DEF Acquire, GetOrCreate
    <2>2. \A q \in Path : mutex_map[q].mtx = mutex_map'[q].mtx
      BY <2>1 DEF TypeOK
    <2>3. TypeOK'
      BY <2>1, <1>4 DEF TypeOK, Acquire, HasEntry
    <2>4. MutualExclusion' /\ EntryPinned'
      BY <2>1, <2>2, <1>4 DEF TypeOK, Acquire, HasEntry, MutualExclusion, EntryPinned
    <2>5. ActiveCountExact'
      BY <2>1, <1>1, <1>3, Zenon DEF ActiveCountExact, TypeOK
    <2>6. LockStateExact'
      BY <2>1, <2>2, <1>2 DEF LockStateExact, TypeOK, HasEntry, Acquire, Mode
    <2> QED  BY <2>3, <2>4, <2>5, <2>6
  <1>5. CASE ~HasEntry(p)
    <2>1. PICK m \in Mutex :
            /\ ~Referenced(m)
            /\ mutex_map' = [mutex_map EXCEPT ![p] = [mtx |-> m, active_count |-> 1]]
            /\ mtx' = [mtx EXCEPT ![t] = m]
            /\ obj' = [obj EXCEPT ![m] = Unlocked]
      BY <1>5 DEF Acquire, GetOrCreate
    <2>2. Users(p) = {} /\ Cardinality(Users(p)) = 0
      BY <1>5, CountNone DEF EntryPinned, Users
    <2>3. \A md2 \in Mode : Holders(p, md2) = {} /\ Cardinality(Holders(p, md2)) = 0
      <3>1. \A md2 \in Mode : Holders(p, md2) = {}
        BY <2>2 DEF Holders, Users
      <3> QED  BY <3>1, CountNone
    <2>4. TypeOK'
      BY <2>1, <1>5 DEF TypeOK, Acquire, Unlocked
    <2>5. MutualExclusion' /\ EntryPinned'
      BY <2>1, <2>2, <1>5, FileMutexAssumption
         DEF TypeOK, Acquire, HasEntry, MutualExclusion, EntryPinned, Users
    <2>6. ActiveCountExact'
      <3>1. mutex_map'[p].active_count = 1 /\ \A q \in Path \ {p} : mutex_map'[q] = mutex_map[q]
        BY <2>1 DEF TypeOK
      <3> QED  BY <3>1, <1>1, <1>3, <2>2, SMTT(30) DEF ActiveCountExact
    <2>7. LockStateExact'
      <3>1. ASSUME NEW q \in Path, HasEntry(q)'
            PROVE  LET x == obj'[mutex_map'[q].mtx]
                   IN  /\ x.readers = Cardinality(Holders(q, "read")')
                       /\ x.writer <=> Holders(q, "write")' # {}
        <4>1. CASE q = p
          BY <4>1, <2>1, <2>3, <1>2 DEF TypeOK, Unlocked, Mode
        <4>2. CASE q # p
          <5>1. mutex_map'[q] = mutex_map[q] /\ HasEntry(q) /\ mutex_map[q].mtx # m
            BY <4>2, <3>1, <2>1 DEF TypeOK, HasEntry, Referenced
          <5>2. obj'[mutex_map'[q].mtx] = obj[mutex_map[q].mtx]
            BY <5>1, <2>1 DEF TypeOK
          <5> QED  BY <5>1, <5>2, <1>2 DEF LockStateExact, Mode
        <4> QED  BY <4>1, <4>2
      <3>2. \A q, r \in Path :
              HasEntry(q)' /\ q # r => mutex_map'[q].mtx # mutex_map'[r].mtx
        BY <2>1 DEF LockStateExact, HasEntry, TypeOK, Referenced
      <3>3. \A u \in Thread : pc'[u] # "locking" => mtx'[u] = NoMutex
        BY <2>1 DEF LockStateExact, Acquire, TypeOK
      <3> QED  BY <3>1, <3>2, <3>3 DEF LockStateExact
    <2> QED  BY <2>4, <2>5, <2>6, <2>7
  <1> QED  BY <1>4, <1>5

(***************************************************************************)
(* lock_shared() returning keeps IInv: the waiter was already counted, and *)
(* its mutex is the one of the path's entry, which no writer holds.        *)
(***************************************************************************)
LEMMA LockSharedIInv ==
    ASSUME IInv, NEW t \in Thread, LockShared(t)
    PROVE  IInv'
  <1> USE DEF IInv
  <1>0. PICK p \in Path, m \in Mutex :
          p = path[t] /\ m = mutex_map[p].mtx /\ mtx[t] = m
    BY DEF LockShared, TypeOK, EntryPinned, HasEntry
  <1>1. HasEntry(p) /\ ~obj[m].writer /\ Holders(p, "write") = {}
    BY <1>0, SMTT(30) DEF LockShared, EntryPinned, LockStateExact
  <1>2. \A q \in Path : Users(q)' = Users(q)
    BY DEF LockShared, TypeOK, Users
  <1>3. /\ t \notin Holders(p, "read")
        /\ Holders(p, "read")' = Holders(p, "read") \cup {t}
        /\ \A q \in Path : Holders(q, "write")' = Holders(q, "write")
        /\ \A q \in Path \ {p} : Holders(q, "read")' = Holders(q, "read")
    BY <1>0 DEF LockShared, TypeOK, Holders
  <1>4. Cardinality(Holders(p, "read")') = Cardinality(Holders(p, "read")) + 1
    BY <1>3, CountIn DEF Holders
  <1>5. TypeOK'
    BY <1>0, <1>1 DEF LockShared, TypeOK
  <1>6. MutualExclusion'
    BY <1>0, <1>1 DEF LockShared, TypeOK, MutualExclusion, Holders, Mode
  <1>7. EntryPinned'
    BY <1>0 DEF LockShared, TypeOK, EntryPinned, HasEntry
  <1>8. ActiveCountExact'
    BY <1>2 DEF LockShared, ActiveCountExact
  <1>9. LockStateExact'
    <2>1. /\ obj'[m].readers = obj[m].readers + 1
          /\ obj'[m].writer = obj[m].writer
          /\ \A x \in Mutex \ {m} : obj'[x] = obj[x]
      BY <1>0, <1>1, SMTT(30) DEF LockShared, TypeOK
    <2>2. ASSUME NEW q \in Path, HasEntry(q)'
          PROVE  LET x == obj'[mutex_map'[q].mtx]
                 IN  /\ x.readers = Cardinality(Holders(q, "read")')
                     /\ x.writer <=> Holders(q, "write")' # {}
      <3>1. HasEntry(q) /\ mutex_map' = mutex_map /\ mutex_map[q].mtx \in Mutex
        BY <2>2 DEF LockShared, HasEntry, TypeOK
      <3>2. CASE q = p
        <4>1. obj[m].readers = Cardinality(Holders(p, "read"))
          BY <1>0, <1>1 DEF LockStateExact
        <4>2. obj'[m].readers = Cardinality(Holders(p, "read")')
          BY <4>1, <2>1, <1>4
        <4>3. ~obj'[m].writer /\ Holders(p, "write")' = {}
          BY <2>1, <1>1, <1>3
        <4> QED  BY <4>2, <4>3, <3>1, <3>2, <1>0
      <3>3. CASE q # p
        BY <3>1, <3>3, <2>1, <1>0, <1>1, <1>3, SMTT(30) DEF LockStateExact
      <3> QED  BY <3>2, <3>3
    <2>3. /\ \A q, r \in Path :
               HasEntry(q)' /\ q # r => mutex_map'[q].mtx # mutex_map'[r].mtx
          /\ \A u \in Thread : pc'[u] # "locking" => mtx'[u] = NoMutex
      BY DEF LockStateExact, HasEntry, LockShared, TypeOK
    <2> QED  BY <2>2, <2>3 DEF LockStateExact
  <1> QED  BY <1>5, <1>6, <1>7, <1>8, <1>9

(***************************************************************************)
(* lock() returning keeps IInv: a mutex without writer and readers belongs *)
(* to a path that nobody holds.                                            *)
(***************************************************************************)
LEMMA LockExclusiveIInv ==
    ASSUME IInv, NEW t \in Thread, LockExclusive(t)
    PROVE  IInv'
  <1> USE DEF IInv
  <1>0. PICK p \in Path, m \in Mutex :
          p = path[t] /\ m = mutex_map[p].mtx /\ mtx[t] = m
    BY DEF LockExclusive, TypeOK, EntryPinned, HasEntry
  <1>1. /\ HasEntry(p) /\ Holders(p, "write") = {}
        /\ Cardinality(Holders(p, "read")) = 0
    BY <1>0, SMTT(30) DEF LockExclusive, EntryPinned, LockStateExact
  <1>2. Holders(p, "read") = {}
    BY <1>1, CountNone DEF Holders
  <1>3. \A q \in Path : Users(q)' = Users(q)
    BY DEF LockExclusive, TypeOK, Users
  <1>4. /\ Holders(p, "write")' = {t}
        /\ \A q \in Path : Holders(q, "read")' = Holders(q, "read")
        /\ \A q \in Path \ {p} : Holders(q, "write")' = Holders(q, "write")
    BY <1>0, <1>1 DEF LockExclusive, TypeOK, Holders
  <1>5. TypeOK'
    BY <1>0, <1>1, Zenon DEF LockExclusive, TypeOK
  <1>6. MutualExclusion'
    BY <1>0, <1>1, <1>2 DEF LockExclusive, TypeOK, MutualExclusion, Holders, Mode
  <1>7. EntryPinned'
    BY <1>0 DEF LockExclusive, TypeOK, EntryPinned, HasEntry
  <1>8. ActiveCountExact'
    BY <1>3 DEF LockExclusive, ActiveCountExact
  <1>9. LockStateExact'
    <2>1. /\ obj'[m].readers = obj[m].readers
          /\ obj'[m].writer = TRUE
          /\ \A x \in Mutex \ {m} : obj'[x] = obj[x]
      BY <1>0, <1>1 DEF LockExclusive, TypeOK
    <2>2. ASSUME NEW q \in Path, HasEntry(q)'
          PROVE  LET x == obj'[mutex_map'[q].mtx]
                 IN  /\ x.readers = Cardinality(Holders(q, "read")')
                     /\ x.writer <=> Holders(q, "write")' # {}
      <3>1. HasEntry(q) /\ mutex_map' = mutex_map /\ mutex_map[q].mtx \in Mutex
        BY <2>2 DEF LockExclusive, HasEntry, TypeOK
      <3>2. CASE q = p
        <4>1. obj[m].readers = Cardinality(Holders(p, "read"))
          BY <1>0, <1>1 DEF LockStateExact
        <4>2. obj'[m].readers = Cardinality(Holders(p, "read")')
          BY <4>1, <2>1, <1>1, <1>4
        <4>3. obj'[m].writer /\ Holders(p, "write")' # {}
          BY <2>1, <1>4
        <4> QED  BY <4>2, <4>3, <3>1, <3>2, <1>0
      <3>3. CASE q # p
        BY <3>1, <3>3, <2>1, <1>0, <1>1, <1>4, SMTT(30) DEF LockStateExact
      <3> QED  BY <3>2, <3>3
    <2>3. /\ \A q, r \in Path :
               HasEntry(q)' /\ q # r => mutex_map'[q].mtx # mutex_map'[r].mtx
          /\ \A u \in Thread : pc'[u] # "locking" => mtx'[u] = NoMutex
      BY DEF LockStateExact, HasEntry, LockExclusive, TypeOK
    <2> QED  BY <2>2, <2>3 DEF LockStateExact
  <1> QED  BY <1>5, <1>6, <1>7, <1>8, <1>9

(***************************************************************************)
(* release_read finds the entry it locked, and counts the reader out of    *)
(* the mutex and out of the entry.                                         *)
(***************************************************************************)
LEMMA ReleaseReadIInv ==
    ASSUME IInv, NEW t \in Thread, release_read(t)
    PROVE  IInv'
  <1> USE DEF IInv
  <1>0. PICK p \in Path, m \in Mutex :
          p = path[t] /\ m = mutex_map[p].mtx /\ HasEntry(p)
    BY DEF release_read, TypeOK, EntryPinned, HasEntry
  <1>1. /\ obj' = [obj EXCEPT ![m].readers = @ - 1]
        /\ mutex_map' = [mutex_map EXCEPT ![p].active_count = @ - 1]
    BY <1>0, SMTT(30) DEF release_read
  <1>2. /\ t \in Users(p) /\ Users(p)' = Users(p) \ {t}
        /\ \A q \in Path \ {p} : Users(q)' = Users(q)
    BY <1>0 DEF release_read, TypeOK, Users
  <1>3. /\ t \in Holders(p, "read") /\ Holders(p, "read")' = Holders(p, "read") \ {t}
        /\ \A q \in Path : Holders(q, "write")' = Holders(q, "write")
        /\ \A q \in Path \ {p} : Holders(q, "read")' = Holders(q, "read")
    BY <1>0 DEF release_read, TypeOK, Holders
  <1>4. Cardinality(Users(p)) >= 1 /\ Cardinality(Users(p)') = Cardinality(Users(p)) - 1
    BY <1>2, CountOut, SMTT(30) DEF Users
  <1>5. /\ Cardinality(Holders(p, "read")) \in Nat /\ Cardinality(Holders(p, "read")) >= 1
        /\ Cardinality(Holders(p, "read")') = Cardinality(Holders(p, "read")) - 1
    BY <1>3, CountOut, SMTT(30) DEF Holders
  <1>6. \A q \in Path : mutex_map'[q].mtx = mutex_map[q].mtx
    BY <1>1 DEF TypeOK
  <1>7. TypeOK'
    <2>1. mutex_map[p].active_count >= 1 /\ obj[m].readers >= 1
      BY <1>0, <1>4, <1>5 DEF ActiveCountExact, LockStateExact
    <2>2. mutex_map[p] \in [mtx : Mutex \cup {NoMutex}, active_count : Nat]
      BY DEF TypeOK
    <2>3. [mutex_map[p] EXCEPT !.active_count = @ - 1]
            \in [mtx : Mutex \cup {NoMutex}, active_count : Nat]
      BY <2>1, <2>2
    <2>4. mutex_map' \in [Path -> [mtx : Mutex \cup {NoMutex}, active_count : Nat]]
      BY <2>3, <1>1 DEF TypeOK
    <2>5. obj' \in [Mutex -> [writer : BOOLEAN, readers : Nat]]
      BY <2>1, <1>1, SMTT(30) DEF TypeOK
    <2> QED  BY <2>4, <2>5 DEF release_read, TypeOK
  <1>8. MutualExclusion'
    BY DEF release_read, TypeOK, MutualExclusion
  <1>9. EntryPinned'
    BY <1>6 DEF release_read, TypeOK, EntryPinned, HasEntry
  <1>10. ActiveCountExact'
    <2>1. /\ mutex_map'[p].active_count = mutex_map[p].active_count - 1
          /\ \A q \in Path \ {p} : mutex_map'[q] = mutex_map[q]
      BY <1>1 DEF TypeOK
    <2>2. Cardinality(Users(p)') = mutex_map'[p].active_count
      BY <2>1, <1>4 DEF ActiveCountExact
    <2> QED  BY <2>1, <2>2, <1>2 DEF ActiveCountExact
  <1>11. LockStateExact'
    <2>1. /\ obj'[m].readers = obj[m].readers - 1
          /\ obj'[m].writer = obj[m].writer
          /\ \A x \in Mutex \ {m} : obj'[x] = obj[x]
      BY <1>1 DEF TypeOK
    <2>2. ASSUME NEW q \in Path, HasEntry(q)'
          PROVE  LET x == obj'[mutex_map'[q].mtx]
                 IN  /\ x.readers = Cardinality(Holders(q, "read")')
                     /\ x.writer <=> Holders(q, "write")' # {}
      <3>1. HasEntry(q) /\ mutex_map'[q].mtx = mutex_map[q].mtx /\ mutex_map[q].mtx \in Mutex
        BY <2>2, <1>6 DEF HasEntry, TypeOK
      <3>2. CASE q = p
        <4>1. /\ obj[m].readers = Cardinality(Holders(p, "read"))
              /\ obj[m].writer <=> Holders(p, "write") # {}
          BY <1>0, SMTT(30) DEF LockStateExact
        <4>2. obj'[m].readers = Cardinality(Holders(p, "read")')
          BY <4>1, <2>1, <1>3, <1>5
        <4>3. obj'[m].writer <=> Holders(p, "write")' # {}
          BY <4>1, <2>1, <1>3, <1>5
        <4> QED  BY <4>2, <4>3, <3>1, <3>2, <1>0, SMTT(30)
      <3>3. CASE q # p
        <4>1. obj'[mutex_map[q].mtx] = obj[mutex_map[q].mtx]
          BY <3>1, <3>3, <2>1, <1>0, SMTT(30) DEF LockStateExact
        <4> QED  BY <4>1, <3>1, <3>3, <1>3 DEF LockStateExact
      <3> QED  BY <3>2, <3>3
    <2>3. /\ \A q, r \in Path :
               HasEntry(q)' /\ q # r => mutex_map'[q].mtx # mutex_map'[r].mtx
          /\ \A u \in Thread : pc'[u] # "locking" => mtx'[u] = NoMutex
      BY <1>6, SMTT(30) DEF LockStateExact, HasEntry, release_read, TypeOK
    <2> QED  BY <2>2, <2>3 DEF LockStateExact
  <1> QED  BY <1>7, <1>8, <1>9, <1>10, <1>11

(***************************************************************************)
(* release_write finds the entry it locked; the writer was alone on it.    *)
(***************************************************************************)
LEMMA ReleaseWriteIInv ==
    ASSUME IInv, NEW t \in Thread, release_write(t)
    PROVE  IInv'
  <1> USE DEF IInv
  <1>0. PICK p \in Path, m \in Mutex :
          p = path[t] /\ m = mutex_map[p].mtx /\ HasEntry(p)
    BY DEF release_write, TypeOK, EntryPinned, HasEntry
  <1>1. /\ obj' = [obj EXCEPT ![m].writer = FALSE]
        /\ mutex_map' = [mutex_map EXCEPT ![p].active_count = @ - 1]
    BY <1>0 DEF release_write
  <1>2. /\ t \in Users(p) /\ Users(p)' = Users(p) \ {t}
        /\ \A q \in Path \ {p} : Users(q)' = Users(q)
    BY <1>0 DEF release_write, TypeOK, Users
  <1>3. /\ t \in Holders(p, "write") /\ Holders(p, "write")' = Holders(p, "write") \ {t}
        /\ \A q \in Path : Holders(q, "read")' = Holders(q, "read")
        /\ \A q \in Path \ {p} : Holders(q, "write")' = Holders(q, "write")
    BY <1>0 DEF release_write, TypeOK, Holders
  <1>4. Cardinality(Users(p)) >= 1 /\ Cardinality(Users(p)') = Cardinality(Users(p)) - 1
    BY <1>2, CountOut, SMTT(30) DEF Users
  <1>5. Holders(p, "write")' = {}
    BY <1>0, <1>3 DEF release_write, MutualExclusion, Holders
  <1>6. \A q \in Path : mutex_map'[q].mtx = mutex_map[q].mtx
    BY <1>1 DEF TypeOK
  <1>7. TypeOK'
    <2>1. mutex_map[p].active_count >= 1
      BY <1>0, <1>4, <1>5 DEF ActiveCountExact, LockStateExact
    <2>2. mutex_map[p] \in [mtx : Mutex \cup {NoMutex}, active_count : Nat]
      BY DEF TypeOK
    <2>3. [mutex_map[p] EXCEPT !.active_count = @ - 1]
            \in [mtx : Mutex \cup {NoMutex}, active_count : Nat]
      BY <2>1, <2>2
    <2>4. mutex_map' \in [Path -> [mtx : Mutex \cup {NoMutex}, active_count : Nat]]
      BY <2>3, <1>1 DEF TypeOK
    <2>5. obj' \in [Mutex -> [writer : BOOLEAN, readers : Nat]]
      BY <2>1, <1>1, ZenonT(30) DEF TypeOK
    <2> QED  BY <2>4, <2>5 DEF release_write, TypeOK
  <1>8. MutualExclusion'
    BY DEF release_write, TypeOK, MutualExclusion
  <1>9. EntryPinned'
    BY <1>6 DEF release_write, TypeOK, EntryPinned, HasEntry
  <1>10. ActiveCountExact'
    <2>1. /\ mutex_map'[p].active_count = mutex_map[p].active_count - 1
          /\ \A q \in Path \ {p} : mutex_map'[q] = mutex_map[q]
      BY <1>1 DEF TypeOK
    <2>2. Cardinality(Users(p)') = mutex_map'[p].active_count
      BY <2>1, <1>4 DEF ActiveCountExact
    <2> QED  BY <2>1, <2>2, <1>2 DEF ActiveCountExact
  <1>11. LockStateExact'
    <2>1. /\ obj'[m].readers = obj[m].readers
          /\ obj'[m].writer = FALSE
          /\ \A x \in Mutex \ {m} : obj'[x] = obj[x]
      BY <1>1 DEF TypeOK
    <2>2. ASSUME NEW q \in Path, HasEntry(q)'
          PROVE  LET x == obj'[mutex_map'[q].mtx]
                 IN  /\ x.readers = Cardinality(Holders(q, "read")')
                     /\ x.writer <=> Holders(q, "write")' # {}
      <3>1. HasEntry(q) /\ mutex_map'[q].mtx = mutex_map[q].mtx /\ mutex_map[q].mtx \in Mutex
        BY <2>2, <1>6 DEF HasEntry, TypeOK
      <3>2. CASE q = p
        <4>1. /\ obj[m].readers = Cardinality(Holders(p, "read"))
              /\ obj[m].writer <=> Holders(p, "write") # {}
          BY <1>0, SMTT(30) DEF LockStateExact
        <4>2. obj'[m].readers = Cardinality(Holders(p, "read")')
          BY <4>1, <2>1, <1>3, <1>5
        <4>3. obj'[m].writer <=> Holders(p, "write")' # {}
          BY <4>1, <2>1, <1>3, <1>5
        <4> QED  BY <4>2, <4>3, <3>1, <3>2, <1>0, SMTT(30)
      <3>3. CASE q # p
        <4>1. obj'[mutex_map[q].mtx] = obj[mutex_map[q].mtx]
          BY <3>1, <3>3, <2>1, <1>0, SMTT(30) DEF LockStateExact
        <4> QED  BY <4>1, <3>1, <3>3, <1>3 DEF LockStateExact
      <3> QED  BY <3>2, <3>3
    <2>3. /\ \A q, r \in Path :
               HasEntry(q)' /\ q # r => mutex_map'[q].mtx # mutex_map'[r].mtx
          /\ \A u \in Thread : pc'[u] # "locking" => mtx'[u] = NoMutex
      BY <1>6 DEF LockStateExact, HasEntry, release_write, TypeOK
    <2> QED  BY <2>2, <2>3 DEF LockStateExact
  <1> QED  BY <1>7, <1>8, <1>9, <1>10, <1>11

(***************************************************************************)
(* cleanup_unused removes only entries that nobody waits for or holds.     *)
(***************************************************************************)
LEMMA CleanupIInv ==
    ASSUME IInv, cleanup_unused
    PROVE  IInv'
  <1> USE DEF IInv
  <1>1. \A q \in Path : Users(q)' = Users(q)
    BY DEF cleanup_unused, Users
  <1>2. \A q \in Path, md \in Mode : Holders(q, md)' = Holders(q, md)
    BY DEF cleanup_unused, Holders
  <1>3. ASSUME NEW q \in Path
        PROVE  \/ mutex_map'[q] = mutex_map[q]
               \/ mutex_map'[q] = NoEntry /\ Users(q) = {} /\ mutex_map[q].active_count = 0
    <2>1. CASE mutex_map[q].active_count <= 0
      <3>1. mutex_map[q].active_count = 0
        BY <2>1 DEF TypeOK
      <3>2. Users(q) = {}
        BY <3>1, CountNone, Zenon DEF ActiveCountExact, Users
      <3> QED  BY <3>1, <3>2, <2>1 DEF cleanup_unused
    <2>2. CASE ~(mutex_map[q].active_count <= 0)
      BY <2>2 DEF cleanup_unused
    <2> QED  BY <2>1, <2>2
  <1>4. TypeOK'
    BY DEF cleanup_unused, TypeOK, NoEntry
  <1>5. MutualExclusion'
    BY DEF cleanup_unused, MutualExclusion
  <1>6. EntryPinned'
    <2>1. \A t \in Thread : pc[t] # "idle" => mutex_map'[path[t]] = mutex_map[path[t]]
      BY <1>3 DEF Users, TypeOK
    <2> QED  BY <2>1, Zenon DEF EntryPinned, HasEntry, cleanup_unused, TypeOK
  <1>7. ActiveCountExact'
    BY <1>1, <1>3 DEF ActiveCountExact, NoEntry
  <1>8. LockStateExact'
    <2>1. \A q \in Path : HasEntry(q)' => HasEntry(q) /\ mutex_map'[q] = mutex_map[q]
      BY <1>3 DEF HasEntry, NoEntry
    <2>2. \A q \in Path : mutex_map'[q].mtx \in {mutex_map[q].mtx, NoMutex}
      BY <1>3 DEF NoEntry
    <2>3. \A q, r \in Path :
            HasEntry(q)' /\ q # r => mutex_map'[q].mtx # mutex_map'[r].mtx
      BY <2>1, <2>2 DEF LockStateExact, HasEntry
    <2>4. obj' = obj /\ mtx' = mtx /\ pc' = pc
      BY DEF cleanup_unused
    <2>5. \A q \in Path : HasEntry(q)' =>
            LET x == obj'[mutex_map'[q].mtx]
            IN  /\ x.readers = Cardinality(Holders(q, "read")')
                /\ x.writer <=> Holders(q, "write")' # {}
      BY <2>1, <2>4, <1>2 DEF LockStateExact, Mode
    <2> QED  BY <2>3, <2>4, <2>5 DEF LockStateExact
  <1> QED  BY <1>4, <1>5, <1>6, <1>7, <1>8

\* Every step of the lock table keeps IInv.
LEMMA NextIInv == IInv /\ [Next]_vars => IInv'
  <1> SUFFICES ASSUME IInv, [Next]_vars PROVE IInv'
    OBVIOUS
  <1>1. CASE cleanup_unused
    BY <1>1, CleanupIInv
  <1>2. ASSUME NEW t \in Thread, NEW p \in Path, acquire_read(t, p)
        PROVE  IInv'
    BY <1>2, AcquireIInv DEF acquire_read, Mode
  <1>3. ASSUME NEW t \in Thread, NEW p \in Path, acquire_write(t, p)
        PROVE  IInv'
    BY <1>3, AcquireIInv DEF acquire_write, Mode
  <1>4. ASSUME NEW t \in Thread, LockShared(t) \/ LockExclusive(t)
        PROVE  IInv'
    BY <1>4, LockSharedIInv, LockExclusiveIInv
  <1>5. ASSUME NEW t \in Thread, release_read(t) \/ release_write(t)
        PROVE  IInv'
    BY <1>5, ReleaseReadIInv, ReleaseWriteIInv
  <1>6. CASE UNCHANGED vars
    <2>1. \A p \in Path : Users(p)' = Users(p)
      BY <1>6 DEF vars, Users
    <2>2. \A p \in Path, md \in Mode : Holders(p, md)' = Holders(p, md)
      BY <1>6 DEF vars, Holders
    <2>3. TypeOK' /\ MutualExclusion' /\ EntryPinned'
      BY <1>6 DEF vars, IInv, TypeOK, MutualExclusion, EntryPinned, HasEntry
    <2>4. ActiveCountExact'
      BY <1>6, <2>1 DEF vars, IInv, ActiveCountExact
    <2>5. LockStateExact'
      BY <1>6, <2>2, SMTT(30) DEF vars, IInv, LockStateExact, HasEntry, Mode
    <2> QED  BY <2>3, <2>4, <2>5 DEF IInv
  <1> QED  BY <1>1, <1>2, <1>3, <1>4, <1>5, <1>6 DEF Next

(***************************************************************************)
(* The lock table of file_mutex.cpp, with any number of threads and with   *)
(* cleanup_unused called at any time, keeps its inductive invariant.       *)
(***************************************************************************)
THEOREM Invariance == Spec => []IInv
  BY InitIInv, NextIInv, PTL DEF Spec

(***************************************************************************)
(* acquire_read and acquire_write exclude each other on every path.        *)
(***************************************************************************)
THEOREM Exclusion == Spec => []MutualExclusion
  <1>1. IInv => MutualExclusion
    BY DEF IInv
  <1> QED  BY <1>1, Invariance, PTL

(***************************************************************************)
(* The variables keep their types: active_count never goes below zero, and *)
(* neither does the number of readers of a shared_mutex.                   *)
(***************************************************************************)
THEOREM TypeCorrect == Spec => []TypeOK
  <1>1. IInv => TypeOK
    BY DEF IInv
  <1> QED  BY <1>1, Invariance, PTL

(***************************************************************************)
(* The entry that acquire_* looked up is still there when release_* looks  *)
(* it up again.                                                            *)
(***************************************************************************)
THEOREM Pinning == Spec => []EntryPinned
  <1>1. IInv => EntryPinned
    BY DEF IInv
  <1> QED  BY <1>1, Invariance, PTL

(***************************************************************************)
(* active_count counts the threads that use the path, so cleanup_unused    *)
(* removes every entry that nobody uses and no other.                      *)
(***************************************************************************)
THEOREM UseCounts == Spec => []ActiveCountExact
  <1>1. IInv => ActiveCountExact
    BY DEF IInv
  <1> QED  BY <1>1, Invariance, PTL

(***************************************************************************)
(* The shared_mutex of an entry is locked by exactly the threads between   *)
(* acquire_* and release_* of its path, so none stays locked for ever.     *)
(***************************************************************************)
THEOREM LockStates == Spec => []LockStateExact
  <1>1. IInv => LockStateExact
    BY DEF IInv
  <1> QED  BY <1>1, Invariance, PTL
-----------------------------------------------------------------------------
(***************************************************************************)
(* A lock that returns from lock_shared() or lock() is a grant of RWLock,  *)
(* a release is a release, and looking up, waiting and cleaning up are     *)
(* invisible.                                                              *)
(***************************************************************************)
THEOREM Refinement == Spec => ImplementsRWLock
  <1>1. Init => Abstract!Init
    BY DEF Init, accessBar, Abstract!Init, Abstract!NoAccess
  <1>2. IInv /\ IInv' /\ [Next]_vars => [Abstract!Next]_accessBar
    <2> SUFFICES ASSUME IInv, IInv', [Next]_vars PROVE [Abstract!Next]_accessBar
      OBVIOUS
    <2> USE DEF IInv
    <2>1. ASSUME NEW t \in Thread, LockShared(t) \/ LockExclusive(t)
          PROVE  Abstract!Next
      <3>1. /\ pc[t] = "locking" /\ pc' = [pc EXCEPT ![t] = "holding"]
            /\ path' = path /\ mode' = mode
        BY <2>1 DEF LockShared, LockExclusive
      <3>2. accessBar' = [accessBar EXCEPT ![t] = <<path[t], mode[t]>>]
        BY <3>1, Zenon DEF accessBar, TypeOK
      <3>3. accessBar[t] = Abstract!NoAccess
        BY <3>1 DEF accessBar, Abstract!NoAccess
      <3>4. Abstract!Compatible(t, path[t], mode[t])
        <4> SUFFICES ASSUME NEW u \in Thread \ {t}, accessBar[u] \in {path[t]} \X Abstract!Mode
                     PROVE  mode[t] = "read" /\ accessBar[u][2] = "read"
          BY DEF Abstract!Compatible
        <4>1. pc[u] = "holding" /\ accessBar[u] = <<path[u], mode[u]>> /\ path[u] = path[t]
          BY DEF accessBar, TypeOK
        <4>2. mode'[t] = "read" /\ mode'[u] = "read"
          BY <4>1, <3>1 DEF MutualExclusion, TypeOK
        <4> QED  BY <4>1, <4>2, <3>1
      <3>5. Abstract!Grant(t, path[t], mode[t])
        BY <3>2, <3>3, <3>4 DEF Abstract!Grant
      <3>6. path[t] \in Path /\ mode[t] \in Abstract!Mode
        BY DEF TypeOK, Mode, Abstract!Mode
      <3> QED  BY <3>5, <3>6 DEF Abstract!Next
    <2>2. ASSUME NEW t \in Thread, release_read(t) \/ release_write(t)
          PROVE  Abstract!Next
      <3>1. /\ pc[t] = "holding" /\ pc' = [pc EXCEPT ![t] = "idle"]
            /\ path' = path /\ mode' = mode
        BY <2>2, SMTT(30) DEF release_read, release_write
      <3>2. accessBar' = [accessBar EXCEPT ![t] = Abstract!NoAccess]
        BY <3>1, Zenon DEF accessBar, TypeOK, Abstract!NoAccess
      <3>3. accessBar[t] # Abstract!NoAccess
        BY <3>1 DEF accessBar, Abstract!NoAccess
      <3> QED  BY <3>2, <3>3, Zenon DEF Abstract!Next, Abstract!Release
    <2>3. ASSUME NEW t \in Thread, NEW p \in Path, acquire_read(t, p) \/ acquire_write(t, p)
          PROVE  accessBar' = accessBar
      <3>1. PICK md \in Mode : Acquire(t, p, md)
        BY <2>3 DEF acquire_read, acquire_write, Mode
      <3> QED  BY <3>1, Zenon DEF Acquire, accessBar, TypeOK
    <2>4. CASE cleanup_unused \/ UNCHANGED vars
      BY <2>4 DEF cleanup_unused, vars, accessBar
    <2> QED  BY <2>1, <2>2, <2>3, <2>4 DEF Next
  <1> QED  BY <1>1, <1>2, Invariance, PTL DEF Spec, ImplementsRWLock, Abstract!Spec
=============================================================================
