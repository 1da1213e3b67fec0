---------------------------- MODULE DesktopProofs ----------------------------
(***************************************************************************)
(* For any number of handlers, connections, jobs and paths: a client is    *)
(* never in two hands, and the slot holds the newest one unless a          *)
(* connection was made while a command was using the one before.           *)
(***************************************************************************)
EXTENDS Desktop, TLAPS

\* Clients in hands and in the slot are among those that connected, and as long
\* as no connection overlapped with a command there is no other than the newest.
IInv ==
    /\ TypeOK
    /\ slot <= newest
    /\ \A i \in Handler : h[i].client <= newest
    /\ OneCallPerClient
    /\ ~overlapped => /\ slot \in {None, newest}
                      /\ \A i \in Handler : h[i].client \in {None, newest}

\* A step of a handler between two commands: nobody gets a client.
Quiet ==
    /\ UNCHANGED <<slot, newest, overlapped>>
    /\ \A j \in Handler : h'[j].client \in {h[j].client, None}

HandlerRecord ==
    [kind : {"none", "connect", "disconnect", "sync", "download"},
     cmd : Commands \cup {"none"},
     at : {"idle", "called", "busy", "answered"},
     client : Clients \cup {None},
     res : {"none", "ok", "unchanged", "err"},
     paths : 0 .. MaxPaths,
     job : 0 .. MaxJobs]

\* The idle handler is a handler.
LEMMA IdleType == Idle \in HandlerRecord /\ Idle.client = None
  BY DesktopAssumption DEF Idle, HandlerRecord, Clients, None

\* Storing a handler keeps the type of the table, and the other handlers.
LEMMA SetType ==
    ASSUME TypeOK, NEW i \in Handler, NEW r \in HandlerRecord, Set(i, r)
    PROVE  /\ h' \in [Handler -> HandlerRecord]
           /\ h'[i] = r
           /\ \A j \in Handler \ {i} : h'[j] = h[j]
  BY DEF TypeOK, Set, HandlerRecord

\* A step that hands no client to anybody keeps what the invariant says of them.
LEMMA QuietStep ==
    ASSUME IInv, TypeOK', Quiet
    PROVE  IInv'
  BY DesktopAssumption DEF IInv, TypeOK, Quiet, OneCallPerClient, None, Clients

\* Storing a handler that has the client it had, or none, is quiet.
LEMMA SetQuiet ==
    ASSUME TypeOK, NEW i \in Handler, NEW r \in HandlerRecord, Set(i, r),
           r.client \in {h[i].client, None}, UNCHANGED <<slot, newest, overlapped>>
    PROVE  Quiet
  BY SetType DEF Quiet

JobStatus == {"none", "negotiating", "transferring", "complete", "error", "cleared"}

\* The type invariant, with the names used here.
LEMMA TypeUnfold ==
    TypeOK <=> /\ slot \in Clients \cup {None} /\ newest \in Clients \cup {None}
               /\ h \in [Handler -> HandlerRecord]
               /\ {connected, connecting, syncing, overlapped} \subseteq BOOLEAN
               /\ jobs \in [Jobs -> JobStatus]
  BY DEF TypeOK, HandlerRecord, JobStatus

\* A quiet step of a handler: it stores a handler with the client it had or none,
\* and what it makes of the state of the window has the right type.
LEMMA HandlerStep ==
    ASSUME IInv, NEW i \in Handler, NEW r \in HandlerRecord, Set(i, r),
           r.client \in {h[i].client, None}, UNCHANGED <<slot, newest, overlapped>>,
           {connected', connecting', syncing'} \subseteq BOOLEAN,
           jobs' \in [Jobs -> JobStatus]
    PROVE  IInv'
  <1>1. TypeOK
    BY DEF IInv
  <1>2. h' \in [Handler -> HandlerRecord]
    BY <1>1, SetType
  <1>3. TypeOK'
    BY <1>1, <1>2, TypeUnfold DEF TypeOK, HandlerRecord, JobStatus
  <1> QED
    BY <1>1, <1>3, SetQuiet, QuietStep

\* The user's clicks.
LEMMA ClickStep ==
    ASSUME IInv, NEW i \in Handler, Click(i)
    PROVE  IInv'
  <1>1. TypeOK /\ h[i] \in HandlerRecord /\ jobs \in [Jobs -> JobStatus]
        /\ connected \in BOOLEAN /\ connecting \in BOOLEAN /\ syncing \in BOOLEAN
    BY TypeUnfold DEF IInv
  <1>2. ASSUME NEW k \in {"connect", "disconnect", "download"}, NEW cmd \in Commands,
               Begin(i, k, cmd),
               {connected', connecting', syncing'} \subseteq BOOLEAN, jobs' = jobs
        PROVE  IInv'
    <2> DEFINE r == [h[i] EXCEPT !.kind = k, !.cmd = cmd, !.at = "called"]
    <2>1. r \in HandlerRecord /\ r.client = h[i].client
      BY <1>1, Zenon DEF HandlerRecord
    <2>2. Set(i, r) /\ UNCHANGED <<slot, newest, overlapped>>
      BY <1>2 DEF Begin
    <2> HIDE DEF r
    <2> QED
      BY <1>1, <1>2, <2>1, <2>2, HandlerStep
  <1>3. CASE ClickConnect(i)
    BY <1>1, <1>2, <1>3 DEF ClickConnect, Commands
  <1>4. CASE ClickDisconnect(i)
    BY <1>1, <1>2, <1>4 DEF ClickDisconnect, Commands, ui
  <1>5. CASE ClickDownload(i)
    BY <1>1, <1>2, <1>5 DEF ClickDownload, Commands, ui
  <1>6. CASE ClickSync(i)
    <2>1. PICK n \in 1 .. MaxPaths, j \in FirstFree :
            /\ Set(i, [h[i] EXCEPT !.kind = "sync", !.cmd = "negotiate", !.at = "called",
                                   !.paths = n - 1, !.job = j])
            /\ jobs' = [jobs EXCEPT ![j] = "negotiating"]
      BY <1>6, Zenon DEF ClickSync
    <2> DEFINE r == [h[i] EXCEPT !.kind = "sync", !.cmd = "negotiate", !.at = "called",
                                 !.paths = n - 1, !.job = j]
    <2>2. j \in 0 .. MaxJobs /\ n - 1 \in 0 .. MaxPaths /\ jobs' \in [Jobs -> JobStatus]
      BY <1>1, <2>1, DesktopAssumption DEF FirstFree, Jobs, JobStatus
    <2>3. r \in HandlerRecord /\ r.client = h[i].client
      BY <1>1, <2>2, ZenonT(30) DEF HandlerRecord, Commands
    <2> HIDE DEF r
    <2> QED
      BY <1>1, <1>6, <2>1, <2>2, <2>3, HandlerStep, Zenon DEF ClickSync, r
  <1> QED
    BY <1>3, <1>4, <1>5, <1>6 DEF Click

\* A handler goes on to its next command, or ends.
LEMMA AwaitStep ==
    ASSUME IInv, NEW i \in Handler, NEW cmd \in Commands, Await(i, cmd) \/ Done(i),
           UNCHANGED <<slot, newest, overlapped>>,
           {connected', connecting', syncing'} \subseteq BOOLEAN,
           jobs' \in [Jobs -> JobStatus]
    PROVE  IInv'
  <1>1. h[i] \in HandlerRecord
    BY TypeUnfold DEF IInv
  <1>2. CASE Await(i, cmd)
    <2> DEFINE r == [h[i] EXCEPT !.cmd = cmd, !.at = "called", !.res = "none"]
    <2>1. r \in HandlerRecord /\ r.client = h[i].client
      BY <1>1, Zenon DEF HandlerRecord
    <2>2. Set(i, r)
      BY <1>2 DEF Await
    <2> HIDE DEF r
    <2> QED
      BY <2>1, <2>2, HandlerStep
  <1>3. CASE Done(i)
    BY <1>3, IdleType, HandlerStep DEF Done
  <1> QED
    BY <1>2, <1>3

\* The loop of handleSync goes on to the next path, or to the list of files.
LEMMA NextPathStep ==
    ASSUME IInv, NEW i \in Handler, NEW settled \in [Jobs -> JobStatus], NextPath(i, settled),
           UNCHANGED <<slot, newest, overlapped, connected, connecting, syncing>>
    PROVE  IInv'
  <1>1. /\ h[i] \in HandlerRecord
        /\ {connected', connecting', syncing'} \subseteq BOOLEAN
    BY TypeUnfold DEF IInv
  <1>2. CASE /\ h[i].paths > 0
             /\ \E j \in FirstFree :
                  /\ jobs' = [settled EXCEPT ![j] = "negotiating"]
                  /\ Set(i, [h[i] EXCEPT !.cmd = "negotiate", !.at = "called", !.res = "none",
                                         !.job = j, !.paths = h[i].paths - 1])
    <2>1. PICK j \in FirstFree :
             /\ jobs' = [settled EXCEPT ![j] = "negotiating"]
             /\ Set(i, [h[i] EXCEPT !.cmd = "negotiate", !.at = "called", !.res = "none",
                                    !.job = j, !.paths = h[i].paths - 1])
      BY <1>2, Zenon
    <2> DEFINE r == [h[i] EXCEPT !.cmd = "negotiate", !.at = "called", !.res = "none",
                                 !.job = j, !.paths = h[i].paths - 1]
    <2>2. h[i].paths \in 0 .. MaxPaths
      BY <1>1 DEF HandlerRecord
    <2>3. j \in 0 .. MaxJobs /\ h[i].paths - 1 \in 0 .. MaxPaths
      BY <1>2, <2>2, DesktopAssumption, SMTT(30) DEF FirstFree, Jobs
    <2>4. r \in HandlerRecord /\ r.client = h[i].client
      BY <1>1, <2>3, Zenon DEF HandlerRecord, Commands
    <2>5. jobs' \in [Jobs -> JobStatus]
      BY <2>1, Zenon DEF JobStatus
    <2> HIDE DEF r
    <2> QED
      BY <1>1, <2>1, <2>4, <2>5, HandlerStep, Zenon DEF r
  <1>3. CASE /\ jobs' = settled
             /\ Set(i, [h[i] EXCEPT !.cmd = "list", !.at = "called", !.res = "none",
                                    !.job = 0, !.paths = 0])
    <2> DEFINE r == [h[i] EXCEPT !.cmd = "list", !.at = "called", !.res = "none",
                                 !.job = 0, !.paths = 0]
    <2>1. 0 \in 0 .. MaxPaths /\ 0 \in 0 .. MaxJobs
      BY DesktopAssumption
    <2>2. r \in HandlerRecord /\ r.client = h[i].client
      BY <1>1, <2>1, Zenon DEF HandlerRecord, Commands
    <2> HIDE DEF r
    <2> QED
      BY <1>1, <1>3, <2>2, HandlerStep, Zenon DEF r
  <1> QED
    BY <1>2, <1>3, Zenon DEF NextPath

\* The handlers when they are answered.
LEMMA ResumeStep ==
    ASSUME IInv, NEW i \in Handler, Resume(i)
    PROVE  IInv'
  <1>1. /\ jobs \in [Jobs -> JobStatus]
        /\ connected \in BOOLEAN /\ connecting \in BOOLEAN /\ syncing \in BOOLEAN
    BY TypeUnfold DEF IInv
  <1>2. ASSUME NEW status \in JobStatus
        PROVE  Marked(i, status) \in [Jobs -> JobStatus]
    BY <1>1, Zenon DEF Marked, JobStatus
  <1>3. CASE handleConnect(i)
    BY <1>1, <1>3, AwaitStep, Zenon DEF handleConnect, Answered, Commands
  <1>4. CASE handleDisconnect(i)
    <2>1. jobs' = [j \in Jobs |-> IF jobs[j] = "none" THEN "none" ELSE "cleared"]
      BY <1>4 DEF handleDisconnect
    <2>2. jobs' \in [Jobs -> JobStatus]
      BY <2>1 DEF JobStatus
    <2> QED
      BY <1>1, <1>4, <2>2, AwaitStep, Zenon DEF handleDisconnect, Answered, Commands
  <1>5. CASE handleSync(i)
    <2>1. CASE SyncCaught(i)
      BY <1>2, <2>1, NextPathStep DEF SyncCaught, Failed, Answered, JobStatus
    <2>2. CASE /\ UNCHANGED <<slot, newest, overlapped>>
               /\ NextPath(i, Marked(i, "complete"))
               /\ UNCHANGED <<connected, connecting, syncing>>
      BY <1>2, <2>2, NextPathStep DEF JobStatus
    <2>3. CASE /\ UNCHANGED <<slot, newest, overlapped>>
               /\ jobs' = Marked(i, "transferring")
               /\ Await(i, "sync_file")
               /\ UNCHANGED <<connected, connecting, syncing>>
      BY <1>1, <1>2, <2>3, AwaitStep DEF JobStatus, Commands
    <2>4. CASE /\ UNCHANGED <<slot, newest, overlapped>>
               /\ syncing' = FALSE
               /\ Done(i)
               /\ UNCHANGED <<connected, connecting, jobs>>
      BY <1>1, <2>4, AwaitStep, Zenon DEF Commands
    <2> QED
      BY <1>5, <2>1, <2>2, <2>3, <2>4, Zenon DEF handleSync, Answered
  <1>6. CASE handleDownload(i)
    BY <1>1, <1>6, AwaitStep DEF handleDownload, Answered, Commands, ui
  <1> QED
    BY <1>3, <1>4, <1>5, <1>6 DEF Resume

\* The commands: only here a client changes hands.
LEMMA CommandStep ==
    ASSUME IInv, NEW i \in Handler, Command(i)
    PROVE  IInv'
  <1>1. /\ TypeOK /\ h[i] \in HandlerRecord
        /\ slot \in Clients \cup {None} /\ newest \in Clients \cup {None}
        /\ \A j \in Handler : h[j].client \in Clients \cup {None}
        /\ {connected, connecting, syncing, overlapped} \subseteq BOOLEAN
        /\ jobs \in [Jobs -> JobStatus]
    BY TypeUnfold DEF IInv, HandlerRecord
  <1>2. ASSUME UNCHANGED <<slot, newest, overlapped, ui>>,
               Set(i, [h[i] EXCEPT !.at = "answered", !.res = "err"])
        PROVE  IInv'
    <2> DEFINE r == [h[i] EXCEPT !.at = "answered", !.res = "err"]
    <2>1. r \in HandlerRecord /\ r.client = h[i].client
      BY <1>1, Zenon DEF HandlerRecord
    <2> HIDE DEF r
    <2> QED
      BY <1>1, <1>2, <2>1, HandlerStep, Zenon DEF r, ui
  <1>3. CASE Connect(i)
    <2>1. CASE UNCHANGED <<slot, newest, overlapped>> /\ Set(i, [h[i] EXCEPT !.at = "answered", !.res = "err"])
      BY <1>2, <1>3, <2>1 DEF Connect, ui
    <2>2. CASE /\ newest < MaxConnects
               /\ newest' = newest + 1 /\ slot' = newest + 1
               /\ overlapped' = (overlapped \/ \E k \in Handler : h[k].client # None)
               /\ Set(i, [h[i] EXCEPT !.at = "answered", !.res = "ok"])
      <3> DEFINE r == [h[i] EXCEPT !.at = "answered", !.res = "ok"]
      <3>1. r \in HandlerRecord /\ r.client = h[i].client
        BY <1>1, Zenon DEF HandlerRecord
      <3> HIDE DEF r
      <3>2. /\ h' \in [Handler -> HandlerRecord]
            /\ \A j \in Handler : h'[j].client = h[j].client
        BY <1>1, <2>2, <3>1, SetType, Zenon DEF r
      <3>3. newest' \in Clients /\ slot' \in Clients /\ overlapped' \in BOOLEAN
        BY <1>1, <2>2, DesktopAssumption DEF Clients, None
      <3>4. TypeOK'
        BY <1>1, <1>3, <3>2, <3>3 DEF Connect, ui, TypeOK, HandlerRecord, JobStatus
      <3>5. \A j \in Handler : h[j].client <= newest /\ h[j].client < newest'
        BY <1>1, <2>2, DesktopAssumption DEF IInv, Clients, None
      <3>6. OneCallPerClient'
        BY <2>2, <3>2, <3>5, <1>1, DesktopAssumption DEF IInv, OneCallPerClient, Clients, None
      <3>7. ~overlapped' => \A j \in Handler : h'[j].client = None
        BY <2>2, <3>2, Zenon
      <3>8. slot' <= newest' /\ \A j \in Handler : h'[j].client <= newest'
        BY <1>1, <2>2, <3>2, <3>5, DesktopAssumption DEF Clients, None
      <3> QED
        BY <2>2, <3>4, <3>6, <3>7, <3>8 DEF IInv
    <2> QED
      BY <1>3, <2>1, <2>2 DEF Connect
  <1>4. CASE Take(i)
    <2>1. CASE slot = None /\ Set(i, [h[i] EXCEPT !.at = "answered", !.res = "err"])
      BY <1>2, <1>4, <2>1 DEF Take
    <2>2. CASE slot # None /\ Set(i, [h[i] EXCEPT !.at = "busy", !.client = slot])
      <3> DEFINE r == [h[i] EXCEPT !.at = "busy", !.client = slot]
      <3>1. r \in HandlerRecord /\ r.client = slot
        BY <1>1, Zenon DEF HandlerRecord
      <3> HIDE DEF r
      <3>2. /\ h' \in [Handler -> HandlerRecord]
            /\ h'[i].client = slot
            /\ \A j \in Handler \ {i} : h'[j].client = h[j].client
        BY <1>1, <2>2, <3>1, SetType, Zenon DEF r
      <3>3. slot' = None /\ UNCHANGED <<newest, overlapped, ui>>
        BY <1>4 DEF Take
      <3>4. TypeOK'
        BY <1>1, <3>2, <3>3 DEF ui, TypeOK, HandlerRecord, JobStatus
      <3>5. OneCallPerClient'
        BY <2>2, <3>2, <3>3 DEF IInv, OneCallPerClient
      <3>6. slot' <= newest' /\ \A j \in Handler : h'[j].client <= newest'
        BY <1>1, <3>2, <3>3, DesktopAssumption DEF IInv, Clients, None
      <3>7. ~overlapped' => \A j \in Handler : h'[j].client \in {None, newest'}
        BY <3>2, <3>3 DEF IInv
      <3> QED
        BY <3>3, <3>4, <3>5, <3>6, <3>7 DEF IInv
    <2> QED
      BY <1>4, <2>1, <2>2 DEF Take
  <1>5. CASE Finish(i)
    <2>1. PICK res \in Results(h[i].cmd) :
            /\ Set(i, [h[i] EXCEPT !.at = "answered", !.client = None, !.res = res])
            /\ slot' = IF h[i].cmd = "disconnect" THEN slot ELSE h[i].client
      BY <1>5, Zenon DEF Finish
    <2>2. res \in {"none", "ok", "unchanged", "err"}
      BY <2>1 DEF Results
    <2> DEFINE r == [h[i] EXCEPT !.at = "answered", !.client = None, !.res = res]
    <2>3. r \in HandlerRecord /\ r.client = None
      BY <1>1, <2>2, Zenon DEF HandlerRecord
    <2> HIDE DEF r
    <2>4. /\ h' \in [Handler -> HandlerRecord]
          /\ h'[i].client = None
          /\ \A j \in Handler \ {i} : h'[j].client = h[j].client
      BY <1>1, <2>1, <2>3, SetType, Zenon DEF r
    <2>5. slot' \in {slot, h[i].client} /\ UNCHANGED <<newest, overlapped, ui>>
      BY <1>5, <2>1 DEF Finish
    <2>6. TypeOK'
      BY <1>1, <2>4, <2>5 DEF ui, TypeOK, HandlerRecord, JobStatus
    <2>7. OneCallPerClient'
      BY <2>4, <2>5 DEF IInv, OneCallPerClient
    <2>8. slot' <= newest' /\ \A j \in Handler : h'[j].client <= newest'
      BY <1>1, <2>4, <2>5, DesktopAssumption DEF IInv, Clients, None
    <2>9. ~overlapped' => /\ slot' \in {None, newest'}
                          /\ \A j \in Handler : h'[j].client \in {None, newest'}
      BY <2>4, <2>5 DEF IInv
    <2> QED
      BY <2>6, <2>7, <2>8, <2>9 DEF IInv
  <1> QED
    BY <1>3, <1>4, <1>5 DEF Command

\* IInv is an invariant of the application, however the commands and the handlers
\* of App.tsx interleave.
THEOREM Invariance == Spec => []IInv
  <1>1. Init => IInv
    <2> SUFFICES ASSUME Init PROVE IInv
      OBVIOUS
    <2>1. h \in [Handler -> HandlerRecord] /\ \A i \in Handler : h[i].client = None
      BY IdleType DEF Init
    <2>2. TypeOK
      BY <2>1, TypeUnfold, Zenon DEF Init, JobStatus
    <2> QED
      BY <2>1, <2>2 DEF Init, IInv, OneCallPerClient, None
  <1>2. IInv /\ [Next]_vars => IInv'
    <2> SUFFICES ASSUME IInv, [Next]_vars PROVE IInv'
      OBVIOUS
    <2>1. CASE UNCHANGED vars
      BY <2>1 DEF vars, IInv, TypeOK, OneCallPerClient
    <2>2. CASE Next
      BY <2>2, ClickStep, CommandStep, ResumeStep DEF Next
    <2> QED
      BY <2>1, <2>2
  <1> QED
    BY <1>1, <1>2, PTL DEF Spec

\* Two commands of main.rs never use one client at a time, whatever the user
\* clicks: ClientGuard::take leaves nothing for a second one.
THEOREM Exclusive == Spec => []OneCallPerClient
  BY Invariance, PTL DEF IInv

\* The slot of AppState holds the newest client as long as no connection was made
\* while a command had the one before (connect_to_server, Drop of ClientGuard).
THEOREM Newest == Spec => []SlotIsNewest
  <1>1. IInv => SlotIsNewest
    BY DEF IInv, SlotIsNewest
  <1> QED
    BY <1>1, Invariance, PTL

\* The variables keep their types.
THEOREM TypeCorrect == Spec => []TypeOK
  <1>1. IInv => TypeOK
    BY DEF IInv
  <1> QED
    BY <1>1, Invariance, PTL
-----------------------------------------------------------------------------
(* A window that shows that it is connected. *)

\* A handler has a client exactly while its command is talking to the server, and
\* only handleDisconnect calls disconnect_from_server.
Sound(r) ==
    /\ r.client # None <=> r.at = "busy"
    /\ r.cmd = "disconnect" => r.kind = "disconnect"

\* What a handler in progress still has in store for the window: its guard puts
\* a client back, or handleDisconnect is about to show that the connection is
\* gone, or handleConnect is about to find out, from the list of files.
InStore(r) ==
    \/ r.at = "busy" /\ r.cmd # "disconnect"
    \/ r.at \in {"busy", "answered"} /\ r.cmd = "disconnect"
    \/ r.kind = "connect" /\ r.cmd = "list" /\ r.at = "called"
    \/ r.kind = "connect" /\ r.cmd = "list" /\ r.at = "answered" /\ r.res # "ok"

Kept ==
    /\ \A i \in Handler : Sound(h[i])
    /\ connected => slot # None \/ \E i \in Handler : InStore(h[i])

\* A step of one handler: it leaves a client in the slot, or has something in
\* store after it, or had nothing in store and leaves the rest alone.
LEMMA KeptStep ==
    ASSUME TypeOK, Kept, NEW i \in Handler, NEW r \in HandlerRecord, Set(i, r), Sound(r),
           connected' => \/ slot' # None
                         \/ InStore(r)
                         \/ connected /\ slot' = slot /\ ~InStore(h[i])
    PROVE  Kept'
  <1>1. h'[i] = r /\ \A j \in Handler \ {i} : h'[j] = h[j]
    BY SetType
  <1>2. \A j \in Handler : Sound(h'[j])
    BY <1>1, Zenon DEF Kept
  <1>3. ASSUME connected', slot' = None
        PROVE  \E j \in Handler : InStore(h'[j])
    <2>1. CASE InStore(r)
      BY <1>1, <2>1
    <2>2. CASE connected /\ slot' = slot /\ ~InStore(h[i])
      <3>1. PICK j \in Handler : InStore(h[j])
        BY <1>3, <2>2 DEF Kept
      <3>2. h'[j] = h[j]
        BY <1>1, <2>2, <3>1
      <3> QED
        BY <3>1, <3>2
    <2> QED
      BY <1>3, <2>1, <2>2
  <1> QED
    BY <1>2, <1>3 DEF Kept, Sound

\* A click starts a handler that was idle.
LEMMA KeptClick ==
    ASSUME IInv, Kept, NEW i \in Handler, Click(i)
    PROVE  Kept'
  <1>1. TypeOK /\ h[i] \in HandlerRecord /\ Sound(h[i])
    BY TypeUnfold DEF IInv, Kept
  <1>2. /\ connected' = connected /\ slot' = slot
        /\ h[i].at = "idle"
    BY Zenon DEF Click, ClickConnect, ClickDisconnect, ClickDownload, ClickSync, Begin, FirstIdle, ui
  <1>3. ~InStore(h[i]) /\ h[i].client = None
    BY <1>1, <1>2 DEF InStore, Sound
  <1>4. ASSUME NEW k \in {"connect", "disconnect", "download"}, NEW cmd \in Commands,
               Begin(i, k, cmd), cmd = "disconnect" => k = "disconnect"
        PROVE  Kept'
    <2> DEFINE r == [h[i] EXCEPT !.kind = k, !.cmd = cmd, !.at = "called"]
    <2>1. /\ r \in HandlerRecord /\ r.client = h[i].client /\ r.at = "called"
          /\ r.cmd = cmd /\ r.kind = k
      BY <1>1, Zenon DEF HandlerRecord
    <2>2. Set(i, r)
      BY <1>4 DEF Begin
    <2> HIDE DEF r
    <2>3. Sound(r)
      BY <1>3, <1>4, <2>1 DEF Sound
    <2> QED
      BY <1>1, <1>2, <1>3, <2>1, <2>2, <2>3, KeptStep, Zenon
  <1>5. CASE ClickConnect(i)
    BY <1>4, <1>5 DEF ClickConnect, Commands
  <1>6. CASE ClickDisconnect(i)
    BY <1>4, <1>6 DEF ClickDisconnect, Commands
  <1>7. CASE ClickDownload(i)
    BY <1>4, <1>7 DEF ClickDownload, Commands
  <1>8. CASE ClickSync(i)
    <2>1. PICK n \in 1 .. MaxPaths, j \in FirstFree :
            Set(i, [h[i] EXCEPT !.kind = "sync", !.cmd = "negotiate", !.at = "called",
                                !.paths = n - 1, !.job = j])
      BY <1>8, Zenon DEF ClickSync
    <2> DEFINE r == [h[i] EXCEPT !.kind = "sync", !.cmd = "negotiate", !.at = "called",
                                 !.paths = n - 1, !.job = j]
    <2>2. j \in 0 .. MaxJobs /\ n - 1 \in 0 .. MaxPaths
      BY <2>1, DesktopAssumption DEF FirstFree, Jobs
    <2>3. /\ r \in HandlerRecord /\ r.client = h[i].client /\ r.at = "called"
          /\ r.cmd = "negotiate"
      BY <1>1, <2>2, ZenonT(30) DEF HandlerRecord, Commands
    <2>4. Set(i, r)
      BY <2>1
    <2> HIDE DEF r
    <2>5. Sound(r)
      BY <1>3, <2>3 DEF Sound
    <2> QED
      BY <1>1, <1>2, <1>3, <2>3, <2>4, <2>5, KeptStep, Zenon
  <1> QED
    BY <1>5, <1>6, <1>7, <1>8 DEF Click

\* A command: whoever takes the client puts it back, or is handleDisconnect.
LEMMA KeptCommand ==
    ASSUME IInv, Kept, NEW i \in Handler, Command(i)
    PROVE  Kept'
  <1>1. /\ TypeOK /\ h[i] \in HandlerRecord /\ Sound(h[i])
        /\ slot \in Clients \cup {None} /\ newest \in Clients \cup {None}
    BY TypeUnfold DEF IInv, Kept
  <1>2. connected' = connected
    BY Zenon DEF Command, Connect, Take, Finish, ui
  <1>3. CASE Connect(i)
    <2>1. h[i].at = "called" /\ h[i].cmd = "connect" /\ h[i].client = None
      BY <1>1, <1>3 DEF Connect, Sound
    <2>2. PICK res \in {"ok", "err"} :
            /\ Set(i, [h[i] EXCEPT !.at = "answered", !.res = res])
            /\ slot' = newest + 1 \/ slot' = slot
      BY <1>3, Zenon DEF Connect
    <2>3. newest + 1 # None
      BY <1>1, DesktopAssumption DEF Clients, None
    <2> DEFINE r == [h[i] EXCEPT !.at = "answered", !.res = res]
    <2>4. /\ r \in HandlerRecord /\ r.client = h[i].client /\ r.at = "answered"
          /\ r.cmd = h[i].cmd
      BY <1>1, Zenon DEF HandlerRecord
    <2>5. Set(i, r)
      BY <2>2
    <2> HIDE DEF r
    <2>6. Sound(r) /\ ~InStore(h[i])
      BY <2>1, <2>4 DEF Sound, InStore
    <2> QED
      BY <1>1, <1>2, <2>2, <2>3, <2>4, <2>5, <2>6, KeptStep, Zenon
  <1>4. CASE Take(i)
    <2>1. h[i].at = "called" /\ h[i].client = None /\ slot' = None
      BY <1>1, <1>4 DEF Take, Sound
    <2>2. CASE slot # None /\ Set(i, [h[i] EXCEPT !.at = "busy", !.client = slot])
      <3> DEFINE r == [h[i] EXCEPT !.at = "busy", !.client = slot]
      <3>1. /\ r \in HandlerRecord /\ r.client = slot /\ r.at = "busy"
            /\ r.cmd = h[i].cmd /\ r.kind = h[i].kind
        BY <1>1, Zenon DEF HandlerRecord
      <3> HIDE DEF r
      <3>2. Sound(r) /\ InStore(r)
        BY <1>1, <2>2, <3>1 DEF Sound, InStore
      <3> QED
        BY <1>1, <2>2, <3>1, <3>2, KeptStep, Zenon DEF r
    <2>3. CASE slot = None /\ Set(i, [h[i] EXCEPT !.at = "answered", !.res = "err"])
      <3> DEFINE r == [h[i] EXCEPT !.at = "answered", !.res = "err"]
      <3>1. /\ r \in HandlerRecord /\ r.client = h[i].client /\ r.at = "answered"
            /\ r.res = "err" /\ r.cmd = h[i].cmd /\ r.kind = h[i].kind
        BY <1>1, Zenon DEF HandlerRecord
      <3> HIDE DEF r
      <3>2. Sound(r) /\ (InStore(h[i]) => InStore(r))
        BY <1>1, <2>1, <3>1 DEF Sound, InStore
      <3> QED
        BY <1>1, <1>2, <2>1, <2>3, <3>1, <3>2, KeptStep, Zenon DEF r
    <2> QED
      BY <1>4, <2>2, <2>3 DEF Take
  <1>5. CASE Finish(i)
    <2>1. PICK res \in Results(h[i].cmd) :
            /\ Set(i, [h[i] EXCEPT !.at = "answered", !.client = None, !.res = res])
            /\ slot' = IF h[i].cmd = "disconnect" THEN slot ELSE h[i].client
      BY <1>5, Zenon DEF Finish
    <2>2. res \in {"none", "ok", "unchanged", "err"}
      BY <2>1 DEF Results
    <2> DEFINE r == [h[i] EXCEPT !.at = "answered", !.client = None, !.res = res]
    <2>3. /\ r \in HandlerRecord /\ r.client = None /\ r.at = "answered"
          /\ r.cmd = h[i].cmd /\ r.kind = h[i].kind
      BY <1>1, <2>2, Zenon DEF HandlerRecord
    <2>4. Set(i, r)
      BY <2>1
    <2> HIDE DEF r
    <2>5. Sound(r)
      BY <1>1, <2>3 DEF Sound
    <2>6. CASE h[i].cmd = "disconnect"
      <3>1. InStore(r)
        BY <2>3, <2>6 DEF InStore
      <3> QED
        BY <1>1, <2>3, <2>4, <2>5, <3>1, KeptStep, Zenon
    <2>7. CASE h[i].cmd # "disconnect"
      <3>1. slot' # None
        BY <1>1, <1>5, <2>1, <2>7 DEF Finish, Sound
      <3> QED
        BY <1>1, <2>3, <2>4, <2>5, <3>1, KeptStep, Zenon
    <2> QED
      BY <2>6, <2>7
  <1> QED
    BY <1>3, <1>4, <1>5 DEF Command

\* A handler that had nothing in store goes on to a command, or ends.
LEMMA KeptOn ==
    ASSUME IInv, Kept, NEW i \in Handler, h[i].at = "answered", ~InStore(h[i]),
           connected' => connected, slot' = slot,
           NEW cmd \in Commands \ {"disconnect"}, Await(i, cmd) \/ Done(i)
    PROVE  Kept'
  <1>1. TypeOK /\ h[i] \in HandlerRecord /\ Sound(h[i])
    BY TypeUnfold DEF IInv, Kept
  <1>2. h[i].client = None
    BY <1>1 DEF Sound
  <1>3. CASE Await(i, cmd)
    <2> DEFINE r == [h[i] EXCEPT !.cmd = cmd, !.at = "called", !.res = "none"]
    <2>1. /\ r \in HandlerRecord /\ r.client = h[i].client /\ r.at = "called" /\ r.cmd = cmd
      BY <1>1, Zenon DEF HandlerRecord
    <2>2. Set(i, r)
      BY <1>3 DEF Await
    <2> HIDE DEF r
    <2>3. Sound(r)
      BY <1>2, <2>1 DEF Sound
    <2> QED
      BY <1>1, <2>1, <2>2, <2>3, KeptStep, Zenon
  <1>4. CASE Done(i)
    <2>1. Sound(Idle)
      BY DEF Sound, Idle
    <2> QED
      BY <1>1, <1>4, <2>1, IdleType, KeptStep, Zenon DEF Done
  <1> QED
    BY <1>3, <1>4

\* The loop of handleSync has nothing in store.
LEMMA KeptNextPath ==
    ASSUME IInv, Kept, NEW i \in Handler, h[i].at = "answered", ~InStore(h[i]),
           connected' = connected, slot' = slot,
           NEW settled, NextPath(i, settled)
    PROVE  Kept'
  <1>1. TypeOK /\ h[i] \in HandlerRecord /\ Sound(h[i])
    BY TypeUnfold DEF IInv, Kept
  <1>2. h[i].client = None
    BY <1>1 DEF Sound
  <1>3. PICK cmd \in {"negotiate", "list"}, j \in 0 .. MaxJobs, n \in 0 .. MaxPaths :
          Set(i, [h[i] EXCEPT !.cmd = cmd, !.at = "called", !.res = "none", !.job = j, !.paths = n])
    <2>1. CASE /\ h[i].paths > 0
               /\ \E j \in FirstFree :
                    Set(i, [h[i] EXCEPT !.cmd = "negotiate", !.at = "called", !.res = "none",
                                        !.job = j, !.paths = h[i].paths - 1])
      <3>1. PICK j \in FirstFree :
              Set(i, [h[i] EXCEPT !.cmd = "negotiate", !.at = "called", !.res = "none",
                                  !.job = j, !.paths = h[i].paths - 1])
        BY <2>1, Zenon
      <3>2. h[i].paths \in 0 .. MaxPaths
        BY <1>1 DEF HandlerRecord
      <3>3. j \in 0 .. MaxJobs /\ h[i].paths - 1 \in 0 .. MaxPaths
        BY <2>1, <3>2, DesktopAssumption, SMTT(30) DEF FirstFree, Jobs
      <3> QED
        BY <3>1, <3>3, Zenon
    <2>2. CASE Set(i, [h[i] EXCEPT !.cmd = "list", !.at = "called", !.res = "none",
                                   !.job = 0, !.paths = 0])
      <3>1. 0 \in 0 .. MaxPaths /\ 0 \in 0 .. MaxJobs
        BY DesktopAssumption
      <3> QED
        BY <2>2, <3>1, Zenon
    <2> QED
      BY <2>1, <2>2, Zenon DEF NextPath
  <1> DEFINE r == [h[i] EXCEPT !.cmd = cmd, !.at = "called", !.res = "none", !.job = j, !.paths = n]
  <1>4. r \in HandlerRecord /\ r.client = h[i].client /\ r.at = "called" /\ r.cmd = cmd
    BY <1>1, Zenon DEF HandlerRecord, Commands
  <1>5. Set(i, r)
    BY <1>3
  <1> HIDE DEF r
  <1>6. Sound(r)
    BY <1>2, <1>4 DEF Sound
  <1> QED
    BY <1>1, <1>4, <1>5, <1>6, KeptStep, Zenon

\* handleConnect shows the connection and asks for the list of files; a list that
\* fails, and handleDisconnect, show that there is none.
LEMMA KeptResume ==
    ASSUME IInv, Kept, NEW i \in Handler, Resume(i)
    PROVE  Kept'
  <1>1. /\ TypeOK /\ h[i] \in HandlerRecord /\ Sound(h[i])
        /\ connected \in BOOLEAN
    BY TypeUnfold DEF IInv, Kept
  <1>2. h[i].at = "answered" /\ slot' = slot /\ h[i].client = None
    <2>1. h[i].at = "answered" /\ slot' = slot
      BY DEF Resume, handleConnect, handleDisconnect, handleSync, handleDownload, SyncCaught,
             Failed, Answered
    <2> QED
      BY <1>1, <2>1 DEF Sound
  <1>3. CASE handleConnect(i)
    <2>1. CASE connected' = TRUE /\ Await(i, "list") /\ h[i].kind = "connect"
      <3> DEFINE r == [h[i] EXCEPT !.cmd = "list", !.at = "called", !.res = "none"]
      <3>1. /\ r \in HandlerRecord /\ r.client = h[i].client /\ r.at = "called"
            /\ r.cmd = "list" /\ r.kind = h[i].kind
        BY <1>1, Zenon DEF HandlerRecord, Commands
      <3>2. Set(i, r)
        BY <2>1 DEF Await
      <3> HIDE DEF r
      <3>3. Sound(r) /\ InStore(r)
        BY <1>2, <2>1, <3>1 DEF Sound, InStore
      <3> QED
        BY <1>1, <3>1, <3>2, <3>3, KeptStep, Zenon
    <2>2. CASE connected' = (connected /\ h[i].res = "ok") /\ Done(i)
               /\ h[i].cmd \in {"connect", "list"}
      <3>1. Sound(Idle)
        BY DEF Sound, Idle
      <3>2. connected' => connected /\ ~InStore(h[i])
        BY <1>2, <2>2, Zenon DEF InStore
      <3> QED
        BY <1>1, <1>2, <2>2, <3>1, <3>2, IdleType, KeptStep, Zenon DEF Done
    <2> QED
      BY <1>3, <2>1, <2>2, Zenon DEF handleConnect, Answered
  <1>4. CASE handleDisconnect(i)
    <2>1. connected' = FALSE /\ Done(i)
      BY <1>4 DEF handleDisconnect
    <2>2. Sound(Idle)
      BY DEF Sound, Idle
    <2> QED
      BY <1>1, <2>1, <2>2, IdleType, KeptStep, Zenon DEF Done
  <1>5. ASSUME h[i].kind \in {"sync", "download"}
        PROVE  ~InStore(h[i])
    BY <1>1, <1>2, <1>5 DEF InStore, Sound
  <1>6. CASE handleSync(i)
    <2>1. h[i].kind = "sync" /\ connected' = connected
      BY <1>6 DEF handleSync, SyncCaught, Failed, Answered
    <2>2. ~InStore(h[i])
      BY <1>5, <2>1
    <2>3. \/ \E settled \in {Marked(i, "error"), Marked(i, "complete")} : NextPath(i, settled)
          \/ Await(i, "sync_file") \/ Done(i)
      BY <1>6, Zenon DEF handleSync, SyncCaught
    <2> QED
      BY <1>1, <1>2, <2>1, <2>2, <2>3, KeptNextPath, KeptOn DEF Commands
  <1>7. CASE handleDownload(i)
    <2>1. h[i].kind = "download" /\ connected' = connected
      BY <1>7 DEF handleDownload, Answered, ui
    <2>2. ~InStore(h[i])
      BY <1>5, <2>1
    <2>3. Await(i, "list") \/ Done(i)
      BY <1>7 DEF handleDownload
    <2> QED
      BY <1>1, <1>2, <2>1, <2>2, <2>3, KeptOn DEF Commands
  <1> QED
    BY <1>3, <1>4, <1>6, <1>7 DEF Resume

\* A window that shows a connection has a client for the next click, once nothing
\* is in progress, for any number of handlers in progress before (handleConnect,
\* handleDisconnect, Drop of ClientGuard).
THEOREM Usable == Spec => []ConnectedHasClient
  <1>1. Init => Kept
    <2>1. Sound(Idle)
      BY DEF Sound, Idle
    <2> QED
      BY <2>1 DEF Init, Kept
  <1>2. IInv /\ Kept /\ [Next]_vars => Kept'
    <2> SUFFICES ASSUME IInv, Kept, [Next]_vars PROVE Kept'
      OBVIOUS
    <2>1. CASE UNCHANGED vars
      BY <2>1, Zenon DEF vars, Kept
    <2>2. CASE Next
      BY <2>2, KeptClick, KeptCommand, KeptResume DEF Next
    <2> QED
      BY <2>1, <2>2
  <1>3. Kept => ConnectedHasClient
    BY DEF Kept, ConnectedHasClient, InStore
  <1> QED
    BY <1>1, <1>2, <1>3, Invariance, PTL DEF Spec
==============================================================================
