------------------------------- MODULE Desktop -------------------------------
(***************************************************************************)
(* The desktop application around one TcpClient: the event handlers of     *)
(* App.tsx, which await the commands of main.rs, and AppState.client, the  *)
(* slot from which a command takes the client (ClientGuard::take) and to   *)
(* which the guard returns it when the command ends.                       *)
(*                                                                         *)
(* Handlers run on one thread and yield only where they await; commands    *)
(* run on other threads, and the user clicks what is shown at any moment.  *)
(***************************************************************************)
EXTENDS Integers, FiniteSets

CONSTANTS
    MaxHandlers,    \* bound: event handlers in progress at once
    MaxConnects,    \* bound: connections made
    MaxJobs,        \* bound: transfer jobs listed
    MaxPaths        \* bound: paths handed to one handleSync

ASSUME DesktopAssumption ==
    MaxHandlers \in Nat /\ MaxConnects \in Nat /\ MaxJobs \in Nat /\ MaxPaths \in Nat

None == 0           \* no client: clients are numbered as they connect

VARIABLES
    slot,           \* AppState.client
    newest,         \* the client that connected last
    h,              \* the handlers: kind, command awaited and how far it is
    connected,      \* React state and syncingRef
    connecting,
    syncing,
    jobs,           \* transfers: the status of each job
    overlapped      \* history: a connection was made while a command had a client

vars == <<slot, newest, h, connected, connecting, syncing, jobs, overlapped>>
ui == <<connected, connecting, syncing, jobs>>

Commands == {"connect", "disconnect", "list", "negotiate", "sync_file", "download"}
Handler == 1 .. MaxHandlers
Clients == 1 .. MaxConnects
Jobs == 1 .. MaxJobs
Idle == [kind |-> "none", cmd |-> "none", at |-> "idle", client |-> None, res |-> "none",
         paths |-> 0, job |-> 0]

TypeOK ==
    /\ slot \in Clients \cup {None} /\ newest \in Clients \cup {None}
    /\ h \in [Handler ->
                [kind : {"none", "connect", "disconnect", "sync", "download"},
                 cmd : Commands \cup {"none"},
                 at : {"idle", "called", "busy", "answered"},
                 client : Clients \cup {None},
                 res : {"none", "ok", "unchanged", "err"},
                 paths : 0 .. MaxPaths,
                 job : 0 .. MaxJobs]]
    /\ {connected, connecting, syncing, overlapped} \subseteq BOOLEAN
    /\ jobs \in [Jobs -> {"none", "negotiating", "transferring", "complete", "error", "cleared"}]

Init ==
    /\ slot = None /\ newest = None
    /\ h = [i \in Handler |-> Idle]
    /\ connected = FALSE /\ connecting = FALSE /\ syncing = FALSE
    /\ jobs = [j \in Jobs |-> "none"]
    /\ overlapped = FALSE

Set(i, handler) == h' = [h EXCEPT ![i] = handler]
Await(i, cmd) == Set(i, [h[i] EXCEPT !.cmd = cmd, !.at = "called", !.res = "none"])
Done(i) == Set(i, Idle)
FirstIdle(i) == h[i].at = "idle" /\ \A k \in 1 .. i - 1 : h[k].at # "idle"
FirstFree == {j \in Jobs : jobs[j] = "none" /\ \A k \in 1 .. j - 1 : jobs[k] # "none"}
-----------------------------------------------------------------------------
(* The user clicks. *)

Begin(i, k, cmd) ==
    /\ FirstIdle(i)
    /\ Set(i, [h[i] EXCEPT !.kind = k, !.cmd = cmd, !.at = "called"])
    /\ UNCHANGED <<slot, newest, overlapped>>

\* Connect is shown while not connected, and disabled while connecting.
ClickConnect(i) ==
    /\ ~connected /\ ~connecting
    /\ Begin(i, "connect", "connect")
    /\ connecting' = TRUE
    /\ UNCHANGED <<connected, syncing, jobs>>

\* Disconnect is shown while connected, whatever is in progress.
ClickDisconnect(i) ==
    /\ connected
    /\ Begin(i, "disconnect", "disconnect")
    /\ UNCHANGED ui

ClickDownload(i) ==
    /\ connected
    /\ Begin(i, "download", "download")
    /\ UNCHANGED ui

\* handleSync with n paths; one sync at a time.
ClickSync(i) ==
    /\ connected /\ ~syncing /\ FirstIdle(i)
    /\ syncing' = TRUE
    /\ \E n \in 1 .. MaxPaths, j \in FirstFree :
         /\ Set(i, [h[i] EXCEPT !.kind = "sync", !.cmd = "negotiate", !.at = "called", !.paths = n - 1,
                    !.job = j])
         /\ jobs' = [jobs EXCEPT ![j] = "negotiating"]
    /\ UNCHANGED <<slot, newest, connected, connecting, overlapped>>
-----------------------------------------------------------------------------
(* The commands of main.rs. *)

\* Mutant: a client that is already there is kept.
ConnectKeepsOld(i) ==
    /\ h[i].at = "called" /\ h[i].cmd = "connect"
    /\ \/ /\ newest < MaxConnects
          /\ newest' = newest + 1
          /\ slot' = IF slot = None THEN newest + 1 ELSE slot
          /\ overlapped' = (overlapped \/ \E k \in Handler : h[k].client # None)
          /\ Set(i, [h[i] EXCEPT !.at = "answered", !.res = "ok"])
       \/ Set(i, [h[i] EXCEPT !.at = "answered", !.res = "err"]) /\ UNCHANGED <<slot, newest, overlapped>>
    /\ UNCHANGED ui

\* connect_to_server: the new client replaces the one in the slot, if any.
Connect(i) ==
    /\ h[i].at = "called" /\ h[i].cmd = "connect"
    /\ \/ /\ newest < MaxConnects
          /\ newest' = newest + 1 /\ slot' = newest + 1
          /\ overlapped' = (overlapped \/ \E k \in Handler : h[k].client # None)
          /\ Set(i, [h[i] EXCEPT !.at = "answered", !.res = "ok"])
       \/ Set(i, [h[i] EXCEPT !.at = "answered", !.res = "err"]) /\ UNCHANGED <<slot, newest, overlapped>>
    /\ UNCHANGED ui

\* Mutant: a command borrows the client and leaves it in the slot.
TakeShared(i) ==
    /\ h[i].at = "called" /\ h[i].cmd # "connect"
    /\ \/ slot # None /\ Set(i, [h[i] EXCEPT !.at = "busy", !.client = slot])
       \/ slot = None /\ Set(i, [h[i] EXCEPT !.at = "answered", !.res = "err"])
    /\ UNCHANGED <<slot, newest, overlapped, ui>>

\* ClientGuard::take, and the take of disconnect_from_server.
Take(i) ==
    /\ h[i].at = "called" /\ h[i].cmd # "connect"
    /\ \/ slot # None /\ Set(i, [h[i] EXCEPT !.at = "busy", !.client = slot])
       \/ slot = None /\ Set(i, [h[i] EXCEPT !.at = "answered", !.res = "err"])
    /\ slot' = None
    /\ UNCHANGED <<newest, overlapped, ui>>

\* How a command that got the client may end: a failed transfer is still an
\* answer, with success = false in it.
Results(cmd) ==
    CASE cmd = "negotiate" -> {"ok", "unchanged", "err"}
      [] cmd = "list" -> {"ok", "err"}
      [] OTHER -> {"ok"}

\* Mutant: the client is put back on success only.
FinishDropsOnError(i) ==
    /\ h[i].at = "busy"
    /\ \E r \in Results(h[i].cmd) :
         /\ Set(i, [h[i] EXCEPT !.at = "answered", !.client = None, !.res = r])
         /\ slot' = IF h[i].cmd = "disconnect" \/ r = "err" THEN slot ELSE h[i].client
    /\ UNCHANGED <<newest, overlapped, ui>>

\* The call on the client returns.  The guard puts the client back over whatever
\* the slot holds by now; disconnect closes it.
Finish(i) ==
    /\ h[i].at = "busy"
    /\ \E r \in Results(h[i].cmd) :
         /\ Set(i, [h[i] EXCEPT !.at = "answered", !.client = None, !.res = r])
         /\ slot' = IF h[i].cmd = "disconnect" THEN slot ELSE h[i].client
    /\ UNCHANGED <<newest, overlapped, ui>>
-----------------------------------------------------------------------------
(* The handlers go on when what they await has been answered. *)

Answered(i, k, cmd) ==
    /\ h[i].at = "answered" /\ h[i].kind = k /\ h[i].cmd = cmd
    /\ UNCHANGED <<slot, newest, overlapped>>

handleConnect(i) ==
    \/ /\ Answered(i, "connect", "connect") /\ h[i].res = "ok"
       /\ connected' = TRUE
       /\ Await(i, "list")
       /\ UNCHANGED <<connecting, syncing, jobs>>
    \/ /\ \/ Answered(i, "connect", "connect") /\ h[i].res = "err"
          \/ Answered(i, "connect", "list")
       /\ connected' = (connected /\ h[i].res = "ok")
       /\ connecting' = FALSE
       /\ Done(i)
       /\ UNCHANGED <<syncing, jobs>>

handleDisconnect(i) ==
    /\ Answered(i, "disconnect", "disconnect")
    /\ connected' = FALSE
    /\ jobs' = [j \in Jobs |-> IF jobs[j] = "none" THEN "none" ELSE "cleared"]
    /\ Done(i)
    /\ UNCHANGED <<connecting, syncing>>

\* A status update finds no job when the list was cleared meanwhile.
Marked(i, status) ==
    [jobs EXCEPT ![h[i].job] = IF @ = "cleared" THEN "cleared" ELSE status]

\* Mutant: the loop goes on for one path too many.
NextPathOneMore(i, settled) ==
    /\ \E j \in FirstFree :
         /\ jobs' = [settled EXCEPT ![j] = "negotiating"]
         /\ Set(i, [h[i] EXCEPT !.cmd = "negotiate", !.at = "called", !.res = "none", !.job = j,
                    !.paths = h[i].paths - 1])

\* The next path, or the list of files at the end.
NextPath(i, settled) ==
    \/ /\ h[i].paths > 0
       /\ \E j \in FirstFree :
            /\ jobs' = [settled EXCEPT ![j] = "negotiating"]
            /\ Set(i, [h[i] EXCEPT !.cmd = "negotiate", !.at = "called", !.res = "none", !.job = j,
                       !.paths = h[i].paths - 1])
    \/ /\ h[i].paths = 0 \/ FirstFree = {}
       /\ jobs' = settled
       /\ Set(i, [h[i] EXCEPT !.cmd = "list", !.at = "called", !.res = "none", !.job = 0, !.paths = 0])

Failed(i) == Answered(i, "sync", h[i].cmd) /\ h[i].cmd # "list" /\ h[i].res = "err"

\* Mutant: an exception of a path ends the loop, and its job stays as it is.
SyncUncaught(i) ==
    /\ Failed(i)
    /\ syncing' = FALSE
    /\ Done(i)
    /\ UNCHANGED <<connected, connecting, jobs>>

\* The catch of a path: its job ends as an error.
SyncCaught(i) ==
    /\ Failed(i)
    /\ NextPath(i, Marked(i, "error"))
    /\ UNCHANGED <<connected, connecting, syncing>>

handleSync(i) ==
    \/ SyncCaught(i)
    \/ /\ \/ Answered(i, "sync", "negotiate") /\ h[i].res = "unchanged"
          \/ Answered(i, "sync", "sync_file") /\ h[i].res = "ok"
       /\ NextPath(i, Marked(i, "complete"))
       /\ UNCHANGED <<connected, connecting, syncing>>
    \/ /\ Answered(i, "sync", "negotiate") /\ h[i].res = "ok"
       /\ jobs' = Marked(i, "transferring")
       /\ Await(i, "sync_file")
       /\ UNCHANGED <<connected, connecting, syncing>>
    \/ /\ Answered(i, "sync", "list")
       /\ syncing' = FALSE
       /\ Done(i)
       /\ UNCHANGED <<connected, connecting, jobs>>

\* handleDownload lists the files whatever came of the download.
handleDownload(i) ==
    \/ /\ Answered(i, "download", "download")
       /\ Await(i, "list")
       /\ UNCHANGED <<connected, connecting, syncing, jobs>>
    \/ /\ Answered(i, "download", "list")
       /\ Done(i)
       /\ UNCHANGED ui

Command(i) == Connect(i) \/ Take(i) \/ Finish(i)
Resume(i) == handleConnect(i) \/ handleDisconnect(i) \/ handleSync(i) \/ handleDownload(i)
Click(i) == ClickConnect(i) \/ ClickDisconnect(i) \/ ClickDownload(i) \/ ClickSync(i)

Next == \E i \in Handler : Click(i) \/ Command(i) \/ Resume(i)

Spec == Init /\ [][Next]_vars

\* Commands run and handlers resume.  That a call on the client returns (Finish)
\* is an assumption about TcpClient here; the user need not click.
Fairness == \A i \in Handler : WF_vars(Command(i)) /\ WF_vars(Resume(i))

FairSpec == Spec /\ Fairness
-----------------------------------------------------------------------------
\* Two commands never talk on one connection at a time, and the client in the
\* slot is in nobody's hands (ClientGuard::take and its Drop).
OneCallPerClient ==
    \A i \in Handler : h[i].client # None =>
        /\ slot # h[i].client
        /\ \A k \in Handler \ {i} : h[k].client # h[i].client

\* When nothing is in progress and the application shows that it is connected,
\* there is a client for the next command: no error path of a command, and no
\* disconnect at a bad moment, loses it (Drop of ClientGuard, handleConnect,
\* handleDisconnect).
ConnectedHasClient ==
    (connected /\ \A i \in Handler : h[i].at = "idle") => slot # None

\* The client in the slot is the one that connected last, unless a connection
\* was made while a command still had the client before: its guard then puts the
\* old client over the new one.
SlotIsNewest == slot # None /\ ~overlapped => slot = newest

\* Every job that handleSync lists comes to an end, whatever its commands answer
\* and whoever disconnects meanwhile.
JobsSettle ==
    \A j \in Jobs : jobs[j] \in {"negotiating", "transferring"} ~>
                    jobs[j] \in {"complete", "error", "cleared"}
==============================================================================
