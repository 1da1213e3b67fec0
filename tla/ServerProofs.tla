---------------------------- MODULE ServerProofs ----------------------------
(***************************************************************************)
(* For any number of clients, signals and descriptors: when main() returns *)
(* the listening socket is closed, every thread is joined, and no thread   *)
(* is inside shutdown(), however the calls of it overlapped.               *)
(***************************************************************************)
EXTENDS Server, TLAPS

ThreadStates == {"none", "run", "ending", "done", "joined"}

\* What the proof needs of the types.
Types ==
    /\ main \in MainPlaces
    /\ server_fd \in AnyFd /\ listener \in AnyFd
    /\ thread \in [Workers -> ThreadStates]
    /\ stack \in [Threads -> Seq(Calls)]

\* A call of shutdown() that is going to close a descriptor has that of the
\* listening socket, or the socket is closed already; past the close it is.
CallOK(call, socket) ==
    /\ call.at = "close" => call.fd = socket \/ socket = NoFd
    /\ call.at = "reset" => socket = NoFd

CallsOK == \A t \in Threads : \A k \in 1 .. Len(stack[t]) : CallOK(stack[t][k], listener)

\* As long as the socket is open, server_fd_ has its descriptor.
Known == listener # NoFd => server_fd = listener

\* Where the main thread is tells what has not yet happened, or has.
Progress ==
    /\ main \in {"start", "socket"} => listener = NoFd
    /\ main \in {"start", "socket", "bind", "epoll"} => \A w \in Workers : thread[w] = "none"
    /\ main \in {"join", "exited"} => listener = NoFd
    /\ main = "exited" => /\ stack[MainThread] = <<>>
                          /\ \A w \in Workers : thread[w] \in {"none", "joined"}

\* Only a thread that lives can be inside shutdown().
Inside == \A w \in Workers : stack[w] # <<>> => thread[w] \in {"run", "ending"}

IInv == Types /\ CallsOK /\ Known /\ Progress /\ Inside

\* A step that leaves the calls and server_fd_ alone, and opens no socket.
LEMMA CalmStep ==
    ASSUME IInv, Types', stack' = stack, server_fd' = server_fd, listener' \in {listener, NoFd}
    PROVE  CallsOK' /\ Known'
  BY DEF IInv, CallsOK, CallOK, Known

\* close() of any descriptor opens no socket.
LEMMA CloseListener ==
    ASSUME NEW d, Close(d), listener \in AnyFd
    PROVE  listener' \in {listener, NoFd} /\ listener' \in AnyFd /\ (d = listener => listener' = NoFd)
  BY DEF Close, AnyFd

\* The steps of the main thread.
LEMMA MainSteps ==
    ASSUME IInv, MainStep \/ EpollFails
    PROVE  IInv'
  <1> USE DEF At, MainPlaces, MainThread, Free, kernel
  <1>0. Types /\ Progress /\ Inside /\ Known
    BY DEF IInv
  <1>1. CASE Start
    <2>1. Types' /\ Progress' /\ Inside'
      BY <1>0, <1>1 DEF Start, Types, Progress, Inside
    <2> QED
      BY <1>1, <2>1, CalmStep DEF Start, IInv
  <1>2. CASE Socket
    <2>1. /\ main = "socket" /\ main' \in {"bind", "dtor"}
          /\ stack' = stack /\ thread' = thread /\ stack[0] = <<>>
          /\ server_fd' \in AnyFd /\ listener' \in AnyFd
          /\ listener' # NoFd => server_fd' = listener'
      BY <1>0, <1>2 DEF Socket, Types, Lowest, AnyFd, Progress
    <2>2. \A t \in Threads : stack[t] = <<>>
      BY <1>0, <2>1 DEF Progress, Inside, Threads
    <2>3. CallsOK'
      BY <2>1, <2>2 DEF CallsOK
    <2> QED
      BY <1>0, <2>1, <2>3 DEF IInv, Types, Known, Progress, Inside
  <1>3. CASE BindListen
    <2>1. Types' /\ Progress' /\ Inside'
      BY <1>0, <1>3 DEF BindListen, Types, Progress, Inside
    <2> QED
      BY <1>3, <2>1, CalmStep DEF BindListen, IInv
  <1>4. CASE EpollCreate
    <2>1. Types' /\ Progress' /\ Inside'
      BY <1>0, <1>4 DEF EpollCreate, Types, Progress, Inside
    <2> QED
      BY <1>4, <2>1, CalmStep DEF EpollCreate, IInv
  <1>5. CASE Loop
    <2>1. listener' \in {listener, NoFd} /\ listener' \in AnyFd
      BY <1>0, <1>5, CloseListener DEF Loop, Types
    <2>2. Types' /\ Progress' /\ Inside'
      BY <1>0, <1>5, <2>1 DEF Loop, Types, Progress, Inside
    <2> QED
      BY <1>5, <2>1, <2>2, CalmStep DEF Loop, IInv
  <1>6. CASE EpollWait
    <2>1. Types' /\ Progress' /\ Inside'
      BY <1>0, <1>6 DEF EpollWait, Types, Progress, Inside
    <2> QED
      BY <1>6, <2>1, CalmStep DEF EpollWait, IInv
  <1>7. CASE EpollFails
    <2>1. listener' \in {listener, NoFd} /\ listener' \in AnyFd
      BY <1>0, <1>7, CloseListener DEF EpollFails, Types
    <2>2. Types' /\ Progress' /\ Inside'
      BY <1>0, <1>7, <2>1 DEF EpollFails, Types, Progress, Inside
    <2> QED
      BY <1>7, <2>1, <2>2, CalmStep DEF EpollFails, IInv
  <1>8. CASE Accept
    <2>1. Types' /\ Progress' /\ Inside'
      BY <1>0, <1>8 DEF Accept, Types, Progress, Inside
    <2> QED
      BY <1>8, <2>1, CalmStep DEF Accept, IInv
  <1>9. CASE Spawn
    <2>1. thread' \in [Workers -> ThreadStates]
      BY <1>0, <1>9 DEF Spawn, Types, ThreadStates
    <2>2. \A w \in Workers : thread'[w] \in {thread[w], "run"}
      BY <1>0, <1>9 DEF Spawn, Types
    <2>3. Types' /\ Progress' /\ Inside'
      BY <1>0, <1>9, <2>1, <2>2 DEF Spawn, Types, Progress, Inside
    <2> QED
      BY <1>9, <2>3, CalmStep DEF Spawn, IInv
  <1>10. CASE Destroy
    <2> DEFINE call == [at |-> "test", fd |-> NoFd]
    <2>1. call \in Calls /\ call.at = "test"
      BY DEF Calls, AnyFd
    <2>2. <<call>> \in Seq(Calls) /\ Len(<<call>>) = 1 /\ <<call>>[1] = call
      BY <2>1
    <2> HIDE DEF call
    <2>3. stack' = [stack EXCEPT ![0] = <<call>>]
      BY <1>10 DEF Destroy, call
    <2>4. /\ stack' \in [Threads -> Seq(Calls)]
          /\ stack'[0] = <<call>>
          /\ \A t \in Threads \ {0} : stack'[t] = stack[t]
      BY <1>0, <2>2, <2>3 DEF Types, Threads
    <2>5. 0 \notin Workers
      BY ServerAssumption DEF Workers
    <2>6. listener' = listener /\ server_fd' = server_fd /\ thread' = thread
          /\ main' = "shut" /\ main = "dtor"
      BY <1>10 DEF Destroy
    <2>7. CallsOK'
      <3> SUFFICES ASSUME NEW t \in Threads, NEW k \in 1 .. Len(stack'[t])
                   PROVE  CallOK(stack'[t][k], listener')
        BY DEF CallsOK
      <3>1. CASE t = 0
        <4>1. stack'[t][k] = call
          BY <2>2, <2>4, <3>1
        <4> QED
          BY <2>1, <4>1 DEF CallOK
      <3>2. CASE t # 0
        BY <2>4, <2>6, <3>2 DEF IInv, CallsOK, CallOK
      <3> QED
        BY <3>1, <3>2
    <2>8. Inside'
      BY <1>0, <2>4, <2>5, <2>6, Zenon DEF Inside, Threads
    <2> QED
      BY <1>0, <2>4, <2>6, <2>7, <2>8 DEF IInv, Types, Known, Progress
  <1>11. CASE CloseRest
    <2>1. listener' = NoFd
      BY <1>0, <1>11, CloseListener DEF CloseRest, Types, Known
    <2>2. Types' /\ Progress' /\ Inside'
      BY <1>0, <1>11, <2>1 DEF CloseRest, Types, Progress, Inside, AnyFd
    <2> QED
      BY <1>11, <2>1, <2>2, CalmStep DEF CloseRest, IInv
  <1>12. CASE Join
    <2>1. PICK w \in Workers : thread[w] = "done" /\ thread' = [thread EXCEPT ![w] = "joined"]
      BY <1>12, Zenon DEF Join
    <2>2. /\ thread' \in [Workers -> ThreadStates]
          /\ thread'[w] = "joined"
          /\ \A v \in Workers \ {w} : thread'[v] = thread[v]
      BY <1>0, <2>1 DEF Types, ThreadStates
    <2>3. Inside'
      BY <1>0, <1>12, <2>1, <2>2 DEF Join, Inside
    <2>4. Types' /\ Progress'
      BY <1>0, <1>12, <2>2 DEF Join, Types, Progress
    <2> QED
      BY <1>12, <2>3, <2>4, CalmStep DEF Join, IInv
  <1>13. CASE Exit
    <2>1. Types' /\ Progress' /\ Inside'
      BY <1>0, <1>13 DEF Exit, Types, Progress, Inside
    <2> QED
      BY <1>13, <2>1, CalmStep DEF Exit, IInv
  <1> QED
    BY <1>1, <1>2, <1>3, <1>4, <1>5, <1>6, <1>7, <1>8, <1>9, <1>10, <1>11, <1>12, <1>13
       DEF MainStep

\* A step inside shutdown(), or into it: the calls of one thread change, to a
\* sequence of calls that are all right, and nothing else but perhaps the two
\* variables for the socket.
LEMMA CallStep ==
    ASSUME IInv, NEW t \in Threads, NEW s \in Seq(Calls), stack' = [stack EXCEPT ![t] = s],
           UNCHANGED <<main, thread>>,
           t = MainThread => main # "exited",
           t # MainThread => thread[t] \in {"run", "ending"},
           server_fd' \in AnyFd, listener' \in {listener, NoFd},
           Known',
           \A k \in 1 .. Len(s) : CallOK(s[k], listener')
    PROVE  IInv'
  <1>1. /\ stack' \in [Threads -> Seq(Calls)]
        /\ stack'[t] = s
        /\ \A u \in Threads \ {t} : stack'[u] = stack[u]
    BY DEF IInv, Types
  <1>2. CallsOK'
    <2> SUFFICES ASSUME NEW u \in Threads, NEW k \in 1 .. Len(stack'[u])
                 PROVE  CallOK(stack'[u][k], listener')
      BY DEF CallsOK
    <2>1. CASE u = t
      BY <1>1, <2>1 DEF CallOK
    <2>2. CASE u # t
      BY <1>1, <2>2 DEF IInv, CallsOK, CallOK
    <2> QED
      BY <2>1, <2>2
  <1>3. Types'
    BY <1>1 DEF IInv, Types, AnyFd
  <1>4. Inside'
    <2> SUFFICES ASSUME NEW w \in Workers, stack'[w] # <<>>
                 PROVE  thread'[w] \in {"run", "ending"}
      BY DEF Inside
    <2>1. w # MainThread /\ w \in Threads
      BY ServerAssumption DEF Workers, MainThread, Threads
    <2> QED
      BY <1>1, <2>1 DEF IInv, Inside
  <1>5. Progress'
    BY <1>1 DEF IInv, Progress, MainThread, Threads
  <1> QED
    BY <1>2, <1>3, <1>4, <1>5 DEF IInv

\* signal_handler: one more call of shutdown() on its thread.
LEMMA SignalStep ==
    ASSUME IInv, NEW t \in Threads, Signal(t)
    PROVE  IInv'
  <1> DEFINE call == [at |-> "test", fd |-> NoFd]
             s == Append(stack[t], call)
  <1>1. call \in Calls /\ call.at = "test"
    BY DEF Calls, AnyFd
  <1>2. stack[t] \in Seq(Calls)
    BY DEF IInv, Types
  <1> HIDE DEF call
  <1>3. /\ s \in Seq(Calls) /\ Len(s) = Len(stack[t]) + 1 /\ s[Len(s)] = call
        /\ \A k \in 1 .. Len(stack[t]) : s[k] = stack[t][k]
    BY <1>1, <1>2
  <1>4. stack' = [stack EXCEPT ![t] = s]
    BY DEF Signal, call
  <1> HIDE DEF s
  <1>5. /\ UNCHANGED <<main, thread, server_fd, listener>>
        /\ t = MainThread => main # "exited"
        /\ t # MainThread => thread[t] \in {"run", "ending"}
    BY DEF Signal, kernel, Alive
  <1>6. \A k \in 1 .. Len(s) : CallOK(s[k], listener')
    <2> SUFFICES ASSUME NEW k \in 1 .. Len(s) PROVE CallOK(s[k], listener')
      OBVIOUS
    <2>1. CASE k = Len(s)
      <3>1. s[k].at = "test"
        BY <1>1, <1>3, <2>1
      <3> QED
        BY <1>5, <1>4, <3>1 DEF CallOK
    <2>2. CASE k # Len(s)
      <3>1. k \in 1 .. Len(stack[t]) /\ s[k] = stack[t][k]
        BY <1>2, <1>3, <2>2
      <3>2. CallOK(s[k], listener)
        BY <3>1 DEF IInv, CallsOK
      <3> QED
        BY <1>5, <3>2 DEF CallOK
    <2> QED
      BY <2>1, <2>2
  <1>7. Known' /\ server_fd' \in AnyFd
    BY <1>5 DEF IInv, Known, Types
  <1> QED
    BY <1>3, <1>4, <1>5, <1>6, <1>7, CallStep, Zenon

\* shutdown(): the innermost call of a thread tests, closes, resets or returns.
LEMMA ShutdownStep ==
    ASSUME IInv, NEW t \in Threads, Shutdown(t)
    PROVE  IInv'
  <1> DEFINE old == stack[t]
  <1>1. /\ old \in Seq(Calls) /\ old # <<>>
        /\ UNCHANGED <<main, thread>>
    BY DEF IInv, Types, Shutdown, ShutdownTest, ShutdownClose, ShutdownReset, InCall, process
  <1>2. /\ t = MainThread => main # "exited"
        /\ t # MainThread => thread[t] \in {"run", "ending"}
    BY <1>1 DEF IInv, Progress, Inside, Threads
  <1>3. Len(old) \in Nat /\ Len(old) > 0 /\ \A k \in 1 .. Len(old) : old[k] \in Calls
    BY <1>1
  <1>4. \A k \in 1 .. Len(old) : CallOK(old[k], listener)
    BY DEF IInv, CallsOK
  <1>5. Types /\ Known
    BY DEF IInv
  <1>6. ASSUME Return(t), listener' \in {listener, NoFd}, Known', server_fd' \in AnyFd
        PROVE  IInv'
    <2> DEFINE s == SubSeq(old, 1, Len(old) - 1)
    <2>1. /\ s \in Seq(Calls) /\ Len(s) = Len(old) - 1
          /\ \A k \in 1 .. Len(s) : s[k] = old[k]
      BY <1>1, <1>3
    <2>2. stack' = [stack EXCEPT ![t] = s]
      BY <1>6 DEF Return
    <2> HIDE DEF s
    <2>3. \A k \in 1 .. Len(s) : CallOK(s[k], listener')
      <3> SUFFICES ASSUME NEW k \in 1 .. Len(s) PROVE CallOK(s[k], listener')
        OBVIOUS
      <3>1. CallOK(s[k], listener)
        BY <1>3, <1>4, <2>1
      <3> QED
        BY <1>6, <3>1 DEF CallOK
    <2> QED
      BY <1>1, <1>2, <1>6, <2>1, <2>2, <2>3, CallStep, Zenon
  <1>7. ASSUME NEW place \in {"close", "reset"}, NEW d \in AnyFd, GoOn(t, place, d),
               listener' \in {listener, NoFd}, Known', server_fd' \in AnyFd,
               place = "close" => d = listener' \/ listener' = NoFd,
               place = "reset" => listener' = NoFd
        PROVE  IInv'
    <2> DEFINE call == [at |-> place, fd |-> d]
               s == [old EXCEPT ![Len(old)] = call]
    <2>1. call \in Calls /\ call.at = place /\ call.fd = d
      BY <1>7 DEF Calls
    <2> HIDE DEF call
    <2>2. /\ s \in Seq(Calls) /\ Len(s) = Len(old) /\ s[Len(old)] = call
          /\ \A k \in 1 .. Len(old) - 1 : s[k] = old[k]
      BY <1>1, <1>3, <2>1
    <2>3. stack' = [stack EXCEPT ![t] = s]
      BY <1>7 DEF GoOn, call
    <2> HIDE DEF s
    <2>4. \A k \in 1 .. Len(s) : CallOK(s[k], listener')
      <3> SUFFICES ASSUME NEW k \in 1 .. Len(s) PROVE CallOK(s[k], listener')
        OBVIOUS
      <3>1. CASE k = Len(old)
        BY <1>7, <2>1, <2>2, <3>1 DEF CallOK
      <3>2. CASE k # Len(old)
        <4>1. CallOK(s[k], listener)
          BY <1>3, <1>4, <2>2, <3>2
        <4> QED
          BY <1>7, <4>1 DEF CallOK
      <3> QED
        BY <3>1, <3>2
    <2> QED
      BY <1>1, <1>2, <1>7, <2>2, <2>3, <2>4, CallStep, Zenon
  <1>8. CASE ShutdownTest(t)
    <2>1. UNCHANGED <<server_fd, listener>> /\ Known' /\ server_fd' \in AnyFd
      BY <1>5, <1>8 DEF ShutdownTest, kernel, Known, Types
    <2>2. CASE Return(t)
      BY <1>6, <2>1, <2>2
    <2>3. CASE GoOn(t, "close", server_fd)
      BY <1>5, <1>7, <2>1, <2>3 DEF Known, Types
    <2> QED
      BY <1>8, <2>2, <2>3 DEF ShutdownTest
  <1>9. CASE ShutdownClose(t)
    <2>1. PICK d \in {Top(t).fd, server_fd} : Close(d)
      BY <1>9 DEF ShutdownClose
    <2>2. Top(t) = old[Len(old)] /\ Top(t).at = "close"
      BY <1>9 DEF ShutdownClose, InCall, Top
    <2>3. Top(t).fd = listener \/ listener = NoFd
      BY <1>3, <1>4, <2>2 DEF CallOK
    <2>4. listener' = NoFd
      BY <1>5, <2>1, <2>3, CloseListener DEF Known, Types
    <2>5. server_fd' = server_fd /\ GoOn(t, "reset", NoFd)
      BY <1>9 DEF ShutdownClose
    <2>6. Known' /\ server_fd' \in AnyFd /\ NoFd \in AnyFd
      BY <1>5, <2>4, <2>5 DEF Known, Types, AnyFd
    <2> QED
      BY <1>7, <2>4, <2>5, <2>6
  <1>10. CASE ShutdownReset(t)
    <2>1. Top(t) = old[Len(old)] /\ Top(t).at = "reset"
      BY <1>10 DEF ShutdownReset, InCall, Top
    <2>2. listener = NoFd
      BY <1>3, <1>4, <2>1 DEF CallOK
    <2>3. listener' = listener /\ server_fd' = NoFd /\ Return(t)
      BY <1>10 DEF ShutdownReset, kernel
    <2> QED
      BY <1>6, <2>2, <2>3 DEF Known, AnyFd
  <1> QED
    BY <1>8, <1>9, <1>10 DEF Shutdown

\* The steps of a worker thread and its client.
LEMMA WorkerSteps ==
    ASSUME IInv, NEW w \in Workers,
           WorkerStep(w) \/ OpenFile(w) \/ ClientLeaves(w) \/ Killed(w)
    PROVE  IInv'
  <1>1. Types /\ Progress /\ Inside
    BY DEF IInv
  <1>2. stack' = stack /\ server_fd' = server_fd
    BY DEF WorkerStep, CloseFile, SessionEnds, ThreadEnds, OpenFile, ClientLeaves, Killed
  <1>3. listener' \in {listener, NoFd} /\ listener' \in AnyFd
    BY <1>1, CloseListener, SMTT(30) DEF Types, WorkerStep, CloseFile, SessionEnds, ThreadEnds, OpenFile,
       ClientLeaves, Killed, kernel
  <1>4. CASE thread' = thread /\ main' = main
    <2>1. Types' /\ Progress' /\ Inside'
      BY <1>1, <1>2, <1>3, <1>4 DEF Types, Progress, Inside
    <2> QED
      BY <1>2, <1>3, <2>1, CalmStep DEF IInv
  <1>5. CASE Killed(w)
    <2>1. Types' /\ Progress' /\ Inside'
      BY <1>1, <1>2, <1>3, <1>5 DEF Killed, Types, Progress, Inside, MainPlaces
    <2> QED
      BY <1>2, <1>3, <2>1, CalmStep DEF IInv
  <1>6. CASE SessionEnds(w) \/ ThreadEnds(w)
    <2>1. /\ thread[w] \in {"run", "ending"} /\ main' = main
          /\ \/ thread' = [thread EXCEPT ![w] = "ending"]
             \/ stack[w] = <<>> /\ thread' = [thread EXCEPT ![w] = "done"]
      <3>1. CASE SessionEnds(w)
        BY <3>1 DEF SessionEnds
      <3>2. CASE ThreadEnds(w)
        BY <3>2 DEF ThreadEnds, Free
      <3> QED
        BY <1>6, <3>1, <3>2, SMTT(30)
    <2>2. /\ thread' \in [Workers -> ThreadStates]
          /\ thread'[w] = "ending" \/ stack[w] = <<>>
          /\ \A v \in Workers \ {w} : thread'[v] = thread[v]
      BY <1>1, <2>1 DEF Types, ThreadStates
    <2>3. main \notin {"start", "socket", "bind", "epoll", "exited"}
      BY <1>1, <2>1 DEF Progress
    <2>4. Types' /\ Progress' /\ Inside'
      BY <1>1, <1>2, <1>3, <2>1, <2>2, <2>3 DEF Types, Progress, Inside
    <2> QED
      BY <1>2, <1>3, <2>4, CalmStep DEF IInv
  <1> QED
    BY <1>4, <1>5, <1>6 DEF WorkerStep, CloseFile, OpenFile, ClientLeaves, process

\* IInv is an invariant of the process.
THEOREM Invariance == Spec => []IInv
  <1>1. Init => IInv
    <2> SUFFICES ASSUME Init PROVE IInv
      OBVIOUS
    <2>1. Types
      BY DEF Init, Types, MainPlaces, AnyFd, ThreadStates
    <2>2. \A t \in Threads : stack[t] = <<>>
      BY DEF Init
    <2>3. CallsOK
      BY <2>2 DEF CallsOK
    <2> QED
      BY <2>1, <2>2, <2>3 DEF Init, IInv, Known, Progress, Inside, Threads
  <1>2. IInv /\ [Next]_vars => IInv'
    <2> SUFFICES ASSUME IInv, [Next]_vars PROVE IInv'
      OBVIOUS
    <2>1. CASE UNCHANGED vars
      BY <2>1 DEF vars, IInv, Types, CallsOK, CallOK, Known, Progress, Inside
    <2>2. CASE Next
      BY <2>2, MainSteps, SignalStep, ShutdownStep, WorkerSteps DEF Next
    <2> QED
      BY <2>1, <2>2
  <1> QED
    BY <1>1, <1>2, PTL DEF Spec

\* main() leaves nothing behind that uses the destroyed server: the listening
\* socket is closed, the threads are joined, no shutdown() is in progress
\* (~AdaptiveSyncServer, shutdown, signal_handler).
THEOREM ExitIsClean == Spec => []CleanExit
  <1>1. IInv => CleanExit
    <2> SUFFICES ASSUME IInv, main = "exited"
                 PROVE  /\ listener = NoFd
                        /\ \A w \in Workers : thread[w] \in {"none", "joined"}
                        /\ \A t \in Threads : stack[t] = <<>>
      BY DEF CleanExit
    <2> QED
      BY DEF IInv, Progress, Inside, Threads
  <1> QED
    BY <1>1, Invariance, PTL
-----------------------------------------------------------------------------
(* The counters of the connections. *)

\* The other variables have their types, which the indices into conn_ and
\* worker_threads_ keep within the connections that were accepted.
Rest ==
    /\ running \in BOOLEAN
    /\ epoll_fd \in AnyFd
    /\ total \in 0 .. MaxClients
    /\ signals \in 0 .. MaxSignals
    /\ open \subseteq Fds
    /\ conn \in [Workers -> AnyFd] /\ file \in [Workers -> AnyFd]
    /\ gone \subseteq Workers

\* Threads are started in the order of the connections, one for each of them
\* but the newest, whose thread run_epoll() is about to start or failed to
\* start, after which it accepts no more.
Accepting == {"start", "socket", "bind", "epoll", "loop", "wait", "event"}

Startup ==
    /\ \A w \in Workers : w > total => thread[w] = "none"
    /\ \A w \in Workers : w < total => thread[w] # "none"
    /\ main = "event" => total < MaxClients
    /\ main = "spawn" => total > 0 /\ thread[total] = "none"
    /\ main \in Accepting => total = 0 \/ thread[total] # "none"

Counting == Rest /\ Startup /\ CountersExact

Running == {w \in Workers : thread[w] = "run"}
Started == {w \in Workers : thread[w] # "none"}

\* One more, or one less, of the workers.
Counted(S) ==
    /\ Cardinality(S) \in Nat
    /\ S = {} => Cardinality(S) = 0
    /\ \A w \in Workers \ S : Cardinality(S \cup {w}) = Cardinality(S) + 1
    /\ \A w \in S : Cardinality(S \ {w}) = Cardinality(S) - 1

\* It is proved at the end that this is so.
AllCounted == \A S \in SUBSET Workers : Counted(S)

LEMMA CountWorkers ==
    ASSUME AllCounted, NEW S \in SUBSET Workers
    PROVE  /\ Cardinality(S) \in Nat
           /\ S = {} => Cardinality(S) = 0
           /\ \A w \in Workers \ S : Cardinality(S \cup {w}) = Cardinality(S) + 1
           /\ \A w \in S : Cardinality(S \ {w}) = Cardinality(S) - 1
  BY Zenon DEF AllCounted, Counted

\* A step that starts no thread, ends no session and accepts no connection.
LEMMA SameCounts ==
    ASSUME Counting, Rest', Startup', total' = total, active' = active,
           \A w \in Workers : /\ thread'[w] = "run" <=> thread[w] = "run"
                              /\ thread'[w] = "none" <=> thread[w] = "none"
    PROVE  Counting'
  <1>1. Running' = Running /\ Started' = Started
    BY DEF Running, Started
  <1>2. total \in 0 .. MaxClients
    BY DEF Counting, Rest
  <1>3. total > 0 => (thread'[total] = "none" <=> thread[total] = "none")
    BY <1>2, ServerAssumption DEF Workers
  <1> QED
    BY <1>1, <1>2, <1>3 DEF Counting, CountersExact, Running, Started

\* The steps of the main thread that neither accept a connection nor start a
\* thread.
LEMMA CountingMain ==
    ASSUME IInv, IInv', Counting, MainStep \/ EpollFails, ~Accept, ~Spawn
    PROVE  Counting'
  <1>1. Types /\ Rest /\ Startup /\ Progress
    BY DEF IInv, Counting
  <1>2. total' = total /\ active' = active
    BY DEF MainStep, Start, Socket, BindListen, EpollCreate, Loop, EpollWait, Destroy, CloseRest,
           Join, Exit, EpollFails
  <1>3. Rest'
    <2>1. UNCHANGED <<total, signals, conn, file, gone>>
      BY DEF MainStep, Start, Socket, BindListen, EpollCreate, Loop, EpollWait, Destroy, CloseRest,
             Join, Exit, EpollFails, kernel
    <2>2. running' \in BOOLEAN
      BY <1>1, Zenon DEF Rest, MainStep, Start, Socket, BindListen, EpollCreate, Loop, EpollWait,
             Destroy, CloseRest, Join, Exit, EpollFails
    <2>3. epoll_fd' \in AnyFd
      BY <1>1 DEF Rest, AnyFd, Lowest, MainStep, Start, Socket, BindListen, EpollCreate, Loop,
             EpollWait, Destroy, CloseRest, Join, Exit, EpollFails, kernel
    <2>4. open' \subseteq Fds
      BY <1>1 DEF Rest, Lowest, MainStep, Start, Socket, BindListen, EpollCreate, Loop,
             EpollWait, Destroy, CloseRest, Join, Exit, EpollFails, kernel, Close
    <2> QED
      BY <1>1, <2>1, <2>2, <2>3, <2>4 DEF Rest
  <1>4. CASE Join
    <2>1. PICK w \in Workers : thread[w] = "done" /\ thread' = [thread EXCEPT ![w] = "joined"]
      BY <1>4, Zenon DEF Join
    <2>2. \A v \in Workers : /\ thread'[v] = "run" <=> thread[v] = "run"
                             /\ thread'[v] = "none" <=> thread[v] = "none"
      BY <1>1, <2>1 DEF Types
    <2>3. main' = "join"
      BY <1>4 DEF Join, At
    <2>4. Startup'
      BY <1>1, <1>2, <2>2, <2>3 DEF Startup, Accepting
    <2> QED
      BY <1>2, <1>3, <2>2, <2>4, SameCounts
  <1>5. CASE ~Join
    <2>1. thread' = thread
      BY <1>5 DEF MainStep, Start, Socket, BindListen, EpollCreate, Loop, EpollWait, Destroy,
             CloseRest, Exit, EpollFails
    <2>2. /\ main' = "event" => total < MaxClients
          /\ main' # "spawn"
          /\ main' \in Accepting => main \in Accepting
      BY <1>5 DEF MainStep, Start, Socket, BindListen, EpollCreate, Loop, EpollWait, Destroy,
             CloseRest, Exit, EpollFails, At, Accepting
    <2>3. Startup'
      BY <1>1, <1>2, <2>1, <2>2 DEF Startup
    <2> QED
      BY <1>2, <1>3, <2>1, <2>3, SameCounts
  <1> QED
    BY <1>4, <1>5

\* total_connections_++ and active_connections_++, for a connection that has no
\* thread yet.
LEMMA CountingAccept ==
    ASSUME AllCounted, IInv, IInv', Counting, Accept
    PROVE  Counting'
  <1>1. Types /\ Rest /\ Startup /\ CountersExact /\ main = "event"
    BY DEF IInv, Counting, Accept, At
  <1>2. thread' = thread /\ UNCHANGED <<running, signals, epoll_fd, file, gone>>
    BY DEF Accept
  <1>3. CASE At("event", "loop") /\ UNCHANGED <<total, active, conn, open>>
    <2>1. Rest' /\ Startup'
      BY <1>1, <1>2, <1>3 DEF Rest, Startup, At, Accepting
    <2> QED
      BY <1>2, <1>3, <2>1, SameCounts
  <1>4. CASE /\ At("event", "spawn")
             /\ total' = total + 1 /\ active' = active + 1
             /\ \E d \in Lowest : conn' = [conn EXCEPT ![total + 1] = d] /\ open' = open \cup {d}
    <2>1. total \in Nat /\ total < MaxClients /\ MaxClients \in Nat
      BY <1>1, ServerAssumption DEF Rest, Startup
    <2>2. total + 1 \in Workers /\ thread[total + 1] = "none"
      BY <1>1, <2>1 DEF Workers, Startup
    <2>3. conn' \in [Workers -> AnyFd] /\ open' \subseteq Fds
      BY <1>1, <1>4, Zenon DEF Rest, Lowest, AnyFd
    <2>4. Rest'
      BY <1>1, <1>2, <1>4, <2>1, <2>3 DEF Rest
    <2>5. \A w \in Workers : w <= total => thread[w] # "none"
      BY <1>1, <2>1 DEF Startup, Workers, Accepting
    <2>6. main' = "spawn"
      BY <1>4 DEF At
    <2>7. Startup'
      <3>1. \A w \in Workers : w > total + 1 => thread[w] = "none"
        BY <1>1, <2>1 DEF Startup, Workers
      <3>2. \A w \in Workers : w < total + 1 => thread[w] # "none"
        BY <2>1, <2>5 DEF Workers
      <3> QED
        BY <1>2, <1>4, <2>1, <2>2, <2>6, <3>1, <3>2 DEF Startup, Accepting
    <2>8. /\ active = Cardinality(Running) /\ total = Cardinality(Started)
          /\ Cardinality(Running) \in Nat
      <3>1. ~(total > 0 /\ thread[total] = "none")
        BY <2>1, <2>5 DEF Workers
      <3>2. Running \in SUBSET Workers /\ Started \in SUBSET Workers
        BY DEF Running, Started
      <3>3. Cardinality(Running) \in Nat /\ Cardinality(Started) \in Nat
        BY <3>2, CountWorkers
      <3> QED
        BY <1>1, <3>1, <3>3 DEF CountersExact, Running, Started
    <2>9. Running' = Running /\ Started' = Started
      BY <1>2 DEF Running, Started
    <2>10. CountersExact'
      <3>1. total' > 0 /\ thread'[total'] = "none"
        BY <1>2, <1>4, <2>1, <2>2
      <3> QED
        BY <1>4, <2>8, <2>9, <3>1, Zenon DEF CountersExact, Running, Started
    <2> QED
      BY <2>4, <2>7, <2>10 DEF Counting
  <1> QED
    BY <1>3, <1>4 DEF Accept

\* worker_threads_.emplace_back: the newest connection has its thread, or the
\* main thread leaves run_epoll().
LEMMA CountingSpawn ==
    ASSUME AllCounted, IInv, IInv', Counting, Spawn
    PROVE  Counting'
  <1>1. Types /\ Rest /\ Startup /\ CountersExact /\ main = "spawn"
    BY DEF IInv, Counting, Spawn, At
  <1>2. UNCHANGED <<running, total, active, signals, open, epoll_fd, conn, file, gone>>
    BY DEF Spawn, kernel
  <1>3. Rest'
    BY <1>1, <1>2 DEF Rest
  <1>4. total \in Nat /\ total \in Workers /\ thread[total] = "none"
    BY <1>1, ServerAssumption DEF Rest, Startup, Workers
  <1>5. CASE At("spawn", "dtor") /\ UNCHANGED thread
    <2>1. Startup'
      BY <1>1, <1>2, <1>5 DEF Startup, At, Accepting
    <2> QED
      BY <1>2, <1>3, <1>5, <2>1, SameCounts
  <1>6. CASE At("spawn", "loop") /\ thread' = [thread EXCEPT ![total] = "run"]
    <2>1. /\ thread'[total] = "run"
          /\ \A w \in Workers \ {total} : thread'[w] = thread[w]
      BY <1>1, <1>4, <1>6 DEF Types
    <2>2. Startup'
      <3>1. \A w \in Workers : w > total => thread'[w] = "none"
        BY <1>1, <1>4, <2>1 DEF Startup, Workers
      <3>2. \A w \in Workers : w < total => thread'[w] # "none"
        BY <1>1, <1>4, <2>1 DEF Startup, Workers
      <3> QED
        BY <1>2, <1>6, <2>1, <3>1, <3>2 DEF Startup, At, Accepting
    <2>3. Running' = Running \cup {total} /\ Started' = Started \cup {total}
      BY <1>4, <2>1, Zenon DEF Running, Started
    <2>4. total \notin Running /\ total \notin Started
      BY <1>4 DEF Running, Started
    <2>5. Running \in SUBSET Workers /\ Started \in SUBSET Workers
      BY DEF Running, Started
    <2>6. /\ Cardinality(Running') = Cardinality(Running) + 1
          /\ Cardinality(Started') = Cardinality(Started) + 1
          /\ Cardinality(Running) \in Nat /\ Cardinality(Started) \in Nat
      BY <1>4, <2>3, <2>4, <2>5, CountWorkers
    <2>7. active = Cardinality(Running) + 1 /\ total = Cardinality(Started) + 1
      BY <1>1, <1>4 DEF CountersExact, Running, Started, Startup
    <2>8. CountersExact'
      <3>1. ~(total' > 0 /\ thread'[total'] = "none")
        BY <1>2, <2>1
      <3> QED
        BY <1>2, <2>6, <2>7, <3>1 DEF CountersExact, Running, Started
    <2> QED
      BY <1>3, <2>2, <2>8 DEF Counting
  <1> QED
    BY <1>5, <1>6 DEF Spawn

\* A worker thread: active_connections_-- when its session is over.
LEMMA CountingWorker ==
    ASSUME AllCounted, IInv, IInv', Counting, NEW w \in Workers,
           WorkerStep(w) \/ OpenFile(w) \/ ClientLeaves(w) \/ Killed(w)
    PROVE  Counting'
  <1>1. Types /\ Rest /\ Startup /\ CountersExact
    BY DEF IInv, Counting
  <1>2. UNCHANGED <<running, total, signals, epoll_fd>>
    BY DEF WorkerStep, CloseFile, SessionEnds, ThreadEnds, OpenFile, ClientLeaves, Killed, process,
           kernel
  <1>3. Rest'
    <2>1. conn' \in [Workers -> AnyFd] /\ file' \in [Workers -> AnyFd]
      BY <1>1, ZenonT(30) DEF Rest, AnyFd, Lowest, WorkerStep, CloseFile, SessionEnds, ThreadEnds, OpenFile,
             ClientLeaves, Killed, kernel
    <2>2. open' \subseteq Fds /\ gone' \subseteq Workers
      BY <1>1 DEF Rest, Lowest, Close, WorkerStep, CloseFile, SessionEnds, ThreadEnds, OpenFile,
             ClientLeaves, Killed, kernel, process
    <2> QED
      BY <1>1, <1>2, <2>1, <2>2 DEF Rest
  <1>4. main' = main \/ main' = "killed"
    BY DEF WorkerStep, CloseFile, SessionEnds, ThreadEnds, OpenFile, ClientLeaves, Killed, process
  <1>5. \A v \in Workers : thread'[v] = "none" <=> thread[v] = "none"
    BY <1>1 DEF Types, WorkerStep, CloseFile, SessionEnds, ThreadEnds, OpenFile, ClientLeaves,
           Killed, process
  <1>6. Startup'
    <2>1. total > 0 => total \in Workers
      BY <1>1, ServerAssumption DEF Rest, Workers
    <2>2. total = 0 \/ total > 0
      BY <1>1 DEF Rest
    <2> QED
      BY <1>1, <1>2, <1>4, <1>5, <2>1, <2>2 DEF Startup, Accepting
  <1>7. CASE SessionEnds(w)
    <2>1. /\ thread[w] = "run" /\ thread'[w] = "ending" /\ active' = active - 1
          /\ \A v \in Workers \ {w} : thread'[v] = thread[v]
      BY <1>1, <1>7, Zenon DEF SessionEnds, Types
    <2>2. Running' = Running \ {w} /\ w \in Running /\ Started' = Started
      BY <1>5, <2>1 DEF Running, Started
    <2>3. Running \in SUBSET Workers
      BY DEF Running
    <2>4. Cardinality(Running') = Cardinality(Running) - 1 /\ Cardinality(Running) \in Nat
      BY <2>2, <2>3, CountWorkers
    <2>5. total > 0 => (thread'[total] = "none" <=> thread[total] = "none")
      BY <1>1, <1>5, ServerAssumption DEF Rest, Workers
    <2>6. CountersExact'
      <3> DEFINE unstarted == IF total > 0 /\ thread[total] = "none" THEN 1 ELSE 0
      <3>1. unstarted' = unstarted
        BY <1>2, <2>5
      <3>2. active = Cardinality(Running) + unstarted /\ total = Cardinality(Started) + unstarted
        BY <1>1 DEF CountersExact, Running, Started
      <3>3. unstarted \in Int
        OBVIOUS
      <3> HIDE DEF unstarted
      <3>4. /\ active' = Cardinality(Running') + unstarted'
            /\ total' = Cardinality(Started') + unstarted'
        BY <1>2, <2>1, <2>2, <2>4, <3>1, <3>2, <3>3, SMTT(30)
      <3> QED
        BY <3>4 DEF CountersExact, Running, Started, unstarted
    <2> QED
      BY <1>3, <1>6, <2>6 DEF Counting
  <1>8. CASE ~SessionEnds(w)
    <2>1. active' = active
      BY <1>8 DEF WorkerStep, CloseFile, ThreadEnds, OpenFile, ClientLeaves, Killed, process
    <2>2. \A v \in Workers : thread'[v] = "run" <=> thread[v] = "run"
      BY <1>1, <1>8 DEF Types, WorkerStep, CloseFile, ThreadEnds, OpenFile, ClientLeaves,
             Killed, process
    <2> QED
      BY <1>2, <1>3, <1>5, <1>6, <2>1, <2>2, SameCounts
  <1> QED
    BY <1>7, <1>8

\* A signal, and shutdown(), count nothing.
LEMMA CountingCall ==
    ASSUME IInv, IInv', Counting, NEW t \in Threads, Signal(t) \/ Shutdown(t)
    PROVE  Counting'
  <1>1. Types /\ Rest /\ Startup
    BY DEF IInv, Counting
  <1>2. UNCHANGED <<main, total, active, thread, epoll_fd, conn, file, gone>>
    BY Zenon DEF Signal, Shutdown, ShutdownTest, ShutdownClose, ShutdownReset, process, kernel
  <1>3. running' \in BOOLEAN /\ signals' \in 0 .. MaxSignals
    <2>1. CASE Signal(t)
      <3>1. signals' \in 0 .. MaxSignals
        BY <1>1, <2>1, ServerAssumption DEF Signal, Rest
      <3>2. running' \in BOOLEAN
        BY <2>1, ZenonT(30) DEF Signal
      <3> QED
        BY <3>1, <3>2
    <2>2. CASE Shutdown(t)
      BY <1>1, <2>2 DEF Rest, Shutdown, ShutdownTest, ShutdownClose, ShutdownReset, process
    <2> QED
      BY <2>1, <2>2
  <1>4. open' \subseteq Fds
    BY <1>1, Zenon DEF Rest, Signal, Shutdown, ShutdownTest, ShutdownClose, ShutdownReset, Close, kernel
  <1>5. Rest' /\ Startup'
    BY <1>1, <1>2, <1>3, <1>4 DEF Rest, Startup
  <1> QED
    BY <1>2, <1>5, SameCounts

LEMMA CountingNext ==
    ASSUME AllCounted, IInv, IInv', Counting, [Next]_vars
    PROVE  Counting'
  <1>1. CASE UNCHANGED vars
    <2>1. Rest' /\ Startup'
      BY <1>1 DEF vars, Counting, Rest, Startup
    <2> QED
      BY <1>1, <2>1, SameCounts DEF vars
  <1>2. CASE Next
    BY <1>2, CountingMain, CountingAccept, CountingSpawn, CountingWorker, CountingCall DEF Next
  <1> QED
    BY <1>1, <1>2

INSTANCE FiniteSetTheorems

LEMMA WorkersCounted == AllCounted
  <1> SUFFICES ASSUME NEW S \in SUBSET Workers PROVE Counted(S)
    BY DEF AllCounted
  <1>1. IsFiniteSet(Workers)
    BY ServerAssumption, FS_Interval DEF Workers
  <1>2. IsFiniteSet(S)
    BY <1>1, FS_Subset
  <1> QED
    BY <1>2, FS_CardinalityType, FS_EmptySet, FS_AddElement, FS_RemoveElement, Zenon DEF Counted

\* The connections are counted at every step.
LEMMA CountingInvariance == Spec => []Counting
  <1>1. Init => Counting
    <2> SUFFICES ASSUME Init PROVE Counting
      OBVIOUS
    <2>1. Rest /\ Startup
      <3>1. running \in BOOLEAN
        BY Zenon DEF Init
      <3>2. total \in 0 .. MaxClients /\ signals \in 0 .. MaxSignals
        BY ServerAssumption DEF Init
      <3>3. Startup
        BY ServerAssumption DEF Init, Startup, Workers, Accepting
      <3> QED
        BY <3>1, <3>2, <3>3 DEF Init, Rest, AnyFd
    <2>2. Running = {} /\ Started = {}
      BY DEF Init, Running, Started
    <2>3. Cardinality({}) = 0
      BY FS_EmptySet
    <2>4. CountersExact
      <3>1. ~(total > 0 /\ thread[total] = "none") /\ active = 0 /\ total = 0
        BY DEF Init
      <3>2. active = Cardinality(Running) + 0 /\ total = Cardinality(Started) + 0
        BY <2>2, <2>3, <3>1
      <3> QED
        BY <3>1, <3>2, Zenon DEF CountersExact, Running, Started
    <2> QED
      BY <2>1, <2>4 DEF Counting
  <1>2. IInv /\ IInv' /\ Counting /\ [Next]_vars => Counting'
    BY CountingNext, WorkersCounted
  <1> QED
    BY <1>1, <1>2, Invariance, PTL DEF Spec

\* active_connections_ is the number of sessions that run and total_connections_
\* that of the threads started, but for a connection whose thread is not there
\* yet or could not be had, for any number of clients (run_epoll, handle_client).
THEOREM CountersAreExact == Spec => []CountersExact
  <1>1. Counting => CountersExact
    BY DEF Counting
  <1> QED
    BY <1>1, CountingInvariance, PTL

\* The variables keep their types: in particular active_connections_ is never
\* negative, and never above the number of connections accepted.
THEOREM TypeCorrect == Spec => []TypeOK
  <1>1. IInv /\ Counting => TypeOK
    <2> SUFFICES ASSUME IInv, Counting PROVE TypeOK
      OBVIOUS
    <2>1. Types /\ Rest /\ Startup /\ CountersExact
      BY DEF IInv, Counting
    <2>2. Running \in SUBSET Workers /\ Started \in SUBSET Workers /\ Running \subseteq Started
      BY DEF Running, Started
    <2>3. Cardinality(Running) \in Nat /\ Cardinality(Started) \in Nat
      BY <2>2, CountWorkers, WorkersCounted
    <2>4. IsFiniteSet(Started)
      <3>1. IsFiniteSet(Workers)
        BY FS_Interval, ServerAssumption DEF Workers
      <3> QED
        BY <2>2, <3>1, FS_Subset
    <2>5. Cardinality(Running) <= Cardinality(Started)
      BY <2>2, <2>4, FS_Subset
    <2>6. active \in Nat /\ active <= total
      BY <2>1, <2>3, <2>5 DEF CountersExact, Running, Started
    <2>7. active \in 0 .. MaxClients
      BY <2>1, <2>6, ServerAssumption DEF Rest
    <2> QED
      BY <2>1, <2>7 DEF TypeOK, Types, Rest, ThreadStates
  <1> QED
    BY <1>1, Invariance, CountingInvariance, PTL
==============================================================================
