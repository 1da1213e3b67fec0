------------------------------- MODULE Server -------------------------------
(***************************************************************************)
(* The life of the server process (server.cpp and main.cpp, Linux build):  *)
(* the listening socket, the epoll accept loop, one worker thread for each *)
(* connection, shutdown() called by the signal handler on any thread and   *)
(* by the destructor, and the destructor's joins.                          *)
(*                                                                         *)
(* server_fd_ is a plain member that several threads read and write.       *)
(* File descriptors are numbers that the kernel hands out lowest first, so *)
(* a number that was closed soon belongs to somebody else.                 *)
(***************************************************************************)
EXTENDS Integers, Sequences, FiniteSets

CONSTANTS
    Fds,            \* the file descriptors that the process may use
    MaxClients,     \* bound: connections accepted
    MaxSignals      \* bound: signals delivered

NoFd == -1

ASSUME ServerAssumption ==
    /\ Fds \subseteq Nat
    /\ MaxClients \in Nat /\ MaxSignals \in Nat

MainThread == 0
Workers == 1 .. MaxClients
Threads == {MainThread} \cup Workers

VARIABLES
    main,           \* where the main thread is
    running,        \* running_
    server_fd,      \* server_fd_
    total,          \* total_connections_
    active,         \* active_connections_
    thread,         \* worker_threads_, by connection
    stack,          \* the calls of shutdown() in progress on each thread
    signals,        \* signals delivered so far
    open,           \* kernel: the open descriptors
    listener,       \* kernel: the descriptor of the listening socket
    epoll_fd,       \* the descriptor of the epoll instance
    conn,           \* client_fd_ of each session
    file,           \* the file that a session has open
    gone            \* the clients that have closed their connection

vars == <<main, running, server_fd, total, active, thread, stack, signals, open,
          listener, epoll_fd, conn, file, gone>>
process == <<main, running, total, active, thread, signals, gone>>
kernel == <<open, listener, epoll_fd, conn, file>>

MainPlaces == {"start", "socket", "bind", "epoll", "loop", "wait", "event", "spawn",
               "dtor", "shut", "join", "exited", "killed"}
AnyFd == Fds \cup {NoFd}
Calls == [at : {"test", "close", "reset"}, fd : AnyFd]

TypeOK ==
    /\ main \in MainPlaces
    /\ running \in BOOLEAN
    /\ server_fd \in AnyFd /\ listener \in AnyFd /\ epoll_fd \in AnyFd
    /\ total \in 0 .. MaxClients /\ active \in 0 .. MaxClients
    /\ thread \in [Workers -> {"none", "run", "ending", "done", "joined"}]
    /\ stack \in [Threads -> Seq(Calls)]
    /\ signals \in 0 .. MaxSignals
    /\ open \subseteq Fds
    /\ conn \in [Workers -> AnyFd] /\ file \in [Workers -> AnyFd]
    /\ gone \subseteq Workers

Init ==
    /\ main = "start"
    /\ running = FALSE
    /\ server_fd = NoFd /\ listener = NoFd /\ epoll_fd = NoFd
    /\ total = 0 /\ active = 0
    /\ thread = [w \in Workers |-> "none"]
    /\ stack = [t \in Threads |-> <<>>]
    /\ signals = 0
    /\ open = {}
    /\ conn = [w \in Workers |-> NoFd] /\ file = [w \in Workers |-> NoFd]
    /\ gone = {}

\* The kernel hands out the lowest descriptor that is free.
Lowest == {d \in Fds \ open : \A e \in Fds \ open : d <= e}

\* close(d): closing NoFd, or a descriptor that is not open, does nothing.
Close(d) ==
    /\ open' = open \ {d}
    /\ listener' = IF d = listener THEN NoFd ELSE listener

\* Thread t can go on: the process lives and t is not inside shutdown().
Free(t) == main # "killed" /\ stack[t] = <<>>
-----------------------------------------------------------------------------
(* The main thread: main(), run(), run_epoll(), the destructor. *)

At(place, next) == Free(MainThread) /\ main = place /\ main' = next

\* run() up to std::signal; init_storage may throw.
Start ==
    /\ At("start", "socket") \/ At("start", "dtor")
    /\ running' = TRUE
    /\ UNCHANGED <<server_fd, total, active, thread, stack, signals, kernel, gone>>

\* server_fd_ = socket().
Socket ==
    /\ \/ /\ At("socket", "bind")
          /\ \E d \in Lowest : server_fd' = d /\ listener' = d /\ open' = open \cup {d}
       \/ At("socket", "dtor") /\ server_fd' = NoFd /\ UNCHANGED <<listener, open>>
    /\ UNCHANGED <<running, total, active, thread, stack, signals, epoll_fd, conn, file, gone>>

\* bind() and listen(): they need the socket, and may fail with it.
BindListen ==
    /\ \/ At("bind", "epoll") /\ server_fd # NoFd /\ server_fd = listener
       \/ At("bind", "dtor")
    /\ UNCHANGED <<running, server_fd, total, active, thread, stack, signals, kernel, gone>>

\* epoll_create1() and epoll_ctl(), whose failure is not looked at.
EpollCreate ==
    /\ \/ /\ At("epoll", "loop")
          /\ \E d \in Lowest : epoll_fd' = d /\ open' = open \cup {d}
       \/ At("epoll", "dtor") /\ UNCHANGED <<epoll_fd, open>>
    /\ UNCHANGED <<running, server_fd, total, active, thread, stack, signals, listener, conn,
                   file, gone>>

\* while (running_); past the loop the epoll instance is closed.
Loop ==
    /\ \/ At("loop", "wait") /\ running /\ UNCHANGED <<open, listener>>
       \/ At("loop", "dtor") /\ ~running /\ Close(epoll_fd)
    /\ UNCHANGED <<running, server_fd, total, active, thread, stack, signals, epoll_fd, conn,
                   file, gone>>

\* Mutant: epoll_wait has no timeout, and is restarted after a signal.
EpollWaitNoTimeout ==
    /\ At("wait", "event") /\ listener # NoFd /\ total < MaxClients
    /\ UNCHANGED <<running, server_fd, total, active, thread, stack, signals, kernel, gone>>

\* epoll_wait: the one second is over or a signal interrupts it, or a client
\* waits at the listening socket.
EpollWait ==
    /\ \/ At("wait", "loop")
       \/ At("wait", "event") /\ listener # NoFd /\ total < MaxClients
    /\ UNCHANGED <<running, server_fd, total, active, thread, stack, signals, kernel, gone>>

\* epoll_wait fails, which ends the loop.
EpollFails ==
    /\ At("wait", "dtor")
    /\ Close(epoll_fd)
    /\ UNCHANGED <<running, server_fd, total, active, thread, stack, signals, epoll_fd, conn,
                   file, gone>>

\* The event is taken for the listening socket and accepted, unless shutdown()
\* came in between or accept() fails.
Accept ==
    /\ \/ /\ At("event", "spawn")
          /\ server_fd # NoFd /\ server_fd = listener
          /\ total' = total + 1 /\ active' = active + 1
          /\ \E d \in Lowest : conn' = [conn EXCEPT ![total + 1] = d] /\ open' = open \cup {d}
       \/ At("event", "loop") /\ UNCHANGED <<total, active, conn, open>>
    /\ UNCHANGED <<running, server_fd, thread, stack, signals, listener, epoll_fd, file, gone>>

\* worker_threads_.emplace_back: when no thread can be had, the exception leaves
\* run() and main() destroys the server.
Spawn ==
    /\ \/ At("spawn", "loop") /\ thread' = [thread EXCEPT ![total] = "run"]
       \/ At("spawn", "dtor") /\ UNCHANGED thread
    /\ UNCHANGED <<running, server_fd, total, active, stack, signals, kernel, gone>>

\* ~AdaptiveSyncServer calls shutdown() first.
Destroy ==
    /\ At("dtor", "shut")
    /\ running' = FALSE
    /\ stack' = [stack EXCEPT ![MainThread] = <<[at |-> "test", fd |-> NoFd]>>]
    /\ UNCHANGED <<server_fd, total, active, thread, signals, kernel, gone>>

\* It closes what is left open, and goes on to the joins.
CloseRest ==
    /\ At("shut", "join")
    /\ Close(server_fd)
    /\ UNCHANGED <<running, server_fd, total, active, thread, stack, signals, epoll_fd, conn,
                   file, gone>>

\* t.join(), in the order of worker_threads_.
Join ==
    /\ At("join", "join")
    /\ \E w \in Workers :
         /\ thread[w] = "done" /\ \A v \in 1 .. w - 1 : thread[v] = "joined"
         /\ thread' = [thread EXCEPT ![w] = "joined"]
    /\ UNCHANGED <<running, server_fd, total, active, stack, signals, kernel, gone>>

\* Mutant: the destructor does not wait for the threads.
ExitUnjoined ==
    /\ At("join", "exited")
    /\ UNCHANGED <<running, server_fd, total, active, thread, stack, signals, kernel, gone>>

\* All are joined: main() returns.
Exit ==
    /\ At("join", "exited")
    /\ \A w \in Workers : thread[w] \in {"none", "joined"}
    /\ UNCHANGED <<running, server_fd, total, active, thread, stack, signals, kernel, gone>>
-----------------------------------------------------------------------------
(* shutdown(), as a call on top of what its thread was doing. *)

Alive(t) ==
    IF t = MainThread THEN main \notin {"start", "exited", "killed"}
    ELSE thread[t] \in {"run", "ending"}

\* SIGINT or SIGTERM reaches any thread: signal_handler calls shutdown(), which
\* clears running_ first.
Signal(t) ==
    /\ main # "killed" /\ signals < MaxSignals /\ Alive(t)
    /\ signals' = signals + 1
    /\ running' = FALSE
    /\ stack' = [stack EXCEPT ![t] = Append(@, [at |-> "test", fd |-> NoFd])]
    /\ UNCHANGED <<main, server_fd, total, active, thread, kernel, gone>>

Top(t) == stack[t][Len(stack[t])]
Return(t) == stack' = [stack EXCEPT ![t] = SubSeq(@, 1, Len(@) - 1)]
GoOn(t, place, d) == stack' = [stack EXCEPT ![t][Len(stack[t])] = [at |-> place, fd |-> d]]
InCall(t, place) == main # "killed" /\ stack[t] # <<>> /\ Top(t).at = place

\* if (server_fd_ != -1).
ShutdownTest(t) ==
    /\ InCall(t, "test")
    /\ IF server_fd = NoFd THEN Return(t) ELSE GoOn(t, "close", server_fd)
    /\ UNCHANGED <<process, server_fd, kernel>>

\* close_socket(server_fd_): the compiler may load server_fd_ again, or not.
ShutdownClose(t) ==
    /\ InCall(t, "close")
    /\ \E d \in {Top(t).fd, server_fd} : Close(d)
    /\ GoOn(t, "reset", NoFd)
    /\ UNCHANGED <<process, server_fd, epoll_fd, conn, file>>

\* server_fd_ = -1.
ShutdownReset(t) ==
    /\ InCall(t, "reset")
    /\ server_fd' = NoFd
    /\ Return(t)
    /\ UNCHANGED <<process, kernel>>

Shutdown(t) == ShutdownTest(t) \/ ShutdownClose(t) \/ ShutdownReset(t)
-----------------------------------------------------------------------------
(* A worker thread: handle_client(). *)

\* The session opens a file to serve a request, and closes it.
OpenFile(w) ==
    /\ Free(w) /\ thread[w] = "run" /\ file[w] = NoFd
    /\ \E d \in Lowest : file' = [file EXCEPT ![w] = d] /\ open' = open \cup {d}
    /\ UNCHANGED <<process, server_fd, stack, listener, epoll_fd, conn>>

CloseFile(w) ==
    /\ Free(w) /\ file[w] # NoFd
    /\ file' = [file EXCEPT ![w] = NoFd]
    /\ Close(file[w])
    /\ UNCHANGED <<process, server_fd, stack, epoll_fd, conn>>

ClientLeaves(w) ==
    /\ main # "killed" /\ thread[w] = "run" /\ w \notin gone
    /\ gone' = gone \cup {w}
    /\ UNCHANGED <<main, running, server_fd, total, active, thread, stack, signals, kernel>>

\* The session writes to a client that has gone, or a handler throws: nothing
\* catches SIGPIPE or an exception of a worker thread, and the process ends.
Killed(w) ==
    /\ Free(w) /\ thread[w] = "run" /\ w \in gone
    /\ main # "exited" /\ main' = "killed"
    /\ UNCHANGED <<running, server_fd, total, active, thread, stack, signals, kernel, gone>>

\* Mutant: the connection is not counted out.
SessionEndsUncounted(w) ==
    /\ Free(w) /\ thread[w] = "run" /\ file[w] = NoFd
    /\ w \in gone \/ conn[w] \notin open
    /\ thread' = [thread EXCEPT ![w] = "ending"]
    /\ UNCHANGED <<main, running, server_fd, total, active, stack, signals, kernel, gone>>

\* session.run() returns once a read fails; then active_connections_--.
SessionEnds(w) ==
    /\ Free(w) /\ thread[w] = "run" /\ file[w] = NoFd
    /\ w \in gone \/ conn[w] \notin open
    /\ active' = active - 1
    /\ thread' = [thread EXCEPT ![w] = "ending"]
    /\ UNCHANGED <<main, running, server_fd, total, stack, signals, kernel, gone>>

\* Mutant: the connection is counted out once more.
ThreadEndsCounted(w) ==
    /\ Free(w) /\ thread[w] = "ending"
    /\ Close(conn[w])
    /\ conn' = [conn EXCEPT ![w] = NoFd]
    /\ thread' = [thread EXCEPT ![w] = "done"]
    /\ active' = active - 1
    /\ UNCHANGED <<main, running, server_fd, total, stack, signals, epoll_fd, file, gone>>

\* ~Session closes the connection and the thread ends.
ThreadEnds(w) ==
    /\ Free(w) /\ thread[w] = "ending"
    /\ Close(conn[w])
    /\ conn' = [conn EXCEPT ![w] = NoFd]
    /\ thread' = [thread EXCEPT ![w] = "done"]
    /\ UNCHANGED <<main, running, server_fd, total, active, stack, signals, epoll_fd, file, gone>>
-----------------------------------------------------------------------------
MainStep ==
    \/ Start \/ Socket \/ BindListen \/ EpollCreate \/ Loop \/ EpollWait \/ Accept \/ Spawn
    \/ Destroy \/ CloseRest \/ Join \/ Exit

WorkerStep(w) == CloseFile(w) \/ SessionEnds(w) \/ ThreadEnds(w)

Next ==
    \/ MainStep \/ EpollFails
    \/ \E t \in Threads : Signal(t) \/ Shutdown(t)
    \/ \E w \in Workers : WorkerStep(w) \/ OpenFile(w) \/ ClientLeaves(w) \/ Killed(w)

Spec == Init /\ [][Next]_vars

\* Every thread is scheduled, and a client that has gone left finitely many
\* requests behind for its session to serve.  Nothing obliges a client to leave,
\* a signal to arrive, a session to open a file or epoll_wait to fail.
Fairness ==
    /\ WF_vars(MainStep)
    /\ \A t \in Threads : WF_vars(Shutdown(t))
    /\ \A w \in Workers : WF_vars(CloseFile(w)) /\ SF_vars(SessionEnds(w)) /\ WF_vars(ThreadEnds(w))

FairSpec == Spec /\ Fairness
-----------------------------------------------------------------------------
\* active_connections_ counts the sessions that run, and the connection for which
\* a thread is being started, or could not be started; total_connections_ counts
\* every thread ever started besides (run_epoll, handle_client).
CountersExact ==
    LET unstarted == IF total > 0 /\ thread[total] = "none" THEN 1 ELSE 0
    IN  /\ active = Cardinality({w \in Workers : thread[w] = "run"}) + unstarted
        /\ total = Cardinality({w \in Workers : thread[w] # "none"}) + unstarted

\* When main() returns, the listening socket is closed, no session runs, every
\* thread was joined and no thread is inside shutdown(): nothing uses the
\* AdaptiveSyncServer object that has been destroyed (~AdaptiveSyncServer).
CleanExit ==
    main = "exited" =>
        /\ listener = NoFd
        /\ \A w \in Workers : thread[w] \in {"none", "joined"}
        /\ \A t \in Threads : stack[t] = <<>>

Stopped == ~running /\ main # "start"
Served == \E w \in Workers : thread[w] = "run" /\ w \notin gone

\* The server stops once it was told to and its clients are gone, on whichever
\* thread the signal arrived and wherever the main thread was then (run_epoll's
\* timeout, the joins).  While a client stays connected it does not.
ShutdownCompletes ==
    <>Stopped /\ <>[]~Served => <>(main \in {"exited", "killed"})

\* shutdown() may be called on any thread at any time: no session ever loses a
\* descriptor that it has in use.
SessionsKeepDescriptors ==
    \A w \in Workers :
        /\ thread[w] = "run" => conn[w] \in open
        /\ file[w] # NoFd => file[w] \in open
=============================================================================
