------------------------------ MODULE MCServer ------------------------------
(* Instances of Server for TLC. *)
EXTENDS Server

\* The listening socket, the epoll instance, a connection and a file for each of
\* two sessions.
SixFds == 3 .. 8
=============================================================================
