----------------------------- MODULE MCFileMutex -----------------------------
(* Instances of FileMutex for TLC: see MCFileMutex.cfg.                      *)
EXTENDS FileMutex

CONSTANTS t1, t2, t3, p1, p2, m1, m2, m3, m4

Threads3 == {t1, t2, t3}
Paths2 == {p1, p2}
Mutexes4 == {m1, m2, m3, m4}
=============================================================================
