----------------------------- MODULE FrameQueue -----------------------------
(***************************************************************************)
(* What the framing promises to the programs at both ends of a connection: *)
(* frames are read whole, in the order they were written, none twice and   *)
(* none skipped, until the connection breaks.  DeltaSync and Client use    *)
(* connections as such queues.                                             *)
(***************************************************************************)
EXTENDS Naturals, Sequences

CONSTANT Frames

VARIABLES
    sent,           \* the frames written so far
    got,            \* the frames read so far
    closed          \* the connection is broken

vars == <<sent, got, closed>>

Init == sent = <<>> /\ got = <<>> /\ closed = FALSE

Write ==
    /\ ~closed
    /\ \E f \in Frames : sent' = Append(sent, f)
    /\ UNCHANGED <<got, closed>>

Read ==
    /\ Len(got) < Len(sent)
    /\ got' = Append(got, sent[Len(got) + 1])
    /\ UNCHANGED <<sent, closed>>

Break == closed' = TRUE /\ UNCHANGED <<sent, got>>

Next == Write \/ Read \/ Break

Spec == Init /\ [][Next]_vars
=============================================================================
