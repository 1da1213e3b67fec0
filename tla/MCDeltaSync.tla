----------------------------- MODULE MCDeltaSync -----------------------------
(* Instances of DeltaSync for TLC. *)
EXTENDS DeltaSync

\* Contents of up to three blocks of two bytes: none, a part of a block, whole
\* blocks, and whole blocks and a part of one; some share blocks, some do not.
Contents5 == {<<>>, <<1>>, <<1, 2>>, <<2, 2>>, <<1, 2, 1>>, <<2, 2, 1>>,
              <<1, 2, 1, 2>>, <<2, 2, 1, 1>>, <<1, 2, 1, 2, 1>>, <<2, 2, 1, 2, 1>>}
=============================================================================
