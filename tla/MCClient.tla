------------------------------ MODULE MCClient ------------------------------
(* Instances of Client for TLC. *)
EXTENDS Client

TwoPaths == {"p", "q"}
ThreeContents == {<<>>, <<1>>, <<1, 2>>}
=============================================================================
