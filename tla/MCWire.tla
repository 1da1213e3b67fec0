------------------------------- MODULE MCWire -------------------------------
(***************************************************************************)
(* An instance of Wire: frames without payload, and payloads that look     *)
(* like the sentinel of raw data or like a length.                         *)
(***************************************************************************)
EXTENDS Wire

Standard(type, payload) == [type |-> type, payload |-> payload]
Raw(payload) == [type |-> MSG_RAW_DATA, payload |-> payload]

SomeFrames == {Standard(1, <<>>), Standard(22, <<255, 255, 255, 255>>),
               Raw(<<>>), Raw(<<0, 0, 0>>)}
=============================================================================
