------------------------------- MODULE Hashing -------------------------------
(***************************************************************************)
(* The arithmetic of the two hashes: the Adler-32 loop that server and     *)
(* client share (delta_sync_handler.cpp, hashing.rs), and the padding of   *)
(* the server's embedded SHA-256 (delta_sync_handler.cpp,                  *)
(* file_manager.cpp).                                                      *)
(***************************************************************************)
EXTENDS Integers, Sequences

MOD == 65521
Byte == 0 .. 255

\* Mutant: the second sum takes the first one before its turn.
AdlerStepLate(s, byte) ==
    LET a == (s.a + byte) % MOD
    IN  [a |-> a, b |-> (s.b + s.a) % MOD]

\* One turn of the loop of adler32.
AdlerStep(s, byte) ==
    LET a == (s.a + byte) % MOD
    IN  [a |-> a, b |-> (s.b + a) % MOD]

\* (b << 16) | a.
Pack(s) == s.b * 65536 + s.a

\* Mutant: no room is kept for the length.
PaddedLenShort(len) == (len \div 64 + 1) * 64

\* The padded length, in bytes.
padded_len(len) == ((len + 8) \div 64 + 1) * 64

\* The padded message: the data, the marker, zeros, and over them the number of
\* bits in the last eight bytes, of which the lengths here fill four.
padded(data) ==
    LET len == Len(data)
        bits(k) == IF k >= 4 THEN 0 ELSE ((len * 8) \div 256 ^ k) % 256
    IN  [i \in 1 .. padded_len(len) |->
            IF i > padded_len(len) - 8 THEN bits(padded_len(len) - i)
            ELSE IF i <= len THEN data[i]
            ELSE IF i = len + 1 THEN 128
            ELSE 0]
==============================================================================
