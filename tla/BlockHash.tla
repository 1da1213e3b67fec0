------------------------------ MODULE BlockHash ------------------------------
(***************************************************************************)
(* The two hashes of a block: the weak one, adler32, and the strong one,   *)
(* the embedded SHA-256 (sha256_hex of delta_sync_handler.cpp; the same    *)
(* loops again in sha256_raw of file_manager.cpp).  The client has its own *)
(* from a library, so a block counts as equal, and a file as unchanged,    *)
(* only if the two implementations agree.                                  *)
(*                                                                         *)
(* A 32-bit word is a pair of 16-bit halves, the high one first.           *)
(***************************************************************************)
EXTENDS Hashing, Bitwise

CONSTANT Vectors        \* messages with their digests: [data, digest]

VARIABLES
    msg,            \* the message, and the digest that the standard has for it
    n,              \* the loop of adler32: the bytes summed
    sums,           \* its sums a and b
    off,            \* the loop over the 64-byte blocks of the padded message
    i,              \* the loop over the rounds
    w,              \* the schedule, as far as it is computed
    v,              \* the working variables a .. hh
    h               \* the hash value h0 .. h7

vars == <<msg, n, sums, off, i, w, v, h>>
weak == <<n, sums>>

SHA256_K ==
    <<<<17034, 12184>>, <<28983, 17553>>, <<46528, 64463>>, <<59829, 56229>>,
      <<14678, 49755>>, <<23025, 4593>>, <<37439, 33444>>, <<43804, 24277>>,
      <<55303, 43672>>, <<4739, 23297>>, <<9265, 34238>>, <<21772, 32195>>,
      <<29374, 23924>>, <<32990, 45566>>, <<39900, 1703>>, <<49563, 61812>>,
      <<58523, 27073>>, <<61374, 18310>>, <<4033, 40390>>, <<9228, 41420>>,
      <<11753, 11375>>, <<19060, 33962>>, <<23728, 43484>>, <<30457, 35034>>,
      <<38974, 20818>>, <<43057, 50797>>, <<45059, 10184>>, <<48985, 32711>>,
      <<50912, 3059>>, <<54695, 37191>>, <<1738, 25425>>, <<5161, 10599>>,
      <<10167, 2693>>, <<11803, 8504>>, <<19756, 28156>>, <<21304, 3347>>,
      <<25866, 29524>>, <<30314, 2747>>, <<33218, 51502>>, <<37490, 11397>>,
      <<41663, 59553>>, <<43034, 26187>>, <<49739, 35696>>, <<51052, 20899>>,
      <<53650, 59417>>, <<54937, 1572>>, <<62478, 13701>>, <<4202, 41072>>,
      <<6564, 49430>>, <<7735, 27656>>, <<10056, 30540>>, <<13488, 48309>>,
      <<14620, 3251>>, <<20184, 43594>>, <<23452, 51791>>, <<26670, 28659>>,
      <<29839, 33518>>, <<30885, 25455>>, <<33992, 30740>>, <<36039, 520>>,
      <<37054, 65530>>, <<42064, 27883>>, <<48889, 41975>>, <<50801, 30962>>>>

H0 == <<<<27145, 58983>>, <<47975, 44677>>, <<15470, 62322>>, <<42319, 62778>>,
        <<20750, 21119>>, <<39685, 26764>>, <<8067, 55723>>, <<23520, 52505>>>>

Xor3(x, y, z) == <<(x[1] ^^ y[1]) ^^ z[1], (x[2] ^^ y[2]) ^^ z[2]>>

\* Mutant: addition does not wrap.
PlusUnwrapped(x, y) ==
    LET low == x[2] + y[2]
    IN  <<x[1] + y[1] + low \div 65536, low % 65536>>

\* Addition of 32-bit words, which wraps.
Plus(x, y) ==
    LET low == x[2] + y[2]
    IN  <<(x[1] + y[1] + low \div 65536) % 65536, low % 65536>>

\* x >> r, for r < 16.
Shr(x, r) == <<x[1] \div 2 ^ r, (x[2] \div 2 ^ r) + (x[1] % 2 ^ r) * 2 ^ (16 - r)>>

rotr(x, r) ==
    LET y == IF r < 16 THEN x ELSE <<x[2], x[1]>>
        k == r % 16
    IN  <<(y[1] \div 2 ^ k) + (y[2] % 2 ^ k) * 2 ^ (16 - k), Shr(y, k)[2]>>

\* (x & y) ^ (~x & z) and (x & y) ^ (x & z) ^ (y & z).
Ch(x, y, z) ==
    <<(x[1] & y[1]) ^^ ((65535 - x[1]) & z[1]), (x[2] & y[2]) ^^ ((65535 - x[2]) & z[2])>>
Maj(x, y, z) ==
    Xor3(<<x[1] & y[1], x[2] & y[2]>>, <<x[1] & z[1], x[2] & z[2]>>, <<y[1] & z[1], y[2] & z[2]>>)

\* The first sixteen words of the schedule: the bytes of the block at off.
BlockWords(data, at) ==
    LET bytes == padded(data)
        half(k) == bytes[at + k] * 256 + bytes[at + k + 1]
    IN  [j \in 1 .. 16 |-> <<half(j * 4 - 3), half(j * 4 - 1)>>]

Word == (0 .. 65535) \X (0 .. 65535)

TypeOK ==
    /\ msg \in Vectors
    /\ n \in 0 .. Len(msg.data)
    /\ sums.a \in 0 .. MOD - 1 /\ sums.b \in 0 .. MOD - 1
    /\ off \in 0 .. padded_len(Len(msg.data)) /\ off % 64 = 0
    /\ i \in 0 .. 64
    /\ Len(w) \in 16 .. 64 /\ \A k \in DOMAIN w : w[k] \in Word
    /\ Len(v) = 8 /\ \A k \in 1 .. 8 : v[k] \in Word
    /\ Len(h) = 8 /\ \A k \in 1 .. 8 : h[k] \in Word

Init ==
    /\ msg \in Vectors
    /\ n = 0 /\ sums = [a |-> 1, b |-> 0]
    /\ off = 0 /\ i = 0
    /\ w = BlockWords(msg.data, 0)
    /\ v = H0 /\ h = H0

Done == off = padded_len(Len(msg.data))

\* A turn of the loop of adler32.
Sum ==
    /\ n < Len(msg.data)
    /\ n' = n + 1
    /\ sums' = AdlerStep(sums, msg.data[n + 1])
    /\ UNCHANGED <<msg, off, i, w, v, h>>

\* The schedule grows by one word.
Schedule ==
    /\ n = Len(msg.data) /\ ~Done /\ Len(w) < 64
    /\ LET k == Len(w) + 1
           s0 == Xor3(rotr(w[k - 15], 7), rotr(w[k - 15], 18), Shr(w[k - 15], 3))
           s1 == Xor3(rotr(w[k - 2], 17), rotr(w[k - 2], 19), Shr(w[k - 2], 10))
       IN  w' = Append(w, Plus(Plus(w[k - 16], s0), Plus(w[k - 7], s1)))
    /\ UNCHANGED <<msg, weak, off, i, v, h>>

\* One round on the working variables.
Round ==
    /\ ~Done /\ Len(w) = 64 /\ i < 64
    /\ LET S1 == Xor3(rotr(v[5], 6), rotr(v[5], 11), rotr(v[5], 25))
           temp1 == Plus(Plus(Plus(v[8], S1), Plus(Ch(v[5], v[6], v[7]), SHA256_K[i + 1])), w[i + 1])
           S0 == Xor3(rotr(v[1], 2), rotr(v[1], 13), rotr(v[1], 22))
           temp2 == Plus(S0, Maj(v[1], v[2], v[3]))
       IN  v' = <<Plus(temp1, temp2), v[1], v[2], v[3], Plus(v[4], temp1), v[5], v[6], v[7]>>
    /\ i' = i + 1
    /\ UNCHANGED <<msg, weak, off, w, h>>

\* The block is added to the hash value, and the next one begins.
EndBlock ==
    /\ ~Done /\ i = 64
    /\ h' = [k \in 1 .. 8 |-> Plus(h[k], v[k])]
    /\ off' = off + 64
    /\ IF off' < padded_len(Len(msg.data))
       THEN i' = 0 /\ w' = BlockWords(msg.data, off') /\ v' = h'
       ELSE UNCHANGED <<i, w, v>>
    /\ UNCHANGED <<msg, weak>>

Next == Sum \/ Schedule \/ Round \/ EndBlock

Spec == Init /\ [][Next]_vars
-----------------------------------------------------------------------------
\* The digest is the one that the standard has for the message (sha256_raw, and
\* sha256_hex of the delta-sync handler): the server's own SHA-256 agrees with
\* the library of the client, also where the padding takes a block of its own.
DigestCorrect == Done => h = msg.digest

\* The sums of the loop of adler32, which reduces them at every byte, are those of
\* the definition, which reduces them once: one plus the bytes, and the sum of
\* all the values the first sum had.
AdlerExact ==
    LET plain[k \in 0 .. n] == IF k = 0 THEN 0 ELSE plain[k - 1] + msg.data[k]
        weighted[k \in 0 .. n] ==
            IF k = 0 THEN 0 ELSE weighted[k - 1] + (n + 1 - k) * msg.data[k]
    IN  sums = [a |-> (1 + plain[n]) % MOD, b |-> (n + weighted[n]) % MOD]
=============================================================================
