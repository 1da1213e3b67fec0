--------------------------- MODULE DeltaSyncProofs ---------------------------
(***************************************************************************)
(* What delta_sync_upload and the session's handlers guarantee for files   *)
(* of any content and size and for any number of syncs, edits and lost     *)
(* connections, when the client prefers a block size in the accepted       *)
(* range: then connect leaves both sides with that block size.  First the  *)
(* arithmetic by itself: that of the block hashes, and that of the blocks, *)
(* for any block size but zero.                                            *)
(***************************************************************************)
EXTENDS DeltaSync, Hashing, TLAPS

(* The hashes of Hashing, for messages of any length. *)

\* The padding of SHA-256 (sha256_hex, sha256_raw): whole blocks of 64 bytes, with
\* room for the data, the marker and the eight bytes of the length, and no
\* block more than that takes.
THEOREM PaddingFits ==
    ASSUME NEW len \in Nat
    PROVE  /\ padded_len(len) % 64 = 0
           /\ len + 9 <= padded_len(len)
           /\ padded_len(len) < len + 9 + 64
  <1> DEFINE q == (len + 8) \div 64
  <1>1. q \in Nat /\ 64 * q <= len + 8 /\ len + 8 < 64 * q + 64
    OBVIOUS
  <1>2. padded_len(len) = 64 * q + 64
    BY <1>1 DEF padded_len
  <1> HIDE DEF q
  <1>3. (64 * q + 64) % 64 = 0
    BY <1>1
  <1> QED
    BY <1>1, <1>2, <1>3

\* The number of values of a uint32_t.
Word == 65536 * 65536

Sums == [a : 0 .. MOD - 1, b : 0 .. MOD - 1]

\* What the proofs need to know of the modulus of adler32.
LEMMA ModulusBelow16Bits == MOD \in Nat /\ MOD > 0 /\ MOD < 65536
  BY SMT DEF MOD

\* A remainder is below its modulus.
LEMMA ModRange ==
    ASSUME NEW x \in Nat, NEW m \in Nat, m > 0
    PROVE  x % m \in 0 .. m - 1
  BY SMT

\* The sums of adler32 have 16 bits.
LEMMA SumsBelow16Bits ==
    ASSUME NEW s \in Sums
    PROVE  /\ s.a \in Nat /\ s.a < 65536
           /\ s.b \in Nat /\ s.b < 65536
  <1>1. s.a \in 0 .. MOD - 1 /\ s.b \in 0 .. MOD - 1
    BY DEF Sums
  <1> QED
    BY <1>1, ModulusBelow16Bits, SMT

\* A turn of the loop of adler32 keeps both sums below the modulus, and no sum
\* on the way there exceeds 32 bits, so the wrapping of uint32_t never shows.
THEOREM AdlerNoOverflow ==
    ASSUME NEW s \in Sums, NEW byte \in Byte
    PROVE  /\ AdlerStep(s, byte) \in Sums
           /\ s.a + byte < Word
           /\ s.b + AdlerStep(s, byte).a < Word
  <1>1. byte \in Nat /\ byte < 65536
    BY SMT DEF Byte
  <1> DEFINE a == (s.a + byte) % MOD
             b == (s.b + a) % MOD
  <1>2. AdlerStep(s, byte) = [a |-> a, b |-> b]
    BY DEF AdlerStep
  <1>3. a \in 0 .. MOD - 1
    BY <1>1, SumsBelow16Bits, ModulusBelow16Bits, ModRange, SMT
  <1>4. b \in 0 .. MOD - 1
    <2> HIDE DEF a
    <2> QED
      BY <1>3, SumsBelow16Bits, ModulusBelow16Bits, ModRange, SMT
  <1> HIDE DEF a, b
  <1>5. AdlerStep(s, byte) \in Sums /\ AdlerStep(s, byte).a = a
    BY <1>2, <1>3, <1>4 DEF Sums
  <1>6. a \in Nat /\ a < 65536
    BY <1>3, ModulusBelow16Bits, SMT
  <1>7. s.a + byte < Word /\ s.b + a < Word
    BY <1>1, <1>6, SumsBelow16Bits, SMT DEF Word
  <1> QED
    BY <1>5, <1>7

\* (b << 16) | a fits into 32 bits, and no two pairs of sums have the same one:
\* the weak hash of a block loses nothing of them.
THEOREM PackInjective ==
    ASSUME NEW s \in Sums, NEW t \in Sums
    PROVE  /\ Pack(s) \in Nat /\ Pack(s) < Word
           /\ Pack(s) = Pack(t) => s = t
  <1>1. /\ s.a \in Nat /\ s.a < 65536 /\ s.b \in Nat /\ s.b < 65536
        /\ t.a \in Nat /\ t.a < 65536 /\ t.b \in Nat /\ t.b < 65536
    BY SumsBelow16Bits
  <1>2. Pack(s) = s.b * 65536 + s.a /\ Pack(t) = t.b * 65536 + t.a
    BY SMT DEF Pack
  <1>3. Pack(s) \in Nat /\ Pack(s) < Word
    BY <1>1, <1>2, SMT DEF Word
  <1>4. Pack(s) = Pack(t) => s.a = t.a /\ s.b = t.b
    BY <1>1, <1>2, SMT
  <1>5. s = [a |-> s.a, b |-> s.b] /\ t = [a |-> t.a, b |-> t.b]
    BY DEF Sums
  <1> QED
    BY <1>3, <1>4, <1>5
-----------------------------------------------------------------------------
(* The blocks. *)

\* Integer division, as far as the provers need it here.
LEMMA DivBounds ==
    ASSUME NEW a \in Nat, NEW b \in Nat \ {0}
    PROVE  /\ a \div b \in Nat
           /\ (a \div b) * b <= a
           /\ a < (a \div b) * b + b
  OBVIOUS

LEMMA BlocksApart ==
    ASSUME NEW i \in Nat, NEW j \in Nat, NEW b \in Nat \ {0}, i < j
    PROVE  i * b + b <= j * b
  OBVIOUS

(***************************************************************************)
(* The (size + bs - 1) / bs of delta_sync.rs and delta_sync_handler.cpp    *)
(* is the number of blocks: they reach the end of the file, and the last   *)
(* one is not empty.                                                       *)
(***************************************************************************)
THEOREM NumBlocksExact ==
    ASSUME NEW size \in Nat, NEW bs \in Nat \ {0}
    PROVE  /\ NumBlocks(size, bs) \in Nat
           /\ size <= NumBlocks(size, bs) * bs
           /\ NumBlocks(size, bs) * bs < size + bs
  BY DivBounds, size + bs - 1 \in Nat DEF NumBlocks

\* Every byte of a file is in one of its blocks.
LEMMA BlockOfByte ==
    ASSUME NEW size \in Nat, NEW bs \in Nat \ {0}, NEW k \in 1 .. size
    PROVE  /\ (k - 1) \div bs \in BlockIndices(size, bs)
           /\ ((k - 1) \div bs) * bs < k
           /\ k <= ((k - 1) \div bs) * bs + bs
  <1> DEFINE i == (k - 1) \div bs
  <1>1. i \in Nat /\ i * bs <= k - 1 /\ k - 1 < i * bs + bs
    BY DivBounds, k - 1 \in Nat
  <1>2. NumBlocks(size, bs) \in Nat /\ size <= NumBlocks(size, bs) * bs
    BY NumBlocksExact
  <1> HIDE DEF i
  <1>3. i < NumBlocks(size, bs)
    <2> SUFFICES ASSUME ~(i < NumBlocks(size, bs)) PROVE FALSE
      OBVIOUS
    <2>1. NumBlocks(size, bs) * bs <= i * bs
      <3>1. CASE NumBlocks(size, bs) = i
        BY <3>1, <1>1
      <3>2. CASE NumBlocks(size, bs) < i
        BY <3>2, <1>1, <1>2, BlocksApart
      <3> QED  BY <3>1, <3>2, <1>1, <1>2
    <2>2. i * bs \in Nat /\ NumBlocks(size, bs) * bs \in Nat
      BY <1>1, <1>2
    <2> QED  BY <2>1, <2>2, <1>1, <1>2
  <1>4. i \in BlockIndices(size, bs)
    BY <1>1, <1>2, <1>3 DEF BlockIndices
  <1>5. i * bs < k /\ k <= i * bs + bs
    BY <1>1
  <1> QED  BY <1>4, <1>5 DEF i

\* A block starts inside the file.
LEMMA BlockStarts ==
    ASSUME NEW size \in Nat, NEW bs \in Nat \ {0}, NEW i \in BlockIndices(size, bs)
    PROVE  i \in Nat /\ i * bs \in Nat /\ i * bs < size
  <1>1. /\ NumBlocks(size, bs) \in Nat
        /\ NumBlocks(size, bs) * bs < size + bs
    BY NumBlocksExact
  <1>2. i \in Nat /\ i < NumBlocks(size, bs)
    BY <1>1 DEF BlockIndices
  <1>3. i * bs + bs <= NumBlocks(size, bs) * bs
    BY <1>1, <1>2, BlocksApart
  <1>4. i * bs \in Nat /\ NumBlocks(size, bs) * bs \in Nat
    BY <1>1, <1>2
  <1> QED  BY <1>1, <1>2, <1>3, <1>4

(***************************************************************************)
(* Block i of a file is BlockLen bytes, at least one, and byte j of it is  *)
(* byte i * bs + j of the file.                                            *)
(***************************************************************************)
LEMMA BlockContent ==
    ASSUME NEW Data, NEW c \in Seq(Data), NEW bs \in Nat \ {0},
           NEW i \in BlockIndices(Len(c), bs)
    PROVE  LET n == BlockLen(Len(c), i * bs, bs)
               b == ReadBlock(c, i * bs, n)
           IN  /\ n \in 1 .. bs /\ i * bs + n <= Len(c)
               /\ DOMAIN b = 1 .. n
               /\ \A j \in 1 .. n : b[j] = c[i * bs + j]
  <1>1. i * bs \in Nat /\ i * bs < Len(c)
    BY BlockStarts
  <1> DEFINE o == i * bs
             n == BlockLen(Len(c), o, bs)
  <1>2. n \in 1 .. bs /\ o + n <= Len(c)
    BY <1>1 DEF BlockLen
  <1> HIDE DEF o, n
  <1>3. ReadBlock(c, o, n) = [j \in 1 .. n |-> c[o + j]]
    BY <1>2 DEF ReadBlock
  <1> QED  BY <1>2, <1>3 DEF o, n
-----------------------------------------------------------------------------
(***************************************************************************)
(* handle_signature_request asks for enough: replacing the requested       *)
(* blocks of the server's file by the client's, and cutting it to the      *)
(* client's size, gives the client's file.  This is what a server that     *)
(* starts its .tmp file as a copy of the target would compute.             *)
(***************************************************************************)
THEOREM NeededBlocksSufficient ==
    ASSUME NEW Data, NEW old \in Seq(Data), NEW new \in Seq(Data), NEW bs \in Nat \ {0}
    PROVE  Merge(old, new, bs, NeededBlocks(old, Len(new), bs, Signatures(new, bs))) = new
  <1> DEFINE sigs == Signatures(new, bs)
             needed == NeededBlocks(old, Len(new), bs, sigs)
  <1>0. NumBlocks(Len(old), bs) \in Nat /\ NumBlocks(Len(new), bs) \in Nat
    <2>1. Len(old) \in Nat /\ Len(new) \in Nat
      OBVIOUS
    <2> QED  BY <2>1, NumBlocksExact, Zenon
  <1>1. ASSUME NEW k \in 1 .. Len(new), (k - 1) \div bs \notin needed
        PROVE  k <= Len(old) /\ old[k] = new[k]
    <2> DEFINE i == (k - 1) \div bs
               n == BlockLen(Len(new), i * bs, bs)
               m == BlockLen(Len(old), i * bs, bs)
               newBlock == ReadBlock(new, i * bs, n)
               oldBlock == ReadBlock(old, i * bs, m)
    <2>1. /\ i \in BlockIndices(Len(new), bs)
          /\ i * bs < k /\ k <= i * bs + bs
      BY BlockOfByte
    <2>2. i \in Nat /\ i * bs \in Nat
      BY <2>1, BlockStarts
    <2>3. i \in BlockIndices(Len(old), bs)
      <3>1. i \notin NumBlocks(Len(old), bs) .. (NumBlocks(Len(new), bs) - 1)
        BY <1>1 DEF NeededBlocks
      <3> HIDE DEF i
      <3> QED  BY <1>0, <3>1, <2>1, <2>2 DEF BlockIndices
    <2>4. ~BlockDiffers(oldBlock, i, sigs)
      BY <1>1, <2>3 DEF NeededBlocks
    <2>5. newBlock = oldBlock
      BY <2>1, <2>4 DEF BlockDiffers, Signatures
    <2> HIDE DEF i
    <2>6. /\ DOMAIN newBlock = 1 .. n /\ n \in 1 .. bs
          /\ \A j \in 1 .. n : newBlock[j] = new[i * bs + j]
      BY <2>1, BlockContent
    <2>7. /\ DOMAIN oldBlock = 1 .. m
          /\ \A j \in 1 .. m : oldBlock[j] = old[i * bs + j]
      BY <2>3, BlockContent
    <2> HIDE DEF newBlock, oldBlock
    <2>8. k - i * bs \in 1 .. n
      <3> DEFINE o == i * bs
      <3>1. o \in Nat /\ o < k /\ k <= o + bs /\ k <= Len(new)
        BY <2>1, <2>2
      <3>2. n = BlockLen(Len(new), o, bs)
        OBVIOUS
      <3> HIDE DEF o, n
      <3>3. k - o \in 1 .. n
        BY <3>1, <3>2 DEF BlockLen
      <3> QED  BY <3>3 DEF o
    <2>9. k - i * bs \in 1 .. m
      BY <2>5, <2>6, <2>7, <2>8, Zenon
    <2>10. i * bs + (k - i * bs) = k
      BY <2>2
    <2>11. newBlock[k - i * bs] = new[k] /\ oldBlock[k - i * bs] = old[k]
      BY <2>6, <2>7, <2>8, <2>9, <2>10
    <2>12. k <= Len(old)
      <3> DEFINE o == i * bs
      <3>1. o \in Nat /\ k - o \in 1 .. m
        BY <2>2, <2>9
      <3>2. m = BlockLen(Len(old), o, bs)
        OBVIOUS
      <3> HIDE DEF o, m
      <3> QED  BY <3>1, <3>2 DEF BlockLen
    <2> QED  BY <2>5, <2>11, <2>12
  <1> HIDE DEF needed
  <1>2. \A k \in 1 .. Len(new) :
          (IF (k - 1) \div bs \in needed THEN new[k]
           ELSE IF k <= Len(old) THEN old[k] ELSE Hole) = new[k]
    BY <1>1
  <1>3. Merge(old, new, bs, needed) = [k \in 1 .. Len(new) |-> new[k]]
    BY <1>2 DEF Merge
  <1>4. new = [k \in 1 .. Len(new) |-> new[k]]
    OBVIOUS
  <1> QED  BY <1>3, <1>4 DEF needed

(***************************************************************************)
(* The server "requests only modified blocks": a block it asks for is not  *)
(* the same on both sides.                                                 *)
(***************************************************************************)
THEOREM NeededBlocksMinimal ==
    ASSUME NEW Data, NEW old \in Seq(Data), NEW new \in Seq(Data), NEW bs \in Nat \ {0},
           NEW i \in NeededBlocks(old, Len(new), bs, Signatures(new, bs))
    PROVE  ReadBlock(old, i * bs, BlockLen(Len(old), i * bs, bs))
           # ReadBlock(new, i * bs, BlockLen(Len(new), i * bs, bs))
  <1> DEFINE oldBlock == ReadBlock(old, i * bs, BlockLen(Len(old), i * bs, bs))
             newBlock == ReadBlock(new, i * bs, BlockLen(Len(new), i * bs, bs))
  <1>1. /\ NumBlocks(Len(old), bs) \in Nat /\ Len(old) <= NumBlocks(Len(old), bs) * bs
        /\ NumBlocks(Len(new), bs) \in Nat /\ Len(new) <= NumBlocks(Len(new), bs) * bs
    BY NumBlocksExact
  <1>2. CASE /\ i \in BlockIndices(Len(old), bs)
             /\ BlockDiffers(oldBlock, i, Signatures(new, bs))
    <2>1. CASE i \in BlockIndices(Len(new), bs)
      <3>1. oldBlock # <<>>
        <4>1. 1 \in DOMAIN oldBlock
          BY <1>2, BlockContent
        <4> QED  BY <4>1
      <3>2. Signatures(new, bs)[i] = newBlock /\ i \in DOMAIN Signatures(new, bs)
        BY <2>1 DEF Signatures
      <3> QED  BY <3>1, <3>2, <1>2 DEF BlockDiffers
    <2>2. CASE i \notin BlockIndices(Len(new), bs)
      <3>1. 1 \in DOMAIN oldBlock
        BY <1>2, BlockContent
      <3>2. 1 \notin DOMAIN newBlock
        <4>1. i \in Nat /\ i >= NumBlocks(Len(new), bs)
          BY <1>1, <1>2, <2>2 DEF BlockIndices
        <4>2. i * bs >= NumBlocks(Len(new), bs) * bs /\ i * bs \in Nat
          BY <4>1, <1>1
        <4>3. i * bs >= Len(new)
          BY <4>2, <1>1
        <4> QED  BY <4>2, <4>3 DEF BlockLen, ReadBlock
      <3> QED  BY <3>1, <3>2
    <2> QED  BY <2>1, <2>2
  <1>3. CASE i \in NumBlocks(Len(old), bs) .. (NumBlocks(Len(new), bs) - 1)
    <2>1. i \in BlockIndices(Len(new), bs)
      BY <1>1, <1>3 DEF BlockIndices
    <2>2. 1 \in DOMAIN newBlock
      BY <2>1, BlockContent
    <2>3. 1 \notin DOMAIN oldBlock
      <3>1. i \in Nat /\ i >= NumBlocks(Len(old), bs)
        BY <1>1, <1>3
      <3>2. i * bs >= NumBlocks(Len(old), bs) * bs /\ i * bs \in Nat
        BY <3>1, <1>1
      <3>3. i * bs >= Len(old)
        BY <3>2, <1>1
      <3> QED  BY <3>2, <3>3 DEF BlockLen, ReadBlock
    <2> QED  BY <2>2, <2>3
  <1> QED  BY <1>2, <1>3 DEF NeededBlocks
-----------------------------------------------------------------------------
(* Sequences. *)

LEMMA EmptySubSeq ==
    ASSUME NEW s, NEW m \in Int, NEW n \in Int, n < m
    PROVE  SubSeq(s, m, n) = <<>>
  OBVIOUS

LEMMA WholeSubSeq ==
    ASSUME NEW S, NEW s \in Seq(S)
    PROVE  SubSeq(s, 1, Len(s)) = s
  OBVIOUS

LEMMA HeadTailSubSeq ==
    ASSUME NEW S, NEW s \in Seq(S), NEW m \in 1 .. Len(s), NEW n \in m .. Len(s)
    PROVE  /\ Head(SubSeq(s, m, n)) = s[m]
           /\ Tail(SubSeq(s, m, n)) = SubSeq(s, m + 1, n)
  OBVIOUS

LEMMA EqualSeqs ==
    ASSUME NEW S, NEW s \in Seq(S), NEW t \in Seq(S),
           Len(s) = Len(t), \A i \in 1 .. Len(s) : s[i] = t[i]
    PROVE  s = t
  OBVIOUS

LEMMA EmptyConcat ==
    ASSUME NEW S, NEW s \in Seq(S)
    PROVE  <<>> \o s = s
  OBVIOUS
-----------------------------------------------------------------------------
(* The order in which the blocks are sent. *)

\* q enumerates S in ascending order.
Enumerates(q, S) ==
    /\ q \in [1 .. Cardinality(S) -> S]
    /\ \A j, k \in DOMAIN q : j < k => q[j] < q[k]
    /\ \A i \in S : \E k \in DOMAIN q : q[k] = i

\* The blocks that are sent, in their order; the bytes of block i.
Order(c, bs, I) == Ascending(PresentBlocks(c, bs, I))
Bytes(c, bs, i) == BlockLen(Len(c), i * bs, bs)

\* They are blocks of the file, finitely many and each in its place.
Ordered(c, bs, I) ==
    /\ PresentBlocks(c, bs, I) \subseteq BlockIndices(Len(c), bs)
    /\ Cardinality(PresentBlocks(c, bs, I)) \in Nat
    /\ Enumerates(Order(c, bs, I), PresentBlocks(c, bs, I))

\* It is proved at the end that this is always so.
AlwaysOrdered == \A c \in Seq(Nat), bs \in Nat \ {0}, I \in SUBSET Nat : Ordered(c, bs, I)

LEMMA OrderOfBlocks ==
    ASSUME AlwaysOrdered, NEW c \in Seq(Nat), NEW bs \in Nat \ {0}, NEW I \in SUBSET Nat
    PROVE  /\ PresentBlocks(c, bs, I) \subseteq BlockIndices(Len(c), bs)
           /\ Cardinality(PresentBlocks(c, bs, I)) \in Nat
           /\ Enumerates(Order(c, bs, I), PresentBlocks(c, bs, I))
  BY Zenon DEF AlwaysOrdered, Ordered

\* A block with another one behind it is full.
LEMMA FullUnlessLast ==
    ASSUME NEW c \in Seq(Nat), NEW bs \in Nat \ {0}, NEW i \in Nat, NEW j \in Nat,
           i < j, j * bs < Len(c)
    PROVE  Bytes(c, bs, i) = bs /\ i * bs + bs <= j * bs /\ i * bs \in Nat /\ j * bs \in Nat
  <1>1. i * bs + bs <= j * bs /\ i * bs \in Nat /\ j * bs \in Nat
    BY BlocksApart
  <1> QED
    BY <1>1 DEF Bytes, BlockLen

\* write_block_atomic behind the end of what was written before.
LEMMA WriteBehind ==
    ASSUME NEW t \in Seq(Nat), NEW d \in Seq(Nat), NEW off \in Nat, Len(t) <= off, d # <<>>
    PROVE  /\ WriteAt(t, off, d) \in Seq(Nat)
           /\ Len(WriteAt(t, off, d)) = off + Len(d)
           /\ \A k \in 1 .. Len(t) : WriteAt(t, off, d)[k] = t[k]
           /\ \A k \in 1 .. Len(d) : WriteAt(t, off, d)[off + k] = d[k]
  <1> DEFINE len == off + Len(d)
             w == [k \in 1 .. len |-> IF k > off /\ k <= off + Len(d) THEN d[k - off]
                                       ELSE IF k <= Len(t) THEN t[k] ELSE Hole]
  <1>1. Len(d) \in Nat \ {0} /\ Len(t) \in Nat
    OBVIOUS
  <1>2. WriteAt(t, off, d) = w
    BY <1>1 DEF WriteAt
  <1>3. \A k \in 1 .. len : w[k] \in Nat
    BY <1>1, SMTT(30) DEF Hole
  <1>4. w \in Seq(Nat) /\ Len(w) = len
    BY <1>1, <1>3
  <1>5. \A k \in 1 .. Len(t) : w[k] = t[k]
    BY <1>1
  <1>6. ASSUME NEW k \in 1 .. Len(d) PROVE w[off + k] = d[k]
    <2>1. off + k \in 1 .. len /\ off + k > off /\ off + k <= off + Len(d) /\ off + k - off = k
      BY <1>1
    <2> QED
      BY <2>1
  <1> HIDE DEF w
  <1> QED
    BY <1>2, <1>4, <1>5, <1>6, Zenon

\* The .tmp file t after the first m of the blocks q of c were written into it.
Partial(t, c, bs, q, m) ==
    \/ m = 0 /\ t = NoFile
    \/ /\ m > 0 /\ t \in Seq(Nat)
       /\ Len(t) = q[m] * bs + Bytes(c, bs, q[m])
       /\ \A j \in 1 .. m : \A k \in 1 .. Bytes(c, bs, q[j]) : t[q[j] * bs + k] = c[q[j] * bs + k]

\* The message for block i: where it starts, how long it is, and its bytes.
LEMMA BlockMessage ==
    ASSUME NEW c \in Seq(Nat), NEW bs \in Nat \ {0}, NEW i \in BlockIndices(Len(c), bs)
    PROVE  LET block == BlockData(c, bs, i)
           IN  /\ i \in Nat /\ i * bs \in Nat /\ i * bs < Len(c)
               /\ Bytes(c, bs, i) \in 1 .. bs /\ i * bs + Bytes(c, bs, i) <= Len(c)
               /\ block.block_offset = i * bs
               /\ block.data \in Seq(Nat) /\ Len(block.data) = Bytes(c, bs, i)
               /\ block.data # <<>>
               /\ \A k \in 1 .. Bytes(c, bs, i) : block.data[k] = c[i * bs + k]
  <1> DEFINE o == i * bs
             n == Bytes(c, bs, i)
             d == ReadBlock(c, o, n)
  <1>1. i \in Nat /\ o \in Nat /\ o < Len(c)
    BY BlockStarts, Len(c) \in Nat
  <1>2. /\ n \in 1 .. bs /\ o + n <= Len(c)
        /\ DOMAIN d = 1 .. n /\ \A k \in 1 .. n : d[k] = c[o + k]
    BY BlockContent DEF Bytes
  <1>3. d = [k \in 1 .. n |-> c[o + k]]
    <2>1. o + n <= Len(c)
      BY <1>2
    <2> HIDE DEF o, n
    <2> QED
      BY <2>1 DEF ReadBlock
  <1>4. BlockData(c, bs, i).block_offset = o /\ BlockData(c, bs, i).data = d
    BY DEF BlockData, Bytes
  <1> HIDE DEF o, n, d
  <1>5. \A k \in 1 .. n : c[o + k] \in Nat
    <2> SUFFICES ASSUME NEW k \in 1 .. n PROVE c[o + k] \in Nat
      OBVIOUS
    <2>1. o + k \in 1 .. Len(c)
      BY <1>1, <1>2
    <2> QED
      BY <2>1
  <1>6. d \in Seq(Nat) /\ Len(d) = n
    BY <1>2, <1>3, <1>5
  <1>7. d # <<>>
    BY <1>2, <1>6
  <1> QED
    BY <1>1, <1>2, <1>4, <1>6, <1>7 DEF o, n

\* Blocks do not overlap, and the end of one is at most the end of a later one.
LEMMA BlockEnds ==
    ASSUME NEW c \in Seq(Nat), NEW bs \in Nat \ {0}, NEW i \in BlockIndices(Len(c), bs),
           NEW j \in BlockIndices(Len(c), bs), i < j
    PROVE  i * bs + Bytes(c, bs, i) <= j * bs /\ Bytes(c, bs, i) = bs
  <1>1. i \in Nat /\ j \in Nat /\ j * bs < Len(c)
    BY BlockMessage
  <1> QED
    BY <1>1, FullUnlessLast, Zenon

\* The next block goes behind what is there.
LEMMA PartialStep ==
    ASSUME AlwaysOrdered, NEW c \in Seq(Nat), NEW bs \in Nat \ {0}, NEW I \in SUBSET Nat, NEW t, NEW m \in Nat,
           m < Cardinality(PresentBlocks(c, bs, I)),
           Partial(t, c, bs, Order(c, bs, I), m)
    PROVE  LET block == BlockData(c, bs, Order(c, bs, I)[m + 1])
           IN  Partial(WriteAt(IF t = NoFile THEN <<>> ELSE t, block.block_offset, block.data),
                       c, bs, Order(c, bs, I), m + 1)
  <1> DEFINE q == Order(c, bs, I)
             P == PresentBlocks(c, bs, I)
             off(j) == q[j] * bs
             len(j) == Bytes(c, bs, q[j])
             d == BlockData(c, bs, q[m + 1]).data
             old == IF t = NoFile THEN <<>> ELSE t
             w == WriteAt(old, off(m + 1), d)
  <1>1. /\ P \subseteq BlockIndices(Len(c), bs) /\ Cardinality(P) \in Nat
        /\ q \in [1 .. Cardinality(P) -> P]
        /\ \A j, k \in 1 .. Cardinality(P) : j < k => q[j] < q[k]
    BY OrderOfBlocks, ZenonT(30) DEF Enumerates
  <1>2. \A j \in 1 .. m + 1 : j \in 1 .. Cardinality(P) /\ q[j] \in BlockIndices(Len(c), bs)
    <2>1. m < Cardinality(P)
      OBVIOUS
    <2> HIDE DEF q, P
    <2> QED
      BY <2>1, <1>1
  <1>3. \A j \in 1 .. m + 1 : off(j) \in Nat /\ len(j) \in Nat \ {0}
    BY <1>2, BlockMessage, SMTT(30)
  <1>4. \A j, k \in 1 .. m + 1 : j < k => off(j) + len(j) <= off(k)
    BY <1>1, <1>2, BlockEnds
  <1>5. /\ d \in Seq(Nat) /\ Len(d) = len(m + 1) /\ d # <<>>
        /\ BlockData(c, bs, q[m + 1]).block_offset = off(m + 1)
        /\ \A k \in 1 .. len(m + 1) : d[k] = c[off(m + 1) + k]
    BY <1>2, BlockMessage, m + 1 \in 1 .. m + 1, ZenonT(30)
  <1>6. \/ m = 0 /\ t = NoFile
        \/ /\ m > 0 /\ t \in Seq(Nat) /\ Len(t) = off(m) + len(m)
           /\ \A j \in 1 .. m : \A k \in 1 .. len(j) : t[off(j) + k] = c[off(j) + k]
    BY DEF Partial
  <1> HIDE DEF off, len, d, q
  <1>7. old \in Seq(Nat) /\ Len(old) <= off(m + 1)
    <2>1. CASE m = 0
      BY <2>1, <1>3, <1>6
    <2>2. CASE m > 0
      <3>1. off(m) + len(m) <= off(m + 1)
        BY <2>2, <1>4
      <3> QED
        BY <2>2, <3>1, <1>6, DeltaSyncAssumption, SMTT(30)
    <2> QED
      BY <2>1, <2>2
  <1>8. /\ w \in Seq(Nat) /\ Len(w) = off(m + 1) + len(m + 1)
        /\ \A k \in 1 .. Len(old) : w[k] = old[k]
        /\ \A k \in 1 .. len(m + 1) : w[off(m + 1) + k] = d[k]
    <2>1. off(m + 1) \in Nat
      BY <1>3
    <2>2. /\ w \in Seq(Nat) /\ Len(w) = off(m + 1) + Len(d)
          /\ \A k \in 1 .. Len(old) : w[k] = old[k]
          /\ \A k \in 1 .. Len(d) : w[off(m + 1) + k] = d[k]
      <3> DEFINE o == off(m + 1)
      <3>1. /\ old \in Seq(Nat) /\ d \in Seq(Nat) /\ o \in Nat /\ Len(old) <= o /\ d # <<>>
        BY <2>1, <1>5, <1>7
      <3> HIDE DEF old, o
      <3>2. /\ WriteAt(old, o, d) \in Seq(Nat)
            /\ Len(WriteAt(old, o, d)) = o + Len(d)
            /\ \A k \in 1 .. Len(old) : WriteAt(old, o, d)[k] = old[k]
            /\ \A k \in 1 .. Len(d) : WriteAt(old, o, d)[o + k] = d[k]
        BY ONLY <3>1, WriteBehind, ZenonT(30)
      <3> QED
        BY <3>2 DEF o
    <2> HIDE DEF old, w
    <2> QED
      BY <2>2, <1>5
  <1>9. ASSUME NEW j \in 1 .. m + 1, NEW k \in 1 .. len(j)
        PROVE  w[off(j) + k] = c[off(j) + k]
    <2>1. CASE j = m + 1
      <3> HIDE DEF w
      <3> QED
        BY <2>1, <1>5, <1>8, SMTT(30)
    <2>2. CASE j \in 1 .. m
      <3>1. t \in Seq(Nat) /\ Len(t) = off(m) + len(m) /\ t[off(j) + k] = c[off(j) + k]
        BY <2>2, <1>6
      <3>2. old = t
        BY <3>1, DeltaSyncAssumption
      <3>3. off(j) + len(j) <= off(m) + len(m)
        <4>1. off(j) \in Nat /\ len(j) \in Nat /\ off(m) \in Nat /\ len(m) \in Nat
          BY <2>2, <1>3
        <4>2. j < m => off(j) + len(j) <= off(m)
          BY <2>2, <1>4
        <4> QED
          BY <2>2, <4>1, <4>2
      <3>4. off(j) + k \in 1 .. Len(old)
        <4>1. off(j) \in Nat /\ len(j) \in Nat /\ off(m) \in Nat /\ len(m) \in Nat
          BY <2>2, <1>3
        <4>2. Len(old) = off(m) + len(m)
          BY <3>1, <3>2
        <4> HIDE DEF old
        <4> QED
          BY <4>1, <4>2, <3>3, SMTT(30)
      <3> HIDE DEF old, w
      <3> QED
        BY <3>1, <3>2, <3>4, <1>8, SMTT(30)
    <2> QED
      BY <2>1, <2>2, SMTT(30)
  <1> HIDE DEF w
  <1>10. Partial(w, c, bs, q, m + 1)
    BY <1>8, <1>9, SMTT(30) DEF Partial, off, len
  <1> QED
    BY <1>5, <1>10 DEF w, d, q

\* A short block is the last one of the file, so no other one is sent after it.
LEMMA ShortIsLast ==
    ASSUME AlwaysOrdered, NEW c \in Seq(Nat), NEW bs \in Nat \ {0}, NEW I \in SUBSET Nat,
           NEW m \in 1 .. Cardinality(PresentBlocks(c, bs, I)),
           Bytes(c, bs, Order(c, bs, I)[m]) < bs
    PROVE  m = Cardinality(PresentBlocks(c, bs, I))
  <1> DEFINE q == Order(c, bs, I)
             P == PresentBlocks(c, bs, I)
             n == Cardinality(P)
  <1>1. /\ P \subseteq BlockIndices(Len(c), bs) /\ n \in Nat
        /\ q \in [1 .. n -> P] /\ \A j, k \in 1 .. n : j < k => q[j] < q[k]
    BY OrderOfBlocks, SMTT(30) DEF Enumerates
  <1> SUFFICES ASSUME m < n PROVE FALSE
    BY <1>1
  <1> HIDE DEF q, n, P
  <1>2. n \in 1 .. n /\ m \in 1 .. n
    BY <1>1 DEF n, P
  <1>3. q[m] \in BlockIndices(Len(c), bs) /\ q[n] \in BlockIndices(Len(c), bs) /\ q[m] < q[n]
    BY <1>1, <1>2
  <1>4. Bytes(c, bs, q[m]) = bs
    BY <1>3, BlockEnds
  <1> QED
    BY <1>4 DEF q

\* When every block was sent and the last one is short, the .tmp file is the file.
LEMMA PartialFull ==
    ASSUME AlwaysOrdered, NEW c \in Seq(Nat), NEW bs \in Nat \ {0}, NEW I \in SUBSET Nat, NEW t,
           NEW m \in 1 .. Cardinality(PresentBlocks(c, bs, I)),
           Partial(t, c, bs, Order(c, bs, I), m),
           Bytes(c, bs, Order(c, bs, I)[m]) < bs,
           BlockIndices(Len(c), bs) \subseteq I
    PROVE  t = c
  <1> DEFINE q == Order(c, bs, I)
             P == PresentBlocks(c, bs, I)
  <1>1. /\ P \subseteq BlockIndices(Len(c), bs) /\ Cardinality(P) \in Nat
        /\ q \in [1 .. Cardinality(P) -> P]
        /\ \A i \in P : \E j \in 1 .. Cardinality(P) : q[j] = i
    BY OrderOfBlocks DEF Enumerates
  <1>2. m = Cardinality(P)
    BY ShortIsLast
  <1>3. /\ t \in Seq(Nat) /\ Len(t) = q[m] * bs + Bytes(c, bs, q[m])
        /\ \A j \in 1 .. m : \A k \in 1 .. Bytes(c, bs, q[j]) : t[q[j] * bs + k] = c[q[j] * bs + k]
    BY DEF Partial
  <1>4. Len(t) = Len(c)
    <2>1. q[m] * bs \in Nat
      <3>1. q[m] \in BlockIndices(Len(c), bs)
        BY <1>1, SMTT(30)
      <3> QED
        BY <3>1, BlockMessage
    <2>2. Bytes(c, bs, q[m]) = Len(c) - q[m] * bs
      <3> DEFINE o == q[m] * bs
      <3>1. BlockLen(Len(c), o, bs) < bs
        BY DEF Bytes
      <3> HIDE DEF o
      <3>2. BlockLen(Len(c), o, bs) = Len(c) - o
        BY <3>1 DEF BlockLen
      <3> QED
        BY <3>2 DEF o, Bytes
    <2> QED
      BY <1>3, <2>1, <2>2
  <1>5. ASSUME NEW x \in 1 .. Len(c) PROVE t[x] = c[x]
    <2> DEFINE i == (x - 1) \div bs
               o == i * bs
    <2>1. i \in BlockIndices(Len(c), bs) /\ o < x /\ x <= o + bs
      BY BlockOfByte, Len(c) \in Nat
    <2>2. i \in Nat /\ o \in Nat /\ o < Len(c)
      BY <2>1, BlockMessage, SMTT(30)
    <2>3. i \in P
      BY <2>1, <2>2 DEF PresentBlocks
    <2>4. PICK j \in 1 .. m : q[j] = i
      BY <2>3, <1>1, <1>2
    <2>5. Bytes(c, bs, i) = IF o + bs > Len(c) THEN Len(c) - o ELSE bs
      BY DEF Bytes, BlockLen
    <2>6. \A k \in 1 .. Bytes(c, bs, i) : t[o + k] = c[o + k]
      BY <1>3, <2>4, Zenon
    <2> HIDE DEF o, i
    <2>7. x - o \in 1 .. Bytes(c, bs, i) /\ o + (x - o) = x
      BY <2>1, <2>2, <2>5
    <2> QED
      BY <2>6, <2>7, SMTT(30)
  <1> QED
    BY <1>3, <1>4, <1>5, EqualSeqs, Zenon

\* The frames of read_requested_blocks.
LEMMA FramesInOrder ==
    ASSUME AlwaysOrdered, NEW c \in Seq(Nat), NEW I \in SUBSET Nat
    PROVE  LET P == PresentBlocks(c, EngineBlockSize, I)
               q == Order(c, EngineBlockSize, I)
           IN  /\ Cardinality(P) \in Nat
               /\ BlockFrames(c, I) \in Seq([type : {"block"}, block_offset : Nat, data : Seq(Nat)])
               /\ Len(BlockFrames(c, I)) = Cardinality(P)
               /\ \A k \in 1 .. Cardinality(P) :
                    /\ q[k] \in BlockIndices(Len(c), EngineBlockSize)
                    /\ BlockFrames(c, I)[k] = BlockData(c, EngineBlockSize, q[k])
  <1> DEFINE P == PresentBlocks(c, EngineBlockSize, I)
             q == Order(c, EngineBlockSize, I)
             Message == [type : {"block"}, block_offset : Nat, data : Seq(Nat)]
             n == Cardinality(P)
  <1>0. EngineBlockSize \in Nat \ {0}
    BY DeltaSyncAssumption DEF EngineBlockSize
  <1>1. /\ P \subseteq BlockIndices(Len(c), EngineBlockSize) /\ n \in Nat
        /\ q \in [1 .. n -> P]
    BY <1>0, OrderOfBlocks DEF Enumerates
  <1>2. BlockFrames(c, I) = [k \in 1 .. n |-> BlockData(c, EngineBlockSize, q[k])]
    BY <1>1 DEF BlockFrames, Order
  <1>3. \A k \in 1 .. n : q[k] \in BlockIndices(Len(c), EngineBlockSize)
    BY <1>1, SMTT(30)
  <1> HIDE DEF P, q, n
  <1>4. \A k \in 1 .. n : BlockData(c, EngineBlockSize, q[k]) \in Message
    <2> SUFFICES ASSUME NEW k \in 1 .. n PROVE BlockData(c, EngineBlockSize, q[k]) \in Message
      OBVIOUS
    <2> DEFINE b == BlockData(c, EngineBlockSize, q[k])
    <2>1. b.block_offset \in Nat /\ b.data \in Seq(Nat)
      BY <1>0, <1>3, BlockMessage, SMTT(30)
    <2>2. b = [type |-> "block", block_offset |-> b.block_offset, data |-> b.data]
      BY DEF BlockData
    <2> HIDE DEF b
    <2>3. b \in Message
      BY <2>1, <2>2
    <2> QED
      BY <2>3 DEF b
  <1> HIDE DEF Message
  <1>5. BlockFrames(c, I) \in Seq(Message) /\ Len(BlockFrames(c, I)) = n
    BY <1>1, <1>2, <1>4
  <1> QED
    BY <1>1, <1>2, <1>3, <1>5 DEF P, q, n, Message
-----------------------------------------------------------------------------
Sent == PresentBlocks(sync.content, EngineBlockSize, sync.indices)
Frames == BlockFrames(sync.content, sync.indices)

\* What the server answers to the signatures of the file that was signed.
Needed == IF target = NoFile THEN BlockIndices(Len(signed), EngineBlockSize)
          ELSE NeededBlocks(target, Len(signed), EngineBlockSize, Signatures(signed, EngineBlockSize))

\* The target is the file that was sent, if all of it was.
Whole ==
    /\ tmp = NoFile
    /\ (sync.fresh /\ BlockIndices(Len(sync.content), EngineBlockSize) \subseteq sync.indices)
       => target = sync.content

\* The stages of a sync: what is in flight, and what the server has by then.
Idle ==
    /\ phase \in {"offline", "idle"} /\ c2s = <<>> /\ s2c = <<>>
    /\ result = "ok" => Whole
Signed ==
    /\ phase = "await_request" /\ result = "none" /\ s2c = <<>>
    /\ c2s = <<SignatureRequest(Len(signed), EngineBlockSize, Signatures(signed, EngineBlockSize))>>
Asked ==
    /\ phase = "await_request" /\ result = "none" /\ c2s = <<>>
    /\ s2c = <<[type |-> "request", indices |-> Needed]>>
SendingFrom(m) ==
    /\ c2s = SubSeq(Frames, m + 1, Cardinality(Sent))
    /\ sync.fresh => Partial(tmp, sync.content, EngineBlockSize,
                             Order(sync.content, EngineBlockSize, sync.indices), m)
Sending ==
    /\ phase = "await_complete" /\ result = "none" /\ s2c = <<>>
    /\ \E m \in 0 .. Cardinality(Sent) : SendingFrom(m)
Reported ==
    /\ phase = "await_complete" /\ result = "none" /\ c2s = <<>>
    /\ s2c = <<[type |-> "complete", status |-> 1]>> /\ Whole

Types ==
    /\ local \in Content /\ signed \in Content /\ sync.content \in Content
    /\ sync.indices \in SUBSET Nat
    /\ target \in Seq(Nat) \cup {NoFile} /\ tmp \in Seq(Nat) \cup {NoFile}
    /\ block_size = EngineBlockSize
    /\ phase # "offline" => negotiated = EngineBlockSize

Stages == Idle \/ Signed \/ Asked \/ Sending \/ Reported
IInv == Types /\ Stages

LEMMA Contents ==
    /\ Content \subseteq Seq(Nat) /\ NoFile \notin Seq(Nat)
    /\ EngineBlockSize \in Nat \ {0}
  BY DeltaSyncAssumption DEF EngineBlockSize

\* A block request names blocks.
LEMMA NeededType ==
    ASSUME IInv
    PROVE  Needed \in SUBSET Nat
  <1>1. signed \in Seq(Nat) /\ Len(signed) \in Nat
    BY Contents DEF IInv, Types
  <1>2. NumBlocks(Len(signed), EngineBlockSize) \in Nat
    BY <1>1, Contents, NumBlocksExact, Zenon
  <1>3. CASE target = NoFile
    BY <1>2, <1>3 DEF Needed, BlockIndices
  <1>4. CASE target # NoFile
    <2>1. Len(target) \in Nat
      BY <1>4 DEF IInv, Types
    <2>2. NumBlocks(Len(target), EngineBlockSize) \in Nat
      BY <2>1, Contents, NumBlocksExact
    <2> QED
      BY <1>2, <1>4, <2>2 DEF Needed, NeededBlocks, BlockIndices
  <1> QED
    BY <1>3, <1>4

\* write_block_atomic never makes anything but a file.
LEMMA WriteType ==
    ASSUME NEW t \in Seq(Nat), NEW d \in Seq(Nat), NEW off \in Nat
    PROVE  WriteAt(t, off, d) \in Seq(Nat)
  <1> DEFINE len == IF off + Len(d) > Len(t) THEN off + Len(d) ELSE Len(t)
             w == [k \in 1 .. len |-> IF k > off /\ k <= off + Len(d) THEN d[k - off]
                                       ELSE IF k <= Len(t) THEN t[k] ELSE Hole]
  <1>1. len \in Nat /\ \A k \in 1 .. len : w[k] \in Nat
    BY DEF Hole
  <1>2. WriteAt(t, off, d) = IF d = <<>> THEN t ELSE w
    BY DEF WriteAt
  <1> HIDE DEF len
  <1>3. w \in Seq(Nat)
    BY <1>1
  <1> QED
    BY <1>2, <1>3

LEMMA InitStage ==
    ASSUME Init
    PROVE  IInv
  BY Contents DEF Init, IInv, Types, Stages, Idle, EngineBlockSize

LEMMA ConnectStep ==
    ASSUME IInv, Connect, InRange(PreferredBlockSize)
    PROVE  IInv'
  <1>1. block_size' = EngineBlockSize /\ negotiated' = EngineBlockSize
    BY DEF IInv, Types, Connect, SessionBlockSize, EngineBlockSize
  <1>2. Types'
    BY <1>1 DEF IInv, Types, Connect, files, history
  <1>3. Idle'
    BY SMTT(30) DEF IInv, Types, Stages, Idle, Signed, Asked, Sending, Reported, Connect, files, history, Whole
  <1> QED
    BY <1>2, <1>3 DEF IInv, Stages

LEMMA SendSignaturesStep ==
    ASSUME IInv, SendSignatures
    PROVE  IInv'
  <1>1. Idle
    BY DEF IInv, Stages, Idle, Signed, Asked, Sending, Reported, SendSignatures
  <1>2. Types'
    BY DEF IInv, Types, SendSignatures, files
  <1>3. Signed'
    BY <1>1, SMTT(30) DEF IInv, Types, Signed, Idle, SendSignatures
  <1> QED
    BY <1>2, <1>3 DEF IInv, Stages

\* The first frame in flight is the message of the next block.
LEMMA SendingHead ==
    ASSUME AlwaysOrdered, Types, NEW m \in 0 .. Cardinality(Sent), SendingFrom(m), c2s # <<>>
    PROVE  LET i == Order(sync.content, EngineBlockSize, sync.indices)[m + 1]
           IN  /\ m < Cardinality(Sent) /\ Cardinality(Sent) \in Nat
               /\ i \in BlockIndices(Len(sync.content), EngineBlockSize)
               /\ Head(c2s) = BlockData(sync.content, EngineBlockSize, i)
               /\ Tail(c2s) = SubSeq(Frames, m + 2, Cardinality(Sent))
  <1> DEFINE q == Order(sync.content, EngineBlockSize, sync.indices)
             Message == [type : {"block"}, block_offset : Nat, data : Seq(Nat)]
             n == Cardinality(Sent)
  <1>1. /\ n \in Nat /\ Frames \in Seq(Message) /\ Len(Frames) = n
        /\ \A k \in 1 .. n : /\ q[k] \in BlockIndices(Len(sync.content), EngineBlockSize)
                             /\ Frames[k] = BlockData(sync.content, EngineBlockSize, q[k])
    BY Contents, FramesInOrder, ZenonT(30) DEF Types, Frames, Sent
  <1>2. c2s = SubSeq(Frames, m + 1, n)
    BY DEF SendingFrom
  <1> HIDE DEF q, Message, n
  <1>3. m \in Nat /\ m <= n
    BY <1>1 DEF n
  <1>4. m < n
    <2> SUFFICES ASSUME n < m + 1 PROVE FALSE
      BY <1>1, <1>3
    <2> QED
      BY <1>1, <1>2, <1>3, EmptySubSeq
  <1>5. Head(c2s) = Frames[m + 1] /\ Tail(c2s) = SubSeq(Frames, (m + 1) + 1, n)
    <2>1. m + 1 \in 1 .. Len(Frames) /\ n \in (m + 1) .. Len(Frames)
      BY <1>1, <1>3, <1>4
    <2> QED
      BY <1>1, <1>2, <2>1, HeadTailSubSeq
  <1>6. m + 1 \in 1 .. n /\ (m + 1) + 1 = m + 2
    BY <1>1, <1>3, <1>4
  <1> QED
    BY <1>1, <1>4, <1>5, <1>6, SMTT(30) DEF q, n

LEMMA HandleSignaturesStep ==
    ASSUME AlwaysOrdered, IInv, HandleSignatures
    PROVE  IInv'
  <1>1. Signed
    <2>1. ASSUME Sending PROVE FALSE
      <3>1. PICK m \in 0 .. Cardinality(Sent) : SendingFrom(m)
        BY <2>1 DEF Sending
      <3>2. Head(c2s).type = "block"
        BY <3>1, SendingHead, SMTT(30) DEF IInv, HandleSignatures, BlockData
      <3> QED
        BY <3>2 DEF HandleSignatures
    <2> QED
      BY <2>1 DEF IInv, Stages, Idle, Asked, Reported, HandleSignatures
  <1>2. Types'
    BY DEF IInv, Types, HandleSignatures, files, history
  <1>3. Asked'
    BY <1>1, SMTT(30) DEF Signed, Asked, Needed, SignatureRequest, HandleSignatures, files, history
  <1> QED
    BY <1>2, <1>3 DEF IInv, Stages

LEMMA SendBlocksStep ==
    ASSUME AlwaysOrdered, IInv, SendBlocks
    PROVE  IInv'
  <1>1. Asked
    BY DEF IInv, Stages, Idle, Signed, Sending, Reported, SendBlocks
  <1>2. Head(s2c) = [type |-> "request", indices |-> Needed] /\ Tail(s2c) = <<>>
    BY <1>1 DEF Asked
  <1>3. AsBlockRequest(Head(s2c)) = Needed
    BY <1>2 DEF AsBlockRequest
  <1>4. /\ sync' = [content |-> local, indices |-> Needed, fresh |-> tmp = NoFile]
        /\ c2s' = c2s \o BlockFrames(local, Needed)
    BY <1>3, SMTT(30) DEF SendBlocks
  <1>5. sync'.content = local /\ sync'.indices = Needed /\ (sync'.fresh => tmp = NoFile)
    BY <1>4, Zenon
  <1>6. Types'
    BY <1>5, NeededType, SMTT(30) DEF IInv, Types, SendBlocks, files
  <1>7. Sending'
    <2> DEFINE n == Cardinality(PresentBlocks(local, EngineBlockSize, Needed))
               F == BlockFrames(local, Needed)
               Message == [type : {"block"}, block_offset : Nat, data : Seq(Nat)]
    <2>1. n \in Nat /\ F \in Seq(Message) /\ Len(F) = n
      BY Contents, NeededType, FramesInOrder, SMTT(30) DEF IInv, Types
    <2>2. Sent' = PresentBlocks(local, EngineBlockSize, Needed) /\ Frames' = F
      BY <1>5 DEF Sent, Frames, EngineBlockSize, BlockFrames
    <2> HIDE DEF F, Message
    <2>3. c2s' = SubSeq(F, 0 + 1, n)
      BY <1>1, <1>4, <2>1, WholeSubSeq, EmptyConcat DEF Asked, F
    <2>4. SendingFrom(0)'
      BY <1>5, <2>2, <2>3, Zenon DEF SendingFrom, Partial, SendBlocks, files
    <2>5. /\ phase' = "await_complete" /\ result' = "none" /\ s2c' = <<>>
      BY <1>1, <1>2 DEF SendBlocks, Asked
    <2>6. 0 \in 0 .. Cardinality(Sent')
      BY <2>1, <2>2
    <2> QED
      BY <2>4, <2>5, <2>6 DEF Sending
  <1> QED
    BY <1>6, <1>7 DEF IInv, Stages

LEMMA ReadCompleteStep ==
    ASSUME IInv, ReadComplete
    PROVE  IInv'
  <1>1. Reported
    BY DEF IInv, Stages, Idle, Signed, Asked, Sending, ReadComplete
  <1>2. s2c' = <<>> /\ c2s' = <<>> /\ phase' = "idle"
    BY <1>1 DEF Reported, ReadComplete
  <1>3. Types'
    BY SMTT(30) DEF IInv, Types, ReadComplete, files, history
  <1>4. Whole'
    BY <1>1, SMTT(30) DEF Reported, Whole, ReadComplete, files, history
  <1> QED
    BY <1>2, <1>3, <1>4 DEF IInv, Stages, Idle

LEMMA HandleBlockDataStep ==
    ASSUME AlwaysOrdered, IInv, HandleBlockData
    PROVE  IInv'
  <1> DEFINE c == sync.content
             q == Order(c, EngineBlockSize, sync.indices)
             n == Cardinality(Sent)
             block == Head(c2s)
             written == WriteAt(IF tmp = NoFile THEN <<>> ELSE tmp, block.block_offset, block.data)
  <1>1. Sending
    BY SMTT(30) DEF IInv, Stages, Idle, Signed, Asked, Reported, SignatureRequest, HandleBlockData
  <1>2. PICK m \in 0 .. n : SendingFrom(m)
    BY <1>1 DEF Sending
  <1>3. c \in Seq(Nat) /\ sync.indices \in SUBSET Nat /\ negotiated = EngineBlockSize
    BY <1>1, Contents DEF IInv, Types, Sending
  <1>4. /\ m < n /\ n \in Nat /\ q[m + 1] \in BlockIndices(Len(c), EngineBlockSize)
        /\ block = BlockData(c, EngineBlockSize, q[m + 1])
        /\ Tail(c2s) = SubSeq(Frames, m + 2, n)
    BY <1>2, SendingHead, Zenon DEF IInv, HandleBlockData
  <1>5. m \in Nat /\ m + 1 \in 1 .. n /\ (m + 1) + 1 = m + 2
    BY <1>4
  <1>6. /\ block.data \in Seq(Nat) /\ Len(block.data) = Bytes(c, EngineBlockSize, q[m + 1])
        /\ block.block_offset \in Nat
    <2> DEFINE i == q[m + 1]
    <2>1. i \in BlockIndices(Len(c), EngineBlockSize) /\ block = BlockData(c, EngineBlockSize, i)
      BY <1>4
    <2> HIDE DEF i, block, c
    <2>2. /\ BlockData(c, EngineBlockSize, i).data \in Seq(Nat)
          /\ Len(BlockData(c, EngineBlockSize, i).data) = Bytes(c, EngineBlockSize, i)
          /\ BlockData(c, EngineBlockSize, i).block_offset \in Nat
      <3>1. c \in Seq(Nat) /\ EngineBlockSize \in Nat \ {0} /\ i \in BlockIndices(Len(c), EngineBlockSize)
        BY <1>3, <2>1, Contents, Zenon
      <3>2. /\ i * EngineBlockSize \in Nat
            /\ BlockData(c, EngineBlockSize, i).block_offset = i * EngineBlockSize
            /\ BlockData(c, EngineBlockSize, i).data \in Seq(Nat)
            /\ Len(BlockData(c, EngineBlockSize, i).data) = Bytes(c, EngineBlockSize, i)
        BY ONLY <3>1, BlockMessage, ZenonT(30)
      <3> QED
        BY ONLY <3>2, Zenon
    <2> QED
      BY <2>1, <2>2, SMTT(30) DEF i
  <1>7. written \in Seq(Nat)
    <2>1. (IF tmp = NoFile THEN <<>> ELSE tmp) \in Seq(Nat)
      BY DEF IInv, Types
    <2> HIDE DEF block
    <2> QED
      BY <2>1, <1>6, WriteType, Zenon
  <1>8. sync.fresh => Partial(written, c, EngineBlockSize, q, m + 1)
    BY <1>2, <1>3, <1>4, <1>5, Contents, PartialStep, Zenon DEF SendingFrom, Sent
  <1>9. UNCHANGED <<local, phase, block_size, negotiated, result, signed, sync>> /\ c2s' = Tail(c2s)
    BY SMTT(30) DEF HandleBlockData, history
  <1>10. Sent' = Sent /\ Frames' = Frames
    BY <1>9 DEF Sent, Frames
  <1> HIDE DEF block, written, n, q
  <1>11. CASE IsFinal(block.data)
    <2>1. target' = written /\ tmp' = NoFile /\ s2c' = <<[type |-> "complete", status |-> 1]>>
      BY <1>1, <1>11, SMTT(30) DEF HandleBlockData, Sending, block, written
    <2>2. Bytes(c, EngineBlockSize, q[m + 1]) < EngineBlockSize
      BY <1>3, <1>6, <1>11 DEF IsFinal
    <2>3. m + 1 = n
      BY <1>3, <1>5, <2>2, Contents, ShortIsLast, Zenon DEF n, q, Sent
    <2>4. c2s' = <<>>
      BY <1>4, <1>5, <1>9, <2>3, EmptySubSeq
    <2>5. (sync.fresh /\ BlockIndices(Len(c), EngineBlockSize) \subseteq sync.indices)
          => written = c
      BY <1>3, <1>5, <1>8, <2>2, Contents, PartialFull, SMTT(30) DEF n, q, Sent
    <2>6. Whole'
      BY <2>1, <2>5, <1>9, SMTT(30) DEF Whole
    <2>7. Reported'
      BY <1>1, <1>9, <2>1, <2>4, <2>6 DEF Reported, Sending
    <2>8. Types'
      BY <1>7, <1>9, <2>1 DEF IInv, Types
    <2> QED
      BY <2>7, <2>8 DEF IInv, Stages
  <1>12. CASE ~IsFinal(block.data)
    <2>1. tmp' = written /\ target' = target /\ s2c' = s2c
      BY <1>12, SMTT(30) DEF HandleBlockData, block, written
    <2>2. SendingFrom(m + 1)'
      BY <1>4, <1>5, <1>8, <1>9, <1>10, <2>1, SMTT(30) DEF SendingFrom, n, q
    <2>3. Sending'
      <3>1. m + 1 \in 0 .. Cardinality(Sent')
        BY <1>5, <1>10 DEF n
      <3> QED
        BY <1>1, <1>9, <2>1, <2>2, <3>1 DEF Sending
    <2>4. Types'
      BY <1>7, <1>9, <2>1, SMTT(30) DEF IInv, Types
    <2> QED
      BY <2>3, <2>4 DEF IInv, Stages
  <1> QED
    BY <1>11, <1>12

\* Edits leave what was signed and sent alone; so does everything else outside.
LEMMA OtherStep ==
    ASSUME IInv, local' \in Content,
           UNCHANGED <<files, phase, block_size, negotiated, c2s, s2c, result, history>>
    PROVE  IInv'
  <1>1. Types'
    BY SMTT(30) DEF IInv, Types, files, history
  <1>2. /\ Sent' = Sent /\ Frames' = Frames /\ Needed' = Needed /\ Whole' = Whole
    BY SMTT(30) DEF Sent, Frames, Needed, Whole, files, history
  <1>3. Idle \/ Signed \/ Asked \/ Reported => Stages'
    BY <1>2, SMTT(30) DEF Stages, Idle, Signed, Asked, Reported, files, history
  <1>4. Sending => Sending'
    BY <1>2, Zenon DEF Sending, SendingFrom, files, history
  <1> QED
    BY <1>1, <1>3, <1>4 DEF IInv, Stages

LEMMA LoseConnectionStep ==
    ASSUME IInv, LoseConnection
    PROVE  IInv'
  <1>1. Types'
    BY DEF IInv, Types, LoseConnection, files, history
  <1>2. result' = "ok" => Whole'
    BY SMTT(30) DEF IInv, Stages, Idle, Signed, Asked, Sending, Reported, LoseConnection, Whole, files, history
  <1> QED
    BY <1>1, <1>2 DEF IInv, Stages, Idle, LoseConnection

LEMMA NextStep ==
    ASSUME AlwaysOrdered, InRange(PreferredBlockSize), IInv, [Next]_vars
    PROVE  IInv'
  <1>1. CASE EditLocal
    BY <1>1, OtherStep, SMTT(30) DEF EditLocal
  <1>2. CASE UNCHANGED vars
    BY <1>2, OtherStep, SMTT(30) DEF vars, files, history, IInv, Types
  <1> QED
    BY <1>1, <1>2, ConnectStep, SendSignaturesStep, SendBlocksStep, ReadCompleteStep,
       HandleSignaturesStep, HandleBlockDataStep, LoseConnectionStep DEF Next

LEMMA SufficientNow == IInv => RequestSufficient
  <1> SUFFICES ASSUME IInv, Requested
               PROVE  Merge(ServerContent, signed, EngineBlockSize, Head(s2c).indices) = signed
    BY SMTT(30) DEF RequestSufficient, IInv, Types
  <1>1. Head(s2c).indices = Needed
    BY SMTT(30) DEF IInv, Stages, Idle, Signed, Asked, Sending, Reported, Requested
  <1>2. signed \in Seq(Nat) /\ Len(signed) \in Nat
    BY Contents DEF IInv, Types
  <1>3. CASE target = NoFile
    <2>1. \A k \in 1 .. Len(signed) :
            (k - 1) \div EngineBlockSize \in BlockIndices(Len(signed), EngineBlockSize)
      BY <1>2, Contents, BlockOfByte
    <2>2. Needed = BlockIndices(Len(signed), EngineBlockSize)
      BY <1>3 DEF Needed
    <2>3. Merge(ServerContent, signed, EngineBlockSize, Needed) = [k \in 1 .. Len(signed) |-> signed[k]]
      BY <2>1, <2>2 DEF Merge
    <2>4. signed = [k \in 1 .. Len(signed) |-> signed[k]]
      BY <1>2
    <2> QED
      BY <1>1, <2>3, <2>4
  <1>4. CASE target # NoFile
    <2>1. target \in Seq(Nat) /\ ServerContent = target
      BY <1>4 DEF IInv, Types, ServerContent
    <2>2. Needed = NeededBlocks(target, Len(signed), EngineBlockSize, Signatures(signed, EngineBlockSize))
      BY <1>4 DEF Needed
    <2>3. Merge(target, signed, EngineBlockSize, Needed) = signed
      BY <1>2, <2>1, <2>2, Contents, NeededBlocksSufficient
    <2> QED
      BY <1>1, <2>1, <2>3
  <1> QED
    BY <1>3, <1>4

LEMMA MinimalNow == IInv => RequestMinimal
  <1> DEFINE E == EngineBlockSize
  <1> SUFFICES ASSUME IInv, Requested, NEW i \in Head(s2c).indices
               PROVE  ReadBlock(ServerContent, i * E, BlockLen(Len(ServerContent), i * E, E))
                      # ReadBlock(signed, i * E, BlockLen(Len(signed), i * E, E))
    BY SMTT(30) DEF RequestMinimal, IInv, Types
  <1>1. i \in Needed
    BY SMTT(30) DEF IInv, Stages, Idle, Signed, Asked, Sending, Reported, Requested
  <1>2. signed \in Seq(Nat) /\ Len(signed) \in Nat
    BY Contents DEF IInv, Types
  <1>3. ServerContent \in Seq(Nat)
    BY DEF IInv, Types, ServerContent
  <1>4. i \in NeededBlocks(ServerContent, Len(signed), E, Signatures(signed, E))
    <2>1. CASE target = NoFile
      <3>1. NumBlocks(0, E) = 0
        <4>1. NumBlocks(0, E) \in Nat /\ NumBlocks(0, E) * E < 0 + E
          BY Contents, NumBlocksExact, Zenon
        <4>2. ASSUME NumBlocks(0, E) >= 1 PROVE FALSE
          <5> DEFINE b == NumBlocks(0, E)
          <5>1. b * E >= E
            <6>1. CASE b = 1
              BY <6>1, Contents
            <6>2. CASE 1 < b
              <7>1. 1 * E + E <= b * E
                BY <6>2, <4>1, Contents, BlocksApart
              <7> QED
                BY <7>1, <4>1, Contents
            <6> QED
              BY <4>1, <4>2, <6>1, <6>2
          <5> QED
            BY <4>1, <5>1, Contents
        <4> QED
          BY <4>1, <4>2
      <3>2. i \in 0 .. NumBlocks(Len(signed), E) - 1
        BY <1>1, <2>1 DEF Needed, BlockIndices
      <3>3. Len(ServerContent) = 0
        BY <2>1 DEF ServerContent
      <3> QED
        BY <3>1, <3>2, <3>3 DEF NeededBlocks
    <2>2. CASE target # NoFile
      BY <1>1, <2>2, SMTT(30) DEF Needed, ServerContent
    <2> QED
      BY <2>1, <2>2, SMTT(30)
  <1> QED
    BY <1>2, <1>3, <1>4, Contents, NeededBlocksMinimal, SMTT(30)

LEMMA ExactNow == IInv => ExactWhenAllSent
  <1> SUFFICES ASSUME IInv, result = "ok" PROVE ExactWhenAllSent
    BY Zenon DEF ExactWhenAllSent
  <1>1. Idle
    BY Zenon DEF IInv, Stages, Signed, Asked, Sending, Reported
  <1>2. block_size = EngineBlockSize
    BY Zenon DEF IInv, Types
  <1> QED
    BY <1>1, <1>2, Zenon DEF Idle, Whole, ExactWhenAllSent

LEMMA NothingLeftNow == IInv => OkLeavesNothing
  <1> SUFFICES ASSUME IInv, result = "ok" PROVE OkLeavesNothing
    BY Zenon DEF OkLeavesNothing
  <1>1. Idle
    BY Zenon DEF IInv, Stages, Signed, Asked, Sending, Reported
  <1> QED
    BY <1>1, Zenon DEF Idle, Whole, OkLeavesNothing

\* What the stages leave open.
Rest ==
    /\ negotiated \in Nat \ {0} /\ sync.fresh \in BOOLEAN /\ result \in {"none", "ok", "error"}
    /\ syncs \in 0 .. MaxSyncs /\ edits \in 0 .. MaxEdits /\ losses \in 0 .. MaxLosses

LEMMA RestStep ==
    ASSUME Rest, Types, [Next]_vars
    PROVE  Rest'
  <1> USE DeltaSyncAssumption DEF Rest, files, history
  <1>1. CASE Connect
    BY <1>1 DEF Connect, SessionBlockSize, Types, EngineBlockSize
  <1>2. CASE SendSignatures
    BY <1>2 DEF SendSignatures
  <1>3. CASE SendBlocks
    BY <1>3 DEF SendBlocks
  <1>4. CASE ReadComplete
    BY <1>4 DEF ReadComplete
  <1>5. CASE HandleSignatures
    BY <1>5 DEF HandleSignatures
  <1>6. CASE HandleBlockData
    BY <1>6 DEF HandleBlockData
  <1>7. CASE EditLocal
    BY <1>7 DEF EditLocal
  <1>8. CASE LoseConnection
    BY <1>8 DEF LoseConnection
  <1>9. CASE UNCHANGED vars
    BY <1>9 DEF vars
  <1> QED
    BY <1>1, <1>2, <1>3, <1>4, <1>5, <1>6, <1>7, <1>8, <1>9, Zenon DEF Next

\* Signatures and blocks on their way to the session.
LEMMA FramesSent ==
    ASSUME AlwaysOrdered, IInv
    PROVE  \A i \in DOMAIN c2s :
             \/ c2s[i].type = "signatures" /\ \A j \in DOMAIN c2s[i].sigs : c2s[i].sigs[j] \in Seq(Nat)
             \/ c2s[i].type = "block" /\ c2s[i].block_offset \in Nat /\ c2s[i].data \in Seq(Nat)
  <1>1. CASE c2s = <<>>
    BY <1>1
  <1>2. CASE Signed
    <2> DEFINE sigs == Signatures(signed, EngineBlockSize)
               f == SignatureRequest(Len(signed), EngineBlockSize, sigs)
    <2>1. signed \in Seq(Nat)
      BY Contents DEF IInv, Types
    <2>2. \A j \in DOMAIN sigs : sigs[j] \in Seq(Nat)
      <3> SUFFICES ASSUME NEW j \in BlockIndices(Len(signed), EngineBlockSize)
                   PROVE  sigs[j] \in Seq(Nat)
        BY Zenon DEF Signatures
      <3>1. BlockData(signed, EngineBlockSize, j).data \in Seq(Nat)
        BY <2>1, Contents, BlockMessage, Zenon
      <3> QED
        BY <3>1 DEF BlockData, Signatures
    <2> HIDE DEF sigs
    <2>3. f.type = "signatures" /\ f.sigs = sigs
      BY DEF SignatureRequest
    <2> HIDE DEF f
    <2>4. c2s = <<f>>
      BY <1>2, Zenon DEF Signed, f, sigs
    <2>5. \A i \in DOMAIN c2s : c2s[i] = f
      BY <2>4
    <2> QED
      BY <2>2, <2>3, <2>5, Zenon
  <1>3. CASE Sending
    <2> DEFINE Message == [type : {"block"}, block_offset : Nat, data : Seq(Nat)]
    <2>1. PICK m \in 0 .. Cardinality(Sent) : c2s = SubSeq(Frames, m + 1, Cardinality(Sent))
      BY <1>3, Zenon DEF Sending, SendingFrom
    <2>2. Frames \in Seq(Message) /\ Cardinality(Sent) \in Nat /\ Len(Frames) = Cardinality(Sent)
      BY Contents, FramesInOrder, ZenonT(30) DEF IInv, Types, Frames, Sent
    <2>3. \A f \in Message : f.type = "block" /\ f.block_offset \in Nat /\ f.data \in Seq(Nat)
      OBVIOUS
    <2> HIDE DEF Message
    <2>4. c2s \in Seq(Message)
      BY <2>1, <2>2
    <2>5. \A i \in DOMAIN c2s : c2s[i] \in Message
      BY <2>4
    <2> QED
      BY <2>3, <2>5, Zenon
  <1> QED
    BY <1>1, <1>2, <1>3, Zenon DEF IInv, Stages, Idle, Asked, Reported

LEMMA TypesNow ==
    ASSUME AlwaysOrdered, IInv, Rest
    PROVE  TypeOK
  <1>1. \A i \in DOMAIN s2c :
           \/ s2c[i].type = "request" /\ s2c[i].indices \subseteq Nat
           \/ s2c[i].type = "complete" /\ s2c[i].status \in 1 .. 7
    BY NeededType DEF IInv, Stages, Idle, Signed, Asked, Sending, Reported
  <1>2. phase \in {"offline", "idle", "await_request", "await_complete"}
    BY Zenon DEF IInv, Stages, Idle, Signed, Asked, Sending, Reported
  <1>3. /\ local \in Content /\ signed \in Content /\ sync.content \in Content
        /\ sync.indices \subseteq Nat /\ {target, tmp} \subseteq Seq(Nat) \cup {NoFile}
        /\ {block_size, negotiated} \subseteq Nat \ {0}
    BY Contents DEF IInv, Types, Rest
  <1> QED
    BY <1>1, <1>2, <1>3, FramesSent, Zenon DEF TypeOK, Rest
-----------------------------------------------------------------------------
(* The order of the blocks, and the theorems. *)

INSTANCE FiniteSetTheorems

\* The greatest number goes last.
LEMMA EnumerateOneMore ==
    ASSUME NEW n \in Nat, NEW S \in SUBSET (0 .. n), n \in S, IsFiniteSet(S \ {n}),
           NEW q, Enumerates(q, S \ {n})
    PROVE  \E r : Enumerates(r, S)
  <1> DEFINE c == Cardinality(S \ {n})
             r == [k \in 1 .. c + 1 |-> IF k <= c THEN q[k] ELSE n]
  <1>1. c \in Nat /\ Cardinality(S) = c + 1
    <2>1. (S \ {n}) \cup {n} = S
      OBVIOUS
    <2> QED
      BY <2>1, FS_AddElement, FS_CardinalityType
  <1>2. q \in [1 .. c -> S \ {n}]
    BY Zenon DEF Enumerates
  <1>3. \A j, k \in 1 .. c : j < k => q[j] < q[k]
    BY <1>2, Zenon DEF Enumerates
  <1>4. \A i \in S \ {n} : \E k \in 1 .. c : q[k] = i
    BY <1>2, Zenon DEF Enumerates
  <1> HIDE DEF c
  <1>5. r \in [1 .. Cardinality(S) -> S]
    BY <1>1, <1>2
  <1>6. \A j, k \in 1 .. c + 1 : j < k => r[j] < r[k]
    <2> SUFFICES ASSUME NEW j \in 1 .. c + 1, NEW k \in 1 .. c + 1, j < k PROVE r[j] < r[k]
      OBVIOUS
    <2>1. j \in 1 .. c /\ r[j] = q[j] /\ q[j] \in 0 .. n /\ q[j] # n
      <3>1. j \in 1 .. c
        BY <1>1
      <3>2. q[j] \in S \ {n}
        BY <3>1, <1>2
      <3>3. r[j] = q[j]
        BY <3>1, <1>1
      <3> HIDE DEF r
      <3> QED
        BY <3>1, <3>2, <3>3, Zenon
    <2>2. CASE k <= c
      BY <2>1, <2>2, <1>1, <1>3
    <2>3. CASE k = c + 1
      BY <2>1, <2>3, <1>1
    <2> QED
      BY <2>2, <2>3, <1>1
  <1>7. \A i \in S : \E k \in 1 .. c + 1 : r[k] = i
    <2> SUFFICES ASSUME NEW i \in S PROVE \E k \in 1 .. c + 1 : r[k] = i
      OBVIOUS
    <2>1. CASE i = n
      BY <2>1, <1>1
    <2>2. CASE i # n
      <3>1. PICK k \in 1 .. c : q[k] = i
        BY <2>2, <1>4
      <3>2. k \in 1 .. c + 1 /\ r[k] = i
        BY <3>1, <1>1
      <3> QED
        BY <3>2
    <2> QED
      BY <2>1, <2>2
  <1>8. DOMAIN r = 1 .. c + 1
    OBVIOUS
  <1> HIDE DEF r
  <1> QED
    BY <1>5, <1>6, <1>7, <1>8, Zenon DEF Enumerates

\* Every set of numbers below n can be enumerated: otherwise there is a least n
\* for which one cannot.
LEMMA Enumerable ==
    ASSUME NEW n \in Nat, NEW S \in SUBSET (0 .. n - 1)
    PROVE  Enumerates(Ascending(S), S)
  <1> DEFINE Good(b) == \A R \in SUBSET (0 .. b - 1) : \E q : Enumerates(q, R)
             Bad == {b \in Nat : ~Good(b)}
  <1>1. Bad = {}
    <2> SUFFICES ASSUME Bad # {} PROVE FALSE
      OBVIOUS
    <2>1. PICK b \in Bad : \A a \in Bad : ~(<<a, b>> \in OpToRel(<, Nat))
      BY NatLessThanWellFounded, WFMin, Bad \subseteq Nat, Zenon
    <2>2. \A a \in Bad : ~(a < b)
      BY <2>1, Zenon DEF OpToRel
    <2>3. b # 0
      <3> SUFFICES ASSUME b = 0, NEW R \in SUBSET (0 .. b - 1) PROVE \E q : Enumerates(q, R)
        OBVIOUS
      <3>1. R = {}
        OBVIOUS
      <3>2. Enumerates(<<>>, {})
        BY FS_EmptySet DEF Enumerates
      <3> QED
        BY <3>1, <3>2
    <2>4. Good(b - 1)
      <3>1. b - 1 \in Nat /\ b - 1 < b
        BY <2>3
      <3>2. b - 1 \notin Bad
        BY <3>1, <2>2, Zenon
      <3> QED
        BY <3>1, <3>2
    <2>5. ASSUME NEW R \in SUBSET (0 .. b - 1) PROVE \E q : Enumerates(q, R)
      <3>1. CASE b - 1 \notin R
        <4>1. R \in SUBSET (0 .. (b - 1) - 1)
          BY <3>1
        <4> QED
          BY <4>1, <2>4
      <3>2. CASE b - 1 \in R
        <4>1. R \ {b - 1} \in SUBSET (0 .. (b - 1) - 1)
          OBVIOUS
        <4>2. IsFiniteSet(R \ {b - 1})
          <5>1. IsFiniteSet(0 .. (b - 1) - 1)
            BY FS_Interval
          <5> QED
            BY <4>1, <5>1, FS_Subset, Zenon
        <4>3. PICK q : Enumerates(q, R \ {b - 1})
          BY <4>1, <2>4
        <4>4. b - 1 \in Nat
          BY <2>3
        <4> QED
          BY <3>2, <4>2, <4>3, <4>4, EnumerateOneMore
      <3> QED
        BY <3>1, <3>2
    <2> QED
      BY <2>5
  <1>2. PICK q : Enumerates(q, S)
    BY <1>1, SMTT(30)
  <1> QED
    BY <1>2, Zenon DEF Enumerates, Ascending

LEMMA BlocksInOrder ==
    ASSUME NEW c \in Seq(Nat), NEW bs \in Nat \ {0}, NEW I \in SUBSET Nat
    PROVE  Ordered(c, bs, I)
  <1> DEFINE P == PresentBlocks(c, bs, I)
             N == NumBlocks(Len(c), bs)
  <1>1. N \in Nat /\ Len(c) <= N * bs
    BY NumBlocksExact, Len(c) \in Nat, Zenon
  <1> HIDE DEF N
  <1>2. P \subseteq 0 .. N - 1
    <2> SUFFICES ASSUME NEW i \in P PROVE i \in 0 .. N - 1
      OBVIOUS
    <2>1. i \in Nat /\ i * bs \in Nat /\ i * bs < Len(c)
      BY DEF PresentBlocks
    <2>2. ASSUME i >= N PROVE FALSE
      <3>1. i * bs >= N * bs
        BY <2>1, <2>2, <1>1
      <3> QED
        BY <3>1, <2>1, <1>1, SMTT(30)
    <2> QED
      BY <2>1, <2>2, <1>1
  <1> HIDE DEF P
  <1>3. Enumerates(Ascending(P), P)
    BY <1>1, <1>2, Enumerable, Zenon
  <1>4. Cardinality(P) \in Nat
    <2>1. IsFiniteSet(P)
      <3>1. IsFiniteSet(0 .. N - 1)
        BY <1>1, FS_Interval
      <3> QED
        BY <3>1, <1>2, FS_Subset, Zenon
    <2> QED
      BY <2>1, FS_CardinalityType
  <1> QED
    BY <1>2, <1>3, <1>4 DEF P, N, Ordered, Order, BlockIndices

LEMMA BlocksOrdered == AlwaysOrdered
  BY BlocksInOrder DEF AlwaysOrdered

(***************************************************************************)
(* The stages of a sync are all there are: with one block size on both     *)
(* sides, delta_sync_upload and the handlers never get out of step.        *)
(***************************************************************************)
THEOREM Invariance ==
    ASSUME InRange(PreferredBlockSize)
    PROVE  Spec => []IInv
  <1>1. Init => IInv
    BY InitStage
  <1>2. IInv /\ [Next]_vars => IInv'
    BY NextStep, BlocksOrdered
  <1> QED
    BY <1>1, <1>2, PTL DEF Spec

(***************************************************************************)
(* The block request of handle_signature_request is sufficient: merged     *)
(* into the server's file, the requested blocks give the signed file.      *)
(***************************************************************************)
THEOREM Sufficient ==
    ASSUME InRange(PreferredBlockSize)
    PROVE  Spec => []RequestSufficient
  BY SufficientNow, Invariance, PTL

(***************************************************************************)
(* It is minimal, too: no requested block is the same on both sides.       *)
(***************************************************************************)
THEOREM Minimal ==
    ASSUME InRange(PreferredBlockSize)
    PROVE  Spec => []RequestMinimal
  BY MinimalNow, Invariance, PTL

(***************************************************************************)
(* A sync that delta_sync_upload reports as Ok, that found no .tmp file    *)
(* and sent every block, leaves exactly the sent file on the server.       *)
(***************************************************************************)
THEOREM Exact ==
    ASSUME InRange(PreferredBlockSize)
    PROVE  Spec => []ExactWhenAllSent
  BY ExactNow, Invariance, PTL

(***************************************************************************)
(* After Ok there is no frame in flight and no .tmp file.                  *)
(***************************************************************************)
THEOREM NothingLeft ==
    ASSUME InRange(PreferredBlockSize)
    PROVE  Spec => []OkLeavesNothing
  BY NothingLeftNow, Invariance, PTL

(***************************************************************************)
(* Files, frames and counters keep their types: what handle_block_data     *)
(* writes and renames is always a file, a block request names blocks, and  *)
(* the block sizes are never zero.                                         *)
(***************************************************************************)
THEOREM TypeCorrect ==
    ASSUME InRange(PreferredBlockSize)
    PROVE  Spec => []TypeOK
  <1>1. Init => Rest
    BY DeltaSyncAssumption DEF Init, Rest
  <1>2. IInv /\ Rest /\ [Next]_vars => Rest'
    BY RestStep DEF IInv
  <1>3. IInv /\ Rest => TypeOK
    BY TypesNow, BlocksOrdered
  <1> QED
    BY <1>1, <1>2, <1>3, Invariance, PTL DEF Spec
==============================================================================
