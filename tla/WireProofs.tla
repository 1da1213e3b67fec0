----------------------------- MODULE WireProofs -----------------------------
(***************************************************************************)
(* For any frames and any cuts of the stream: the framing is a queue of    *)
(* whole frames, and its reader never loses its place.                     *)
(***************************************************************************)
EXTENDS Wire, SequenceTheorems, WellFoundedInduction, TLAPS

\* A set of positive numbers that is not empty has a least element.
LEMMA LeastOf ==
    ASSUME NEW B \in SUBSET Nat, B # {}
    PROVE  \E b \in B : \A a \in B : b <= a
  <1>1. PICK b \in B : \A a \in B : ~(<<a, b>> \in OpToRel(<, Nat))
    BY NatLessThanWellFounded, WFMin, Zenon
  <1>2. \A a \in B : ~(a < b)
    BY <1>1, Zenon DEF OpToRel
  <1> QED
    BY <1>2

-----------------------------------------------------------------------------
(* Lengths and their bytes. *)

\* A recursive function on 0 .. n whose values are in S.
IsRun(g, S, first, step, n) ==
    /\ g \in [0 .. n -> S] /\ g[0] = first
    /\ \A i \in 1 .. n : g[i] = step[<<g[i - 1], i>>]

HasRun(S, first, step, n) == \E g : IsRun(g, S, first, step, n)

\* The same with nothing said of the values.
IsLooseRun(f, S, first, step, n) ==
    /\ f = [i \in 0 .. n |-> f[i]] /\ f[0] = first
    /\ \A i \in 1 .. n : f[i - 1] \in S => f[i] = step[<<f[i - 1], i>>]

\* Such a function exists for the recursions of BigEndian and Value.
LEMMA Iterates ==
    ASSUME NEW S, NEW first \in S, NEW step \in [S \X Nat -> S], NEW n \in Nat
    PROVE  HasRun(S, first, step, n)
  <1> DEFINE Goes(g, k) == IsRun(g, S, first, step, k)
             Bad == {k \in Nat : ~\E g : Goes(g, k)}
  <1> SUFFICES ASSUME Bad # {} PROVE FALSE
    <2>1. n \in Nat /\ n \notin Bad => \E g : Goes(g, n)
      BY Zenon
    <2> QED
      BY <2>1, Zenon DEF HasRun
  <1>1. Bad \in SUBSET Nat
    OBVIOUS
  <1>2. \A k : k \in Bad <=> k \in Nat /\ ~\E g : Goes(g, k)
    OBVIOUS
  <1> HIDE DEF Bad
  <1>3. PICK b \in Bad : \A a \in Bad : b <= a
    BY <1>1, LeastOf
  <1>4. b \in Nat /\ ~\E g : Goes(g, b)
    BY <1>2
  <1>5. CASE b = 0
    <2>1. Goes([i \in 0 .. 0 |-> first], 0)
      BY DEF IsRun
    <2> QED
      BY <1>4, <1>5, <2>1
  <1>6. CASE b # 0
    <2>1. b - 1 \in Nat /\ b - 1 \notin Bad
      BY <1>3, <1>4, <1>6
    <2>2. PICK g : Goes(g, b - 1)
      BY <1>2, <2>1
    <2> DEFINE f == [i \in 0 .. b |-> IF i = b THEN step[<<g[b - 1], b>>] ELSE g[i]]
    <2>3. g[b - 1] \in S
      <3>1. b - 1 \in 0 .. b - 1
        BY <2>1
      <3> QED
        BY <2>2, <3>1, Zenon DEF IsRun
    <2>4. step[<<g[b - 1], b>>] \in S
      BY <1>4, <2>3
    <2>5. \A i \in 0 .. b : i # b => i \in 0 .. b - 1
      BY <1>4
    <2>6. f \in [0 .. b -> S]
      BY <2>2, <2>4, <2>5, Zenon DEF IsRun
    <2>7. f[0] = first
      <3>1. 0 \in 0 .. b /\ 0 # b
        BY <1>4, <1>6
      <3> QED
        BY <2>2, <3>1, Zenon DEF IsRun
    <2>8. ASSUME NEW i \in 1 .. b PROVE f[i] = step[<<f[i - 1], i>>]
      <3>1. i \in 0 .. b /\ i - 1 \in 0 .. b /\ i - 1 # b /\ (i # b => i \in 1 .. b - 1)
        BY <1>4
      <3>2. f[i - 1] = g[i - 1]
        BY <3>1, Zenon
      <3>3. f[i] = step[<<g[i - 1], i>>]
        BY <2>2, <3>1, Zenon DEF IsRun
      <3> QED
        BY <3>2, <3>3, Zenon
    <2> HIDE DEF f
    <2>9. Goes(f, b)
      BY <2>6, <2>7, <2>8, Zenon DEF IsRun
    <2> QED
      BY <1>4, <2>9
  <1> QED
    BY <1>5, <1>6

\* And there is one only.
LEMMA IteratesOnce ==
    ASSUME NEW S, NEW first, NEW step, NEW n \in Nat, NEW g, IsRun(g, S, first, step, n),
           NEW f, IsLooseRun(f, S, first, step, n)
    PROVE  f = g
  <1>0. /\ g \in [0 .. n -> S] /\ g[0] = f[0]
        /\ \A i \in 1 .. n : g[i] = step[<<g[i - 1], i>>]
        /\ f = [i \in 0 .. n |-> f[i]]
        /\ \A i \in 1 .. n : f[i - 1] \in S => f[i] = step[<<f[i - 1], i>>]
    BY Zenon DEF IsRun, IsLooseRun
  <1> DEFINE Bad == {i \in 0 .. n : f[i] # g[i]}
  <1>1. CASE Bad = {}
    <2>1. \A i \in 0 .. n : f[i] = g[i]
      BY <1>1
    <2> QED
      BY <1>0, <2>1, Zenon
  <1>2. CASE Bad # {}
    <2>1. Bad \in SUBSET Nat
      OBVIOUS
    <2> HIDE DEF Bad
    <2>2. PICK b \in Bad : \A a \in Bad : b <= a
      BY <1>2, <2>1, LeastOf
    <2>3. b \in 0 .. n /\ f[b] # g[b] /\ b # 0
      BY <1>0 DEF Bad
    <2>4. b \in 1 .. n /\ b - 1 \in 0 .. n /\ b - 1 \notin Bad
      BY <2>2, <2>3
    <2>5. f[b - 1] = g[b - 1] /\ g[b - 1] \in S
      BY <1>0, <2>4 DEF Bad
    <2>6. f[b] = g[b]
      BY <1>0, <2>4, <2>5, Zenon
    <2> QED
      BY <2>3, <2>6
  <1> QED
    BY <1>1, <1>2

\* htobe32 and htobe64: the digits of n to the base 256.
AreDigits(g, n, w) ==
    /\ g \in [0 .. w -> Nat]
    /\ g[0] = n /\ \A k \in 1 .. w : g[k] = g[k - 1] \div 256

LEMMA BigEndianDigits ==
    ASSUME NEW n \in Nat, NEW w \in Nat
    PROVE  AreDigits(Shifted(n, w), n, w)
  <1> DEFINE shifted[k \in 0 .. w] == IF k = 0 THEN n ELSE shifted[k - 1] \div 256
             step == [x \in Nat \X Nat |-> x[1] \div 256]
  <1>1. Shifted(n, w) = shifted
    BY DEF Shifted
  <1>2. step \in [Nat \X Nat -> Nat] /\ \A v, k \in Nat : step[<<v, k>>] = v \div 256
    OBVIOUS
  <1> HIDE DEF step
  <1>0. PICK g : IsRun(g, Nat, n, step, w)
    <2>1. HasRun(Nat, n, step, w)
      BY <1>2, Iterates, Zenon
    <2> QED
      BY <2>1 DEF HasRun
  <1>3. /\ g \in [0 .. w -> Nat] /\ g[0] = n
        /\ \A k \in 1 .. w : g[k] = step[<<g[k - 1], k>>]
    BY <1>0, Zenon DEF IsRun
  <1>4. ASSUME NEW k \in 1 .. w PROVE g[k] = g[k - 1] \div 256
    <2>1. k \in Nat /\ k - 1 \in 0 .. w
      OBVIOUS
    <2>2. g[k] = step[<<g[k - 1], k>>] /\ g[k - 1] \in Nat
      BY <1>3, <2>1, Zenon
    <2> QED
      BY <1>2, <2>1, <2>2, Zenon
  <1>5. g = [k \in 0 .. w |-> IF k = 0 THEN n ELSE g[k - 1] \div 256]
    <2>1. \A k \in 0 .. w : k # 0 => k \in 1 .. w
      OBVIOUS
    <2> QED
      BY <1>3, <1>4, <2>1, Zenon
  <1>6. shifted = [k \in 0 .. w |-> IF k = 0 THEN n ELSE shifted[k - 1] \div 256]
    BY <1>5, ZenonT(40)
  <1> HIDE DEF shifted
  <1>7. shifted = [k \in 0 .. w |-> shifted[k]] /\ shifted[0] = n
    BY <1>6
  <1>8. ASSUME NEW k \in 1 .. w, shifted[k - 1] \in Nat
        PROVE  shifted[k] = step[<<shifted[k - 1], k>>]
    <2>1. k \in 0 .. w /\ k # 0 /\ k \in Nat
      OBVIOUS
    <2>2. shifted[k] = shifted[k - 1] \div 256
      BY <1>6, <2>1, Zenon
    <2> QED
      BY <1>2, <1>8, <2>1, <2>2, Zenon
  <1>9. shifted = g
    <2>1. IsLooseRun(shifted, Nat, n, step, w)
      BY <1>7, <1>8, Zenon DEF IsLooseRun
    <2> QED
      BY <1>0, <2>1, IteratesOnce, Zenon
  <1>10. AreDigits(g, n, w)
    BY <1>3, <1>4, Zenon DEF AreDigits
  <1> QED
    BY <1>1, <1>9, <1>10, Zenon

LEMMA BytesOf ==
    ASSUME NEW bytes \in Bytes
    PROVE  Len(bytes) \in Nat /\ \A i \in 1 .. Len(bytes) : bytes[i] \in Nat
  <1>1. bytes \in Seq(0 .. 255)
    BY Zenon DEF Bytes
  <1>2. Len(bytes) \in Nat
    BY <1>1
  <1>3. ASSUME NEW i \in 1 .. Len(bytes) PROVE bytes[i] \in Nat
    <2>1. bytes[i] \in 0 .. 255
      BY <1>1, ElementOfSeq, Zenon
    <2>2. \A x \in 0 .. 255 : x \in Nat
      OBVIOUS
    <2> QED
      BY <2>1, <2>2, Zenon
  <1> QED
    BY <1>2, <1>3, Zenon

\* be32toh and be64toh.
AreSums(g, bytes) ==
    /\ g \in [0 .. Len(bytes) -> Nat]
    /\ g[0] = 0 /\ \A i \in 1 .. Len(bytes) : g[i] = g[i - 1] * 256 + bytes[i]
    /\ Value(bytes) = g[Len(bytes)]

LEMMA ValueSums ==
    ASSUME NEW bytes \in Bytes
    PROVE  \E g : AreSums(g, bytes)
  <1> DEFINE n == Len(bytes)
             value[i \in 0 .. n] == IF i = 0 THEN 0 ELSE value[i - 1] * 256 + bytes[i]
             byte(i) == IF i \in 1 .. n THEN bytes[i] ELSE 0
             step == [x \in Nat \X Nat |-> x[1] * 256 + byte(x[2])]
  <1>1. Value(bytes) = value[n]
    BY DEF Value
  <1>2. n \in Nat /\ \A i \in Nat : byte(i) \in Nat
    <2> HIDE DEF byte
    <2>1. n \in Nat /\ \A i \in 1 .. n : bytes[i] \in Nat
      BY BytesOf, Zenon
    <2>2. 0 \in Nat
      OBVIOUS
    <2> QED
      BY <2>1, <2>2, Zenon DEF byte
  <1>3. \A i \in 1 .. n : byte(i) = bytes[i]
    OBVIOUS
  <1> HIDE DEF n, byte
  <1>4. step \in [Nat \X Nat -> Nat] /\ \A v, i \in Nat : step[<<v, i>>] = v * 256 + byte(i)
    BY <1>2
  <1> HIDE DEF step
  <1>0. PICK g : IsRun(g, Nat, 0, step, n)
    <2>1. 0 \in Nat
      OBVIOUS
    <2>2. HasRun(Nat, 0, step, n)
      BY <1>2, <1>4, <2>1, Iterates, Zenon
    <2> QED
      BY <2>2 DEF HasRun
  <1>5. /\ g \in [0 .. n -> Nat] /\ g[0] = 0
        /\ \A i \in 1 .. n : g[i] = step[<<g[i - 1], i>>]
    BY <1>0, Zenon DEF IsRun
  <1>6. ASSUME NEW i \in 1 .. n PROVE g[i] = g[i - 1] * 256 + bytes[i]
    <2>1. i \in Nat /\ i - 1 \in 0 .. n
      BY <1>2
    <2>2. g[i] = step[<<g[i - 1], i>>] /\ g[i - 1] \in Nat
      BY <1>5, <2>1, Zenon
    <2>3. g[i] = g[i - 1] * 256 + byte(i)
      BY <1>4, <2>1, <2>2, ZenonT(30)
    <2> QED
      BY <1>3, <2>3, Zenon
  <1>7. g = [i \in 0 .. n |-> IF i = 0 THEN 0 ELSE g[i - 1] * 256 + bytes[i]]
    <2>1. \A i \in 0 .. n : i # 0 => i \in 1 .. n
      BY <1>2
    <2> QED
      BY <1>5, <1>6, <2>1, ZenonT(30)
  <1>8. value = [i \in 0 .. n |-> IF i = 0 THEN 0 ELSE value[i - 1] * 256 + bytes[i]]
    BY <1>7, ZenonT(30)
  <1> HIDE DEF value
  <1>9. value = [i \in 0 .. n |-> value[i]] /\ value[0] = 0
    BY <1>2, <1>8
  <1>10. ASSUME NEW i \in 1 .. n, value[i - 1] \in Nat
         PROVE  value[i] = step[<<value[i - 1], i>>]
    <2>1. i \in 0 .. n /\ i # 0 /\ i \in Nat
      BY <1>2
    <2>2. value[i] = value[i - 1] * 256 + bytes[i]
      BY <1>8, <2>1, Zenon
    <2>3. step[<<value[i - 1], i>>] = value[i - 1] * 256 + byte(i)
      BY <1>4, <1>10, <2>1, ZenonT(30)
    <2> QED
      BY <1>3, <2>2, <2>3, Zenon
  <1>11. value = g
    <2>1. IsLooseRun(value, Nat, 0, step, n)
      BY <1>9, <1>10, Zenon DEF IsLooseRun
    <2> QED
      BY <1>0, <1>2, <2>1, IteratesOnce, Zenon
  <1>12. AreSums(g, bytes)
    BY <1>1, <1>5, <1>6, <1>11, Zenon DEF AreSums, n
  <1> QED
    BY <1>12, Zenon

\* A number that fits in w bytes is read as it was written.
LEMMA RoundTrip ==
    ASSUME NEW n \in Nat, NEW w \in Nat \ {0}, Fits(n, w)
    PROVE  BigEndian(n, w) \in Bytes /\ Len(BigEndian(n, w)) = w /\ Value(BigEndian(n, w)) = n
  <1> DEFINE g == Shifted(n, w)
             bytes == BigEndian(n, w)
  <1>0. /\ g \in [0 .. w -> Nat] /\ g[0] = n
        /\ \A k \in 1 .. w : g[k] = g[k - 1] \div 256
    <2>1. AreDigits(g, n, w)
      BY BigEndianDigits
    <2> QED
      BY <2>1, Zenon DEF AreDigits
  <1>a. bytes = [i \in 1 .. w |-> g[w - i] % 256] /\ g[w] = 0
    BY Zenon DEF BigEndian, Fits
  <1> HIDE DEF g, bytes
  <1>1. \A i \in 1 .. w : w - i \in 0 .. w /\ g[w - i] \in Nat
    <2>1. \A i \in 1 .. w : w - i \in 0 .. w
      OBVIOUS
    <2> QED
      BY <1>0, <2>1, ZenonT(30)
  <1>3. bytes \in Bytes /\ Len(bytes) = w
    <2> DEFINE B == 0 .. 255
    <2>1. \A i \in 1 .. w : g[w - i] % 256 \in B
      <3>1. \A d \in Nat : d % 256 \in 0 .. 255
        OBVIOUS
      <3> QED
        BY <1>1, <3>1, Zenon
    <2>2. Bytes = Seq(B)
      BY Zenon DEF Bytes
    <2> HIDE DEF B
    <2>3. bytes = [i \in 1 .. w |-> bytes[i]] /\ \A i \in 1 .. w : bytes[i] \in B
      BY <1>a, <2>1, ZenonT(40)
    <2>4. bytes \in Seq(B) /\ Len(bytes) = w
      BY <2>3
    <2> QED
      BY <2>2, <2>4, Zenon
  <1>4. \A i \in 1 .. w : bytes[i] = g[w - i] % 256
    BY <1>a
  <1>v. PICK v : AreSums(v, bytes)
    BY <1>3, ValueSums, Zenon
  <1>5. /\ v \in [0 .. w -> Nat] /\ v[0] = 0
        /\ \A i \in 1 .. w : v[i] = v[i - 1] * 256 + bytes[i]
        /\ Value(bytes) = v[w]
    BY <1>3, <1>v, Zenon DEF AreSums
  <1> DEFINE Bad == {i \in 0 .. w : v[i] # g[w - i]}
  <1>6. Bad = {}
    <2> SUFFICES ASSUME Bad # {} PROVE FALSE
      OBVIOUS
    <2>1. Bad \in SUBSET Nat
      OBVIOUS
    <2> HIDE DEF Bad
    <2>2. PICK b \in Bad : \A a \in Bad : b <= a
      BY <2>1, LeastOf, Zenon
    <2>3. b \in 0 .. w /\ v[b] # g[w - b]
      BY DEF Bad
    <2>4. b # 0
      BY <1>5, <1>a, <2>3
    <2>5. b \in 1 .. w /\ b - 1 \in 0 .. w /\ b - 1 \notin Bad
      BY <2>2, <2>3, <2>4
    <2>6. v[b] = v[b - 1] * 256 + bytes[b] /\ bytes[b] = g[w - b] % 256 /\ g[w - b] \in Nat
      BY <1>1, <1>4, <1>5, <2>5, ZenonT(30)
    <2>7. v[b - 1] = g[w - (b - 1)]
      BY <2>5 DEF Bad
    <2>8. w - (b - 1) \in 1 .. w /\ (w - (b - 1)) - 1 = w - b
      BY <2>5
    <2>9. g[w - (b - 1)] = g[w - b] \div 256
      BY <1>0, <2>8, ZenonT(30)
    <2>10. \A d \in Nat : (d \div 256) * 256 + (d % 256) = d
      OBVIOUS
    <2>11. v[b] = g[w - b]
      <3>1. v[b] = (g[w - b] \div 256) * 256 + (g[w - b] % 256)
        BY <2>6, <2>7, <2>9, ZenonT(40)
      <3> QED
        BY <2>6, <2>10, <3>1, ZenonT(30)
    <2> QED
      BY <2>3, <2>11
  <1>7. v[w] = g[0]
    <2>1. w \in 0 .. w /\ w - w = 0
      OBVIOUS
    <2> QED
      BY <1>6, <2>1
  <1> QED
    BY <1>0, <1>3, <1>5, <1>7, Zenon DEF bytes
-----------------------------------------------------------------------------
(* Strings of bytes. *)

LEMMA BytesConcat ==
    ASSUME NEW s \in Bytes, NEW t \in Bytes
    PROVE  /\ s \o t \in Bytes /\ Len(s \o t) = Len(s) + Len(t)
           /\ \A i \in 1 .. Len(s) : (s \o t)[i] = s[i]
           /\ \A i \in 1 .. Len(t) : (s \o t)[Len(s) + i] = t[i]
  <1> DEFINE B == 0 .. 255
  <1>1. s \in Seq(B) /\ t \in Seq(B)
    BY Zenon DEF Bytes
  <1> HIDE DEF B
  <1> QED
    <2>1. s \o t \in Bytes
      BY <1>1, ConcatProperties, Zenon DEF Bytes, B
    <2>2. /\ Len(s \o t) = Len(s) + Len(t)
          /\ \A i \in 1 .. Len(s) : (s \o t)[i] = s[i]
          /\ \A i \in 1 .. Len(t) : (s \o t)[Len(s) + i] = t[i]
      BY <1>1
    <2> QED
      BY <2>1, <2>2, Zenon

LEMMA BytesLen ==
    ASSUME NEW s \in Bytes
    PROVE  Len(s) \in Nat /\ DOMAIN s = 1 .. Len(s) /\ s = [i \in 1 .. Len(s) |-> s[i]]
  <1> DEFINE B == 0 .. 255
  <1>1. s \in Seq(B)
    BY Zenon DEF Bytes
  <1> HIDE DEF B
  <1> QED
    BY <1>1

LEMMA BytesAssoc ==
    ASSUME NEW s \in Bytes, NEW t \in Bytes, NEW u \in Bytes
    PROVE  (s \o t) \o u = s \o (t \o u)
  <1> DEFINE B == 0 .. 255
  <1>1. s \in Seq(B) /\ t \in Seq(B) /\ u \in Seq(B)
    BY Zenon DEF Bytes
  <1> HIDE DEF B
  <1> QED
    BY <1>1, ConcatAssociative, SMT

LEMMA AllAssoc == \A s, t, u \in Bytes : (s \o t) \o u = s \o (t \o u)
  BY BytesAssoc, SMT

LEMMA BytesCancel ==
    ASSUME NEW s \in Bytes, NEW t \in Bytes, NEW u \in Bytes, s \o t = s \o u
    PROVE  t = u
  <1>1. \A S : \A a, b, c \in Seq(S) : a \o b = a \o c => b = c
    BY ConcatSimplifications, Zenon
  <1> QED
    BY <1>1, Zenon DEF Bytes

LEMMA BytesEmpty ==
    /\ <<>> \in Bytes
    /\ \A s \in Bytes : s \o <<>> = s /\ <<>> \o s = s /\ (Len(s) = 0 <=> s = <<>>)
    /\ \A s, t \in Bytes : s \o t = <<>> => s = <<>> /\ t = <<>>
  <1> DEFINE B == 0 .. 255
  <1>1. Bytes = Seq(B)
    BY Zenon DEF Bytes
  <1> HIDE DEF B
  <1>2. <<>> \in Bytes
    BY <1>1, EmptySeq, Zenon
  <1>3. \A s \in Bytes : s \o <<>> = s /\ <<>> \o s = s
    BY <1>1, ConcatEmptySeq, Zenon
  <1>4. \A s \in Bytes : Len(s) = 0 <=> s = <<>>
    BY <1>1
  <1>5. \A s, t \in Bytes : s \o t = <<>> => s = <<>> /\ t = <<>>
    BY <1>1, ConcatSimplifications, Zenon
  <1> QED
    BY <1>2, <1>3, <1>4, <1>5, Zenon

\* send() and recv() cut a string in two.
LEMMA BytesCut ==
    ASSUME NEW s \in Bytes, NEW n \in 0 .. Len(s)
    PROVE  /\ SubSeq(s, 1, n) \in Bytes /\ SubSeq(s, n + 1, Len(s)) \in Bytes
           /\ SubSeq(s, 1, n) \o SubSeq(s, n + 1, Len(s)) = s
  <1> DEFINE B == 0 .. 255
  <1>1. Bytes = Seq(B)
    BY Zenon DEF Bytes
  <1> HIDE DEF B
  <1>2. s \in Seq(B)
    BY <1>1, Zenon
  <1>3. SubSeq(s, 1, n) \in Seq(B) /\ SubSeq(s, n + 1, Len(s)) \in Seq(B)
    BY <1>2
  <1>4. SubSeq(s, 1, n) \o SubSeq(s, n + 1, Len(s)) = SubSeq(s, 1, Len(s))
    <2>1. 1 \in 1 .. Len(s) + 1 /\ n \in 1 - 1 .. Len(s) /\ Len(s) \in n .. Len(s)
      BY <1>2
    <2> QED
      BY <1>2, <2>1, ConcatAdjacentSubSeq, Zenon
  <1>5. SubSeq(s, 1, Len(s)) = s
    BY <1>2, SubSeqFull, Zenon
  <1> QED
    BY <1>1, <1>3, <1>4, <1>5, Zenon

\* Two beginnings of one stream have their common bytes at the same places.
LEMMA SameStream ==
    ASSUME NEW s \in Bytes, NEW t \in Bytes, NEW u \in Bytes, NEW v \in Bytes,
           s \o u = t \o v
    PROVE  /\ \A i \in 1 .. Len(s) : i <= Len(t) => s[i] = t[i]
           /\ Len(s) = Len(t) => s = t
  <1>1. Len(s) \in Nat /\ Len(t) \in Nat
    BY BytesLen, Zenon
  <1>2. ASSUME NEW i \in 1 .. Len(s), i <= Len(t) PROVE s[i] = t[i]
    <2>1. i \in 1 .. Len(t)
      BY <1>1, <1>2
    <2>2. (s \o u)[i] = s[i] /\ (t \o v)[i] = t[i]
      BY <2>1, BytesConcat, ZenonT(40)
    <2> QED
      BY <2>2, Zenon
  <1>3. ASSUME Len(s) = Len(t) PROVE s = t
    <2>1. \A i \in 1 .. Len(s) : s[i] = t[i]
      BY <1>1, <1>2, <1>3
    <2>2. s = [i \in 1 .. Len(s) |-> s[i]] /\ t = [i \in 1 .. Len(s) |-> t[i]]
      BY <1>3, BytesLen, Zenon
    <2> QED
      BY <2>1, <2>2, Zenon
  <1> QED
    BY <1>2, <1>3, Zenon
-----------------------------------------------------------------------------
(* What read_frame makes of an encoded frame. *)

LEMMA FrameType ==
    ASSUME NEW f \in Frames
    PROVE  /\ f = [type |-> f.type, payload |-> f.payload]
           /\ f.payload \in Bytes /\ <<f.type>> \in Bytes /\ Len(<<f.type>>) = 1
           /\ Len(f.payload) \in Nat
  <1>1. f \in [type : 0 .. 255, payload : Bytes]
    BY WireAssumption, Zenon
  <1>2. f = [type |-> f.type, payload |-> f.payload] /\ f.payload \in Bytes /\ f.type \in 0 .. 255
    BY <1>1
  <1>3. <<f.type>> \in Seq(0 .. 255) /\ Len(<<f.type>>) = 1
    BY <1>2
  <1> QED
    BY <1>2, <1>3, BytesLen, Zenon DEF Bytes

\* The bytes of a header in front of a payload.
LEMMA PartsOf ==
    ASSUME NEW h \in Bytes, NEW p \in Bytes
    PROVE  /\ h \o p \in Bytes /\ Len(h \o p) = Len(h) + Len(p)
           /\ \A i \in 1 .. Len(h) : (h \o p)[i] = h[i]
           /\ SubSeq(h \o p, Len(h) + 1, Len(h \o p)) = p
  <1>1. /\ h \o p \in Bytes /\ Len(h \o p) = Len(h) + Len(p)
        /\ \A i \in 1 .. Len(h) : (h \o p)[i] = h[i]
    BY BytesConcat, Zenon
  <1>2. SubSeq(h \o p, 1, Len(h)) = h
    <2>1. Len(h) \in Nat /\ h = [i \in 1 .. Len(h) |-> h[i]]
      BY BytesLen, Zenon
    <2>2. SubSeq(h \o p, 1, Len(h)) = [i \in 1 .. Len(h) |-> (h \o p)[i]]
      BY <2>1
    <2>3. [i \in 1 .. Len(h) |-> (h \o p)[i]] = [i \in 1 .. Len(h) |-> h[i]]
      BY <1>1, Zenon
    <2> QED
      BY <2>1, <2>2, <2>3, Zenon
  <1>3. Len(h) \in 0 .. Len(h \o p)
    <2>1. Len(h) \in Nat /\ Len(p) \in Nat
      BY BytesLen, Zenon
    <2> QED
      BY <1>1, <2>1
  <1>4. /\ SubSeq(h \o p, Len(h) + 1, Len(h \o p)) \in Bytes
        /\ h \o SubSeq(h \o p, Len(h) + 1, Len(h \o p)) = h \o p
    BY <1>1, <1>2, <1>3, BytesCut, Zenon
  <1> QED
    BY <1>1, <1>4, BytesCancel, Zenon

\* The places of a frame's fields on the wire, for a header of a field of
\* four bytes, the type and, for raw data, the length.
LEMMA EncodedStandard ==
    ASSUME NEW f \in Frames, f.type # MSG_RAW_DATA
    PROVE  LET e == Encoded(f)
               n == Len(f.payload)
           IN  /\ e \in Bytes /\ Len(e) = 5 + n
               /\ \A i \in 1 .. 4 : e[i] = BigEndian(n, 4)[i]
               /\ e[5] = f.type
               /\ SubSeq(e, 6, Len(e)) = f.payload
  <1> DEFINE n == Len(f.payload)
             b == BigEndian(n, 4)
             h == b \o <<f.type>>
  <1>1. Encoded(f) = h \o f.payload
    BY Zenon DEF Encoded, encode_frame
  <1>2. b \in Bytes /\ Len(b) = 4
    <2>1. 4 \in Nat \ {0}
      OBVIOUS
    <2> QED
      BY <2>1, WireAssumption, FrameType, RoundTrip, Zenon
  <1> HIDE DEF b
  <1>3. /\ h \in Bytes /\ Len(h) = 4 + 1
        /\ \A i \in 1 .. 4 : h[i] = b[i]
        /\ \A i \in 1 .. 1 : h[4 + i] = <<f.type>>[i]
    <2>1. <<f.type>> \in Bytes /\ Len(<<f.type>>) = 1
      BY FrameType, Zenon
    <2>2. /\ h \in Bytes /\ Len(h) = Len(b) + Len(<<f.type>>)
          /\ \A i \in 1 .. Len(b) : h[i] = b[i]
          /\ \A i \in 1 .. Len(<<f.type>>) : h[Len(b) + i] = <<f.type>>[i]
      BY <1>2, <2>1, BytesConcat, Zenon
    <2> QED
      BY <1>2, <2>1, <2>2, Zenon
  <1>4. Len(h) = 5 /\ h[5] = f.type
    BY <1>3
  <1> HIDE DEF h
  <1>5. /\ h \o f.payload \in Bytes /\ Len(h \o f.payload) = 5 + n
        /\ \A i \in 1 .. 5 : (h \o f.payload)[i] = h[i]
        /\ SubSeq(h \o f.payload, 5 + 1, Len(h \o f.payload)) = f.payload
    <2>1. f.payload \in Bytes
      BY FrameType, Zenon
    <2>2. /\ h \o f.payload \in Bytes /\ Len(h \o f.payload) = Len(h) + n
          /\ \A i \in 1 .. Len(h) : (h \o f.payload)[i] = h[i]
          /\ SubSeq(h \o f.payload, Len(h) + 1, Len(h \o f.payload)) = f.payload
      BY <1>3, <2>1, PartsOf, Zenon
    <2> QED
      BY <1>4, <2>2, Zenon
  <1>6. 5 + 1 = 6 /\ 5 \in 1 .. 5 /\ \A i \in 1 .. 4 : i \in 1 .. 5
    OBVIOUS
  <1> QED
    BY <1>1, <1>3, <1>4, <1>5, <1>6, Zenon DEF b

LEMMA EncodedRaw ==
    ASSUME NEW f \in Frames, f.type = MSG_RAW_DATA
    PROVE  LET e == Encoded(f)
               n == Len(f.payload)
           IN  /\ e \in Bytes /\ Len(e) = 13 + n
               /\ \A i \in 1 .. 4 : e[i] = RAW_DATA_SENTINEL[i]
               /\ e[5] = MSG_RAW_DATA
               /\ \A i \in 1 .. 8 : e[5 + i] = BigEndian(n, 8)[i]
               /\ SubSeq(e, 14, Len(e)) = f.payload
  <1> DEFINE n == Len(f.payload)
             b == BigEndian(n, 8)
             m == RAW_DATA_SENTINEL \o <<MSG_RAW_DATA>>
             h == m \o b
  <1>1. Encoded(f) = h \o f.payload
    BY Zenon DEF Encoded, encode_raw_data_header
  <1>2. b \in Bytes /\ Len(b) = 8
    <2>1. 8 \in Nat \ {0}
      OBVIOUS
    <2> QED
      BY <2>1, WireAssumption, FrameType, RoundTrip, Zenon
  <1> HIDE DEF b
  <1>3. RAW_DATA_SENTINEL \in Bytes /\ Len(RAW_DATA_SENTINEL) = 4
    <2>1. RAW_DATA_SENTINEL \in Seq(0 .. 255) /\ Len(RAW_DATA_SENTINEL) = 4
      BY SMT DEF RAW_DATA_SENTINEL
    <2> QED
      BY <2>1, Zenon DEF Bytes
  <1>4. <<MSG_RAW_DATA>> \in Bytes /\ Len(<<MSG_RAW_DATA>>) = 1 /\ <<MSG_RAW_DATA>>[1] = MSG_RAW_DATA
    <2>1. <<f.type>> \in Bytes /\ Len(<<f.type>>) = 1
      BY FrameType, Zenon
    <2> QED
      BY <2>1
  <1>5. /\ m \in Bytes /\ Len(m) = 5 /\ m[5] = MSG_RAW_DATA
        /\ \A i \in 1 .. 4 : m[i] = RAW_DATA_SENTINEL[i]
    <2>1. /\ m \in Bytes /\ Len(m) = Len(RAW_DATA_SENTINEL) + Len(<<MSG_RAW_DATA>>)
          /\ \A i \in 1 .. Len(RAW_DATA_SENTINEL) : m[i] = RAW_DATA_SENTINEL[i]
          /\ \A i \in 1 .. Len(<<MSG_RAW_DATA>>) :
               m[Len(RAW_DATA_SENTINEL) + i] = <<MSG_RAW_DATA>>[i]
      BY <1>3, <1>4, BytesConcat, Zenon
    <2>2. /\ m \in Bytes /\ Len(m) = 4 + 1
          /\ \A i \in 1 .. 4 : m[i] = RAW_DATA_SENTINEL[i]
          /\ \A i \in 1 .. 1 : m[4 + i] = <<MSG_RAW_DATA>>[i]
      BY <1>3, <1>4, <2>1, Zenon
    <2> HIDE DEF m
    <2>3. 4 + 1 = 5 /\ 1 \in 1 .. 1
      OBVIOUS
    <2> QED
      BY <1>4, <2>2, <2>3, Zenon
  <1> HIDE DEF m
  <1>6. /\ h \in Bytes /\ Len(h) = 13
        /\ \A i \in 1 .. 5 : h[i] = m[i]
        /\ \A i \in 1 .. 8 : h[5 + i] = b[i]
    <2>1. /\ h \in Bytes /\ Len(h) = Len(m) + Len(b)
          /\ \A i \in 1 .. Len(m) : h[i] = m[i]
          /\ \A i \in 1 .. Len(b) : h[Len(m) + i] = b[i]
      BY <1>2, <1>5, BytesConcat, Zenon
    <2> HIDE DEF h
    <2>2. 5 + 8 = 13
      OBVIOUS
    <2> QED
      BY <1>2, <1>5, <2>1, <2>2, Zenon
  <1> HIDE DEF h
  <1>7. /\ h \o f.payload \in Bytes /\ Len(h \o f.payload) = 13 + n
        /\ \A i \in 1 .. 13 : (h \o f.payload)[i] = h[i]
        /\ SubSeq(h \o f.payload, 13 + 1, Len(h \o f.payload)) = f.payload
    <2>1. f.payload \in Bytes
      BY FrameType, Zenon
    <2>2. /\ h \o f.payload \in Bytes /\ Len(h \o f.payload) = Len(h) + n
          /\ \A i \in 1 .. Len(h) : (h \o f.payload)[i] = h[i]
          /\ SubSeq(h \o f.payload, Len(h) + 1, Len(h \o f.payload)) = f.payload
      BY <1>6, <2>1, PartsOf, Zenon
    <2> QED
      BY <1>6, <2>2, Zenon
  <1>8. /\ 13 + 1 = 14 /\ 5 \in 1 .. 5 /\ 5 \in 1 .. 13
        /\ \A i \in 1 .. 4 : i \in 1 .. 5 /\ i \in 1 .. 13
        /\ \A i \in 1 .. 8 : 5 + i \in 1 .. 13
    OBVIOUS
  <1> DEFINE e == h \o f.payload
  <1>9. /\ e \in Bytes /\ Len(e) = 13 + n /\ SubSeq(e, 14, Len(e)) = f.payload
        /\ \A i \in 1 .. 13 : e[i] = h[i]
    BY <1>7, <1>8, Zenon
  <1> HIDE DEF e
  <1>10. /\ \A i \in 1 .. 4 : e[i] = RAW_DATA_SENTINEL[i]
         /\ e[5] = MSG_RAW_DATA
    BY <1>5, <1>6, <1>8, <1>9, Zenon
  <1>11. ASSUME NEW i \in 1 .. 8 PROVE e[5 + i] = b[i]
    <2>1. e[5 + i] = h[5 + i]
      BY <1>8, <1>9, Zenon
    <2> QED
      BY <1>6, <2>1, Zenon
  <1>12. Encoded(f) = e
    BY <1>1, Zenon DEF e
  <1> HIDE DEF n
  <1> QED
    BY <1>9, <1>10, <1>11, <1>12, Zenon DEF b, n

\* A read_frame that stops asking has read exactly one frame, whatever follows
\* it on the stream, and returns it.
LEMMA ReadWhole ==
    ASSUME NEW f \in Frames, NEW more \in Bytes, NEW rest \in Bytes, buf \in Bytes,
           side \in {"server", "client"},
           buf \o rest = Encoded(f) \o more, Len(buf) = Wanted(buf)
    PROVE  buf = Encoded(f) /\ Decoded(buf) = f
  <1> DEFINE e == Encoded(f)
             n == Len(f.payload)
  <1>1. e \in Bytes /\ Len(e) \in Nat /\ Len(buf) \in Nat /\ n \in Nat /\ Len(e) >= 5
    <2>1. e \in Bytes /\ (Len(e) = 5 + n \/ Len(e) = 13 + n)
      BY EncodedRaw, EncodedStandard, Zenon
    <2>2. n \in Nat
      BY FrameType, Zenon
    <2>3. Len(e) \in Nat /\ Len(buf) \in Nat
      BY <2>1, BytesLen, Zenon
    <2> HIDE DEF e, n
    <2> QED
      BY <2>1, <2>2, <2>3
  <1>2. /\ \A i \in 1 .. Len(buf) : i <= Len(e) => buf[i] = e[i]
        /\ Len(buf) = Len(e) => buf = e
    <2>1. buf \o rest = e \o more
      OBVIOUS
    <2>2. e \in Bytes /\ buf \in Bytes /\ more \in Bytes /\ rest \in Bytes
      BY <1>1
    <2> HIDE DEF e
    <2>3. \A i \in 1 .. Len(buf) : i <= Len(e) => buf[i] = e[i]
      BY <2>1, <2>2, SameStream, SMT
    <2>4. Len(buf) = Len(e) => buf = e
      BY <2>1, <2>2, SameStream, Zenon
    <2> QED
      BY <2>3, <2>4, Zenon
  <1>3. f = [type |-> f.type, payload |-> f.payload]
    BY FrameType, Zenon
  <1>4. FirstRead \in {4, 5}
    BY DEF FirstRead, FRAME_HEADER_SIZE
  <1>5. ~(Len(buf) < FirstRead)
    <2>1. Len(buf) < FirstRead => Wanted(buf) = FirstRead
      BY Zenon DEF Wanted
    <2> QED
      BY <1>1, <1>4, <2>1
  <1>6. Len(buf) >= 4 /\ \A i \in 1 .. 4 : buf[i] = e[i]
    <2> HIDE DEF e, n
    <2> QED
      BY <1>1, <1>2, <1>4, <1>5
  <1>7. IsRaw(buf) <=> \A i \in 1 .. 4 : e[i] = RAW_DATA_SENTINEL[i]
    <2>1. SubSeq(buf, 1, 4) = [i \in 1 .. 4 |-> buf[i]]
      BY <1>6, <1>1
    <2>2. RAW_DATA_SENTINEL = [i \in 1 .. 4 |-> RAW_DATA_SENTINEL[i]]
      BY DEF RAW_DATA_SENTINEL
    <2> QED
      BY <1>6, <2>1, <2>2, Zenon DEF IsRaw
  <1>8. CASE f.type = MSG_RAW_DATA
    <2>1. /\ Len(e) = 13 + n /\ e[5] = MSG_RAW_DATA
          /\ \A i \in 1 .. 4 : e[i] = RAW_DATA_SENTINEL[i]
          /\ \A i \in 1 .. 8 : e[5 + i] = BigEndian(n, 8)[i]
          /\ SubSeq(e, 14, Len(e)) = f.payload
      BY <1>8, EncodedRaw, Zenon
    <2>2. IsRaw(buf)
      BY <1>7, <2>1, Zenon
    <2> HIDE DEF e, n
    <2>3. ~(Len(buf) < 13)
      <3>1. Len(buf) < 13 => Wanted(buf) = 13
        BY <1>5, <2>2, Zenon DEF Wanted, RAW_HEADER_SIZE
      <3> QED
        BY <1>1, <3>1
    <2>4. Len(buf) = 13 + Value(SubSeq(buf, 6, 13))
      BY <1>5, <2>2, <2>3, Zenon DEF Wanted, RAW_HEADER_SIZE
    <2>5. SubSeq(buf, 6, 13) = BigEndian(n, 8)
      <3>1. SubSeq(buf, 6, 13) = [i \in 1 .. 8 |-> buf[5 + i]]
        BY <1>1, <2>3
      <3>2. \A i \in 1 .. 8 : buf[5 + i] = e[5 + i]
        <4>1. Len(e) = 13 + n
          BY <2>1, Zenon
        <4>2. Len(buf) >= 13 /\ Len(e) >= 13
          BY <1>1, <2>3, <4>1
        <4>3. \A i \in 1 .. 8 : 5 + i \in 1 .. Len(buf) /\ 5 + i <= Len(e)
          BY <1>1, <4>2
        <4> QED
          BY <1>2, <4>3, Zenon
      <3>3. BigEndian(n, 8) = [i \in 1 .. 8 |-> BigEndian(n, 8)[i]]
        BY Zenon DEF BigEndian
      <3>4. ASSUME NEW i \in 1 .. 8 PROVE buf[5 + i] = BigEndian(n, 8)[i]
        BY <2>1, <3>2, Zenon
      <3> QED
        BY <3>1, <3>3, <3>4, Zenon
    <2>6. Value(BigEndian(n, 8)) = n
      <3>1. 8 \in Nat \ {0}
        OBVIOUS
      <3> QED
        BY <1>1, <1>8, <3>1, WireAssumption, RoundTrip, ZenonT(30) DEF n
    <2>7. buf = e
      BY <1>2, <2>1, <2>4, <2>5, <2>6, Zenon
    <2>8. 13 + 1 = 14
      OBVIOUS
    <2> QED
      BY <1>3, <1>8, <2>1, <2>2, <2>7, <2>8, Zenon DEF Decoded, RAW_HEADER_SIZE, e
  <1>9. CASE f.type # MSG_RAW_DATA
    <2>1. /\ Len(e) = 5 + n /\ e[5] = f.type
          /\ \A i \in 1 .. 4 : e[i] = BigEndian(n, 4)[i]
          /\ SubSeq(e, 6, Len(e)) = f.payload
      BY <1>9, EncodedStandard, Zenon
    <2> HIDE DEF e, n
    <2>2. BigEndian(n, 4) = [i \in 1 .. 4 |-> BigEndian(n, 4)[i]]
      BY Zenon DEF BigEndian
    <2>3. ~IsRaw(buf)
      <3>1. BigEndian(n, 4) # RAW_DATA_SENTINEL
        BY <1>9, WireAssumption, Zenon DEF n
      <3>2. RAW_DATA_SENTINEL = [i \in 1 .. 4 |-> RAW_DATA_SENTINEL[i]]
        BY DEF RAW_DATA_SENTINEL
      <3> QED
        BY <1>7, <2>1, <2>2, <3>1, <3>2, Zenon
    <2>4. ~(Len(buf) < 5)
      <3>1. Len(buf) < 5 => Wanted(buf) = 5
        BY <1>5, <2>3, Zenon DEF Wanted, FRAME_HEADER_SIZE
      <3> QED
        BY <1>1, <3>1
    <2>5. Len(buf) = 5 + Value(SubSeq(buf, 1, 4))
      BY <1>5, <2>3, <2>4, Zenon DEF Wanted, FRAME_HEADER_SIZE
    <2>6. SubSeq(buf, 1, 4) = BigEndian(n, 4)
      <3>1. SubSeq(buf, 1, 4) = [i \in 1 .. 4 |-> buf[i]]
        BY <1>1, <1>6
      <3>2. \A i \in 1 .. 4 : buf[i] = BigEndian(n, 4)[i]
        BY <1>6, <2>1, Zenon
      <3> QED
        BY <2>2, <3>1, <3>2, Zenon
    <2>7. Value(BigEndian(n, 4)) = n
      <3>1. 4 \in Nat \ {0}
        OBVIOUS
      <3> QED
        BY <1>1, <1>9, <3>1, WireAssumption, RoundTrip, Zenon DEF n
    <2>8. buf = e
      BY <1>2, <2>1, <2>5, <2>6, <2>7, Zenon
    <2>9. 5 + 1 = 6
      OBVIOUS
    <2> QED
      BY <1>3, <1>9, <2>1, <2>3, <2>8, <2>9, Zenon DEF Decoded, FRAME_HEADER_SIZE, e
  <1> QED
    BY <1>8, <1>9
-----------------------------------------------------------------------------
(* The stream. *)

LEMMA EncodedBytes ==
    ASSUME NEW f \in Frames
    PROVE  Encoded(f) \in Bytes
  BY EncodedRaw, EncodedStandard, Zenon

\* The recursion of OnWire.
AreJoins(g, fs) ==
    /\ g \in [0 .. Len(fs) -> Bytes]
    /\ g[0] = <<>> /\ \A i \in 1 .. Len(fs) : g[i] = g[i - 1] \o Encoded(fs[i])

LEMMA OnWireJoins ==
    ASSUME NEW fs \in Seq(Frames)
    PROVE  \E g : AreJoins(g, fs) /\ OnWire(fs) = g[Len(fs)]
  <1> DEFINE n == Len(fs)
             bytes[i \in 0 .. n] == IF i = 0 THEN <<>> ELSE bytes[i - 1] \o Encoded(fs[i])
             frame(i) == IF i \in 1 .. n THEN Encoded(fs[i]) ELSE <<>>
             step == [x \in Bytes \X Nat |-> x[1] \o frame(x[2])]
  <1>1. OnWire(fs) = bytes[n]
    BY DEF OnWire
  <1>2. n \in Nat /\ \A i \in Nat : frame(i) \in Bytes
    <2>1. n \in Nat
      BY LenProperties, Zenon
    <2> QED
      BY <2>1, ElementOfSeq, EncodedBytes, BytesEmpty, Zenon
  <1>3. \A i \in 1 .. n : frame(i) = Encoded(fs[i])
    BY Zenon
  <1> HIDE DEF n, frame
  <1>4. step \in [Bytes \X Nat -> Bytes] /\ \A v \in Bytes, i \in Nat : step[<<v, i>>] = v \o frame(i)
    <2>1. \A x \in Bytes \X Nat : x[1] \in Bytes /\ x[2] \in Nat
      OBVIOUS
    <2>2. step \in [Bytes \X Nat -> Bytes]
      BY <1>2, <2>1, BytesConcat, Zenon
    <2>3. \A v \in Bytes, i \in Nat : step[<<v, i>>] = v \o frame(i)
      BY Zenon
    <2> QED
      BY <2>2, <2>3, Zenon
  <1> HIDE DEF step
  <1>0. PICK g : IsRun(g, Bytes, <<>>, step, n)
    <2>1. HasRun(Bytes, <<>>, step, n)
      BY <1>2, <1>4, BytesEmpty, Iterates, Zenon
    <2> QED
      BY <2>1 DEF HasRun
  <1>5. /\ g \in [0 .. n -> Bytes] /\ g[0] = <<>>
        /\ \A i \in 1 .. n : g[i] = step[<<g[i - 1], i>>]
    BY <1>0, Zenon DEF IsRun
  <1>6. ASSUME NEW i \in 1 .. n PROVE g[i] = g[i - 1] \o Encoded(fs[i])
    <2>1. i \in Nat /\ i - 1 \in 0 .. n
      BY <1>2
    <2>2. g[i] = step[<<g[i - 1], i>>] /\ g[i - 1] \in Bytes
      BY <1>5, <2>1, Zenon
    <2>3. g[i] = g[i - 1] \o frame(i)
      BY <1>4, <2>1, <2>2, Zenon
    <2> QED
      BY <1>3, <2>3, Zenon
  <1>7. g = [i \in 0 .. n |-> IF i = 0 THEN <<>> ELSE g[i - 1] \o Encoded(fs[i])]
    <2>1. \A i \in 0 .. n : i # 0 => i \in 1 .. n
      BY <1>2
    <2> QED
      BY <1>5, <1>6, <2>1, Zenon
  <1>8. bytes = [i \in 0 .. n |-> IF i = 0 THEN <<>> ELSE bytes[i - 1] \o Encoded(fs[i])]
    BY <1>7, Zenon
  <1> HIDE DEF bytes
  <1>9. bytes = [i \in 0 .. n |-> bytes[i]] /\ bytes[0] = <<>>
    <2>1. 0 \in 0 .. n
      BY <1>2
    <2> QED
      BY <1>8, <2>1, Zenon
  <1>10. ASSUME NEW i \in 1 .. n, bytes[i - 1] \in Bytes
         PROVE  bytes[i] = step[<<bytes[i - 1], i>>]
    <2>1. i \in 0 .. n /\ i # 0 /\ i \in Nat
      BY <1>2
    <2>2. bytes[i] = bytes[i - 1] \o Encoded(fs[i])
      BY <1>8, <2>1, Zenon
    <2>3. step[<<bytes[i - 1], i>>] = bytes[i - 1] \o frame(i)
      BY <1>4, <1>10, <2>1, Zenon
    <2> QED
      BY <1>3, <2>2, <2>3, Zenon
  <1>11. bytes = g
    <2>1. IsLooseRun(bytes, Bytes, <<>>, step, n)
      BY <1>9, <1>10, Zenon DEF IsLooseRun
    <2> QED
      BY <1>0, <1>2, <2>1, IteratesOnce, Zenon
  <1>12. AreJoins(g, fs)
    BY <1>5, <1>6, Zenon DEF AreJoins, n
  <1> QED
    BY <1>1, <1>11, <1>12, Zenon DEF n

LEMMA OnWireBytes ==
    ASSUME NEW fs \in Seq(Frames)
    PROVE  OnWire(fs) \in Bytes
  <1>1. PICK g : AreJoins(g, fs) /\ OnWire(fs) = g[Len(fs)]
    BY OnWireJoins, Zenon
  <1>2. Len(fs) \in 0 .. Len(fs)
    OBVIOUS
  <1> QED
    BY <1>1, <1>2, Zenon DEF AreJoins

\* The same frames first give the same bytes first.
LEMMA JoinsAgree ==
    ASSUME NEW fs \in Seq(Frames), NEW more \in Seq(Frames), Len(fs) <= Len(more),
           \A i \in 1 .. Len(fs) : more[i] = fs[i],
           NEW g, AreJoins(g, fs), NEW h, AreJoins(h, more)
    PROVE  \A i \in 0 .. Len(fs) : h[i] = g[i]
  <1> DEFINE Bad == {i \in 0 .. Len(fs) : h[i] # g[i]}
  <1> SUFFICES ASSUME Bad # {} PROVE FALSE
    OBVIOUS
  <1>1. Len(fs) \in Nat /\ Len(more) \in Nat
    OBVIOUS
  <1>2. Bad \in SUBSET Nat
    BY <1>1
  <1>3. \A i \in 0 .. Len(fs) : i \notin Bad => h[i] = g[i]
    BY Zenon
  <1>4. \A i \in Bad : i \in 0 .. Len(fs) /\ h[i] # g[i]
    BY Zenon
  <1> HIDE DEF Bad
  <1>5. PICK b \in Bad : \A a \in Bad : b <= a
    BY <1>2, LeastOf, Zenon
  <1>6. b # 0
    BY <1>4, Zenon DEF AreJoins
  <1>7. /\ b \in 1 .. Len(fs) /\ b \in 1 .. Len(more)
        /\ b - 1 \in 0 .. Len(fs) /\ b - 1 \notin Bad
    BY <1>1, <1>4, <1>5, <1>6
  <1>8. h[b - 1] = g[b - 1]
    BY <1>3, <1>7, Zenon
  <1>9. h[b] = g[b]
    BY <1>7, <1>8, Zenon DEF AreJoins
  <1> QED
    BY <1>4, <1>9, Zenon

\* One more frame adds its bytes at the end.
LEMMA OnWireAppend ==
    ASSUME NEW fs \in Seq(Frames), NEW f \in Frames
    PROVE  OnWire(Append(fs, f)) = OnWire(fs) \o Encoded(f)
  <1> DEFINE n == Len(fs)
             more == Append(fs, f)
  <1>1. /\ more \in Seq(Frames) /\ Len(more) = n + 1 /\ more[n + 1] = f
        /\ \A i \in 1 .. n : more[i] = fs[i]
        /\ n \in Nat
    BY AppendProperties, SMT
  <1> HIDE DEF more
  <1>2. PICK g : AreJoins(g, fs) /\ OnWire(fs) = g[n]
    BY OnWireJoins, Zenon
  <1>3. PICK h : AreJoins(h, more) /\ OnWire(more) = h[n + 1]
    BY <1>1, OnWireJoins, Zenon
  <1>4. h[n + 1] = h[(n + 1) - 1] \o Encoded(f)
    <2>1. n + 1 \in 1 .. n + 1
      BY <1>1
    <2> QED
      BY <1>1, <1>3, <2>1, Zenon DEF AreJoins
  <1>5. n <= Len(more) /\ n \in 0 .. n /\ (n + 1) - 1 = n
    BY <1>1
  <1>6. h[n] = g[n]
    <2>1. \A i \in 0 .. n : h[i] = g[i]
      BY <1>1, <1>2, <1>3, <1>5, JoinsAgree, SMT
    <2> QED
      BY <1>5, <2>1, Zenon
  <1> QED
    BY <1>2, <1>3, <1>4, <1>5, <1>6, Zenon DEF more

\* g is a beginning of s.
Begins(g, s) == Len(g) <= Len(s) /\ \A i \in 1 .. Len(g) : g[i] = s[i]

\* What was read, what the reader holds of the next frame and what is on the way
\* are what was written, but for what a break of the connection lost.
Cat(s, t) == s \o t

Accounts(read, held, coming, left, lost, written) ==
    Cat(read, Cat(held, Cat(coming, Cat(left, lost)))) = written

Accounted ==
    \E lost \in Bytes :
      /\ Accounts(OnWire(got), buf, net, out, lost, OnWire(sent))
      /\ ~closed => lost = <<>>

\* The bytes of the first frames are the first bytes.
Beginnings ==
    \A g \in Seq(Frames) :
      Begins(g, sent) => \E more \in Bytes : OnWire(g) \o more = OnWire(sent)

\* The reader is in step with the writer.
Inv ==
    /\ TypeOK
    /\ Begins(got, sent)
    /\ closed => out = <<>>
    /\ Accounted
    /\ Beginnings

LEMMA Types ==
    ASSUME TypeOK
    PROVE  /\ out \in Bytes /\ net \in Bytes /\ buf \in Bytes
           /\ side \in {"server", "client"}
           /\ sent \in Seq(Frames) /\ got \in Seq(Frames)
           /\ OnWire(sent) \in Bytes /\ OnWire(got) \in Bytes
           /\ closed \in BOOLEAN
  BY OnWireBytes, Zenon DEF TypeOK

LEMMA CatFacts ==
    /\ \A s, t \in Bytes : Cat(s, t) \in Bytes
    /\ \A s, t, u \in Bytes : Cat(Cat(s, t), u) = Cat(s, Cat(t, u))
    /\ \A s \in Bytes : Cat(s, <<>>) = s /\ Cat(<<>>, s) = s
    /\ <<>> \in Bytes
  BY AllAssoc, BytesConcat, BytesEmpty, Zenon DEF Cat

LEMMA CatCut ==
    ASSUME NEW s \in Bytes, NEW n \in 0 .. Len(s)
    PROVE  \E a, b \in Bytes :
             a = SubSeq(s, 1, n) /\ b = SubSeq(s, n + 1, Len(s)) /\ Cat(a, b) = s
  BY BytesCut, ZenonT(40) DEF Cat

\* The bytes of one more frame.
LEMMA AccountsWrite ==
    ASSUME NEW r \in Bytes, NEW h \in Bytes, NEW c \in Bytes, NEW w \in Bytes, NEW e \in Bytes,
           Accounts(r, h, c, <<>>, <<>>, w)
    PROVE  Accounts(r, h, c, e, <<>>, w \o e)
  <1>1. Accounts(r, h, c, e, <<>>, Cat(w, e))
    BY CatFacts, SMT DEF Accounts
  <1> QED
    BY <1>1, Zenon DEF Cat

\* Bytes that are passed on, by send() and by recv().
LEMMA AccountsSend ==
    ASSUME NEW r \in Bytes, NEW h \in Bytes, NEW c \in Bytes, NEW o \in Bytes, NEW l \in Bytes,
           NEW w, NEW n \in 0 .. Len(o), Accounts(r, h, c, o, l, w)
    PROVE  Accounts(r, h, c \o SubSeq(o, 1, n), SubSeq(o, n + 1, Len(o)), l, w)
  <1>1. PICK a \in Bytes, b \in Bytes :
          a = SubSeq(o, 1, n) /\ b = SubSeq(o, n + 1, Len(o)) /\ Cat(a, b) = o
    BY CatCut, Zenon
  <1>2. Accounts(r, h, Cat(c, a), b, l, w)
    BY <1>1, CatFacts, SMT DEF Accounts
  <1> QED
    BY <1>1, <1>2, Zenon DEF Cat

LEMMA AccountsRecv ==
    ASSUME NEW r \in Bytes, NEW h \in Bytes, NEW c \in Bytes, NEW o \in Bytes, NEW l \in Bytes,
           NEW w, NEW n \in 0 .. Len(c), Accounts(r, h, c, o, l, w)
    PROVE  Accounts(r, h \o SubSeq(c, 1, n), SubSeq(c, n + 1, Len(c)), o, l, w)
  <1>1. PICK a \in Bytes, b \in Bytes :
          a = SubSeq(c, 1, n) /\ b = SubSeq(c, n + 1, Len(c)) /\ Cat(a, b) = c
    BY CatCut, Zenon
  <1>2. Accounts(r, Cat(h, a), b, o, l, w)
    BY <1>1, CatFacts, SMT DEF Accounts
  <1> QED
    BY <1>1, <1>2, Zenon DEF Cat

\* The bytes of a frame that is read.
LEMMA AccountsRead ==
    ASSUME NEW r \in Bytes, NEW h \in Bytes, NEW c \in Bytes, NEW o \in Bytes, NEW l \in Bytes,
           NEW w, Accounts(r, h, c, o, l, w)
    PROVE  Accounts(r \o h, <<>>, c, o, l, w)
  <1>1. Accounts(Cat(r, h), <<>>, c, o, l, w)
    BY CatFacts, SMT DEF Accounts
  <1> QED
    BY <1>1, Zenon DEF Cat

\* The bytes that a break loses.
LEMMA AccountsBreak ==
    ASSUME NEW r \in Bytes, NEW h \in Bytes, NEW c \in Bytes, NEW o \in Bytes,
           NEW w, NEW n \in 0 .. Len(c), Accounts(r, h, c, o, <<>>, w)
    PROVE  \E l \in Bytes : Accounts(r, h, SubSeq(c, 1, n), <<>>, l, w)
  <1>1. PICK a \in Bytes, b \in Bytes :
          a = SubSeq(c, 1, n) /\ b = SubSeq(c, n + 1, Len(c)) /\ Cat(a, b) = c
    BY CatCut, Zenon
  <1>2. Cat(b, o) \in Bytes /\ Accounts(r, h, a, <<>>, Cat(b, o), w)
    BY <1>1, CatFacts, SMT DEF Accounts
  <1> QED
    BY <1>1, <1>2, Zenon

\* What a finished read_frame returns is the next frame that was written.
LEMMA NextFrame ==
    ASSUME Inv, Len(buf) = Wanted(buf)
    PROVE  /\ Len(got) < Len(sent)
           /\ sent[Len(got) + 1] \in Frames
           /\ buf = Encoded(sent[Len(got) + 1])
           /\ Decoded(buf) = sent[Len(got) + 1]
  <1>1. /\ out \in Bytes /\ net \in Bytes /\ buf \in Bytes /\ side \in {"server", "client"}
        /\ sent \in Seq(Frames) /\ got \in Seq(Frames)
        /\ OnWire(sent) \in Bytes /\ OnWire(got) \in Bytes
    BY Types, Zenon DEF Inv
  <1>2. PICK lost \in Bytes : OnWire(got) \o (buf \o (net \o (out \o lost))) = OnWire(sent)
    BY Zenon DEF Inv, Accounted, Accounts, Cat
  <1> DEFINE rest == net \o (out \o lost)
  <1>3. rest \in Bytes /\ buf \o rest \in Bytes
    BY <1>1, BytesConcat, Zenon
  <1>4. OnWire(got) \o (buf \o rest) = OnWire(sent)
    BY <1>2, Zenon
  <1> HIDE DEF rest
  <1>5. Begins(got, sent)
    BY Zenon DEF Inv
  <1>6. Len(got) \in Nat /\ Len(sent) \in Nat
    BY <1>1
  <1>7. Len(got) # Len(sent)
    <2> SUFFICES ASSUME Len(got) = Len(sent) PROVE FALSE
      OBVIOUS
    <2>1. got = sent
      <3>1. got = [i \in 1 .. Len(got) |-> got[i]] /\ sent = [i \in 1 .. Len(sent) |-> sent[i]]
        BY <1>1
      <3> QED
        BY <1>5, <3>1, Zenon DEF Begins
    <2>2. OnWire(got) \o <<>> = OnWire(got) /\ <<>> \in Bytes
      BY <1>1, BytesEmpty, Zenon
    <2>3. OnWire(got) \o (buf \o rest) = OnWire(got) \o <<>>
      BY <1>4, <2>1, <2>2, Zenon
    <2>4. buf \o rest = <<>>
      BY <1>1, <1>3, <2>2, <2>3, BytesCancel, Zenon
    <2>5. buf = <<>>
      BY <1>1, <1>3, <2>4, BytesEmpty, Zenon
    <2>6. Len(buf) = 0
      BY <2>5
    <2>7. FirstRead \in {4, 5}
      BY DEF FirstRead, FRAME_HEADER_SIZE
    <2>8. Len(buf) < FirstRead => Wanted(buf) = FirstRead
      BY Zenon DEF Wanted
    <2> QED
      BY <2>6, <2>7, <2>8
  <1>8. Len(got) < Len(sent) /\ Len(got) + 1 \in 1 .. Len(sent)
    BY <1>5, <1>6, <1>7 DEF Begins
  <1> DEFINE f == sent[Len(got) + 1]
             g == Append(got, f)
  <1>9. f \in Frames
    BY <1>1, <1>8, ElementOfSeq, Zenon
  <1>10. g \in Seq(Frames) /\ Begins(g, sent)
    <2>1. /\ g \in Seq(Frames) /\ Len(g) = Len(got) + 1 /\ g[Len(got) + 1] = f
          /\ \A i \in 1 .. Len(got) : g[i] = got[i]
      BY <1>1, <1>9, AppendProperties, SMT
    <2> HIDE DEF g
    <2>2. \A i \in 1 .. Len(got) + 1 : i \in 1 .. Len(got) \/ i = Len(got) + 1
      BY <1>6
    <2>3. Len(g) <= Len(sent)
      BY <1>6, <1>8, <2>1
    <2> QED
      BY <1>5, <2>1, <2>2, <2>3, Zenon DEF Begins
  <1>11. PICK more \in Bytes : OnWire(g) \o more = OnWire(sent)
    BY <1>10, Zenon DEF Inv, Beginnings
  <1>12. OnWire(g) = OnWire(got) \o Encoded(f) /\ Encoded(f) \in Bytes
    BY <1>1, <1>9, OnWireAppend, EncodedBytes, Zenon
  <1> HIDE DEF f, g
  <1>13. (OnWire(got) \o Encoded(f)) \o more = OnWire(got) \o (Encoded(f) \o more)
    <2>1. \A x, y \in Bytes : (x \o y) \o more = x \o (y \o more)
      BY AllAssoc, ZenonT(30)
    <2> QED
      BY <1>1, <1>12, <2>1, Zenon
  <1>14. Encoded(f) \o more \in Bytes
    BY <1>12, BytesConcat, Zenon
  <1>15. OnWire(got) \o (buf \o rest) = OnWire(got) \o (Encoded(f) \o more)
    BY <1>4, <1>11, <1>12, <1>13, Zenon
  <1>16. buf \o rest = Encoded(f) \o more
    BY <1>1, <1>3, <1>14, <1>15, BytesCancel, Zenon
  <1>17. buf = Encoded(f) /\ Decoded(buf) = f
    BY <1>1, <1>3, <1>9, <1>16, ReadWhole, Zenon
  <1> QED
    BY <1>8, <1>9, <1>17, Zenon DEF f

LEMMA OnWireEmpty == OnWire(<<>>) = <<>>
  <1>1. <<>> \in Seq(Frames) /\ Len(<<>>) = 0
    OBVIOUS
  <1> QED
    BY <1>1, OnWireJoins, Zenon DEF AreJoins

LEMMA InitInv == Init => Inv
  <1> SUFFICES ASSUME Init PROVE Inv
    OBVIOUS
  <1>1. /\ sent = <<>> /\ got = <<>> /\ out = <<>> /\ net = <<>> /\ buf = <<>>
        /\ closed = FALSE /\ failed = FALSE /\ side \in {"server", "client"}
    BY Zenon DEF Init
  <1>2. <<>> \in Bytes /\ <<>> \o <<>> = <<>>
    BY BytesEmpty, Zenon
  <1>3. <<>> \in Seq(Frames) /\ Len(<<>>) = 0
    OBVIOUS
  <1>4. TypeOK
    <2>1. Len(sent) <= MaxFrames
      BY <1>1, <1>3, WireAssumption
    <2> QED
      BY <1>1, <1>2, <1>3, <2>1, Zenon DEF TypeOK
  <1>5. Begins(got, sent)
    BY <1>1, <1>3 DEF Begins
  <1>6. Accounted
    <2>1. Accounts(<<>>, <<>>, <<>>, <<>>, <<>>, <<>>)
      BY <1>2, Zenon DEF Accounts, Cat
    <2> QED
      BY <1>1, <1>2, <2>1, OnWireEmpty, Zenon DEF Accounted
  <1>7. ASSUME NEW g \in Seq(Frames), Begins(g, sent)
        PROVE  \E more \in Bytes : OnWire(g) \o more = OnWire(sent)
    <2>1. g = <<>>
      <3>1. Len(g) <= 0
        BY <1>1, <1>3, <1>7 DEF Begins
      <3> QED
        BY <3>1
    <2> QED
      BY <1>1, <1>2, <2>1, OnWireEmpty, Zenon
  <1> QED
    BY <1>1, <1>4, <1>5, <1>6, <1>7, Zenon DEF Inv, Beginnings

\* Only a write disturbs the beginnings of what was written.
LEMMA BeginningsKept ==
    ASSUME Inv, sent' = sent
    PROVE  Beginnings'
  BY Zenon DEF Inv, Beginnings

LEMMA WriteInv == Inv /\ Write => Inv'
  <1> SUFFICES ASSUME Inv, Write PROVE Inv'
    OBVIOUS
  <1>1. PICK f \in Frames : sent' = Append(sent, f) /\ out' = Encoded(f)
    BY Zenon DEF Write
  <1>2. /\ out = <<>> /\ ~closed /\ Len(sent) < MaxFrames
        /\ UNCHANGED <<side, net, buf, got, closed, failed>>
    BY Zenon DEF Write
  <1>3. /\ net \in Bytes /\ buf \in Bytes /\ sent \in Seq(Frames) /\ got \in Seq(Frames)
        /\ OnWire(sent) \in Bytes /\ OnWire(got) \in Bytes
    BY Types, Zenon DEF Inv
  <1>4. Encoded(f) \in Bytes /\ OnWire(sent') = OnWire(sent) \o Encoded(f)
    BY <1>1, <1>3, EncodedBytes, OnWireAppend, Zenon
  <1>5. /\ sent' \in Seq(Frames) /\ Len(sent') = Len(sent) + 1
        /\ \A i \in 1 .. Len(sent) : sent'[i] = sent[i]
        /\ Len(sent) \in Nat /\ Len(got) \in Nat
    BY <1>1, <1>3, AppendProperties, SMT
  <1>6. TypeOK'
    <2>1. Len(sent') <= MaxFrames
      BY <1>2, <1>5, WireAssumption
    <2> QED
      BY <1>1, <1>2, <1>4, <1>5, <2>1, Zenon DEF TypeOK, Inv
  <1>7. Begins(got, sent)'
    <2>1. Begins(got, sent)
      BY Zenon DEF Inv
    <2>2. Len(got) <= Len(sent') /\ \A i \in 1 .. Len(got) : i \in 1 .. Len(sent)
      BY <1>5, <2>1 DEF Begins
    <2> QED
      BY <1>2, <1>5, <2>1, <2>2, Zenon DEF Begins
  <1>8. Accounted'
    <2>1. Accounts(OnWire(got), buf, net, <<>>, <<>>, OnWire(sent))
      BY <1>2, Zenon DEF Inv, Accounted
    <2>2. Accounts(OnWire(got), buf, net, Encoded(f), <<>>, OnWire(sent) \o Encoded(f))
      BY <1>3, <1>4, <2>1, AccountsWrite, Zenon
    <2>3. Accounts(OnWire(got'), buf', net', out', <<>>, OnWire(sent'))
      BY <1>1, <1>2, <1>4, <2>2, Zenon
    <2>4. <<>> \in Bytes
      BY BytesEmpty, Zenon
    <2> QED
      BY <2>3, <2>4, Zenon DEF Accounted
  <1>9. ASSUME NEW g \in Seq(Frames), Begins(g, sent')
        PROVE  \E more \in Bytes : OnWire(g) \o more = OnWire(sent')
    <2>1. Len(g) \in Nat /\ Len(g) <= Len(sent) + 1 /\ \A i \in 1 .. Len(g) : g[i] = sent'[i]
      BY <1>5, <1>9 DEF Begins
    <2>2. CASE Len(g) <= Len(sent)
      <3>1. \A i \in 1 .. Len(g) : i \in 1 .. Len(sent)
        BY <1>5, <2>1, <2>2
      <3>2. Begins(g, sent)
        BY <1>5, <2>1, <2>2, <3>1, Zenon DEF Begins
      <3>3. PICK more \in Bytes : OnWire(g) \o more = OnWire(sent)
        BY <3>2, Zenon DEF Inv, Beginnings
      <3>4. \A w \in Bytes : (w \o more) \o Encoded(f) = w \o (more \o Encoded(f))
        BY <1>4, AllAssoc, Zenon
      <3>5. OnWire(g) \in Bytes /\ more \o Encoded(f) \in Bytes
        BY <1>4, OnWireBytes, BytesConcat, Zenon
      <3>6. OnWire(g) \o (more \o Encoded(f)) = OnWire(sent')
        BY <1>4, <3>3, <3>4, <3>5, Zenon
      <3> QED
        BY <3>5, <3>6, Zenon
    <2>3. CASE Len(g) = Len(sent) + 1
      <3>1. g = sent'
        <4>1. g = [i \in 1 .. Len(g) |-> g[i]] /\ sent' = [i \in 1 .. Len(sent') |-> sent'[i]]
          BY <1>5
        <4> QED
          BY <1>5, <2>1, <2>3, <4>1, Zenon
      <3>2. OnWire(g) \o <<>> = OnWire(g) /\ <<>> \in Bytes
        BY OnWireBytes, BytesEmpty, Zenon
      <3> QED
        BY <3>1, <3>2, Zenon
    <2>4. Len(g) <= Len(sent) \/ Len(g) = Len(sent) + 1
      BY <1>5, <2>1
    <2> QED
      BY <2>2, <2>3, <2>4, Zenon
  <1>10. Beginnings'
    BY <1>9, Zenon DEF Beginnings
  <1> QED
    BY <1>2, <1>6, <1>7, <1>8, <1>10, Zenon DEF Inv

LEMMA SendInv == Inv /\ Send => Inv'
  <1> SUFFICES ASSUME Inv, Send PROVE Inv'
    OBVIOUS
  <1>1. PICK n \in 1 .. Len(out) :
          net' = net \o SubSeq(out, 1, n) /\ out' = SubSeq(out, n + 1, Len(out))
    BY Zenon DEF Send
  <1>2. UNCHANGED <<side, sent, buf, got, closed, failed>>
    BY Zenon DEF Send
  <1>3. /\ out \in Bytes /\ net \in Bytes /\ buf \in Bytes
        /\ OnWire(sent) \in Bytes /\ OnWire(got) \in Bytes
    BY Types, Zenon DEF Inv
  <1>4. Len(out) \in Nat /\ n \in 0 .. Len(out)
    <2>1. Len(out) \in Nat
      BY <1>3, BytesLen, Zenon
    <2> QED
      BY <2>1
  <1>5. net' \in Bytes /\ out' \in Bytes
    BY <1>1, <1>3, <1>4, BytesCut, BytesConcat, Zenon
  <1>6. TypeOK' /\ Begins(got, sent)'
    BY <1>2, <1>5, Zenon DEF TypeOK, Inv, Begins
  <1>7. Accounted'
    <2>1. PICK lost \in Bytes : /\ Accounts(OnWire(got), buf, net, out, lost, OnWire(sent))
                                /\ ~closed => lost = <<>>
      BY Zenon DEF Inv, Accounted
    <2>2. Accounts(OnWire(got), buf, net \o SubSeq(out, 1, n), SubSeq(out, n + 1, Len(out)),
                   lost, OnWire(sent))
      BY <1>3, <1>4, <2>1, AccountsSend, Zenon
    <2> QED
      BY <1>1, <1>2, <2>1, <2>2, Zenon DEF Accounted
  <1>8. ~closed
    <2>1. closed => out = <<>>
      BY Zenon DEF Inv
    <2>2. out # <<>>
      <3>1. Len(out) # 0
        BY <1>4
      <3> QED
        BY <1>3, <3>1, BytesEmpty, Zenon
    <2> QED
      BY <2>1, <2>2
  <1> QED
    BY <1>2, <1>6, <1>7, <1>8, BeginningsKept, Zenon DEF Inv

LEMMA RecvInv == Inv /\ Recv => Inv'
  <1> SUFFICES ASSUME Inv, Recv PROVE Inv'
    OBVIOUS
  <1>1. PICK n \in 1 .. Len(net) :
          buf' = buf \o SubSeq(net, 1, n) /\ net' = SubSeq(net, n + 1, Len(net))
    BY Zenon DEF Recv
  <1>2. UNCHANGED <<side, sent, out, got, closed, failed>>
    BY Zenon DEF Recv
  <1>3. /\ out \in Bytes /\ net \in Bytes /\ buf \in Bytes
        /\ OnWire(sent) \in Bytes /\ OnWire(got) \in Bytes
    BY Types, Zenon DEF Inv
  <1>4. n \in 0 .. Len(net)
    <2>1. Len(net) \in Nat
      BY <1>3, BytesLen, Zenon
    <2> QED
      BY <2>1
  <1>5. buf' \in Bytes /\ net' \in Bytes
    BY <1>1, <1>3, <1>4, BytesCut, BytesConcat, Zenon
  <1>6. TypeOK' /\ Begins(got, sent)'
    BY <1>2, <1>5, Zenon DEF TypeOK, Inv, Begins
  <1>7. Accounted'
    <2>1. PICK lost \in Bytes : /\ Accounts(OnWire(got), buf, net, out, lost, OnWire(sent))
                                /\ ~closed => lost = <<>>
      BY Zenon DEF Inv, Accounted
    <2>2. Accounts(OnWire(got), buf \o SubSeq(net, 1, n), SubSeq(net, n + 1, Len(net)),
                   out, lost, OnWire(sent))
      BY <1>3, <1>4, <2>1, AccountsRecv, Zenon
    <2> QED
      BY <1>1, <1>2, <2>1, <2>2, Zenon DEF Accounted
  <1> QED
    BY <1>2, <1>6, <1>7, BeginningsKept, Zenon DEF Inv

LEMMA FrameReadInv == Inv /\ FrameRead => Inv'
  <1> SUFFICES ASSUME Inv, FrameRead PROVE Inv'
    OBVIOUS
  <1> DEFINE f == sent[Len(got) + 1]
  <1>1. /\ Len(buf) = Wanted(buf) /\ got' = Append(got, Decoded(buf)) /\ buf' = <<>>
        /\ UNCHANGED <<side, sent, out, net, closed, failed>>
    BY Zenon DEF FrameRead
  <1>2. Len(got) < Len(sent) /\ f \in Frames /\ buf = Encoded(f) /\ Decoded(buf) = f
    BY <1>1, NextFrame, Zenon
  <1>3. /\ out \in Bytes /\ net \in Bytes /\ buf \in Bytes
        /\ sent \in Seq(Frames) /\ got \in Seq(Frames)
        /\ OnWire(sent) \in Bytes /\ OnWire(got) \in Bytes
    BY Types, Zenon DEF Inv
  <1>4. got' = Append(got, f)
    BY <1>1, <1>2, Zenon
  <1>5. OnWire(got') = OnWire(got) \o buf
    BY <1>2, <1>3, <1>4, OnWireAppend, Zenon
  <1>6. /\ got' \in Seq(Frames) /\ Len(got') = Len(got) + 1 /\ got'[Len(got) + 1] = f
        /\ \A i \in 1 .. Len(got) : got'[i] = got[i]
        /\ Len(got) \in Nat /\ Len(sent) \in Nat
    <2> HIDE DEF f
    <2> QED
      BY <1>2, <1>3, <1>4, AppendProperties, SMT
  <1>7. Begins(got, sent)'
    <2>1. Begins(got, sent)
      BY Zenon DEF Inv
    <2>2. Len(got') <= Len(sent)
      BY <1>2, <1>6
    <2>3. \A i \in 1 .. Len(got') : i \in 1 .. Len(got) \/ i = Len(got) + 1
      BY <1>6
    <2> QED
      BY <1>1, <1>6, <2>1, <2>2, <2>3, Zenon DEF Begins
  <1>8. TypeOK'
    <2>1. <<>> \in Bytes
      BY BytesEmpty, Zenon
    <2> QED
      BY <1>1, <1>6, <2>1, Zenon DEF TypeOK, Inv
  <1>9. Accounted'
    <2>1. PICK lost \in Bytes : /\ Accounts(OnWire(got), buf, net, out, lost, OnWire(sent))
                                /\ ~closed => lost = <<>>
      BY Zenon DEF Inv, Accounted
    <2>2. Accounts(OnWire(got) \o buf, <<>>, net, out, lost, OnWire(sent))
      BY <1>3, <2>1, AccountsRead, Zenon
    <2>3. Accounts(OnWire(got'), buf', net', out', lost, OnWire(sent'))
      BY <1>1, <1>5, <2>2, Zenon
    <2> QED
      BY <1>1, <2>1, <2>3, Zenon DEF Accounted
  <1> QED
    BY <1>1, <1>7, <1>8, <1>9, BeginningsKept, Zenon DEF Inv

LEMMA BreakInv == Inv /\ Break => Inv'
  <1> SUFFICES ASSUME Inv, Break PROVE Inv'
    OBVIOUS
  <1>1. PICK n \in 0 .. Len(net) : net' = SubSeq(net, 1, n)
    BY Zenon DEF Break
  <1>2. ~closed /\ closed' = TRUE /\ out' = <<>> /\ UNCHANGED <<side, sent, buf, got, failed>>
    BY Zenon DEF Break
  <1>3. /\ out \in Bytes /\ net \in Bytes /\ buf \in Bytes
        /\ OnWire(sent) \in Bytes /\ OnWire(got) \in Bytes
    BY Types, Zenon DEF Inv
  <1>4. net' \in Bytes /\ out' \in Bytes
    BY <1>1, <1>2, <1>3, BytesCut, BytesEmpty, Zenon
  <1>5. TypeOK' /\ Begins(got, sent)'
    BY <1>2, <1>4, Zenon DEF TypeOK, Inv, Begins
  <1>6. Accounted'
    <2>1. Accounts(OnWire(got), buf, net, out, <<>>, OnWire(sent))
      BY <1>2, Zenon DEF Inv, Accounted
    <2>2. PICK lost \in Bytes :
            Accounts(OnWire(got), buf, SubSeq(net, 1, n), <<>>, lost, OnWire(sent))
      BY <1>3, <2>1, AccountsBreak, Zenon
    <2> QED
      BY <1>1, <1>2, <2>2, Zenon DEF Accounted
  <1> QED
    BY <1>2, <1>5, <1>6, BeginningsKept, Zenon DEF Inv

LEMMA NextInv == Inv /\ [Next]_vars => Inv'
  <1> SUFFICES ASSUME Inv, [Next]_vars PROVE Inv'
    OBVIOUS
  <1>1. CASE ReadFails
    <2>1. failed' = TRUE /\ UNCHANGED <<side, sent, out, net, buf, got, closed>>
      BY <1>1, Zenon DEF ReadFails
    <2> QED
      BY <2>1, Zenon DEF Inv, TypeOK, Begins, Accounted, Beginnings
  <1>2. CASE UNCHANGED vars
    <2>1. UNCHANGED <<side, sent, out, net, buf, got, closed, failed>>
      BY <1>2, Zenon DEF vars
    <2> QED
      BY <2>1, Zenon DEF Inv, TypeOK, Begins, Accounted, Beginnings
  <1> QED
    BY <1>1, <1>2, WriteInv, SendInv, RecvInv, FrameReadInv, BreakInv, Zenon DEF Next

\* The inductive invariant: the bytes written are accounted for, and a beginning
\* of the frames is a beginning of the bytes.
THEOREM Invariance == Spec => []Inv
  BY InitInv, NextInv, PTL DEF Spec

\* Every frame that read_frame returns, and every byte the code passes on, is a
\* frame or a byte.
THEOREM TypeCorrect == Spec => []TypeOK
  <1>1. Inv => TypeOK
    BY Zenon DEF Inv
  <1> QED
    BY <1>1, Invariance, PTL

LEMMA PrefixOfCat ==
    ASSUME NEW s \in Bytes, NEW t \in Bytes
    PROVE  SubSeq(s \o t, 1, Len(s)) = s
  <1>1. Len(s \o t) = Len(s) + Len(t) /\ \A i \in 1 .. Len(s) : (s \o t)[i] = s[i]
    BY BytesConcat, Zenon
  <1>2. Len(s) \in Nat /\ Len(t) \in Nat
    BY BytesLen, Zenon
  <1>3. s = [i \in 1 .. Len(s) |-> s[i]]
    BY BytesLen, Zenon
  <1>4. SubSeq(s \o t, 1, Len(s)) = [i \in 1 .. Len(s) |-> (s \o t)[i]]
    BY <1>2
  <1> QED
    BY <1>1, <1>3, <1>4, Zenon

\* For all frames whose lengths fit their headers and all cuts of the stream,
\* the reader never loses its place (read_frame and read_exact of both
\* programs).
THEOREM ReaderInStep == Spec => []InStep
  <1>1. Inv => InStep
    <2> SUFFICES ASSUME Inv PROVE InStep
      OBVIOUS
    <2>1. PICK lost \in Bytes : /\ Accounts(OnWire(got), buf, net, out, lost, OnWire(sent))
                                /\ ~closed => lost = <<>>
      BY Zenon DEF Inv, Accounted
    <2>2. /\ out \in Bytes /\ net \in Bytes /\ buf \in Bytes
          /\ OnWire(sent) \in Bytes /\ OnWire(got) \in Bytes
      BY Types, Zenon DEF Inv
    <2> DEFINE read == (OnWire(got) \o buf) \o net
    <2>3. read \in Bytes
      BY <2>2, BytesConcat, Zenon
    <2>4. Cat(read, Cat(out, lost)) = OnWire(sent)
      <3>1. Cat(Cat(Cat(OnWire(got), buf), net), Cat(out, lost)) = OnWire(sent)
        BY <2>1, <2>2, CatFacts, SMT DEF Accounts
      <3> QED
        BY <3>1, Zenon DEF Cat
    <2> HIDE DEF read
    <2>5. ~closed => read \o out = OnWire(sent)
      <3>1. out \o <<>> = out
        BY <2>2, BytesEmpty, Zenon
      <3> QED
        BY <2>1, <2>4, <3>1, Zenon DEF Cat
    <2>6. SubSeq(OnWire(sent), 1, Len(read)) = read
      <3>1. out \o lost \in Bytes
        BY <2>2, BytesConcat, Zenon
      <3>2. SubSeq(read \o (out \o lost), 1, Len(read)) = read
        BY <2>3, <3>1, PrefixOfCat, Zenon
      <3> QED
        BY <2>4, <3>2, Zenon DEF Cat
    <2> QED
      BY <2>5, <2>6, Zenon DEF InStep, read
  <1> QED
    BY <1>1, Invariance, PTL

\* The stream of bytes is a queue of whole frames: every step of the framing
\* code writes a frame, reads the next one, breaks the connection or leaves the
\* queue as it is.
THEOREM Refinement == Spec => ImplementsFrameQueue
  <1>1. Init => Queue!Init
    BY Zenon DEF Init, Queue!Init
  <1>2. Inv /\ [Next]_vars => [Queue!Next]_Queue!vars
    <2> SUFFICES ASSUME Inv, [Next]_vars PROVE [Queue!Next]_Queue!vars
      OBVIOUS
    <2>1. CASE Write
      BY <2>1, Zenon DEF Write, Queue!Next, Queue!Write
    <2>2. CASE FrameRead
      BY <2>2, NextFrame, Zenon DEF FrameRead, Queue!Next, Queue!Read
    <2>3. CASE Break
      BY <2>3, Zenon DEF Break, Queue!Next, Queue!Break
    <2>4. CASE Send \/ Recv \/ ReadFails
      BY <2>4, Zenon DEF Send, Recv, ReadFails, Queue!vars
    <2>5. CASE UNCHANGED vars
      BY <2>5, Zenon DEF vars, Queue!vars
    <2> QED
      BY <2>1, <2>2, <2>3, <2>4, <2>5, Zenon DEF Next
  <1> QED
    BY <1>1, <1>2, Invariance, PTL DEF Spec, ImplementsFrameQueue, Queue!Spec
=============================================================================
