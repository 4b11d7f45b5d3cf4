-------------------------- MODULE StoreCodecProofs --------------------------
(***************************************************************************)
(* Proofs about StoreCodec, for any number of values to a byte and any     *)
(* transactions and blocks whose numbers fit the widths of the code: what  *)
(* a key or a value is decoded to is what was encoded, a scan for a script *)
(* is exact, and a restart reads back what was stored.                     *)
(***************************************************************************)
EXTENDS StoreCodec, IndexStateProofs

-----------------------------------------------------------------------------
(* Functions defined by recursion over 0..n.                               *)

Follows(f, n, D, z, step) ==
  /\ f \in [0..n -> D]
  /\ f[0] = z
  /\ \A i \in 1..n : f[i] = step[<<f[i - 1], i>>]

(* A recursion whose steps stay in a set has a solution.                   *)
LEMMA RecursionExists ==
  ASSUME NEW n \in Nat, NEW D, NEW z \in D, NEW step \in [D \X (1..n) -> D]
  PROVE  \E f : Follows(f, n, D, z, step)
<1> DEFINE Solves(f, k) == f[0] = z /\ \A i \in 1..k : f[i] = step[<<f[i - 1], i>>]
           S == {k \in 0..n : \E f \in [0..k -> D] : Solves(f, k)}
<1>1. 0 \in S
  <2>1. [i \in 0..0 |-> z] \in [0..0 -> D] /\ Solves([i \in 0..0 |-> z], 0)
    OBVIOUS
  <2>2. \E f \in [0..0 -> D] : Solves(f, 0)
    <3> HIDE DEF Solves
    <3> QED BY <2>1
  <2> QED BY <2>2
<1>2. ASSUME NEW k \in 0..(n - 1), k \in S PROVE k + 1 \in S
  <2>1. PICK f \in [0..k -> D] : Solves(f, k)
    BY <1>2
  <2> DEFINE next == step[<<f[k], k + 1>>]
             g == [i \in 0..(k + 1) |-> IF i = k + 1 THEN next ELSE f[i]]
  <2>2. k \in Nat /\ k + 1 \in 1..n /\ k \in 0..k /\ f[k] \in D
    OBVIOUS
  <2>3. next \in D
    BY <2>2
  <2> HIDE DEF next
  <2>4. g \in [0..(k + 1) -> D]
    BY <2>2, <2>3
  <2>5. g[0] = z
    BY <2>1, <2>2
  <2>6. ASSUME NEW i \in 1..(k + 1) PROVE g[i] = step[<<g[i - 1], i>>]
    <3>1. CASE i = k + 1
      <4>1. g[i] = next /\ g[i - 1] = f[k]
        BY <2>2, <3>1
      <4> QED BY <3>1, <4>1 DEF next
    <3>2. CASE i # k + 1
      <4>1. i \in 1..k /\ i - 1 \in 0..k /\ i - 1 # k + 1
        BY <2>2, <3>2
      <4>2. g[i] = f[i] /\ g[i - 1] = f[i - 1]
        BY <2>2, <3>2, <4>1
      <4> QED BY <2>1, <4>1, <4>2
    <3> QED BY <3>1, <3>2
  <2>7. Solves(g, k + 1)
    BY <2>5, <2>6
  <2>8. \E h \in [0..(k + 1) -> D] : Solves(h, k + 1)
    <3> HIDE DEF Solves, g
    <3> QED BY <2>4, <2>7
  <2> QED BY <2>2, <2>8
<1> HIDE DEF S
<1>3. \A k \in 0..n : k \in S
  BY <1>1, <1>2, NumbersUpTo
<1>4. n \in S
  BY <1>3
<1> QED BY <1>4 DEF S, Follows

(* A sequence of values that never leaves a set.                           *)
LEMMA StaysIn ==
  ASSUME NEW n \in Nat, NEW s, NEW D, s[0] \in D,
         \A i \in 1..n : s[i - 1] \in D => s[i] \in D
  PROVE  \A i \in 0..n : s[i] \in D
<1> DEFINE S == {i \in 0..n : s[i] \in D}
<1>1. 0 \in S
  OBVIOUS
<1>2. ASSUME NEW i \in 0..(n - 1), i \in S PROVE i + 1 \in S
  <2>1. i + 1 \in 1..n /\ (i + 1) - 1 = i /\ i + 1 \in 0..n
    OBVIOUS
  <2>2. s[(i + 1) - 1] \in D
    BY <1>2, <2>1
  <2>3. s[i + 1] \in D
    BY <2>1, <2>2
  <2> QED BY <2>1, <2>3
<1> HIDE DEF S
<1>3. \A i \in 0..n : i \in S
  BY <1>1, <1>2, NumbersUpTo
<1> QED BY <1>3 DEF S

-----------------------------------------------------------------------------
(* Numbers and bytes.                                                      *)

LEMMA ByteValuesType == ByteValues \in Nat \ {0}
BY StoreCodecAssumption

LEMMA ByteValuesMany == ByteValues > 1
BY StoreCodecAssumption

(* Division: quotient and remainder.                                       *)
LEMMA Division ==
  ASSUME NEW a \in Nat, NEW b \in Nat \ {0}
  PROVE  a = (a \div b) * b + (a % b) /\ a % b \in 0..(b - 1) /\ a \div b \in Nat
OBVIOUS

(* Division by the number of byte values: quotient and remainder.          *)
LEMMA DivMod ==
  ASSUME NEW n \in Nat
  PROVE  /\ n \div ByteValues \in Nat
         /\ n % ByteValues \in Nat
         /\ n = (n \div ByteValues) * ByteValues + (n % ByteValues)
<1>1. n % ByteValues \in Nat
  BY ByteValuesType
<1>2. n \div ByteValues \in Nat
  BY ByteValuesType, Division, Zenon
<1>3. n = (n \div ByteValues) * ByteValues + (n % ByteValues)
  BY ByteValuesType, Division, Zenon
<1> QED BY <1>1, <1>2, <1>3, Zenon

(* What is left of a number when bytes are shifted out.                    *)
LEMMA ShiftedUnfolds ==
  ASSUME NEW n \in Nat, NEW w \in Nat
  PROVE  /\ Shifted(n, w) \in [0..w -> Nat]
         /\ Shifted(n, w)[0] = n
         /\ \A i \in 1..w : Shifted(n, w)[i] = Shifted(n, w)[i - 1] \div ByteValues
<1> DEFINE Body(f) == [i \in 0..w |-> IF i = 0 THEN n ELSE f[i - 1] \div ByteValues]
           step == [p \in Nat \X (1..w) |-> p[1] \div ByteValues]
           s == Shifted(n, w)
<1>1. step \in [Nat \X (1..w) -> Nat]
  BY DivMod
<1>2. PICK f : Follows(f, w, Nat, n, step)
  <2> HIDE DEF step
  <2> QED BY <1>1, RecursionExists
<1>3. f \in [0..w -> Nat] /\ f[0] = n /\ \A i \in 1..w : f[i] = step[<<f[i - 1], i>>]
  <2> HIDE DEF step
  <2> QED BY <1>2 DEF Follows
<1>4. ASSUME NEW i \in 1..w PROVE f[i] = f[i - 1] \div ByteValues
  <2>1. i - 1 \in 0..w /\ f[i - 1] \in Nat
    BY <1>3
  <2>2. step[<<f[i - 1], i>>] = f[i - 1] \div ByteValues
    BY <2>1
  <2> QED BY <1>3, <2>2
<1>5. f = Body(f)
  BY <1>3, <1>4
<1>6. s = CHOOSE g : g = Body(g)
  BY DEF Shifted
<1>7. s = Body(s)
  <2> HIDE DEF Body, s
  <2> QED BY <1>5, <1>6
<1> HIDE DEF s
<1>8. s[0] = n /\ \A i \in 1..w : s[i] = s[i - 1] \div ByteValues
  BY <1>7
<1>9. \A i \in 1..w : s[i - 1] \in Nat => s[i] \in Nat
  BY <1>8, DivMod
<1>10. \A i \in 0..w : s[i] \in Nat
  <2>1. s[0] \in Nat
    BY <1>8
  <2> HIDE DEF Body
  <2> QED BY <1>9, <2>1, StaysIn
<1>11. s \in [0..w -> Nat]
  BY <1>7, <1>10
<1> QED BY <1>8, <1>11 DEF s

(* The limits are positive, and each is ByteValues times the one before.   *)
LEMMA LimitUnfolds ==
  /\ Limit \in [0..U64 -> Nat \ {0}]
  /\ Limit[0] = 1
  /\ \A w \in 1..U64 : Limit[w] = ByteValues * Limit[w - 1]
<1> DEFINE D == Nat \ {0}
           Body(f) == [w \in 0..U64 |-> IF w = 0 THEN 1 ELSE ByteValues * f[w - 1]]
           step == [p \in D \X (1..U64) |-> ByteValues * p[1]]
<1>1. U64 \in Nat
  BY DEF U64
<1>2. \A d \in D : ByteValues * d \in D
  BY ByteValuesType
<1>3. step \in [D \X (1..U64) -> D] /\ 1 \in D
  BY <1>2
<1>4. PICK f : Follows(f, U64, D, 1, step)
  <2> HIDE DEF step, D
  <2> QED BY <1>1, <1>3, RecursionExists
<1>5. f \in [0..U64 -> D] /\ f[0] = 1 /\ \A i \in 1..U64 : f[i] = step[<<f[i - 1], i>>]
  <2> HIDE DEF step, D
  <2> QED BY <1>4 DEF Follows
<1>6. ASSUME NEW i \in 1..U64 PROVE f[i] = ByteValues * f[i - 1]
  <2>1. i - 1 \in 0..U64 /\ f[i - 1] \in D
    BY <1>1, <1>5
  <2>2. step[<<f[i - 1], i>>] = ByteValues * f[i - 1]
    BY <2>1
  <2> QED BY <1>5, <2>2
<1>7. f = Body(f)
  BY <1>5, <1>6
<1>8. Limit = CHOOSE g : g = Body(g)
  BY DEF Limit
<1>9. Limit = Body(Limit)
  <2> HIDE DEF Body
  <2> QED BY <1>7, <1>8
<1>10. Limit[0] = 1 /\ \A i \in 1..U64 : Limit[i] = ByteValues * Limit[i - 1]
  BY <1>1, <1>9
<1>11. \A i \in 1..U64 : Limit[i - 1] \in D => Limit[i] \in D
  BY <1>2, <1>10
<1>12. \A i \in 0..U64 : Limit[i] \in D
  <2>1. Limit[0] \in D
    BY <1>10
  <2> HIDE DEF Body, D
  <2> QED BY <1>1, <1>11, <2>1, StaysIn
<1>13. Limit \in [0..U64 -> D]
  BY <1>9, <1>12
<1> QED BY <1>10, <1>13

(* Nothing is left of a number once all bytes of its width are shifted     *)
(* out.                                                                    *)
LEMMA ShiftedOut ==
  ASSUME NEW w \in 0..U64, NEW n \in Nat, n < Limit[w]
  PROVE  Shifted(n, w)[w] = 0
<1> DEFINE s == Shifted(n, w)
           S == {i \in 0..w : s[i] < Limit[w - i]}
<1>1. w \in Nat /\ \A i \in 0..w : w - i \in 0..U64
  BY DEF U64
<1>2. s \in [0..w -> Nat] /\ s[0] = n /\ \A i \in 1..w : s[i] = s[i - 1] \div ByteValues
  BY <1>1, ShiftedUnfolds
<1> HIDE DEF s
<1>3. 0 \in S
  BY <1>1, <1>2
<1>4. ASSUME NEW i \in 0..(w - 1), i \in S PROVE i + 1 \in S
  <2> DEFINE q == s[i]
             b == ByteValues
             l == Limit[w - (i + 1)]
  <2>1. i \in 0..w /\ i + 1 \in 1..w /\ i + 1 \in 0..w /\ (i + 1) - 1 = i
    BY <1>1
  <2>2. w - i \in 1..U64 /\ (w - i) - 1 = w - (i + 1) /\ w - (i + 1) \in 0..U64
    BY <1>1, <2>1
  <2>3. Limit[w - i] = b * l
    BY <2>2, LimitUnfolds
  <2>4. q < b * l
    BY <1>4, <2>3
  <2>5. q \in Nat /\ b \in Nat \ {0} /\ l \in Nat
    BY <1>2, <2>1, <2>2, ByteValuesType, LimitUnfolds
  <2>6. s[i + 1] = q \div b
    BY <1>2, <2>1
  <2> HIDE DEF q, b, l
  <2>7. q \div b < l
    <3>1. \A x \in Nat : \A y \in Nat \ {0} : \A z \in Nat : x < y * z => x \div y < z
      OBVIOUS
    <3> QED BY <2>4, <2>5, <3>1
  <2>8. s[i + 1] < l
    BY <2>6, <2>7
  <2> QED BY <2>1, <2>8 DEF l
<1> HIDE DEF S
<1>5. \A i \in 0..w : i \in S
  BY <1>1, <1>3, <1>4, NumbersUpTo
<1>6. w \in 0..w /\ w \in S
  BY <1>1, <1>5
<1>7. s[w] < Limit[w - w] /\ s[w] \in Nat
  BY <1>2, <1>6 DEF S
<1>8. Limit[w - w] = 1
  BY <1>1, LimitUnfolds
<1>9. s[w] = 0
  BY <1>7, <1>8
<1> QED BY <1>9 DEF s

(* The bytes of a number.                                                  *)
LEMMA ToBeBytesType ==
  ASSUME NEW n \in Nat, NEW w \in Nat
  PROVE  /\ ToBeBytes(n, w) \in Seq(Nat)
         /\ Len(ToBeBytes(n, w)) = w
         /\ \A i \in 1..w : ToBeBytes(n, w)[i] = Shifted(n, w)[w - i] % ByteValues
<1> DEFINE s == Shifted(n, w)
           bytes == [i \in 1..w |-> s[w - i] % ByteValues]
<1>1. s \in [0..w -> Nat]
  BY ShiftedUnfolds
<1> HIDE DEF s
<1>2. ASSUME NEW i \in 1..w PROVE s[w - i] % ByteValues \in Nat
  <2>1. w - i \in 0..w
    OBVIOUS
  <2>2. s[w - i] \in Nat
    BY <1>1, <2>1
  <2> QED BY <2>2, DivMod
<1>3. bytes \in [1..w -> Nat]
  BY <1>2
<1>4. bytes \in Seq(Nat) /\ Len(bytes) = w
  <2> HIDE DEF bytes
  <2> QED BY <1>3
<1> QED BY <1>4 DEF ToBeBytes, s

(* What the first bytes of a byte string stand for.                        *)
LEMMA ReadUnfolds ==
  ASSUME NEW bytes \in Seq(Nat)
  PROVE  /\ ReadUpTo(bytes) \in [0..Len(bytes) -> Nat]
         /\ ReadUpTo(bytes)[0] = 0
         /\ \A i \in 1..Len(bytes) :
              ReadUpTo(bytes)[i] = ReadUpTo(bytes)[i - 1] * ByteValues + bytes[i]
<1> DEFINE w == Len(bytes)
           Body(f) == [i \in 0..w |-> IF i = 0 THEN 0 ELSE f[i - 1] * ByteValues + bytes[i]]
           step == [p \in Nat \X (1..w) |-> p[1] * ByteValues + bytes[p[2]]]
           r == ReadUpTo(bytes)
<1>1. w \in Nat /\ \A i \in 1..w : bytes[i] \in Nat
  OBVIOUS
<1>2. r = CHOOSE g : g = Body(g)
  BY DEF ReadUpTo
<1> HIDE DEF w, r
<1>3. \A d \in Nat : \A i \in 1..w : d * ByteValues + bytes[i] \in Nat
  BY <1>1, ByteValuesType
<1>4. step \in [Nat \X (1..w) -> Nat]
  BY <1>3
<1>5. PICK f : Follows(f, w, Nat, 0, step)
  <2> HIDE DEF step
  <2> QED BY <1>1, <1>4, RecursionExists
<1>6. f \in [0..w -> Nat] /\ f[0] = 0 /\ \A i \in 1..w : f[i] = step[<<f[i - 1], i>>]
  <2> HIDE DEF step
  <2> QED BY <1>5 DEF Follows
<1>7. ASSUME NEW i \in 1..w PROVE f[i] = f[i - 1] * ByteValues + bytes[i]
  <2>1. i - 1 \in 0..w /\ f[i - 1] \in Nat
    BY <1>1, <1>6
  <2>2. step[<<f[i - 1], i>>] = f[i - 1] * ByteValues + bytes[i]
    BY <2>1
  <2> QED BY <1>6, <2>2
<1>8. f = Body(f)
  BY <1>6, <1>7
<1>9. r = Body(r)
  <2> HIDE DEF Body
  <2> QED BY <1>2, <1>8
<1>10. r[0] = 0 /\ \A i \in 1..w : r[i] = r[i - 1] * ByteValues + bytes[i]
  BY <1>1, <1>9
<1>11. \A i \in 1..w : r[i - 1] \in Nat => r[i] \in Nat
  BY <1>3, <1>10
<1>12. \A i \in 0..w : r[i] \in Nat
  <2>1. r[0] \in Nat
    BY <1>10
  <2> HIDE DEF Body
  <2> QED BY <1>1, <1>11, <2>1, StaysIn
<1>13. r \in [0..w -> Nat]
  BY <1>9, <1>12
<1> QED BY <1>10, <1>13 DEF r, w

(* from_be_bytes gives back the number that to_be_bytes took, if it fits.  *)
LEMMA RoundTrip ==
  ASSUME NEW w \in 0..U64, NEW n \in Nat, n < Limit[w]
  PROVE  FromBeBytes(ToBeBytes(n, w)) = n
<1> DEFINE bytes == ToBeBytes(n, w)
           s == Shifted(n, w)
           r == ReadUpTo(bytes)
           S == {i \in 0..w : r[i] = s[w - i]}
<1>1. w \in Nat
  BY DEF U64
<1>2. s \in [0..w -> Nat] /\ s[0] = n /\ \A i \in 1..w : s[i] = s[i - 1] \div ByteValues
  BY <1>1, ShiftedUnfolds
<1>3. bytes \in Seq(Nat) /\ Len(bytes) = w /\ \A i \in 1..w : bytes[i] = s[w - i] % ByteValues
  BY <1>1, ToBeBytesType
<1>4. s[w] = 0
  BY ShiftedOut
<1> HIDE DEF bytes, s
<1>5. r \in [0..w -> Nat] /\ r[0] = 0
      /\ \A i \in 1..w : r[i] = r[i - 1] * ByteValues + bytes[i]
  BY <1>3, ReadUnfolds
<1> HIDE DEF r
<1>6. 0 \in S
  BY <1>1, <1>4, <1>5
<1>7. ASSUME NEW i \in 0..(w - 1), i \in S PROVE i + 1 \in S
  <2> DEFINE m == s[w - (i + 1)]
  <2>1. i \in 0..w /\ i + 1 \in 1..w /\ i + 1 \in 0..w /\ (i + 1) - 1 = i
    BY <1>1
  <2>2. w - i \in 1..w /\ (w - i) - 1 = w - (i + 1) /\ w - (i + 1) \in 0..w
    BY <1>1, <2>1
  <2>3. m \in Nat /\ s[w - i] = m \div ByteValues /\ bytes[i + 1] = m % ByteValues
    BY <1>2, <1>3, <2>1, <2>2
  <2>4. r[i + 1] = r[i] * ByteValues + bytes[i + 1] /\ r[i] = s[w - i]
    BY <1>5, <1>7, <2>1
  <2>5. r[i + 1] = (m \div ByteValues) * ByteValues + (m % ByteValues)
    BY <2>3, <2>4
  <2> HIDE DEF m
  <2>6. r[i + 1] = m
    BY <2>3, <2>5, DivMod, Zenon
  <2> QED BY <2>1, <2>6 DEF m
<1> HIDE DEF S
<1>8. \A i \in 0..w : i \in S
  BY <1>1, <1>6, <1>7, NumbersUpTo
<1>9. w \in 0..w /\ w \in S
  BY <1>1, <1>8
<1>10. r[w] = s[w - w] /\ w - w = 0
  BY <1>1, <1>9 DEF S
<1>11. r[w] = n
  BY <1>2, <1>10
<1> QED BY <1>3, <1>11 DEF FromBeBytes, r, bytes

-----------------------------------------------------------------------------
(* Byte strings.                                                           *)

(* A byte string holds bytes and, in one cell each, hashes.                *)
Cell == Txid \cup ScriptHash \cup Nat

LEMMA OneCell ==
  ASSUME NEW c \in Cell
  PROVE  <<c>> \in Seq(Cell) /\ Len(<<c>>) = 1 /\ <<c>>[1] = c
OBVIOUS

LEMMA ConcatType ==
  ASSUME NEW s \in Seq(Cell), NEW t \in Seq(Cell)
  PROVE  /\ s \o t \in Seq(Cell)
         /\ Len(s \o t) = Len(s) + Len(t)
         /\ \A i \in 1..Len(s) : (s \o t)[i] = s[i]
         /\ \A i \in 1..Len(t) : (s \o t)[Len(s) + i] = t[i]
OBVIOUS

LEMMA ConcatFront ==
  ASSUME NEW s \in Seq(Cell), NEW t \in Seq(Cell), NEW i \in 1..Len(s)
  PROVE  (s \o t)[i] = s[i]
OBVIOUS

(* The slice that is the second part.                                      *)
LEMMA SliceBack ==
  ASSUME NEW s \in Seq(Cell), NEW t \in Seq(Cell)
  PROVE  Slice(s \o t, Len(s), Len(t)) = t
BY DEF Slice

(* A slice within the first part.                                          *)
LEMMA SliceFront ==
  ASSUME NEW s \in Seq(Cell), NEW t \in Seq(Cell)
  PROVE  \A from, w \in Nat : from + w <= Len(s) => Slice(s \o t, from, w) = Slice(s, from, w)
BY DEF Slice

LEMMA SliceAll ==
  ASSUME NEW s \in Seq(Cell)
  PROVE  Slice(s, 0, Len(s)) = s
BY DEF Slice

LEMMA TailOfConcat ==
  ASSUME NEW c \in Cell, NEW t \in Seq(Cell)
  PROVE  Tail(<<c>> \o t) = t
OBVIOUS

(* The bytes of a number that fits its width.                              *)
LEMMA BytesOf ==
  ASSUME NEW w \in 0..U64, NEW n \in Nat, n < Limit[w]
  PROVE  /\ ToBeBytes(n, w) \in Seq(Cell)
         /\ Len(ToBeBytes(n, w)) = w
         /\ FromBeBytes(ToBeBytes(n, w)) = n
<1>1. w \in Nat
  BY DEF U64
<1>2. ToBeBytes(n, w) \in Seq(Nat) /\ Len(ToBeBytes(n, w)) = w
  BY <1>1, ToBeBytesType
<1>3. \A s \in Seq(Nat) : s \in Seq(Cell)
  BY DEF Cell
<1> QED BY <1>2, <1>3, RoundTrip

LEMMA Widths == U32 \in 0..U64 /\ U64 \in 0..U64 /\ U32 = 4 /\ U64 = 8 /\ Hash = 1
BY DEF U32, U64, Hash

(* An outpoint that some transaction creates has an amount and a position  *)
(* that fit.                                                               *)
LEMMA RealOutPointFits ==
  ASSUME NEW o \in RealOutPoint
  PROVE  /\ o = <<o[1], o[2]>>
         /\ o[1] \in Txid
         /\ o[2] \in Nat \ {0}
         /\ o[2] <= Limit[U32]
         /\ ValueOf(o) \in Nat
         /\ ValueOf(o) < Limit[U64]
<1> DEFINE t == o[1]
           v == o[2]
<1>1. o = <<t, v>> /\ t \in Txid /\ v \in Nat \ {0} /\ v \in DOMAIN Outputs[t]
  BY DEF RealOutPoint, Exists, OutPoint
<1> HIDE DEF t, v
<1>2. Outputs[t] \in Seq([script : ScriptHash, value : Nat])
  BY <1>1, TransactionsAssumption
<1>3. \A T, s : s \in Seq(T) => Len(s) \in Nat /\ \A i \in DOMAIN s : i <= Len(s) /\ s[i] \in T
  OBVIOUS
<1>4. v <= Len(Outputs[t]) /\ Len(Outputs[t]) \in Nat
      /\ Outputs[t][v] \in [script : ScriptHash, value : Nat]
  BY <1>1, <1>2, <1>3, Zenon
<1>5. Len(Outputs[t]) <= Limit[U32]
  BY <1>1, StoreCodecAssumption
<1>6. Limit[U32] \in Nat
  BY Widths, LimitUnfolds
<1>7. v <= Limit[U32]
  BY <1>1, <1>4, <1>5, <1>6
<1>8. Outputs[t][v].value \in Nat
  BY <1>4
<1>9. o \in CreatedBy(Txid)
  BY <1>1 DEF CreatedBy, Created
<1>10. ValueOf(o) < Limit[U64]
  BY <1>9, StoreCodecAssumption
<1>11. ValueOf(o) \in Nat
  BY <1>8 DEF ValueOf, t, v
<1> QED BY <1>1, <1>7, <1>10, <1>11 DEF t, v

(* An outpoint whose position fits is read back from its bytes.            *)
LEMMA OutpointDecodes ==
  ASSUME NEW o \in OutPoint, o[2] <= Limit[U32]
  PROVE  /\ OutpointBytes(o) \in Seq(Cell)
         /\ ParseOutpoint(OutpointBytes(o)) = o
<1> DEFINE t == o[1]
           n == o[2] - 1
           bytes == ToBeBytes(n, U32)
           head == <<t>>
           all == head \o bytes
<1>1. o = <<t, o[2]>> /\ t \in Txid /\ o[2] \in Nat \ {0}
  BY DEF OutPoint
<1>2. Limit[U32] \in Nat
  BY Widths, LimitUnfolds
<1>3. n \in Nat /\ n < Limit[U32] /\ n + 1 = o[2]
  BY <1>1, <1>2
<1>4. OutpointBytes(o) = all
  BY DEF OutpointBytes
<1>5. t \in Cell
  BY <1>1 DEF Cell
<1> HIDE DEF t, n
<1>6. bytes \in Seq(Cell) /\ Len(bytes) = U32 /\ FromBeBytes(bytes) = n
  BY <1>3, Widths, BytesOf
<1>7. head \in Seq(Cell) /\ Len(head) = Hash /\ head[1] = t
  BY <1>5, Widths, OneCell
<1> HIDE DEF bytes, head
<1>8. all \in Seq(Cell) /\ all[1] = t
  <2>1. all \in Seq(Cell)
    BY <1>6, <1>7, ConcatType
  <2>2. 1 \in 1..Len(head)
    BY <1>7, Widths
  <2>3. all[1] = head[1]
    BY <1>6, <1>7, <2>2, ConcatFront
  <2> QED BY <1>7, <2>1, <2>3
<1>9. Slice(all, Hash, U32) = bytes
  BY <1>6, <1>7, SliceBack
<1> HIDE DEF all
<1>10. ParseOutpoint(OutpointBytes(o)) = <<t, n + 1>>
  BY <1>4, <1>6, <1>8, <1>9 DEF ParseOutpoint
<1> QED BY <1>1, <1>3, <1>4, <1>8, <1>10

(* Outpoints with the same key in "outputs" are the same.                  *)
LEMMA OutpointKeyInjective ==
  ASSUME NEW o \in RealOutPoint, NEW p \in RealOutPoint, OutpointKey(o) = OutpointKey(p)
  PROVE  o = p
<1>1. o \in OutPoint /\ p \in OutPoint /\ o[2] <= Limit[U32] /\ p[2] <= Limit[U32]
  BY RealOutPointFits DEF RealOutPoint
<1>2. OutpointKey(o) = OutpointBytes(o) /\ OutpointKey(p) = OutpointBytes(p)
  BY DEF OutpointKey, OutpointBytes
<1> QED BY <1>1, <1>2, OutpointDecodes

(* The key of an unspent output: its script is the prefix, and the         *)
(* outpoint is read back from the rest.                                    *)
LEMMA UtxoKeyDecodes ==
  ASSUME NEW sh \in ScriptHash, NEW o \in RealOutPoint
  PROVE  /\ Slice(UtxoKey(sh, o), 0, Hash) = <<sh>>
         /\ UtxoKey(sh, o)[2] = o[1]
         /\ FromBeBytes(Slice(UtxoKey(sh, o), 2 * Hash, U32)) + 1 = o[2]
<1> DEFINE t == o[1]
           n == o[2] - 1
           bytes == ToBeBytes(n, U32)
           first == <<sh>>
           second == <<t>>
           head == first \o second
           all == head \o bytes
<1>1. o = <<t, o[2]>> /\ t \in Txid /\ o[2] \in Nat \ {0} /\ o[2] <= Limit[U32]
  BY RealOutPointFits
<1>2. Limit[U32] \in Nat
  BY Widths, LimitUnfolds
<1>3. n \in Nat /\ n < Limit[U32] /\ n + 1 = o[2]
  BY <1>1, <1>2
<1>4. UtxoKey(sh, o) = all
  BY DEF UtxoKey
<1>5. t \in Cell /\ sh \in Cell
  BY <1>1 DEF Cell
<1> HIDE DEF t, n
<1>6. bytes \in Seq(Cell) /\ Len(bytes) = U32 /\ FromBeBytes(bytes) = n
  BY <1>3, Widths, BytesOf
<1>7. first \in Seq(Cell) /\ Len(first) = 1 /\ second \in Seq(Cell) /\ Len(second) = 1
      /\ first[1] = sh /\ second[1] = t
  BY <1>5, OneCell
<1> HIDE DEF bytes, first, second
<1>8. head \in Seq(Cell) /\ Len(head) = 2 /\ head[2] = t
  BY <1>7, ConcatType
<1>9. Slice(head, 0, 1) = first
  <2>1. Slice(head, 0, 1) = Slice(first, 0, 1)
    <3>1. \A from, w \in Nat :
            from + w <= Len(first) => Slice(head, from, w) = Slice(first, from, w)
      BY <1>7, SliceFront
    <3> QED BY <1>7, <3>1
  <2>2. Slice(first, 0, 1) = first
    BY <1>7, SliceAll
  <2> QED BY <2>1, <2>2
<1> HIDE DEF head
<1>10. all[2] = t
  <2>1. 2 \in 1..Len(head)
    BY <1>8
  <2>2. all[2] = head[2]
    BY <1>6, <1>8, <2>1, ConcatFront
  <2> QED BY <1>8, <2>2
<1>11. Slice(all, 2, U32) = bytes
  BY <1>6, <1>8, SliceBack
<1>12. Slice(all, 0, 1) = first
  <2>1. Slice(all, 0, 1) = Slice(head, 0, 1)
    <3>1. \A from, w \in Nat :
            from + w <= Len(head) => Slice(all, from, w) = Slice(head, from, w)
      BY <1>6, <1>8, SliceFront
    <3> QED BY <1>8, <3>1
  <2> QED BY <1>9, <2>1
<1> HIDE DEF all
<1>13. FromBeBytes(Slice(all, 2 * Hash, U32)) = n /\ Slice(all, 0, Hash) = first
  BY <1>6, <1>11, <1>12, Widths
<1> QED BY <1>3, <1>4, <1>10, <1>13 DEF t, first

(* What is found in a byte string that was put together from two: all that *)
(* was in the first, and the second.                                       *)
Joins(a, s, t) ==
  /\ a \in Seq(Cell)
  /\ Len(a) = Len(s) + Len(t)
  /\ \A i \in 1..Len(s) : a[i] = s[i]
  /\ \A from, w \in Nat : from + w <= Len(s) => Slice(a, from, w) = Slice(s, from, w)
  /\ Slice(a, Len(s), Len(t)) = t
  /\ Len(t) = 1 => a[Len(s) + 1] = t[1]

LEMMA Parts ==
  ASSUME NEW s \in Seq(Cell), NEW t \in Seq(Cell)
  PROVE  Joins(s \o t, s, t)
<1> DEFINE a == s \o t
<1>1. a \in Seq(Cell) /\ Len(a) = Len(s) + Len(t)
  BY ConcatType
<1>2. \A i \in 1..Len(s) : a[i] = s[i]
  BY ConcatFront
<1>3. \A from, w \in Nat : from + w <= Len(s) => Slice(a, from, w) = Slice(s, from, w)
  BY SliceFront
<1>4. Slice(a, Len(s), Len(t)) = t
  BY SliceBack
<1>5. ASSUME Len(t) = 1 PROVE a[Len(s) + 1] = t[1]
  <2>1. 1 \in 1..Len(t)
    BY <1>5
  <2> QED BY <2>1, ConcatType
<1> QED BY <1>1, <1>2, <1>3, <1>4, <1>5 DEF Joins

(* A stored output is read back with its amount and its height.            *)
LEMMA OutputDecodes ==
  ASSUME NEW o \in RealOutPoint, NEW h \in Height
  PROVE  DecodeOutput(o, EncodeOutput(o, h)) =
           [script_hash |-> ScriptOf(o), txid |-> o[1], vout |-> o[2],
            value |-> ValueOf(o), height |-> h]
<1> DEFINE p1 == <<ScriptOf(o)>>
           p2 == ToBeBytes(ValueOf(o), U64)
           p3 == ToBeBytes(h, U32)
           a2 == p1 \o p2
           a3 == a2 \o p3
<1>1. ScriptOf(o) \in Cell
  BY ScriptOfType DEF Cell
<1>2. h \in Nat /\ h < Limit[U32]
  BY HeightAssumption, StoreCodecAssumption
<1>3. p1 \in Seq(Cell) /\ Len(p1) = 1 /\ p1[1] = ScriptOf(o)
  BY <1>1, OneCell
<1>4. p2 \in Seq(Cell) /\ Len(p2) = U64 /\ FromBeBytes(p2) = ValueOf(o)
  BY RealOutPointFits, Widths, BytesOf
<1>5. p3 \in Seq(Cell) /\ Len(p3) = U32 /\ FromBeBytes(p3) = h
  BY <1>2, Widths, BytesOf
<1>6. EncodeOutput(o, h) = a3
  BY DEF EncodeOutput
<1> HIDE DEF p1, p2, p3
<1>7. a2 \in Seq(Cell) /\ Len(a2) = 9 /\ a2[1] = ScriptOf(o) /\ Slice(a2, 1, U64) = p2
  <2>1. a2 \in Seq(Cell) /\ Len(a2) = Len(p1) + Len(p2)
        /\ (\A i \in 1..Len(p1) : a2[i] = p1[i]) /\ Slice(a2, Len(p1), Len(p2)) = p2
    <3>1. Joins(a2, p1, p2)
      BY <1>3, <1>4, Parts
    <3> HIDE DEF a2
    <3> QED BY <1>3, <1>4, <3>1 DEF Joins
  <2> QED BY <1>3, <1>4, <2>1, Widths
<1> HIDE DEF a2
<1>8. a3[1] = ScriptOf(o) /\ Slice(a3, 1, U64) = p2 /\ Slice(a3, 9, U32) = p3
  <2>1. /\ \A i \in 1..Len(a2) : a3[i] = a2[i]
        /\ \A from, w \in Nat : from + w <= Len(a2) => Slice(a3, from, w) = Slice(a2, from, w)
        /\ Slice(a3, Len(a2), Len(p3)) = p3
    <3>1. Joins(a3, a2, p3)
      BY <1>5, <1>7, Parts
    <3> HIDE DEF a3
    <3> QED BY <1>5, <1>7, <3>1 DEF Joins
  <2>2. a3[1] = a2[1]
    <3>1. 1 \in 1..Len(a2)
      BY <1>7
    <3> QED BY <2>1, <3>1, Zenon
  <2>3. Slice(a3, 1, U64) = Slice(a2, 1, U64)
    <3>1. 1 \in Nat /\ U64 \in Nat /\ 1 + U64 <= Len(a2)
      BY <1>7, Widths
    <3> QED BY <2>1, <3>1, Zenon
  <2> QED BY <1>5, <1>7, <2>1, <2>2, <2>3
<1> HIDE DEF a3
<1>9. Slice(a3, Hash, U64) = p2 /\ Slice(a3, Hash + U64, U32) = p3
  <2>1. Hash = 1 /\ Hash + U64 = 9
    BY Widths
  <2> QED BY <1>8, <2>1
<1> QED BY <1>4, <1>5, <1>6, <1>8, <1>9 DEF DecodeOutput

(* The two kinds of history entries have different bytes.                  *)
LEMMA KindBytes ==
  ASSUME NEW kind \in HistoryKind
  PROVE  KindByte(kind) \in Nat /\ \A other \in HistoryKind :
           KindByte(kind) = KindByte(other) => kind = other
BY DEF HistoryKind, KindByte

(* What a history key is read back as.                                     *)
Entry(key) ==
  [script_hash |-> key[1], height |-> key[2], kind |-> KindByte(key[3]),
   txid |-> key[4], sequence |-> key[5] - 1]

(* The key of a history entry: its script is the prefix, and the entry is  *)
(* read back from the rest.                                                *)
LEMMA HistoryKeyDecodes ==
  ASSUME NEW key \in HistoryKey, key[5] <= Limit[U32]
  PROVE  /\ HistoryKeyBytes(key) \in Seq(Cell)
         /\ Slice(HistoryKeyBytes(key), 0, Hash) = <<key[1]>>
         /\ ParseHistoryKey(HistoryKeyBytes(key)) = Entry(key)
<1> DEFINE p1 == <<key[1]>>
           p2 == ToBeBytes(key[2], U32)
           p3 == <<KindByte(key[3])>>
           p4 == <<key[4]>>
           p5 == ToBeBytes(key[5] - 1, U32)
           a2 == p1 \o p2
           a3 == a2 \o p3
           a4 == a3 \o p4
           a5 == a4 \o p5
<1>1. /\ key[1] \in ScriptHash /\ key[2] \in Height /\ key[3] \in HistoryKind
      /\ key[4] \in Txid /\ key[5] \in Nat \ {0}
  BY DEF HistoryKey
<1>2. key[2] \in Nat /\ key[2] < Limit[U32]
  BY <1>1, HeightAssumption, StoreCodecAssumption
<1>3. Limit[U32] \in Nat
  BY Widths, LimitUnfolds
<1>4. key[5] - 1 \in Nat /\ key[5] - 1 < Limit[U32]
  BY <1>1, <1>3
<1>5. key[1] \in Cell /\ KindByte(key[3]) \in Cell /\ key[4] \in Cell
  BY <1>1, KindBytes DEF Cell
<1>6. p1 \in Seq(Cell) /\ Len(p1) = 1 /\ p1[1] = key[1]
  BY <1>5, OneCell
<1>7. p2 \in Seq(Cell) /\ Len(p2) = U32 /\ FromBeBytes(p2) = key[2]
  BY <1>2, Widths, BytesOf
<1>8. p3 \in Seq(Cell) /\ Len(p3) = 1 /\ p3[1] = KindByte(key[3])
  BY <1>5, OneCell
<1>9. p4 \in Seq(Cell) /\ Len(p4) = 1 /\ p4[1] = key[4]
  BY <1>5, OneCell
<1>10. p5 \in Seq(Cell) /\ Len(p5) = U32 /\ FromBeBytes(p5) = key[5] - 1
  BY <1>4, Widths, BytesOf
<1>11. HistoryKeyBytes(key) = a5
  BY DEF HistoryKeyBytes
<1>12. Slice(p1, 0, 1) = p1
  BY <1>6, SliceAll
<1> HIDE DEF p1, p2, p3, p4, p5
<1>13. /\ a2 \in Seq(Cell) /\ Len(a2) = 5
       /\ a2[1] = key[1] /\ Slice(a2, 0, 1) = p1 /\ Slice(a2, 1, U32) = p2
  <2>1. /\ a2 \in Seq(Cell) /\ Len(a2) = Len(p1) + Len(p2)
        /\ \A i \in 1..Len(p1) : a2[i] = p1[i]
        /\ \A from, w \in Nat : from + w <= Len(p1) => Slice(a2, from, w) = Slice(p1, from, w)
        /\ Slice(a2, Len(p1), Len(p2)) = p2
    <3>1. Joins(a2, p1, p2)
      BY <1>6, <1>7, Parts
    <3> HIDE DEF a2
    <3> QED BY <1>6, <1>7, <3>1 DEF Joins
  <2>2. a2[1] = p1[1]
    <3>1. 1 \in 1..Len(p1)
      BY <1>6
    <3> QED BY <2>1, <3>1, Zenon
  <2>3. Slice(a2, 0, 1) = Slice(p1, 0, 1)
    <3>1. 0 \in Nat /\ 1 \in Nat /\ 0 + 1 <= Len(p1)
      BY <1>6
    <3> QED BY <2>1, <3>1, Zenon
  <2> QED BY <1>6, <1>7, <1>12, <2>1, <2>2, <2>3, Widths
<1> HIDE DEF a2
<1>14. /\ a3 \in Seq(Cell) /\ Len(a3) = 6
       /\ a3[1] = key[1] /\ Slice(a3, 0, 1) = p1 /\ Slice(a3, 1, U32) = p2
       /\ a3[6] = KindByte(key[3])
  <2>1. /\ a3 \in Seq(Cell) /\ Len(a3) = Len(a2) + Len(p3)
        /\ \A i \in 1..Len(a2) : a3[i] = a2[i]
        /\ \A from, w \in Nat : from + w <= Len(a2) => Slice(a3, from, w) = Slice(a2, from, w)
        /\ a3[Len(a2) + 1] = p3[1]
    <3>1. Joins(a3, a2, p3)
      BY <1>8, <1>13, Parts
    <3> HIDE DEF a3
    <3> QED BY <1>8, <1>13, <3>1 DEF Joins
  <2>2. a3[1] = a2[1]
    <3>1. 1 \in 1..Len(a2)
      BY <1>13
    <3> QED BY <2>1, <3>1, Zenon
  <2>3. Slice(a3, 0, 1) = Slice(a2, 0, 1)
    <3>1. 0 \in Nat /\ 1 \in Nat /\ 0 + 1 <= Len(a2)
      BY <1>13
    <3> QED BY <2>1, <3>1, Zenon
  <2>4. Slice(a3, 1, U32) = Slice(a2, 1, U32)
    <3>1. 1 \in Nat /\ U32 \in Nat /\ 1 + U32 <= Len(a2)
      BY <1>13, Widths
    <3> QED BY <2>1, <3>1, Zenon
  <2> QED BY <1>8, <1>13, <2>1, <2>2, <2>3, <2>4
<1> HIDE DEF a3
<1>15. /\ a4 \in Seq(Cell) /\ Len(a4) = 7
       /\ a4[1] = key[1] /\ Slice(a4, 0, 1) = p1 /\ Slice(a4, 1, U32) = p2
       /\ a4[6] = KindByte(key[3]) /\ a4[7] = key[4]
  <2>1. /\ a4 \in Seq(Cell) /\ Len(a4) = Len(a3) + Len(p4)
        /\ \A i \in 1..Len(a3) : a4[i] = a3[i]
        /\ \A from, w \in Nat : from + w <= Len(a3) => Slice(a4, from, w) = Slice(a3, from, w)
        /\ a4[Len(a3) + 1] = p4[1]
    <3>1. Joins(a4, a3, p4)
      BY <1>9, <1>14, Parts
    <3> HIDE DEF a4
    <3> QED BY <1>9, <1>14, <3>1 DEF Joins
  <2>2. a4[1] = a3[1] /\ a4[6] = a3[6]
    <3>1. 1 \in 1..Len(a3) /\ 6 \in 1..Len(a3)
      BY <1>14
    <3> QED BY <2>1, <3>1, Zenon
  <2>3. Slice(a4, 0, 1) = Slice(a3, 0, 1)
    <3>1. 0 \in Nat /\ 1 \in Nat /\ 0 + 1 <= Len(a3)
      BY <1>14
    <3> QED BY <2>1, <3>1, Zenon
  <2>4. Slice(a4, 1, U32) = Slice(a3, 1, U32)
    <3>1. 1 \in Nat /\ U32 \in Nat /\ 1 + U32 <= Len(a3)
      BY <1>14, Widths
    <3> QED BY <2>1, <3>1, Zenon
  <2> QED BY <1>9, <1>14, <2>1, <2>2, <2>3, <2>4
<1> HIDE DEF a4
<1>16. /\ a5 \in Seq(Cell)
       /\ a5[1] = key[1] /\ Slice(a5, 0, 1) = p1 /\ Slice(a5, 1, U32) = p2
       /\ a5[6] = KindByte(key[3]) /\ a5[7] = key[4] /\ Slice(a5, 7, U32) = p5
  <2>1. /\ a5 \in Seq(Cell)
        /\ \A i \in 1..Len(a4) : a5[i] = a4[i]
        /\ \A from, w \in Nat : from + w <= Len(a4) => Slice(a5, from, w) = Slice(a4, from, w)
        /\ Slice(a5, Len(a4), Len(p5)) = p5
    <3>1. Joins(a5, a4, p5)
      BY <1>10, <1>15, Parts
    <3> HIDE DEF a5
    <3> QED BY <1>10, <1>15, <3>1 DEF Joins
  <2>2. a5[1] = a4[1] /\ a5[6] = a4[6] /\ a5[7] = a4[7]
    <3>1. 1 \in 1..Len(a4) /\ 6 \in 1..Len(a4) /\ 7 \in 1..Len(a4)
      BY <1>15
    <3> QED BY <2>1, <3>1, Zenon
  <2>3. Slice(a5, 0, 1) = Slice(a4, 0, 1)
    <3>1. 0 \in Nat /\ 1 \in Nat /\ 0 + 1 <= Len(a4)
      BY <1>15
    <3> QED BY <2>1, <3>1, Zenon
  <2>4. Slice(a5, 1, U32) = Slice(a4, 1, U32)
    <3>1. 1 \in Nat /\ U32 \in Nat /\ 1 + U32 <= Len(a4)
      BY <1>15, Widths
    <3> QED BY <2>1, <3>1, Zenon
  <2> QED BY <1>10, <1>15, <2>1, <2>2, <2>3, <2>4
<1> HIDE DEF a5
<1>17. Hash = 1 /\ Hash + U32 + 1 = 6 /\ Hash + U32 + 2 = 7 /\ Hash + U32 + 1 + Hash = 7
  BY Widths
<1>18. ParseHistoryKey(a5) = Entry(key)
  BY <1>7, <1>10, <1>16, <1>17 DEF ParseHistoryKey, Entry
<1> QED BY <1>11, <1>16, <1>17, <1>18 DEF p1

(* Two history keys that are read back as the same entry are the same.     *)
LEMMA EntryInjective ==
  ASSUME NEW key \in HistoryKey, NEW other \in HistoryKey, Entry(key) = Entry(other)
  PROVE  key = other
<1>1. /\ key = <<key[1], key[2], key[3], key[4], key[5]>>
      /\ other = <<other[1], other[2], other[3], other[4], other[5]>>
      /\ key[3] \in HistoryKind /\ other[3] \in HistoryKind
      /\ key[5] \in Nat /\ other[5] \in Nat
  BY DEF HistoryKey
<1>2. /\ key[1] = other[1] /\ key[2] = other[2] /\ KindByte(key[3]) = KindByte(other[3])
      /\ key[4] = other[4] /\ key[5] - 1 = other[5] - 1
  BY DEF Entry
<1>3. key[3] = other[3]
  BY <1>1, <1>2, KindBytes
<1>4. key[5] = other[5]
  BY <1>1, <1>2
<1> QED BY <1>1, <1>2, <1>3, <1>4

-----------------------------------------------------------------------------
(* The journal.                                                            *)

(* The numbers of an undo record fit the widths of its fields.             *)
ActFits(a) ==
  /\ a.seq < Limit[U32]
  /\ a.kind = "History" => a.of[5] <= Limit[U32]
  /\ a.kind \in {"Output", "Spend"} => a.of[2] <= Limit[U32]

(* Height and sequence number are read back from a journal key.            *)
LEMMA JournalKeyDecodes ==
  ASSUME NEW h \in Height, NEW n \in Nat, n < Limit[U32]
  PROVE  /\ FromBeBytes(Slice(JournalKey(h, n), 0, U32)) = h
         /\ FromBeBytes(Slice(JournalKey(h, n), U32, U32)) = n
<1> DEFINE p1 == ToBeBytes(h, U32)
           p2 == ToBeBytes(n, U32)
           a2 == p1 \o p2
<1>1. h \in Nat /\ h < Limit[U32]
  BY HeightAssumption, StoreCodecAssumption
<1>2. p1 \in Seq(Cell) /\ Len(p1) = U32 /\ FromBeBytes(p1) = h
  BY <1>1, Widths, BytesOf
<1>3. p2 \in Seq(Cell) /\ Len(p2) = U32 /\ FromBeBytes(p2) = n
  BY Widths, BytesOf
<1>4. JournalKey(h, n) = a2
  BY DEF JournalKey
<1>5. Slice(p1, 0, U32) = p1
  BY <1>2, SliceAll
<1> HIDE DEF p1, p2
<1>6. Joins(a2, p1, p2)
  BY <1>2, <1>3, Parts
<1> HIDE DEF a2
<1>7. Slice(a2, U32, U32) = p2
  BY <1>2, <1>3, <1>6 DEF Joins
<1>8. Slice(a2, 0, U32) = Slice(p1, 0, U32)
  <2>1. \A from, w \in Nat : from + w <= Len(p1) => Slice(a2, from, w) = Slice(p1, from, w)
    BY <1>6 DEF Joins
  <2>2. 0 \in Nat /\ U32 \in Nat /\ 0 + U32 <= Len(p1)
    BY <1>2, Widths
  <2> QED BY <2>1, <2>2, Zenon
<1> QED BY <1>2, <1>3, <1>4, <1>5, <1>7, <1>8

JournalKinds == {"Tx", "History", "Output", "Spend"}

(* The kind of an undo record is read back from the first byte.            *)
LEMMA KindDecodes ==
  ASSUME NEW kind \in JournalKinds
  PROVE  LET i == CHOOSE i \in 1..4 : JournalActionKind[i] = kind
         IN i \in 1..4 /\ JournalActionKind[i] = kind
<1>1. \E i \in 1..4 : JournalActionKind[i] = kind
  <2>1. /\ JournalActionKind[1] = "Tx" /\ JournalActionKind[2] = "History"
        /\ JournalActionKind[3] = "Output" /\ JournalActionKind[4] = "Spend"
    BY DEF JournalActionKind
  <2>2. 1 \in 1..4 /\ 2 \in 1..4 /\ 3 \in 1..4 /\ 4 \in 1..4
    OBVIOUS
  <2> QED BY <2>1, <2>2 DEF JournalKinds
<1> QED BY <1>1

(* The record that a restart is to find for an undo record.                *)
ReadBack(a) == [a EXCEPT !.of = IF a.kind = "History" THEN HistoryKeyBytes(@) ELSE @]

OfRead(a) == IF a.kind = "History" THEN HistoryKeyBytes(a.of) ELSE a.of

(* The fields of an undo record.                                           *)
LEMMA JournalActFields ==
  ASSUME NEW a \in JournalAct
  PROVE  /\ a.height \in Height
         /\ a.seq \in Nat
         /\ a.kind \in JournalKinds
         /\ a = [height |-> a.height, seq |-> a.seq, kind |-> a.kind, of |-> a.of]
         /\ ReadBack(a) =
              [height |-> a.height, seq |-> a.seq, kind |-> a.kind, of |-> OfRead(a)]
         /\ a.kind = "Tx" => \E t \in Txid : a.of = <<t>>
         /\ a.kind = "History" => a.of \in HistoryKey
         /\ a.kind \in {"Output", "Spend"} => a.of \in OutPoint
<1>1. CASE a \in [height : Height, seq : Nat, kind : {"Tx"}, of : {<<t>> : t \in Txid}]
  BY <1>1 DEF JournalKinds, ReadBack, OfRead
<1>2. CASE a \in [height : Height, seq : Nat, kind : {"History"}, of : HistoryKey]
  BY <1>2 DEF JournalKinds, ReadBack, OfRead
<1>3. CASE a \in [height : Height, seq : Nat, kind : {"Output", "Spend"}, of : OutPoint]
  BY <1>3 DEF JournalKinds, ReadBack, OfRead
<1> QED BY <1>1, <1>2, <1>3 DEF JournalAct

(* What the payload of an undo record is read back as.                     *)
LEMMA PayloadDecodes ==
  ASSUME NEW a \in JournalAct, ActFits(a)
  PROVE  /\ Payload(a) \in Seq(Cell)
         /\ a.kind = "Tx" => <<ParseTxid(Payload(a))>> = a.of
         /\ a.kind = "History" => Payload(a) = HistoryKeyBytes(a.of)
         /\ a.kind \in {"Output", "Spend"} => ParseOutpoint(Payload(a)) = a.of
<1>1. CASE a.kind = "Tx"
  <2>1. PICK t \in Txid : a.of = <<t>>
    BY <1>1, JournalActFields
  <2>2. Payload(a) = <<t>>
    BY <1>1, <2>1 DEF Payload
  <2>3. <<t>> \in Seq(Cell) /\ <<t>>[1] = t
    BY OneCell DEF Cell
  <2> QED BY <1>1, <2>1, <2>2, <2>3 DEF ParseTxid
<1>2. CASE a.kind = "History"
  <2>1. a.of \in HistoryKey /\ a.of[5] <= Limit[U32]
    BY <1>2, JournalActFields DEF ActFits
  <2>2. Payload(a) = HistoryKeyBytes(a.of)
    BY <1>2 DEF Payload
  <2>3. HistoryKeyBytes(a.of) \in Seq(Cell)
    BY <2>1, HistoryKeyDecodes
  <2> QED BY <1>2, <2>2, <2>3
<1>3. CASE a.kind \in {"Output", "Spend"}
  <2>1. a.of \in OutPoint /\ a.of[2] <= Limit[U32]
    BY <1>3, JournalActFields DEF ActFits
  <2>2. Payload(a) = OutpointBytes(a.of)
    BY <1>3 DEF Payload
  <2>3. OutpointBytes(a.of) \in Seq(Cell) /\ ParseOutpoint(OutpointBytes(a.of)) = a.of
    BY <2>1, OutpointDecodes
  <2> QED BY <1>3, <2>2, <2>3
<1> QED BY <1>1, <1>2, <1>3, JournalActFields DEF JournalKinds

(* A restart makes of the bytes of an undo record the record itself.       *)
LEMMA JournalDecodes ==
  ASSUME NEW a \in JournalAct, ActFits(a)
  PROVE  BlockAction(ParseJournalAction(JournalKey(a.height, a.seq), JournalValue(a))) =
           ReadBack(a)
<1> DEFINE i == CHOOSE i \in 1..4 : JournalActionKind[i] = a.kind
           first == <<i - 1>>
           rest == Payload(a)
           key == JournalKey(a.height, a.seq)
           act == ParseJournalAction(key, JournalValue(a))
<1>1. a.height \in Height /\ a.seq \in Nat /\ a.seq < Limit[U32] /\ a.kind \in JournalKinds
  BY JournalActFields DEF ActFits
<1>2. i \in 1..4 /\ JournalActionKind[i] = a.kind
  BY <1>1, KindDecodes
<1>3. JournalValue(a) = first \o rest
  BY DEF JournalValue
<1> HIDE DEF i
<1>4. i - 1 \in Cell /\ (i - 1) + 1 = i
  BY <1>2 DEF Cell
<1>5. rest \in Seq(Cell)
  BY PayloadDecodes
<1>6. FromBeBytes(Slice(key, 0, U32)) = a.height /\ FromBeBytes(Slice(key, U32, U32)) = a.seq
  BY <1>1, JournalKeyDecodes
<1> HIDE DEF rest, key
<1>7. Tail(first \o rest) = rest
  BY <1>4, <1>5, TailOfConcat
<1>8. (first \o rest)[1] = i - 1
  <2>1. first \in Seq(Cell) /\ Len(first) = 1 /\ first[1] = i - 1
    BY <1>4, OneCell
  <2>2. 1 \in 1..Len(first)
    BY <2>1
  <2> HIDE DEF first
  <2>3. (first \o rest)[1] = first[1]
    BY <1>5, <2>1, <2>2, ConcatFront
  <2> QED BY <2>1, <2>3
<1>9. act = [journal_key |-> key, height |-> a.height, sequence |-> a.seq, kind |-> a.kind,
             payload |-> rest]
  BY <1>2, <1>3, <1>4, <1>6, <1>7, <1>8 DEF ParseJournalAction
<1> HIDE DEF act
<1>10. /\ act.journal_key = key /\ act.height = a.height /\ act.kind = a.kind
       /\ act.payload = rest
  BY <1>9
<1>11. ActionSequence(act) = a.seq
  BY <1>6, <1>10 DEF ActionSequence
<1>12. BlockAction(act) = [height |-> a.height, seq |-> a.seq, kind |-> a.kind, of |-> OfRead(a)]
  <2>1. CASE a.kind = "Tx"
    <3>1. <<ParseTxid(rest)>> = OfRead(a)
      BY <2>1, PayloadDecodes DEF rest, OfRead
    <3> QED BY <1>10, <1>11, <2>1, <3>1 DEF BlockAction
  <2>2. CASE a.kind = "History"
    <3>1. rest = OfRead(a)
      BY <2>2, PayloadDecodes DEF rest, OfRead
    <3> QED BY <1>10, <1>11, <2>2, <3>1 DEF BlockAction
  <2>3. CASE a.kind \in {"Output", "Spend"}
    <3>1. ParseOutpoint(rest) = OfRead(a)
      BY <2>3, PayloadDecodes DEF rest, OfRead
    <3> QED BY <1>10, <1>11, <2>3, <3>1 DEF BlockAction
  <2> QED BY <1>1, <2>1, <2>2, <2>3 DEF JournalKinds
<1> QED BY <1>12, JournalActFields DEF act, key

-----------------------------------------------------------------------------
(* Scans for a script.                                                     *)

Unspent(o) == [txid |-> o[1], vout |-> o[2], value |-> ValueOf(o), height |-> dbOutputs[o]]

UtxoRow(o) == <<UtxoKey(ScriptOf(o), o), ToBeBytes(ValueOf(o), U64)>>

(* What list_unspent_for_script makes of a row of "utxos".                 *)
ReadUnspent(item) ==
  LET o == <<item[1][2], FromBeBytes(Slice(item[1], 2 * Hash, U32)) + 1>>
  IN {[txid |-> o[1], vout |-> o[2], value |-> FromBeBytes(item[2]),
       height |-> stored.height] : stored \in LoadOutput(o)}

(* load_output finds the one output that is stored, with its height.       *)
LEMMA LoadOutputExact ==
  ASSUME StoreTypeOK, NEW o \in DOMAIN dbOutputs
  PROVE  LoadOutput(o) =
           {[script_hash |-> ScriptOf(o), txid |-> o[1], vout |-> o[2],
             value |-> ValueOf(o), height |-> dbOutputs[o]]}
<1> DEFINE row(x) == <<OutpointKey(x), EncodeOutput(x, dbOutputs[x])>>
           rows == {i \in OutputsTree : i[1] = OutpointKey(o)}
<1>1. DOMAIN dbOutputs \subseteq RealOutPoint /\ dbOutputs[o] \in Height
  BY DEF StoreTypeOK
<1>2. OutputsTree = {row(x) : x \in DOMAIN dbOutputs}
  BY DEF OutputsTree
<1>3. \A x : row(x)[1] = OutpointKey(x) /\ row(x)[2] = EncodeOutput(x, dbOutputs[x])
  OBVIOUS
<1>4. \A x \in DOMAIN dbOutputs : OutpointKey(x) = OutpointKey(o) => x = o
  BY <1>1, OutpointKeyInjective
<1> HIDE DEF row
<1>5. rows = {row(o)}
  BY <1>2, <1>3, <1>4
<1>6. LoadOutput(o) = {DecodeOutput(o, item[2]) : item \in rows}
  BY DEF LoadOutput
<1> HIDE DEF rows
<1>7. LoadOutput(o) = {DecodeOutput(o, row(o)[2])}
  BY <1>5, <1>6
<1> QED BY <1>1, <1>3, <1>7, OutputDecodes

(* A row of "utxos" becomes the unspent output it was written for.         *)
LEMMA ReadUnspentExact ==
  ASSUME StoreTypeOK, UtxoHasOutput, NEW o \in dbUtxos
  PROVE  ReadUnspent(UtxoRow(o)) = {Unspent(o)}
<1> DEFINE key == UtxoKey(ScriptOf(o), o)
           row == UtxoRow(o)
           n == FromBeBytes(Slice(row[1], 2 * Hash, U32)) + 1
           x == <<row[1][2], n>>
           stored == [script_hash |-> ScriptOf(o), txid |-> o[1], vout |-> o[2],
                      value |-> ValueOf(o), height |-> dbOutputs[o]]
<1>1. o \in DOMAIN dbOutputs /\ o \in RealOutPoint
  BY DEF UtxoHasOutput, StoreTypeOK
<1>2. row[1] = key /\ row[2] = ToBeBytes(ValueOf(o), U64)
  BY DEF UtxoRow
<1>3. ScriptOf(o) \in ScriptHash
  BY <1>1, ScriptOfType
<1>4. key[2] = o[1] /\ FromBeBytes(Slice(key, 2 * Hash, U32)) + 1 = o[2]
  BY <1>1, <1>3, UtxoKeyDecodes
<1>5. o = <<o[1], o[2]>> /\ FromBeBytes(ToBeBytes(ValueOf(o), U64)) = ValueOf(o)
  BY <1>1, RealOutPointFits, Widths, BytesOf
<1>6. LoadOutput(o) = {stored}
  BY <1>1, LoadOutputExact
<1>7. FromBeBytes(row[2]) = ValueOf(o)
  BY <1>2, <1>5
<1>8. x = o
  BY <1>2, <1>4, <1>5
<1>9. ReadUnspent(row) = {[txid |-> x[1], vout |-> x[2], value |-> FromBeBytes(row[2]),
                           height |-> s.height] : s \in LoadOutput(x)}
  BY DEF ReadUnspent
<1>10. stored.height = dbOutputs[o]
  OBVIOUS
<1> HIDE DEF x, row, stored
<1>11. ReadUnspent(row) = {[txid |-> o[1], vout |-> o[2], value |-> ValueOf(o),
                            height |-> stored.height]}
  BY <1>6, <1>7, <1>8, <1>9
<1> QED BY <1>10, <1>11 DEF Unspent, row

(* A prefix of one cell selects the rows whose first cell it is.           *)
LEMMA SameCell ==
  ASSUME NEW a, NEW b
  PROVE  <<a>> = <<b>> <=> a = b
OBVIOUS

(* The unspent outputs that a scan finds.                                  *)
LEMMA UnspentScan ==
  ASSUME StoreTypeOK, UtxoHasOutput, NEW sh \in ScriptHash
  PROVE  ListUnspentForScript(sh) =
           {Unspent(o) : o \in {x \in dbUtxos : ScriptOf(x) = sh}}
<1> DEFINE paid == {x \in dbUtxos : ScriptOf(x) = sh}
           found == ScanPrefix(UtxosTree, sh)
<1>1. UtxosTree = {UtxoRow(o) : o \in dbUtxos}
  BY DEF UtxosTree, UtxoRow
<1>2. ASSUME NEW o \in dbUtxos
      PROVE  Slice(UtxoRow(o)[1], 0, Hash) = <<sh>> <=> ScriptOf(o) = sh
  <2>1. o \in RealOutPoint
    BY DEF UtxoHasOutput, StoreTypeOK
  <2>2. ScriptOf(o) \in ScriptHash
    BY <2>1, ScriptOfType
  <2>3. Slice(UtxoRow(o)[1], 0, Hash) = <<ScriptOf(o)>>
    BY <2>1, <2>2, UtxoKeyDecodes DEF UtxoRow
  <2> QED BY <2>3, SameCell
<1>3. found = {UtxoRow(o) : o \in paid}
  BY <1>1, <1>2 DEF ScanPrefix
<1>4. ListUnspentForScript(sh) = UNION {ReadUnspent(item) : item \in found}
  BY DEF ListUnspentForScript, ReadUnspent
<1> HIDE DEF found
<1>5. \A o \in paid : ReadUnspent(UtxoRow(o)) = {Unspent(o)}
  BY ReadUnspentExact
<1>6. ASSUME NEW x
      PROVE  x \in ListUnspentForScript(sh) <=> \E o \in paid : x = Unspent(o)
  <2>1. x \in ListUnspentForScript(sh) <=> \E item \in found : x \in ReadUnspent(item)
    BY <1>4
  <2>2. (\E item \in found : x \in ReadUnspent(item))
          <=> (\E o \in paid : x \in ReadUnspent(UtxoRow(o)))
    BY <1>3
  <2> HIDE DEF paid
  <2> QED BY <1>5, <2>1, <2>2
<1> QED BY <1>6

(* The history that a scan finds.                                          *)
LEMMA HistoryScan ==
  ASSUME StoreTypeOK, \A key \in dbHistory : key[5] <= Limit[U32], NEW sh \in ScriptHash
  PROVE  LoadHistoryForScript(sh) = {Entry(key) : key \in {x \in dbHistory : x[1] = sh}}
<1> DEFINE row(key) == <<HistoryKeyBytes(key), <<>>>>
           own == {x \in dbHistory : x[1] = sh}
<1>1. HistoryTree = {row(key) : key \in dbHistory}
  BY DEF HistoryTree
<1>2. \A key : row(key)[1] = HistoryKeyBytes(key)
  OBVIOUS
<1>3. ASSUME NEW key \in dbHistory
      PROVE  /\ Slice(HistoryKeyBytes(key), 0, Hash) = <<sh>> <=> key[1] = sh
             /\ ParseHistoryKey(HistoryKeyBytes(key)) = Entry(key)
  <2>1. key \in HistoryKey /\ key[5] <= Limit[U32]
    BY DEF StoreTypeOK
  <2>2. Slice(HistoryKeyBytes(key), 0, Hash) = <<key[1]>>
        /\ ParseHistoryKey(HistoryKeyBytes(key)) = Entry(key)
    BY <2>1, HistoryKeyDecodes
  <2> QED BY <2>2, SameCell
<1> HIDE DEF row
<1>4. ScanPrefix(HistoryTree, sh) = {row(key) : key \in own}
  BY <1>1, <1>2, <1>3 DEF ScanPrefix
<1>5. LoadHistoryForScript(sh) = {ParseHistoryKey(row(key)[1]) : key \in own}
  BY <1>4 DEF LoadHistoryForScript
<1> QED BY <1>2, <1>3, <1>5

LEMMA ScansExact ==
  ASSUME IInv, \A key \in dbHistory : key[5] <= Limit[U32]
  PROVE  ScriptScanExact
<1>1. StoreTypeOK /\ UtxoHasOutput
  BY DEF IInv, TypeOK
<1>2. ASSUME NEW sh \in ScriptHash
      PROVE  /\ ListUnspentForScript(sh) =
                 {[txid |-> o[1], vout |-> o[2], value |-> ValueOf(o), height |-> dbOutputs[o]]
                    : o \in {x \in dbUtxos : ScriptOf(x) = sh}}
             /\ LoadHistoryForScript(sh) =
                 {[script_hash |-> sh, height |-> key[2], kind |-> KindByte(key[3]),
                   txid |-> key[4], sequence |-> key[5] - 1]
                    : key \in {x \in dbHistory : x[1] = sh}}
  <2>1. ListUnspentForScript(sh) = {Unspent(o) : o \in {x \in dbUtxos : ScriptOf(x) = sh}}
    BY <1>1, UnspentScan
  <2>2. LoadHistoryForScript(sh) = {Entry(key) : key \in {x \in dbHistory : x[1] = sh}}
    BY <1>1, HistoryScan
  <2>3. \A key \in {x \in dbHistory : x[1] = sh} :
          Entry(key) = [script_hash |-> sh, height |-> key[2], kind |-> KindByte(key[3]),
                        txid |-> key[4], sequence |-> key[5] - 1]
    BY DEF Entry
  <2> QED BY <2>1, <2>2, <2>3 DEF Unspent
<1> QED BY <1>2 DEF ScriptScanExact

-----------------------------------------------------------------------------
(* What a restart reads back.                                              *)

(* As many values as elements, when no two elements have the same value.   *)
LEMMA InjectiveImage ==
  ASSUME NEW S, IsFiniteSet(S), NEW f, \A x, y \in S : f[x] = f[y] => x = y
  PROVE  Cardinality({f[x] : x \in S}) = Cardinality(S)
<1> DEFINE T == {f[x] : x \in S}
           g == [x \in S |-> f[x]]
<1>1. g \in Injection(S, T)
  BY DEF Injection, IsInjective
<1>2. g \in Surjection(S, T)
  BY DEF Surjection
<1>3. ExistsBijection(S, T)
  BY <1>1, <1>2 DEF ExistsBijection, Bijection
<1> HIDE DEF T
<1>4. Cardinality(T) = Cardinality(S)
  BY <1>3, FS_Bijection
<1> QED BY <1>4 DEF T

(* No two records under one key.                                           *)
OneRecordPerKey(journal) == \A a, b \in journal : SameKey(a, b) => a = b

(* A journal and a history that the trees can hold.                        *)
JournalFits(journal) ==
  /\ IsFiniteSet(journal)
  /\ OneRecordPerKey(journal)
  /\ \A a \in journal : ActFits(a)

HistoryFits(keys) ==
  /\ IsFiniteSet(keys)
  /\ \A key \in keys : key[5] <= Limit[U32]

(* The journal has one key for each record.                                *)
LEMMA JournalKeys ==
  ASSUME dbJournal \subseteq JournalAct, JournalFits(dbJournal)
  PROVE  Cardinality({item[1] : item \in JournalTree}) = Cardinality(dbJournal)
<1> DEFINE f == [a \in dbJournal |-> JournalKey(a.height, a.seq)]
           keys == {f[a] : a \in dbJournal}
<1>1. {item[1] : item \in JournalTree} = keys
  <2> DEFINE row(a) == <<JournalKey(a.height, a.seq), JournalValue(a)>>
  <2>1. JournalTree = {row(a) : a \in dbJournal}
    BY DEF JournalTree
  <2>2. \A a \in dbJournal : row(a)[1] = f[a]
    OBVIOUS
  <2> HIDE DEF row, f
  <2> QED BY <2>1, <2>2
<1>2. ASSUME NEW a \in dbJournal, NEW b \in dbJournal, f[a] = f[b] PROVE a = b
  <2>1. /\ a.height \in Height /\ a.seq \in Nat /\ a.seq < Limit[U32]
        /\ b.height \in Height /\ b.seq \in Nat /\ b.seq < Limit[U32]
    BY JournalActFields DEF JournalFits, ActFits
  <2>2. JournalKey(a.height, a.seq) = JournalKey(b.height, b.seq)
    BY <1>2
  <2>3. a.height = b.height /\ a.seq = b.seq
    BY <2>1, <2>2, JournalKeyDecodes
  <2> QED BY <2>3 DEF JournalFits, OneRecordPerKey, SameKey
<1>3. IsFiniteSet(dbJournal)
  BY DEF JournalFits
<1> HIDE DEF f
<1>4. Cardinality({f[a] : a \in dbJournal}) = Cardinality(dbJournal)
  BY <1>2, <1>3, InjectiveImage
<1> QED BY <1>1, <1>4

(* A restart finds the undo records.                                       *)
LEMMA JournalReadBack ==
  ASSUME dbJournal \subseteq JournalAct, JournalFits(dbJournal)
  PROVE  {BlockAction(action) : action \in LoadJournalActions} =
           {ReadBack(a) : a \in dbJournal}
<1> DEFINE row(a) == <<JournalKey(a.height, a.seq), JournalValue(a)>>
           act(a) == ParseJournalAction(JournalKey(a.height, a.seq), JournalValue(a))
<1>1. JournalTree = {row(a) : a \in dbJournal}
  BY DEF JournalTree
<1>2. \A a : row(a)[1] = JournalKey(a.height, a.seq) /\ row(a)[2] = JournalValue(a)
  OBVIOUS
<1>3. \A a \in dbJournal : BlockAction(act(a)) = ReadBack(a)
  BY JournalDecodes DEF JournalFits
<1>4. LoadJournalActions = {act(a) : a \in dbJournal}
  <2>1. LoadJournalActions = {ParseJournalAction(row(a)[1], row(a)[2]) : a \in dbJournal}
    BY <1>1 DEF LoadJournalActions
  <2> HIDE DEF row
  <2> QED BY <1>2, <2>1
<1> HIDE DEF act
<1> QED BY <1>3, <1>4

(* A restart finds one history entry for each one stored.                  *)
LEMMA HistoryReadBack ==
  ASSUME dbHistory \subseteq HistoryKey, HistoryFits(dbHistory)
  PROVE  Cardinality(LoadHistoryEntries) = Cardinality(dbHistory)
<1> DEFINE f == [key \in dbHistory |-> Entry(key)]
           row(key) == <<HistoryKeyBytes(key), <<>>>>
<1>1. HistoryTree = {row(key) : key \in dbHistory}
  BY DEF HistoryTree
<1>2. \A key \in dbHistory : ParseHistoryKey(row(key)[1]) = f[key]
  BY HistoryKeyDecodes DEF HistoryFits
<1>3. \A a, b \in dbHistory : f[a] = f[b] => a = b
  BY EntryInjective
<1> HIDE DEF f, row
<1>4. LoadHistoryEntries = {f[key] : key \in dbHistory}
  BY <1>1, <1>2 DEF LoadHistoryEntries
<1>5. IsFiniteSet(dbHistory)
  BY DEF HistoryFits
<1> QED BY <1>3, <1>4, <1>5, InjectiveImage

LEMMA ReadsBack ==
  ASSUME IInv, JournalFits(dbJournal), HistoryFits(dbHistory), dbTip < Limit[U32]
  PROVE  RestartReadsBack
<1>1. dbJournal \subseteq JournalAct /\ dbHistory \subseteq HistoryKey /\ dbTip \in Nat
  BY DEF IInv, TypeOK, StoreTypeOK
<1>2. TipHeight(SetTipHeight(dbTip)) = dbTip
  BY <1>1, Widths, BytesOf DEF TipHeight, SetTipHeight
<1>3. Cardinality({item[1] : item \in JournalTree}) = Cardinality(dbJournal)
  BY <1>1, JournalKeys
<1>4. {BlockAction(action) : action \in LoadJournalActions} = {ReadBack(a) : a \in dbJournal}
  BY <1>1, JournalReadBack
<1>5. Cardinality(LoadHistoryEntries) = Cardinality(dbHistory)
  BY <1>1, HistoryReadBack
<1> QED BY <1>2, <1>3, <1>4, <1>5 DEF RestartReadsBack, ReadBack

-----------------------------------------------------------------------------
(* Sequence numbers.  That they fit takes an account of the records made   *)
(* so far, from the position of apply_block in its block.                  *)

Size(t) == Len(Inputs[t]) + Len(Outputs[t])

LEMMA SizeType ==
  ASSUME NEW t \in Txid
  PROVE  Size(t) \in Nat /\ Len(Inputs[t]) \in Nat /\ Len(Outputs[t]) \in Nat
BY TransactionsAssumption DEF Size

(* The bound on the records of the first transactions of a block.          *)
LEMMA RecordsUnfold ==
  ASSUME NEW txs \in Seq(Txid)
  PROVE  /\ Records(txs) \in [0..Len(txs) -> Nat]
         /\ Records(txs)[0] = 0
         /\ \A i \in 1..Len(txs) : Records(txs)[i] = Records(txs)[i - 1] + 1 + 2 * Size(txs[i])
<1> DEFINE n == Len(txs)
           Body(f) == [i \in 0..n |-> IF i = 0 THEN 0 ELSE f[i - 1] + 1 + 2 * Size(txs[i])]
           step == [p \in Nat \X (1..n) |-> p[1] + 1 + 2 * Size(txs[p[2]])]
           r == Records(txs)
<1>1. n \in Nat /\ \A i \in 1..n : txs[i] \in Txid
  OBVIOUS
<1>2. r = CHOOSE g : g = Body(g)
  BY DEF Records, Size
<1> HIDE DEF n, r
<1>3. \A i \in 1..n : Size(txs[i]) \in Nat
  BY <1>1, SizeType
<1>4. \A d \in Nat : \A i \in 1..n : d + 1 + 2 * Size(txs[i]) \in Nat
  BY <1>3
<1>5. step \in [Nat \X (1..n) -> Nat]
  BY <1>4
<1>6. PICK f : Follows(f, n, Nat, 0, step)
  <2> HIDE DEF step
  <2> QED BY <1>1, <1>5, RecursionExists
<1>7. f \in [0..n -> Nat] /\ f[0] = 0 /\ \A i \in 1..n : f[i] = step[<<f[i - 1], i>>]
  <2> HIDE DEF step
  <2> QED BY <1>6 DEF Follows
<1>8. ASSUME NEW i \in 1..n PROVE f[i] = f[i - 1] + 1 + 2 * Size(txs[i])
  <2>1. i - 1 \in 0..n /\ f[i - 1] \in Nat
    BY <1>1, <1>7
  <2>2. step[<<f[i - 1], i>>] = f[i - 1] + 1 + 2 * Size(txs[i])
    BY <2>1
  <2> QED BY <1>7, <2>2
<1>9. f = Body(f)
  BY <1>7, <1>8
<1>10. r = Body(r)
  <2> HIDE DEF Body
  <2> QED BY <1>2, <1>9
<1>11. r[0] = 0 /\ \A i \in 1..n : r[i] = r[i - 1] + 1 + 2 * Size(txs[i])
  BY <1>1, <1>10
<1>12. \A i \in 1..n : r[i - 1] \in Nat => r[i] \in Nat
  BY <1>4, <1>11
<1>13. \A i \in 0..n : r[i] \in Nat
  <2>1. r[0] \in Nat
    BY <1>11
  <2> HIDE DEF Body
  <2> QED BY <1>1, <1>12, <2>1, StaysIn
<1>14. r \in [0..n -> Nat]
  BY <1>10, <1>13
<1> QED BY <1>11, <1>14 DEF r, n

(* No block needs more sequence numbers than there are.                    *)
LEMMA RecordsFit ==
  ASSUME NEW b \in Block, NEW i \in 0..Len(TxData[b])
  PROVE  Records(TxData[b])[i] <= Limit[U32]
<1> DEFINE txs == TxData[b]
           n == Len(txs)
           r == Records(txs)
           S == {k \in 0..n : r[n - k] <= Limit[U32]}
<1>1. txs \in Seq(Txid)
  BY TransactionsAssumption
<1>2. n \in Nat /\ \A k \in 1..n : txs[k] \in Txid
  BY <1>1
<1>3. r \in [0..n -> Nat] /\ \A k \in 1..n : r[k] = r[k - 1] + 1 + 2 * Size(txs[k])
  BY <1>1, RecordsUnfold
<1>4. r[n] <= Limit[U32]
  BY StoreCodecAssumption
<1>5. Limit[U32] \in Nat
  BY Widths, LimitUnfolds
<1>6. i \in 0..n
  OBVIOUS
<1> HIDE DEF r, n, txs
<1>7. 0 \in S
  BY <1>2, <1>4
<1>8. ASSUME NEW k \in 0..(n - 1), k \in S PROVE k + 1 \in S
  <2>1. n - k \in 1..n /\ (n - k) - 1 = n - (k + 1) /\ k + 1 \in 0..n /\ n - (k + 1) \in 0..n
    BY <1>2
  <2>2. r[n - k] = r[n - (k + 1)] + 1 + 2 * Size(txs[n - k])
    BY <1>3, <2>1
  <2>3. Size(txs[n - k]) \in Nat /\ r[n - (k + 1)] \in Nat /\ r[n - k] <= Limit[U32]
    BY <1>2, <1>3, <1>8, <2>1, SizeType
  <2>4. r[n - (k + 1)] <= Limit[U32]
    BY <1>5, <2>2, <2>3
  <2> QED BY <2>1, <2>4
<1> HIDE DEF S
<1>9. \A k \in 0..n : k \in S
  BY <1>2, <1>7, <1>8, NumbersUpTo
<1>10. n - i \in 0..n /\ n - (n - i) = i
  BY <1>2, <1>6
<1>11. r[i] <= Limit[U32]
  BY <1>9, <1>10 DEF S
<1> QED BY <1>11 DEF r, txs

(* At most so many records are made in the first steps within one          *)
(* transaction.                                                            *)
AtMost(pos) == IF pos = 0 THEN 0 ELSE 1 + 2 * (pos - 1)

(* Job j has done the first i transactions of block b, and pos steps of    *)
(* the next one.                                                           *)
InBlock(j, b, i) ==
  /\ i \in 0..Len(TxData[b])
  /\ j.txs = SubSeq(TxData[b], i + 1, Len(TxData[b]))
  /\ i < Len(TxData[b]) => j.pos <= Size(TxData[b][i + 1])
  /\ j.seq <= Records(TxData[b])[i] + AtMost(j.pos)

JobInBlock == job.op = "apply" => \E b \in Block, i \in Nat : InBlock(job, b, i)

(* The rest of a sequence.                                                 *)
LEMMA RestOf ==
  ASSUME NEW T, NEW s \in Seq(T), NEW i \in 0..Len(s), SubSeq(s, i + 1, Len(s)) # <<>>
  PROVE  /\ i < Len(s)
         /\ Head(SubSeq(s, i + 1, Len(s))) = s[i + 1]
         /\ Tail(SubSeq(s, i + 1, Len(s))) = SubSeq(s, (i + 1) + 1, Len(s))
OBVIOUS

(* Where apply_block is.                                                   *)
LEMMA Where ==
  ASSUME TypeOK, Applying, NEW b \in Block, NEW i \in Nat, InBlock(job, b, i)
  PROVE  /\ i \in 0..Len(TxData[b]) /\ i < Len(TxData[b]) /\ Len(TxData[b]) \in Nat
         /\ i + 1 \in 0..Len(TxData[b])
         /\ Current = TxData[b][i + 1]
         /\ Tail(job.txs) = SubSeq(TxData[b], (i + 1) + 1, Len(TxData[b]))
         /\ job.pos <= Size(Current)
         /\ Records(TxData[b])[i] \in Nat
         /\ Records(TxData[b])[i + 1] = Records(TxData[b])[i] + 1 + 2 * Size(Current)
         /\ Records(TxData[b])[i + 1] <= Limit[U32]
         /\ job.seq <= Records(TxData[b])[i] + AtMost(job.pos)
<1> DEFINE s == TxData[b]
           n == Len(s)
           r == Records(s)
<1>1. s \in Seq(Txid)
  BY TransactionsAssumption
<1>2. i \in 0..n /\ n \in Nat
  BY <1>1 DEF InBlock
<1>3. job.txs = SubSeq(s, i + 1, n) /\ job.txs # <<>>
  BY DEF InBlock, Applying
<1> HIDE DEF s
<1>4. i < n /\ Head(job.txs) = s[i + 1] /\ Tail(job.txs) = SubSeq(s, (i + 1) + 1, n)
  BY <1>1, <1>2, <1>3, RestOf
<1>5. i + 1 \in 0..n /\ i + 1 \in 1..n /\ (i + 1) - 1 = i
  BY <1>2, <1>4
<1>6. Current = s[i + 1]
  BY <1>4 DEF Current
<1>7. r[i] \in Nat /\ r[i + 1] = r[i] + 1 + 2 * Size(Current)
  BY <1>1, <1>2, <1>5, <1>6, RecordsUnfold
<1>8. r[i + 1] <= Limit[U32]
  BY <1>5, RecordsFit DEF s
<1>9. job.pos <= Size(Current) /\ job.seq <= r[i] + AtMost(job.pos)
  BY <1>4, <1>6 DEF InBlock, s
<1> QED BY <1>2, <1>4, <1>5, <1>6, <1>7, <1>8, <1>9 DEF s

(* The next records of a block have sequence numbers that fit.             *)
LEMMA RoomForRecords ==
  ASSUME TypeOK, Applying, JobInBlock
  PROVE  /\ job.pos \in Nat /\ job.seq \in Nat
         /\ job.seq < Limit[U32]
         /\ job.pos # 0 => job.seq + 1 < Limit[U32]
<1>1. PICK b \in Block, i \in Nat : InBlock(job, b, i)
  BY DEF JobInBlock, Applying
<1> DEFINE r == Records(TxData[b])[i]
           q == Records(TxData[b])[i + 1]
           l == Size(Current)
           p == job.pos
           s == job.seq
           m == Limit[U32]
<1>2. r \in Nat /\ q = r + 1 + 2 * l /\ q <= m /\ p <= l /\ s <= r + AtMost(p)
  BY <1>1, Where
<1>3. l \in Nat /\ p \in Nat /\ s \in Nat /\ m \in Nat
  BY CurrentType, SizeType, Widths, LimitUnfolds
<1> HIDE DEF r, q, l, p, s, m
<1>4. s < m /\ (p # 0 => s + 1 < m)
  BY <1>2, <1>3 DEF AtMost
<1> QED BY <1>3, <1>4 DEF p, s, m

(* Moving the cursor keeps the account: one record for the transaction     *)
(* itself, at most two for an input or an output.                          *)
LEMMA AdvanceInBlock ==
  ASSUME TypeOK, Applying, JobInBlock, NEW m \in 0..2, job.pos = 0 => m <= 1
  PROVE  \E b \in Block, i \in Nat : InBlock(Advance(m), b, i)
<1>1. PICK b \in Block, i \in Nat : InBlock(job, b, i)
  BY DEF JobInBlock, Applying
<1> DEFINE n == Len(TxData[b])
           r == Records(TxData[b])[i]
           q == Records(TxData[b])[i + 1]
           l == Size(Current)
           p == job.pos
           s == job.seq
           on == [job EXCEPT !.pos = @ + 1, !.seq = @ + m]
           over == [job EXCEPT !.pos = 0, !.seq = @ + m, !.txs = Tail(@)]
<1>2. r \in Nat /\ q = r + 1 + 2 * l /\ p <= l /\ s <= r + AtMost(p)
  BY <1>1, Where
<1>3. l \in Nat /\ p \in Nat /\ s \in Nat
  BY CurrentType, SizeType
<1>4. job \in JobType
  BY DEF TypeOK
<1>5. on.pos = p + 1 /\ on.seq = s + m /\ on.txs = job.txs
  BY <1>4 DEF JobType
<1>6. over.pos = 0 /\ over.seq = s + m /\ over.txs = Tail(job.txs)
  BY <1>4 DEF JobType
<1>7. Advance(m) = IF p < l THEN on ELSE over
  BY DEF Advance, Size
<1>8. i \in 0..n /\ i < n /\ i + 1 \in 0..n /\ n \in Nat /\ l = Size(TxData[b][i + 1])
  BY <1>1, Where
<1>9. CASE p < l
  <2>1. p + 1 <= l /\ s + m <= r + AtMost(p + 1)
    <3> HIDE DEF p, l, s, r
    <3> QED BY <1>2, <1>3, <1>9 DEF AtMost, p
  <2>2. job.txs = SubSeq(TxData[b], i + 1, n)
    BY <1>1 DEF InBlock
  <2>3. Advance(m) = on
    BY <1>7, <1>9
  <2> HIDE DEF on, p, s, l
  <2>4. InBlock(on, b, i)
    BY <1>5, <1>8, <2>1, <2>2 DEF InBlock
  <2> QED BY <2>3, <2>4
<1>10. CASE ~(p < l)
  <2>1. s + m <= q + AtMost(0)
    <3> HIDE DEF p, l, s, r, q
    <3> QED BY <1>2, <1>3, <1>10 DEF AtMost, p
  <2>2. Tail(job.txs) = SubSeq(TxData[b], (i + 1) + 1, n)
    BY <1>1, Where
  <2>3. Advance(m) = over
    BY <1>7, <1>10
  <2>4. i + 1 < n => 0 <= Size(TxData[b][(i + 1) + 1])
    <3>1. ASSUME i + 1 < n PROVE TxData[b][(i + 1) + 1] \in Txid
      BY <1>8, <3>1, TransactionsAssumption
    <3> QED BY <3>1, SizeType
  <2> HIDE DEF over, s, q
  <2>5. InBlock(over, b, i + 1)
    BY <1>6, <1>8, <2>1, <2>2, <2>4 DEF InBlock, q
  <2>6. i + 1 \in Nat
    OBVIOUS
  <2> QED BY <2>3, <2>5, <2>6
<1> QED BY <1>9, <1>10

-----------------------------------------------------------------------------
(* What the store holds always fits: the invariant behind a restart.       *)
SInv ==
  /\ JournalFits(dbJournal)
  /\ HistoryFits(dbHistory)
  /\ dbTip < Limit[U32]
  /\ JobInBlock

LEMMA DropActFits ==
  ASSUME NEW J, JournalFits(J), NEW a
  PROVE  JournalFits(DropAct(J, a))
<1>1. DropAct(J, a) \subseteq J
  BY DEF DropAct
<1>2. IsFiniteSet(DropAct(J, a))
  BY <1>1, FS_Subset DEF JournalFits
<1> QED BY <1>1, <1>2 DEF JournalFits, OneRecordPerKey

LEMMA PutActFits ==
  ASSUME NEW J, JournalFits(J), NEW a, ActFits(a)
  PROVE  JournalFits(PutAct(J, a))
<1> DEFINE K == DropAct(J, a)
<1>1. JournalFits(K)
  BY DropActFits
<1>2. IsFiniteSet(K \cup {a})
  BY <1>1, FS_AddElement DEF JournalFits
<1>3. \A b \in K : ~SameKey(a, b) /\ ~SameKey(b, a)
  BY DEF DropAct, SameKey
<1>4. PutAct(J, a) = K \cup {a}
  BY DEF PutAct
<1> HIDE DEF K
<1>5. OneRecordPerKey(K \cup {a})
  BY <1>1, <1>3 DEF JournalFits, OneRecordPerKey
<1> QED BY <1>1, <1>2, <1>4, <1>5 DEF JournalFits

LEMMA HistoryPutFits ==
  ASSUME NEW keys, HistoryFits(keys), NEW key, key[5] <= Limit[U32]
  PROVE  HistoryFits(keys \cup {key})
BY FS_AddElement DEF HistoryFits

LEMMA HistoryDropFits ==
  ASSUME NEW keys, HistoryFits(keys), NEW rest, rest \subseteq keys
  PROVE  HistoryFits(rest)
BY FS_Subset DEF HistoryFits

(* A record of the block in hand fits.                                     *)
LEMMA ActOfBlockFits ==
  ASSUME TypeOK, Applying, NEW i \in Nat, job.seq + i < Limit[U32]
  PROVE  /\ \A t : ActFits(Act(i, "Tx", <<t>>))
         /\ \A key : key[5] <= Limit[U32] => ActFits(Act(i, "History", key))
         /\ \A o : o[2] <= Limit[U32] => /\ ActFits(Act(i, "Output", o))
                                         /\ ActFits(Act(i, "Spend", o))
BY DEF ActFits, Act

(* A job that applies no block has no account to keep.                     *)
LEMMA OtherJob ==
  ASSUME job'.op # "apply"
  PROVE  JobInBlock'
BY DEF JobInBlock

LEMMA IdleJob ==
  ASSUME job' = Idle
  PROVE  JobInBlock'
BY OtherJob DEF Idle

(* The account after an iteration of apply_block.                          *)
LEMMA NextJob ==
  ASSUME TypeOK, Applying, JobInBlock, NEW m \in 0..2, job.pos = 0 => m <= 1,
         job' = Advance(m) \/ job' = Idle
  PROVE  JobInBlock'
<1>1. CASE job' = Advance(m)
  <2>1. \E b \in Block, i \in Nat : InBlock(Advance(m), b, i)
    BY AdvanceInBlock
  <2> QED BY <1>1, <2>1 DEF JobInBlock, InBlock
<1>2. CASE job' = Idle
  BY <1>2, IdleJob
<1> QED BY <1>1, <1>2

(* A step that leaves the journal, the history and the tip on disk as they *)
(* are and applies no block.                                               *)
LEMMA StoreUntouched ==
  ASSUME SInv, UNCHANGED <<dbJournal, dbHistory, dbTip>>, job'.op # "apply" \/ job' = job
  PROVE  SInv'
<1>1. JobInBlock'
  <2>1. CASE job' = job
    BY <2>1 DEF SInv, JobInBlock, InBlock
  <2> QED BY <2>1, OtherJob
<1>2. JournalFits(dbJournal)' /\ HistoryFits(dbHistory)' /\ (dbTip < Limit[U32])'
  BY DEF SInv, JournalFits, OneRecordPerKey, ActFits, SameKey, HistoryFits
<1> QED BY <1>1, <1>2 DEF SInv

(* The head of apply_block's loop.                                         *)
LEMMA IndexTxSInv ==
  ASSUME IInv, SInv, NEW forgotten \in BOOLEAN, NEW k \in 0..2, IndexTx(forgotten, k)
  PROVE  SInv'
<1> DEFINE act == Act(0, "Tx", <<Current>>)
<1>1. TypeOK /\ Applying /\ job.pos = 0 /\ JobInBlock
  BY DEF IInv, SInv, IndexTx
<1>2. job.seq < Limit[U32] /\ job.seq \in Nat
  BY <1>1, RoomForRecords
<1>3. ActFits(act)
  <2>1. job.seq + 0 < Limit[U32] /\ 0 \in Nat
    BY <1>2
  <2> QED BY <1>1, <2>1, ActOfBlockFits
<1>4. /\ dbJournal' = Wrote(k, 2, PutAct(dbJournal, act), dbJournal)
      /\ job' = IF k = 2 THEN Advance(1) ELSE Idle
      /\ UNCHANGED <<dbHistory, dbTip>>
  BY DEF IndexTx
<1> HIDE DEF act
<1>5. JournalFits(dbJournal')
  BY <1>3, <1>4, PutActFits DEF SInv, Wrote
<1>6. JobInBlock'
  <2>1. job' = Advance(1) \/ job' = Idle
    BY <1>4
  <2> QED BY <1>1, <2>1, NextJob
<1> QED BY <1>4, <1>5, <1>6 DEF SInv

(* A skipped input.                                                        *)
LEMMA SkipInputSInv ==
  ASSUME IInv, SInv, NEW k \in 0..1, SkipInput(k)
  PROVE  SInv'
<1>1. TypeOK /\ Applying /\ JobInBlock
  BY DEF IInv, SInv, SkipInput
<1>2. (job' = Advance(0) \/ job' = Idle) /\ UNCHANGED <<dbJournal, dbHistory, dbTip>>
  BY DEF SkipInput, dbVars
<1>3. JobInBlock'
  BY <1>1, <1>2, NextJob
<1>4. JournalFits(dbJournal') /\ HistoryFits(dbHistory') /\ dbTip' < Limit[U32]
  BY <1>2 DEF SInv
<1> QED BY <1>3, <1>4 DEF SInv

(* Two records of one iteration, of which the store may have taken none,   *)
(* the first or both.                                                      *)
LEMMA TwoRecords ==
  ASSUME SInv, NEW a, ActFits(a), NEW b, ActFits(b),
         \/ dbJournal' = dbJournal
         \/ dbJournal' = PutAct(dbJournal, a)
         \/ dbJournal' = PutAct(PutAct(dbJournal, a), b)
  PROVE  JournalFits(dbJournal')
<1>1. JournalFits(dbJournal)
  BY DEF SInv
<1>2. JournalFits(PutAct(dbJournal, a))
  BY <1>1, PutActFits
<1>3. JournalFits(PutAct(PutAct(dbJournal, a), b))
  BY <1>2, PutActFits
<1> QED BY <1>1, <1>2, <1>3

(* An input that spends a stored output.                                   *)
LEMMA IndexInputSInv ==
  ASSUME IInv, SInv, NEW k \in 0..5, IndexInput(k)
  PROVE  SInv'
<1> DEFINE o == Inputs[Current][InputAt]
           key == <<ScriptOf(o), job.height, "Spend", Current, InputAt>>
           listed == Act(0, "History", key)
           spent == Act(1, "Spend", o)
<1>1. TypeOK /\ Applying /\ JobInBlock /\ InputAt \in DOMAIN Inputs[Current]
  BY DEF IInv, SInv, IndexInput
<1>2. Current \in Txid
  BY <1>1, CurrentType
<1>3. Limit[U32] \in Nat
  BY Widths, LimitUnfolds
<1>4. InputAt \in Nat \ {0} /\ InputAt <= Len(Inputs[Current]) /\ Len(Inputs[Current]) \in Nat
  <2>1. Inputs[Current] \in Seq(OutPoint \cup {NullOutPoint})
    BY <1>2, TransactionsAssumption
  <2>2. \A T, s : s \in Seq(T) => Len(s) \in Nat /\ DOMAIN s = 1..Len(s)
    OBVIOUS
  <2>3. Len(Inputs[Current]) \in Nat /\ DOMAIN Inputs[Current] = 1..Len(Inputs[Current])
    BY <2>1, <2>2, Zenon
  <2> QED BY <1>1, <2>3
<1>5. Len(Inputs[Current]) <= Limit[U32]
  BY <1>2, StoreCodecAssumption
<1>6. InputAt <= Limit[U32]
  BY <1>3, <1>4, <1>5
<1>7. key[5] <= Limit[U32]
  BY <1>6
<1>8. o[2] <= Limit[U32]
  <2>1. o \in DOMAIN dbOutputs
    BY DEF IndexInput, HasOutput
  <2>2. o \in RealOutPoint
    BY <1>1, <2>1 DEF TypeOK, StoreTypeOK
  <2> HIDE DEF o
  <2> QED BY <2>2, RealOutPointFits
<1>9. /\ dbHistory' = Wrote(k, 2, dbHistory \cup {key}, dbHistory)
      /\ dbJournal' = Wrote(k, 4, PutAct(PutAct(dbJournal, listed), spent),
                        Wrote(k, 3, PutAct(dbJournal, listed), dbJournal))
      /\ job' = IF k = 5 THEN Advance(2) ELSE Idle
      /\ UNCHANGED dbTip
  BY DEF IndexInput
<1>10. job.pos # 0 /\ job.seq + 0 < Limit[U32] /\ job.seq + 1 < Limit[U32]
  <2>1. job.pos # 0
    BY <1>4 DEF InputAt
  <2>2. job.seq \in Nat /\ job.seq < Limit[U32] /\ job.seq + 1 < Limit[U32]
    BY <1>1, <2>1, RoomForRecords
  <2> QED BY <2>1, <2>2
<1> HIDE DEF o, key
<1>11. ActFits(listed) /\ ActFits(spent)
  <2>1. ActFits(listed)
    BY <1>1, <1>7, <1>10, ActOfBlockFits
  <2>2. ActFits(spent)
    BY <1>1, <1>8, <1>10, ActOfBlockFits
  <2> QED BY <2>1, <2>2
<1> HIDE DEF listed, spent
<1>12. JournalFits(dbJournal')
  <2>1. \/ dbJournal' = dbJournal
        \/ dbJournal' = PutAct(dbJournal, listed)
        \/ dbJournal' = PutAct(PutAct(dbJournal, listed), spent)
    BY <1>9 DEF Wrote
  <2> QED BY <1>11, <2>1, TwoRecords
<1>13. HistoryFits(dbHistory')
  BY <1>7, <1>9, HistoryPutFits DEF SInv, Wrote
<1>14. JobInBlock'
  <2>1. job' = Advance(2) \/ job' = Idle
    BY <1>9
  <2> QED BY <1>1, <1>10, <2>1, NextJob
<1> QED BY <1>9, <1>12, <1>13, <1>14 DEF SInv

(* An output.                                                              *)
LEMMA IndexOutputSInv ==
  ASSUME IInv, SInv, NEW k \in 0..5, IndexOutput(k)
  PROVE  SInv'
<1> DEFINE o == <<Current, OutputAt>>
           key == <<ScriptOf(o), job.height, "Fund", Current, OutputAt>>
           listed == Act(0, "History", key)
           stored == Act(1, "Output", o)
<1>1. TypeOK /\ Applying /\ JobInBlock /\ OutputAt \in DOMAIN Outputs[Current]
  BY DEF IInv, SInv, IndexOutput
<1>2. Current \in Txid /\ job.pos \in Nat
  BY <1>1, CurrentType
<1>3. o \in RealOutPoint /\ OutputAt \in Nat \ {0}
  BY <1>1, <1>2, OutputType
<1>4. o[2] <= Limit[U32] /\ o[2] = OutputAt
  <2>1. o[2] <= Limit[U32]
    <3> HIDE DEF o
    <3> QED BY <1>3, RealOutPointFits
  <2> QED BY <2>1
<1>5. key[5] <= Limit[U32]
  BY <1>4
<1>6. /\ dbHistory' = Wrote(k, 1, dbHistory \cup {key}, dbHistory)
      /\ dbJournal' = Wrote(k, 5, PutAct(PutAct(dbJournal, listed), stored),
                        Wrote(k, 2, PutAct(dbJournal, listed), dbJournal))
      /\ job' = IF k = 5 THEN Advance(2) ELSE Idle
      /\ UNCHANGED dbTip
  BY DEF IndexOutput
<1>7. job.pos # 0 /\ job.seq + 0 < Limit[U32] /\ job.seq + 1 < Limit[U32]
  <2>1. Len(Inputs[Current]) \in Nat
    BY <1>2, SizeType
  <2>2. job.pos # 0
    BY <1>2, <1>3, <2>1 DEF OutputAt
  <2>3. job.seq \in Nat /\ job.seq < Limit[U32] /\ job.seq + 1 < Limit[U32]
    BY <1>1, <2>2, RoomForRecords
  <2> QED BY <2>2, <2>3
<1> HIDE DEF o, key
<1>8. ActFits(listed) /\ ActFits(stored)
  <2>1. ActFits(listed)
    BY <1>1, <1>5, <1>7, ActOfBlockFits
  <2>2. ActFits(stored)
    BY <1>1, <1>4, <1>7, ActOfBlockFits
  <2> QED BY <2>1, <2>2
<1> HIDE DEF listed, stored
<1>9. JournalFits(dbJournal')
  <2>1. \/ dbJournal' = dbJournal
        \/ dbJournal' = PutAct(dbJournal, listed)
        \/ dbJournal' = PutAct(PutAct(dbJournal, listed), stored)
    BY <1>6 DEF Wrote
  <2> QED BY <1>8, <2>1, TwoRecords
<1>10. HistoryFits(dbHistory')
  BY <1>5, <1>6, HistoryPutFits DEF SInv, Wrote
<1>11. JobInBlock'
  <2>1. job' = Advance(2) \/ job' = Idle
    BY <1>6
  <2> QED BY <1>1, <1>7, <2>1, NextJob
<1> QED BY <1>6, <1>9, <1>10, <1>11 DEF SInv

(* The tip after a block.                                                  *)
LEMMA FinishBlockSInv ==
  ASSUME IInv, SInv, NEW k \in 0..1, FinishBlock(k)
  PROVE  SInv'
<1>1. job.height \in Height
  BY DEF IInv, TypeOK, FinishBlock
<1>2. job.height < Limit[U32]
  BY <1>1, StoreCodecAssumption
<1>3. dbTip' < Limit[U32]
  BY <1>2 DEF FinishBlock, SInv, Wrote
<1>4. job' = Idle /\ UNCHANGED <<dbJournal, dbHistory>>
  BY DEF FinishBlock
<1> QED BY <1>3, <1>4, IdleJob DEF SInv

(* Lowering the tip.                                                       *)
LEMMA LowerTipFits ==
  ASSUME SInv, NEW h \in Height, NEW k \in 0..1, LowerTip(h, k)
  PROVE  dbTip' < Limit[U32]
<1>1. h \in Nat /\ h < Limit[U32] /\ Limit[U32] \in Nat \ {0}
  BY HeightAssumption, StoreCodecAssumption, Widths, LimitUnfolds
<1>2. TipBelow(h) < Limit[U32]
  BY <1>1 DEF TipBelow
<1> QED BY <1>2 DEF LowerTip, SInv, Wrote

(* What the undo steps share.                                              *)
LEMMA UndoSInv ==
  ASSUME IInv, SInv, NEW e, NEW kind, NEW k, NEW calls, Undo(e, kind, k, calls),
         dbHistory' \subseteq dbHistory
  PROVE  SInv'
<1>1. JournalFits(dbJournal')
  BY DropActFits DEF Undo, SInv, Wrote
<1>2. HistoryFits(dbHistory')
  BY HistoryDropFits DEF SInv
<1>3. job'.op # "apply"
  <2>1. job \in JobType /\ job.op = "rollback"
    BY DEF IInv, TypeOK, Undo
  <2>2. [job EXCEPT !.undo = @ \ {e}].op = "rollback"
    BY <2>1 DEF JobType
  <2> QED BY <2>2 DEF Undo, Idle
<1>4. JobInBlock'
  BY <1>3, OtherJob
<1> QED BY <1>1, <1>2, <1>4 DEF SInv, Undo

(* Every step keeps what is stored within its widths.                      *)
LEMMA NextSInv == IInv /\ SInv /\ [Next]_vars => SInv'
<1> SUFFICES ASSUME IInv, SInv, [Next]_vars PROVE SInv'
  OBVIOUS
<1>1. ASSUME ApplyStep PROVE SInv'
  BY <1>1, IndexTxSInv, SkipInputSInv, IndexInputSInv, IndexOutputSInv, FinishBlockSInv
     DEF ApplyStep
<1>2. ASSUME RollbackStep PROVE SInv'
  <2>1. ASSUME NEW e, NEW k, UndoTx(e, k) PROVE SInv'
    BY <2>1, UndoSInv DEF UndoTx
  <2>2. ASSUME NEW e, NEW k, UndoHistory(e, k) PROVE SInv'
    BY <2>2, UndoSInv DEF UndoHistory, Wrote
  <2>3. ASSUME NEW e, NEW k, UndoOutput(e, k) PROVE SInv'
    BY <2>3, UndoSInv DEF UndoOutput
  <2>4. ASSUME NEW e, NEW k, UndoSpend(e, k) PROVE SInv'
    BY <2>4, UndoSInv DEF UndoSpend
  <2>5. ASSUME NEW k \in 0..1, FinishRollback(k) PROVE SInv'
    <3>1. job.height \in Height
      BY <2>5 DEF IInv, TypeOK, FinishRollback
    <3>2. dbTip' < Limit[U32]
      BY <2>5, <3>1, LowerTipFits DEF FinishRollback
    <3>3. job' = Idle /\ UNCHANGED <<dbJournal, dbHistory>>
      BY <2>5 DEF FinishRollback
    <3> QED BY <3>2, <3>3, IdleJob DEF SInv
  <2> QED BY <1>2, <2>1, <2>2, <2>3, <2>4, <2>5 DEF RollbackStep
<1>3. ASSUME PendingStep PROVE SInv'
  <2>1. UNCHANGED <<dbJournal, dbHistory, dbTip, job>>
    BY <1>3 DEF PendingStep, TransactionBroadcast, TxStatusChange, Restore, Track, Forget,
                ForgetChain
  <2> QED BY <2>1, StoreUntouched
<1>4. ASSUME BlockEvent PROVE SInv'
  <2>1. ASSUME NEW b \in Block, NEW h \in Height, Connected(b, h) PROVE SInv'
    <3>1. PICK p \in Pass : job' = [Idle EXCEPT !.op = "apply", !.height = h, !.pass = p,
                                                !.txs = TxData[b]]
      BY <2>1 DEF Connected
    <3>2. job'.txs = TxData[b] /\ job'.pos = 0 /\ job'.seq = 0
      BY <3>1 DEF Idle
    <3>3. UNCHANGED <<dbJournal, dbHistory, dbTip>>
      BY <2>1 DEF Connected, dbVars
    <3>4. TxData[b] \in Seq(Txid)
      BY TransactionsAssumption
    <3> DEFINE s == TxData[b]
    <3>5. s = SubSeq(s, 0 + 1, Len(s)) /\ Len(s) \in Nat /\ (0 < Len(s) => s[0 + 1] \in Txid)
      BY <3>4
    <3>6. Records(s)[0] = 0
      BY <3>4, RecordsUnfold
    <3>7. 0 < Len(s) => 0 <= Size(s[0 + 1])
      BY <3>5, SizeType
    <3> HIDE DEF s
    <3>8. InBlock(job', b, 0)
      BY <3>2, <3>5, <3>6, <3>7 DEF InBlock, AtMost, s
    <3>9. JobInBlock'
      BY <3>8 DEF JobInBlock, InBlock
    <3> QED BY <3>3, <3>9 DEF SInv
  <2>2. ASSUME NEW h \in Height, Disconnected(h) PROVE SInv'
    <3>1. job'.op = "rollback" /\ UNCHANGED <<dbJournal, dbHistory, dbTip>>
      BY <2>2 DEF Disconnected, Idle, dbVars
    <3> QED BY <3>1, StoreUntouched
  <2>3. ASSUME NEW h \in Height, NEW k \in 0..1, DisconnectedUnknown(h, k) PROVE SInv'
    <3>1. dbTip' < Limit[U32]
      BY <2>3, LowerTipFits DEF DisconnectedUnknown
    <3>2. job.op = "idle" /\ UNCHANGED <<job, dbJournal, dbHistory>>
      BY <2>3 DEF DisconnectedUnknown
    <3>3. JobInBlock'
      BY <3>2, OtherJob
    <3> QED BY <3>1, <3>2, <3>3 DEF SInv
  <2> QED BY <1>4, <2>1, <2>2, <2>3 DEF BlockEvent
<1>5. ASSUME Reopen PROVE SInv'
  <2>1. job' = Idle /\ UNCHANGED <<dbJournal, dbHistory, dbTip>>
    BY <1>5 DEF Reopen, dbVars
  <2> QED BY <2>1, StoreUntouched DEF Idle
<1>6. ASSUME UNCHANGED vars PROVE SInv'
  <2>1. UNCHANGED <<job, dbJournal, dbHistory, dbTip>>
    BY <1>6 DEF vars, dbVars
  <2> QED BY <2>1, StoreUntouched
<1> QED BY <1>1, <1>2, <1>3, <1>4, <1>5, <1>6 DEF Next

LEMMA InitSInv == Init => SInv
<1> SUFFICES ASSUME Init PROVE SInv
  OBVIOUS
<1>1. dbJournal = {} /\ dbHistory = {} /\ dbTip = 0 /\ job.op = "idle"
  BY DEF Init, OpenEmpty, Idle
<1>2. Limit[U32] \in Nat \ {0}
  BY Widths, LimitUnfolds
<1>3. JournalFits(dbJournal) /\ HistoryFits(dbHistory)
  BY <1>1, FS_EmptySet DEF JournalFits, OneRecordPerKey, HistoryFits
<1> QED BY <1>1, <1>2, <1>3 DEF SInv, JobInBlock

-----------------------------------------------------------------------------
(* The pending list.                                                       *)

(* encode_txid_list gives one cell for each txid.                          *)
LEMMA EncodedList ==
  ASSUME NEW list \in Seq(Txid)
  PROVE  EncodeTxidList(list) = list
<1> DEFINE n == Len(list)
           D == Seq(Txid)
           Longer(s, i) == s \o <<list[i]>>
           Body(f) == [i \in 0..n |-> IF i = 0 THEN <<>> ELSE Longer(f[i - 1], i)]
           step == [p \in D \X (1..n) |-> Longer(p[1], p[2])]
           out == CHOOSE g : g = Body(g)
           S == {i \in 0..n : out[i] = SubSeq(list, 1, i)}
<1>1. n \in Nat /\ \A i \in 1..n : list[i] \in Txid
  OBVIOUS
<1>2. EncodeTxidList(list) = out[n]
  BY DEF EncodeTxidList
<1>3. ASSUME NEW i \in 0..(n - 1)
      PROVE  Longer(SubSeq(list, 1, i), i + 1) = SubSeq(list, 1, i + 1)
  OBVIOUS
<1>4. SubSeq(list, 1, 0) = <<>> /\ SubSeq(list, 1, n) = list
  OBVIOUS
<1> HIDE DEF n
<1>5. step \in [D \X (1..n) -> D] /\ <<>> \in D
  <2>1. \A s \in D : \A i \in 1..n : Longer(s, i) \in D
    BY <1>1
  <2> HIDE DEF Longer
  <2> QED BY <2>1
<1>6. PICK f : Follows(f, n, D, <<>>, step)
  <2> HIDE DEF step, D
  <2> QED BY <1>1, <1>5, RecursionExists
<1>7. f \in [0..n -> D] /\ f[0] = <<>> /\ \A i \in 1..n : f[i] = step[<<f[i - 1], i>>]
  <2> HIDE DEF step, D
  <2> QED BY <1>6 DEF Follows
<1> HIDE DEF Longer, D
<1>8. ASSUME NEW i \in 1..n PROVE f[i] = Longer(f[i - 1], i)
  <2>1. i - 1 \in 0..n
    BY <1>1
  <2>2. f[i - 1] \in D
    BY <1>7, <2>1
  <2>3. step[<<f[i - 1], i>>] = Longer(f[i - 1], i)
    BY <2>2
  <2> QED BY <1>7, <2>3
<1>9. f = Body(f)
  BY <1>7, <1>8
<1>10. out = Body(out)
  <2> HIDE DEF Body
  <2> QED BY <1>9
<1> HIDE DEF out
<1>11. out[0] = <<>> /\ \A i \in 1..n : out[i] = Longer(out[i - 1], i)
  BY <1>1, <1>10
<1>12. 0 \in S
  <2>1. 0 \in 0..n
    BY <1>1
  <2>2. out[0] = SubSeq(list, 1, 0)
    BY <1>4, <1>11, Zenon
  <2> QED BY <2>1, <2>2
<1>13. ASSUME NEW i \in 0..(n - 1), i \in S PROVE i + 1 \in S
  <2>1. i + 1 \in 1..n /\ i + 1 \in 0..n /\ (i + 1) - 1 = i
    BY <1>1
  <2>2. out[i + 1] = Longer(out[i], i + 1)
    BY <1>11, <2>1
  <2>3. out[i] = SubSeq(list, 1, i)
    BY <1>13
  <2>4. out[i + 1] = SubSeq(list, 1, i + 1)
    BY <1>3, <2>2, <2>3
  <2> QED BY <2>1, <2>4
<1> HIDE DEF S
<1>14. \A i \in 0..n : i \in S
  BY <1>1, <1>12, <1>13, NumbersUpTo
<1>15. n \in 0..n /\ n \in S
  BY <1>1, <1>14
<1> QED BY <1>2, <1>4, <1>15 DEF S

(* decode_txid_list reads one txid from each cell.                         *)
LEMMA DecodedList ==
  ASSUME NEW list \in Seq(Txid)
  PROVE  DecodeTxidList(list) = list
<1>1. Len(list) \in Nat /\ list = [i \in 1..Len(list) |-> list[i]]
  OBVIOUS
<1>2. \A n \in Nat : n \div 1 = n
  OBVIOUS
<1>3. Len(list) \div Hash = Len(list)
  BY <1>1, <1>2 DEF Hash
<1> QED BY <1>1, <1>3 DEF DecodeTxidList

(* A list of txids without duplicates.                                     *)
DistinctList(list) == list \in Seq(Txid) /\ IsInjective(list)

LEMMA Pushed ==
  ASSUME NEW list, DistinctList(list), NEW t \in Txid, t \notin Range(list)
  PROVE  /\ DistinctList(Append(list, t))
         /\ Range(Append(list, t)) = Range(list) \cup {t}
<1> DEFINE n == Len(list)
           new == Append(list, t)
<1>1. /\ list \in Seq(Txid) /\ n \in Nat /\ DOMAIN list = 1..n
      /\ \A i, j \in 1..n : list[i] = list[j] => i = j
  BY DEF DistinctList, IsInjective
<1>2. \A i \in 1..n : list[i] # t
  BY <1>1 DEF Range
<1>3. /\ new \in Seq(Txid) /\ DOMAIN new = 1..(n + 1)
      /\ (\A i \in 1..n : new[i] = list[i]) /\ new[n + 1] = t
  BY <1>1
<1> HIDE DEF new, n
<1>4. \A i \in 1..(n + 1) : i \in 1..n \/ i = n + 1
  BY <1>1
<1>5. ASSUME NEW i \in 1..(n + 1), NEW j \in 1..(n + 1), new[i] = new[j] PROVE i = j
  BY <1>1, <1>2, <1>3, <1>4, <1>5, Zenon
<1>6. IsInjective(new)
  BY <1>3, <1>5 DEF IsInjective
<1>7. Range(new) = Range(list) \cup {t}
  <2>1. Range(new) = {new[i] : i \in 1..(n + 1)} /\ Range(list) = {list[i] : i \in 1..n}
    BY <1>1, <1>3 DEF Range
  <2>2. \A i \in 1..n : i \in 1..(n + 1)
    BY <1>1
  <2>3. n + 1 \in 1..(n + 1)
    BY <1>1
  <2> QED BY <1>3, <1>4, <2>1, <2>2, <2>3
<1> QED BY <1>3, <1>6, <1>7 DEF DistinctList, new

(* retain keeps all other txids, each once.                                *)
LEMMA Retained ==
  ASSUME NEW list, DistinctList(list), NEW t \in Txid
  PROVE  /\ DistinctList(Retain(list, t))
         /\ Range(Retain(list, t)) = Range(list) \ {t}
<1> DEFINE n == Len(list)
           D == Seq(Txid)
           Longer(s, i) == IF list[i] # t THEN Append(s, list[i]) ELSE s
           Body(f) == [i \in 0..n |-> IF i = 0 THEN <<>> ELSE Longer(f[i - 1], i)]
           step == [p \in D \X (1..n) |-> Longer(p[1], p[2])]
           kept == CHOOSE g : g = Body(g)
           First(i) == {list[j] : j \in 1..i}
           S == {i \in 0..n : DistinctList(kept[i]) /\ Range(kept[i]) = First(i) \ {t}}
<1>1. /\ n \in Nat /\ DOMAIN list = 1..n
      /\ (\A i \in 1..n : list[i] \in Txid)
      /\ \A i, j \in 1..n : list[i] = list[j] => i = j
  BY DEF DistinctList, IsInjective
<1>2. Retain(list, t) = kept[n]
  BY DEF Retain
<1> HIDE DEF n
<1>3. \A s \in D : \A i \in 1..n : Longer(s, i) \in D
  BY <1>1
<1>4. step \in [D \X (1..n) -> D] /\ <<>> \in D
  <2> HIDE DEF Longer
  <2> QED BY <1>3
<1>5. PICK f : Follows(f, n, D, <<>>, step)
  <2> HIDE DEF step, D
  <2> QED BY <1>1, <1>4, RecursionExists
<1>6. f \in [0..n -> D] /\ f[0] = <<>> /\ \A i \in 1..n : f[i] = step[<<f[i - 1], i>>]
  <2> HIDE DEF step, D
  <2> QED BY <1>5 DEF Follows
<1> HIDE DEF Longer
<1>7. ASSUME NEW i \in 1..n PROVE f[i] = Longer(f[i - 1], i)
  <2>1. i - 1 \in 0..n
    BY <1>1
  <2> HIDE DEF D
  <2>2. f[i - 1] \in D
    <3> HIDE DEF step
    <3> QED BY <1>6, <2>1
  <2>3. step[<<f[i - 1], i>>] = Longer(f[i - 1], i)
    BY <2>2
  <2> QED BY <1>6, <2>3
<1>8. f = Body(f)
  <2> HIDE DEF D
  <2> QED BY <1>6, <1>7
<1>9. kept = Body(kept)
  <2> HIDE DEF Body
  <2> QED BY <1>8
<1> HIDE DEF kept
<1>10. kept[0] = <<>> /\ \A i \in 1..n : kept[i] = Longer(kept[i - 1], i)
  BY <1>1, <1>9
<1>11. 0 \in S
  <2>1. DistinctList(<<>>) /\ Range(<<>>) = {}
    BY DEF DistinctList, IsInjective, Range
  <2>2. First(0) = {}
    OBVIOUS
  <2> QED BY <1>1, <1>10, <2>1, <2>2
<1>12. ASSUME NEW i \in 0..(n - 1), i \in S PROVE i + 1 \in S
  <2> DEFINE x == list[i + 1]
             s == kept[i]
  <2>1. i \in Nat /\ i + 1 \in 1..n /\ i + 1 \in 0..n /\ (i + 1) - 1 = i
    BY <1>1
  <2>2. kept[i + 1] = Longer(s, i + 1)
    BY <1>10, <2>1
  <2>3. kept[i + 1] = IF x # t THEN Append(s, x) ELSE s
    BY <2>2 DEF Longer
  <2>4. DistinctList(s) /\ Range(s) = First(i) \ {t}
    BY <1>12
  <2>5. x \in Txid
    BY <1>1, <2>1
  <2>6. First(i + 1) = First(i) \cup {x}
    <3>1. \A j \in 1..(i + 1) : j \in 1..i \/ j = i + 1
      BY <2>1
    <3>2. \A j \in 1..i : j \in 1..(i + 1)
      BY <2>1
    <3>3. i + 1 \in 1..(i + 1)
      BY <2>1
    <3> QED BY <3>1, <3>2, <3>3
  <2>7. x \notin First(i)
    <3>1. \A j \in 1..i : j \in 1..n /\ j # i + 1
      BY <1>1, <2>1
    <3> QED BY <1>1, <2>1, <3>1
  <2> HIDE DEF x, s, First
  <2>8. DistinctList(kept[i + 1]) /\ Range(kept[i + 1]) = First(i + 1) \ {t}
    <3>1. CASE x # t
      <4>1. x \notin Range(s)
        BY <2>4, <2>7
      <4>2. DistinctList(Append(s, x)) /\ Range(Append(s, x)) = Range(s) \cup {x}
        BY <2>4, <2>5, <4>1, Pushed
      <4> QED BY <2>3, <2>4, <2>6, <3>1, <4>2
    <3>2. CASE x = t
      BY <2>3, <2>4, <2>6, <3>2
    <3> QED BY <3>1, <3>2
  <2> QED BY <2>1, <2>8
<1> HIDE DEF S
<1>13. \A i \in 0..n : i \in S
  BY <1>1, <1>11, <1>12, NumbersUpTo
<1>14. n \in 0..n /\ n \in S
  BY <1>1, <1>13
<1>15. Range(list) = First(n)
  BY <1>1 DEF Range
<1> HIDE DEF First
<1> QED BY <1>2, <1>14, <1>15 DEF S

(* store_pending_txid and delete_pending_txid on a list without            *)
(* duplicates.                                                             *)
LEMMA ListIsASet ==
  ASSUME NEW list, DistinctList(list), NEW t \in Txid
  PROVE  LET stored == DecodeTxidList(StorePendingTxid(EncodeTxidList(list), t))
             deleted == DecodeTxidList(DeletePendingTxid(EncodeTxidList(list), t))
         IN /\ IsInjective(stored) /\ Range(stored) = Range(list) \cup {t}
            /\ IsInjective(deleted) /\ Range(deleted) = Range(list) \ {t}
<1> DEFINE new == IF t \in Range(list) THEN list ELSE Append(list, t)
<1>1. EncodeTxidList(list) = list /\ DecodeTxidList(list) = list
  BY EncodedList, DecodedList DEF DistinctList
<1>2. DistinctList(new) /\ Range(new) = Range(list) \cup {t}
  BY Pushed
<1>3. DistinctList(Retain(list, t)) /\ Range(Retain(list, t)) = Range(list) \ {t}
  BY Retained
<1>4. StorePendingTxid(list, t) = EncodeTxidList(new)
  BY <1>1 DEF StorePendingTxid
<1>5. DeletePendingTxid(list, t) = EncodeTxidList(Retain(list, t))
  BY <1>1 DEF DeletePendingTxid
<1> HIDE DEF new
<1>6. DecodeTxidList(EncodeTxidList(new)) = new
  BY <1>2, EncodedList, DecodedList DEF DistinctList
<1>7. DecodeTxidList(EncodeTxidList(Retain(list, t))) = Retain(list, t)
  BY <1>3, EncodedList, DecodedList DEF DistinctList
<1> QED BY <1>1, <1>2, <1>3, <1>4, <1>5, <1>6, <1>7 DEF DistinctList

LEMMA ListingsDistinct ==
  ASSUME NEW S, S \subseteq Txid, NEW list \in Listings(S)
  PROVE  DistinctList(list)
<1> DEFINE n == Cardinality(S)
<1>1. list \in [1..n -> S] /\ IsInjective(list) /\ IsFiniteSet(S)
  BY DEF Listings, Injection
<1>2. n \in Nat
  BY <1>1, FS_CardinalityType
<1> HIDE DEF n
<1>3. list \in Seq(Txid)
  <2>1. list \in [1..n -> Txid]
    BY <1>1
  <2> QED BY <1>2, <2>1
<1> QED BY <1>1, <1>3 DEF DistinctList

-----------------------------------------------------------------------------
(* Whatever order the block events come in, wherever a store call fails or *)
(* the process stops: no journal key holds two records, and every height,  *)
(* position and sequence number on disk fits its field, so that            *)
(* to_be_bytes never loses a byte.                                         *)
THEOREM StoreFitsWidths == Spec => [](IInv /\ SInv)
BY Invariance, InitSInv, NextSInv, PTL DEF Spec

(* scan_prefix over "utxos" and "history" finds exactly what was stored    *)
(* for a script, with the amount and the height it was stored with, at any *)
(* point of a block and after any failure.                                 *)
THEOREM ScriptScansAreExact == Spec => []ScriptScanExact
<1>1. IInv /\ SInv => ScriptScanExact
  BY ScansExact DEF SInv, HistoryFits
<1> QED BY <1>1, StoreFitsWidths, PTL

(* IndexState::new reads back from the bytes on disk the tip and every     *)
(* undo record, each once and in the order it was made, wherever the       *)
(* process stopped.                                                        *)
THEOREM RestartAlwaysReadsBack == Spec => []RestartReadsBack
<1>1. IInv /\ SInv => RestartReadsBack
  BY ReadsBack DEF SInv
<1> QED BY <1>1, StoreFitsWidths, PTL
(* Whatever txids the list of pending transactions holds, and in whatever  *)
(* order: store_pending_txid and delete_pending_txid add and remove the    *)
(* one txid and keep every other, without duplicates.                      *)
THEOREM PendingListStaysASet == Spec => []PendingListIsASet
<1>1. ASSUME IInv PROVE PendingListIsASet
  <2>1. ASSUME NEW others \in SUBSET Txid, NEW t \in Txid,
               NEW list \in Listings(dbPending \cup others)
        PROVE  DistinctList(list)
    <3>1. dbPending \cup others \subseteq Txid
      BY <1>1 DEF IInv, TypeOK, StoreTypeOK
    <3> QED BY <3>1, ListingsDistinct
  <2> QED BY <2>1, ListIsASet DEF PendingListIsASet
<1>2. IInv => PendingListIsASet
  BY <1>1
<1> QED BY <1>2, Invariance, PTL
=============================================================================
