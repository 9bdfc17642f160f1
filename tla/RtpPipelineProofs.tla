------------------------- MODULE RtpPipelineProofs --------------------------
(***************************************************************************)
(* The loop of strip_rtp_padding_and_ts_null, for payloads of any length:  *)
(* what it leaves in the buffer it is reading from is the sequence of the  *)
(* TS packets that are not null packets.                                   *)
(***************************************************************************)
EXTENDS RtpPipeline, Induction, FiniteSetTheorems, SequenceTheorems

\* Packets to keep among the first i.
Count(u, i) == Cardinality(NotNull(u, i))

\* One round of the loop, and the loop.
LoopStep(s, i) ==
  IF First(s.buf, i) \in Nulls THEN s
  ELSE [buf |-> Moved(s.buf, s.len, Offset(i)), len |-> s.len + TsSize]

IsLoop(u, n, g) ==
  g = [i \in 0..n |-> IF i = 0 THEN [buf |-> u, len |-> 0] ELSE LoopStep(g[i - 1], i)]

---------------------------------------------------------------------------
(* Counting the packets to keep *)

\* The packets to keep among the first i are counted one by one.
LEMMA CountFacts ==
  ASSUME NEW u, NEW i \in Nat
  PROVE  /\ IsFiniteSet(NotNull(u, i))
         /\ Count(u, i) \in Nat
         /\ Count(u, 0) = 0
         /\ Count(u, i) <= i
         /\ First(u, i + 1) \notin Nulls => Count(u, i + 1) = Count(u, i) + 1
         /\ First(u, i + 1) \in Nulls => Count(u, i + 1) = Count(u, i)
<1>1. IsFiniteSet(1..i) /\ Cardinality(1..i) = i
  BY FS_Interval
<1>2. NotNull(u, i) \subseteq 1..i
  BY DEF NotNull
<1>3. IsFiniteSet(NotNull(u, i)) /\ Count(u, i) <= i
  BY <1>1, <1>2, FS_Subset DEF Count
<1>4. Count(u, i) \in Nat
  BY <1>3, FS_CardinalityType DEF Count
<1>5. NotNull(u, 0) = {}
  BY DEF NotNull
<1>6. Count(u, 0) = 0
  BY <1>5, FS_EmptySet DEF Count
<1>7. ASSUME First(u, i + 1) \notin Nulls
      PROVE  Count(u, i + 1) = Count(u, i) + 1
  <2>1. NotNull(u, i + 1) = NotNull(u, i) \cup {i + 1}
    BY <1>7 DEF NotNull
  <2>2. i + 1 \notin NotNull(u, i)
    BY DEF NotNull
  <2>3. QED
    BY <1>3, <2>1, <2>2, FS_AddElement DEF Count
<1>8. ASSUME First(u, i + 1) \in Nulls
      PROVE  Count(u, i + 1) = Count(u, i)
  <2>1. NotNull(u, i + 1) = NotNull(u, i)
    BY <1>8 DEF NotNull
  <2>2. QED
    BY <2>1 DEF Count
<1>9. QED
  BY <1>3, <1>4, <1>6, <1>7, <1>8

\* Later packets have larger numbers.
LEMMA CountGrows ==
  ASSUME NEW u, NEW i \in Nat, NEW j \in Nat, i < j
  PROVE  /\ Count(u, i) <= Count(u, j)
         /\ First(u, j) \notin Nulls => Count(u, i) < Count(u, j)
<1>1. j - 1 \in Nat /\ (j - 1) + 1 = j /\ i <= j - 1
  OBVIOUS
<1>2. NotNull(u, i) \subseteq NotNull(u, j) /\ NotNull(u, i) \subseteq NotNull(u, j - 1)
  BY DEF NotNull
<1>3. IsFiniteSet(NotNull(u, j)) /\ IsFiniteSet(NotNull(u, j - 1))
  BY <1>1, CountFacts
<1>4. Count(u, i) <= Count(u, j) /\ Count(u, i) <= Count(u, j - 1)
  BY <1>2, <1>3, FS_Subset DEF Count
<1>5. Count(u, i) \in Nat /\ Count(u, j) \in Nat /\ Count(u, j - 1) \in Nat
  BY <1>1, CountFacts
<1>6. First(u, j) \notin Nulls => Count(u, j) = Count(u, j - 1) + 1
  <2> DEFINE k == j - 1
  <2>1. k \in Nat /\ k + 1 = j
    BY <1>1
  <2> HIDE DEF k
  <2>2. First(u, k + 1) \notin Nulls => Count(u, k + 1) = Count(u, k) + 1
    BY <2>1, CountFacts
  <2>3. QED
    BY <2>1, <2>2 DEF k
<1>7. QED
  BY <1>4, <1>5, <1>6

\* The number of a packet to keep.
LEMMA NumberFacts ==
  ASSUME NEW u, NEW n \in Nat, NEW p \in NotNull(u, n)
  PROVE  Count(u, p) \in Nat /\ Count(u, p) - 1 \in Nat /\ Count(u, p) - 1 < Count(u, n)
<1>1. p \in Nat /\ 0 < p /\ p <= n /\ First(u, p) \notin Nulls /\ 0 \in Nat
  BY DEF NotNull
<1>2. Count(u, p) \in Nat /\ Count(u, n) \in Nat /\ Count(u, 0) = 0
  BY <1>1, CountFacts
<1>3. Count(u, 0) < Count(u, p)
  BY <1>1, CountGrows
<1>4. p < n => Count(u, p) <= Count(u, n)
  BY <1>1, CountGrows
<1>5. p = n \/ p < n
  BY <1>1
<1>6. Count(u, p) <= Count(u, n)
  BY <1>2, <1>4, <1>5
<1>7. QED
  BY <1>2, <1>3, <1>6

\* Every number up to the count is that of one packet to keep.
LEMMA CountOnto ==
  ASSUME NEW u
  PROVE  \A n \in Nat : \A q \in 1..Count(u, n) :
           \E p \in NotNull(u, n) : Count(u, p) = q
<1> DEFINE Onto(n) == \A q \in 1..Count(u, n) : \E p \in NotNull(u, n) : Count(u, p) = q
           T == {n \in Nat : Onto(n)}
<1>1. 0 \in T
  <2>1. Count(u, 0) = 0
    BY CountFacts
  <2>2. QED
    BY <2>1
<1>2. ASSUME NEW n \in Nat, n \in T
      PROVE  n + 1 \in T
  <2>1. Count(u, n) \in Nat
    BY CountFacts
  <2>2. NotNull(u, n) \subseteq NotNull(u, n + 1)
    BY DEF NotNull
  <2>3. ASSUME NEW q \in 1..Count(u, n + 1)
        PROVE  \E p \in NotNull(u, n + 1) : Count(u, p) = q
    <3>1. CASE q \in 1..Count(u, n)
      BY <1>2, <2>2, <3>1
    <3>2. CASE q \notin 1..Count(u, n)
      <4>1. First(u, n + 1) \notin Nulls /\ q = Count(u, n + 1)
        BY <2>1, <3>2, CountFacts
      <4>2. n + 1 \in NotNull(u, n + 1)
        BY <4>1 DEF NotNull
      <4>3. QED
        BY <4>1, <4>2
    <3>3. QED
      BY <3>1, <3>2
  <2>4. QED
    BY <2>3
<1>3. Nat \subseteq T
  <2> HIDE DEF T
  <2>1. QED
    BY <1>1, <1>2, SetInduction
<1>4. QED
  BY <1>3

---------------------------------------------------------------------------
(* Arithmetic of the offsets *)

\* Products with the size of a TS packet.
LEMMA Products ==
  ASSUME NEW a \in Nat, NEW b \in Nat
  PROVE  /\ a * TsSize \in Nat
         /\ (a + 1) * TsSize = a * TsSize + TsSize
         /\ a <= b => a * TsSize <= b * TsSize
         /\ a < b => a * TsSize + TsSize <= b * TsSize
         /\ Offset(a + 1) = a * TsSize
<1>1. TsSize \in Nat
  BY TsSizeAssumption
<1>2. /\ a * TsSize \in Nat
      /\ (a + 1) * TsSize = a * TsSize + TsSize
  BY <1>1
<1>3. a <= b => a * TsSize <= b * TsSize
  BY <1>1
<1>4. a + 1 <= b => (a + 1) * TsSize <= b * TsSize
  BY <1>1
<1>5. Offset(a + 1) = a * TsSize
  <2>1. (a + 1) - 1 = a
    OBVIOUS
  <2>2. QED
    BY <2>1 DEF Offset
<1>6. QED
  BY <1>2, <1>3, <1>4, <1>5

\* The TS packets of a payload lie within it.
LEMMA PacketsFit ==
  ASSUME NEW u, Len(u) \in Nat
  PROVE  Packets(u) \in Nat /\ Packets(u) * TsSize <= Len(u)
BY TsSizeAssumption DEF Packets

\* A position is that of one unit of one TS packet.
LEMMA Position ==
  ASSUME NEW k \in Nat \ {0}
  PROVE  LET r == (k - 1) \div TsSize
             t == ((k - 1) % TsSize) + 1
         IN  r \in Nat /\ t \in 1..TsSize /\ k = r * TsSize + t
<1> DEFINE r == (k - 1) \div TsSize
           m == (k - 1) % TsSize
<1>1. TsSize \in Nat /\ TsSize > 0
  BY TsSizeAssumption
<1>2. r \in Nat /\ m \in 0..(TsSize - 1) /\ k - 1 = r * TsSize + m
  BY <1>1
<1>3. r * TsSize \in Nat
  BY <1>1, <1>2
<1> HIDE DEF r, m
<1>4. m + 1 \in 1..TsSize /\ k = r * TsSize + (m + 1)
  BY <1>1, <1>2, <1>3
<1>5. QED
  BY <1>2, <1>4 DEF r, m

---------------------------------------------------------------------------
(* The loop *)

\* The recursion of the loop has a solution for every number of rounds.
LEMMA LoopExists ==
  ASSUME NEW u
  PROVE  \A n \in Nat : \E g : IsLoop(u, n, g)
<1> DEFINE T == {n \in Nat : \E g : IsLoop(u, n, g)}
           base == [buf |-> u, len |-> 0]
<1>1. 0 \in T
  <2> DEFINE g == [i \in 0..0 |-> base]
  <2>1. IsLoop(u, 0, g)
    BY DEF IsLoop
  <2>2. QED
    BY <2>1
<1>2. ASSUME NEW n \in Nat, n \in T
      PROVE  n + 1 \in T
  <2>1. PICK g : IsLoop(u, n, g)
    BY <1>2
  <2> DEFINE h == [i \in 0..(n + 1) |-> IF i = n + 1 THEN LoopStep(g[n], n + 1) ELSE g[i]]
             R(i) == IF i = 0 THEN base ELSE LoopStep(h[i - 1], i)
  <2>2. \A i \in 0..n : g[i] = IF i = 0 THEN base ELSE LoopStep(g[i - 1], i)
    BY <2>1 DEF IsLoop
  <2>3. \A i \in 0..n : h[i] = g[i]
    OBVIOUS
  <2>4. h[n + 1] = LoopStep(g[n], n + 1)
    OBVIOUS
  <2>5. ASSUME NEW i \in 0..(n + 1)
        PROVE  h[i] = R(i)
    <3>1. CASE i = n + 1
      <4>1. i # 0 /\ i - 1 = n /\ n \in 0..n
        BY <3>1
      <4>2. h[i - 1] = g[n]
        BY <2>3, <4>1
      <4> HIDE DEF h, base
      <4>3. QED
        BY <2>4, <3>1, <4>1, <4>2
    <3>2. CASE i # n + 1
      <4>1. i \in 0..n /\ (i # 0 => i - 1 \in 0..n)
        BY <3>2
      <4>2. h[i] = g[i] /\ (i # 0 => h[i - 1] = g[i - 1])
        BY <2>3, <4>1
      <4> HIDE DEF h, base
      <4>3. QED
        BY <2>2, <4>1, <4>2
    <3>3. QED
      BY <3>1, <3>2
  <2>6. h = [i \in 0..(n + 1) |-> h[i]]
    OBVIOUS
  <2>7. h = [i \in 0..(n + 1) |-> R(i)]
    <3> DEFINE D == 0..(n + 1)
    <3>1. h = [i \in D |-> h[i]] /\ \A i \in D : h[i] = R(i)
      BY <2>5, <2>6
    <3> HIDE DEF h, D
    <3>2. [i \in D |-> h[i]] = [i \in D |-> R(i)]
      BY <3>1
    <3>3. QED
      BY <3>1, <3>2 DEF D
  <2>8. IsLoop(u, n + 1, h)
    BY <2>7 DEF IsLoop
  <2>9. QED
    BY <2>8
<1>3. Nat \subseteq T
  <2> HIDE DEF T
  <2>1. QED
    BY <1>1, <1>2, SetInduction
<1>4. QED
  BY <1>3

\* After i rounds the buffer begins with the packets to keep of the first i, and is
\* otherwise as it was: a round never overwrites what a later one reads.
AfterRounds(u, i, s) ==
  \E b \in [DOMAIN u -> STRING] :
    /\ s = [buf |-> b, len |-> Count(u, i) * TsSize]
    /\ \A k \in DOMAIN u : k > Count(u, i) * TsSize => b[k] = u[k]
    /\ \A p \in NotNull(u, i), t \in 1..TsSize :
         b[(Count(u, p) - 1) * TsSize + t] = u[Offset(p) + t]

\* A round of the loop keeps to that.
LEMMA RoundCorrect ==
  ASSUME NEW u \in Seq(STRING), NEW i \in Nat, i < Packets(u),
         NEW s, AfterRounds(u, i, s)
  PROVE  AfterRounds(u, i + 1, LoopStep(s, i + 1))
<1> DEFINE c == Count(u, i)
           len == c * TsSize
           o == i * TsSize
<1>1. PICK b \in [DOMAIN u -> STRING] :
        /\ s = [buf |-> b, len |-> len]
        /\ \A k \in DOMAIN u : k > len => b[k] = u[k]
        /\ \A p \in NotNull(u, i), t \in 1..TsSize :
             b[(Count(u, p) - 1) * TsSize + t] = u[Offset(p) + t]
  BY DEF AfterRounds
<1>2. DOMAIN u = 1..Len(u) /\ Len(u) \in Nat /\ TsSize \in Nat /\ TsSize > 0
  BY TsSizeAssumption
<1>3. c \in Nat /\ c <= i
  BY CountFacts
<1>4. o \in Nat /\ len \in Nat /\ len <= o /\ Offset(i + 1) = o /\ o + TsSize <= Len(u)
  <2>1. Packets(u) \in Nat /\ Packets(u) * TsSize <= Len(u)
    BY <1>2, PacketsFit
  <2>2. o + TsSize <= Packets(u) * TsSize
    BY <2>1, Products
  <2>3. o \in Nat /\ len \in Nat /\ len <= o /\ Offset(i + 1) = o
    BY <1>3, Products
  <2>4. Packets(u) * TsSize \in Nat
    BY <2>1, Products
  <2> HIDE DEF o, len
  <2>5. QED
    BY <1>2, <2>1, <2>2, <2>3, <2>4
<1>5. s.buf = b /\ s.len = len
  BY <1>1
<1>6. First(b, i + 1) = First(u, i + 1)
  <2>1. o + 1 \in DOMAIN u /\ o + 1 > len
    <3> HIDE DEF o, len
    <3>1. QED
      BY <1>2, <1>4
  <2>2. b[o + 1] = u[o + 1]
    BY <1>1, <2>1
  <2>3. QED
    BY <1>4, <2>2 DEF First
<1>7. CASE First(u, i + 1) \in Nulls
  <2>1. LoopStep(s, i + 1) = s
    BY <1>5, <1>6, <1>7 DEF LoopStep
  <2>2. Count(u, i + 1) = c
    BY <1>7, CountFacts
  <2>3. NotNull(u, i + 1) = NotNull(u, i)
    BY <1>7 DEF NotNull
  <2>4. QED
    BY <2>1, <2>2, <2>3 DEF AfterRounds
<1>8. CASE First(u, i + 1) \notin Nulls
  <2> DEFINE m == Moved(b, len, o)
  <2>1. LoopStep(s, i + 1) = [buf |-> m, len |-> len + TsSize]
    BY <1>4, <1>5, <1>6, <1>8 DEF LoopStep
  <2>2. Count(u, i + 1) = c + 1 /\ Count(u, i + 1) * TsSize = len + TsSize
    <3>1. Count(u, i + 1) = c + 1
      BY <1>8, CountFacts
    <3>2. (c + 1) * TsSize = len + TsSize
      BY <1>3, Products
    <3>3. QED
      BY <3>1, <3>2
  <2>3. NotNull(u, i + 1) = NotNull(u, i) \cup {i + 1}
    BY <1>8 DEF NotNull
  <2>4. DOMAIN b = DOMAIN u /\ m = [k \in DOMAIN u |-> IF k - len \in 1..TsSize THEN b[k - len + o] ELSE b[k]]
    BY DEF Moved
  <2> HIDE DEF o, len, m, c
  <2>5. \A k \in DOMAIN u : k - len \in 1..TsSize =>
          /\ k - len + o \in DOMAIN u
          /\ k - len + o > len
    BY <1>2, <1>4
  <2>6. m \in [DOMAIN u -> STRING]
    BY <2>4, <2>5
  <2>7. \A k \in DOMAIN u : k - len \in 1..TsSize => m[k] = u[k - len + o]
    BY <1>1, <2>4, <2>5
  <2>8. \A k \in DOMAIN u : k - len \notin 1..TsSize => m[k] = b[k]
    BY <2>4
  <2>9. \A k \in DOMAIN u : k > len + TsSize => m[k] = u[k]
    <3>1. TAKE k \in DOMAIN u
    <3>2. k \in Nat
      BY <1>2
    <3>3. k > len + TsSize => k - len \notin 1..TsSize /\ k > len
      BY <1>2, <1>4, <3>2
    <3>4. QED
      BY <1>1, <2>8, <3>3
  <2>10. ASSUME NEW p \in NotNull(u, i + 1), NEW t \in 1..TsSize
         PROVE  m[(Count(u, p) - 1) * TsSize + t] = u[Offset(p) + t]
    <3>1. CASE p = i + 1
      <4>1. (Count(u, p) - 1) * TsSize = len
        <5>1. Count(u, p) - 1 = c
          BY <1>3, <2>2, <3>1
        <5>2. QED
          BY <5>1 DEF len
      <4>2. len + t \in DOMAIN u /\ (len + t) - len = t
        BY <1>2, <1>4
      <4>3. m[len + t] = u[t + o]
        BY <2>7, <4>2
      <4>4. t + o = o + t
        BY <1>2, <1>4
      <4>5. QED
        BY <1>4, <3>1, <4>1, <4>3, <4>4
    <3>2. CASE p # i + 1
      <4> DEFINE q == Count(u, p)
                 x == (q - 1) * TsSize
      <4>1. p \in NotNull(u, i) /\ p \in 1..i /\ First(u, p) \notin Nulls
        BY <2>3, <3>2 DEF NotNull
      <4>2. q - 1 \in Nat /\ q - 1 < c
        BY <4>1, NumberFacts DEF c
      <4>3. x \in Nat /\ x + TsSize <= len
        <5> DEFINE r == q - 1
        <5>1. r \in Nat /\ r < c
          BY <4>2
        <5> HIDE DEF r, q
        <5>2. r * TsSize \in Nat /\ r * TsSize + TsSize <= c * TsSize
          BY <1>3, <5>1, Products
        <5>3. QED
          BY <5>2 DEF r, len
      <4> HIDE DEF q, x
      <4>4. m[x + t] = b[x + t]
        <5> DEFINE y == x + t
        <5>1. y \in DOMAIN u /\ y - len \notin 1..TsSize
          BY <1>2, <1>4, <4>3
        <5> HIDE DEF y
        <5>2. m[y] = b[y]
          BY <2>8, <5>1
        <5>3. QED
          BY <5>2 DEF y
      <4>5. b[x + t] = u[Offset(p) + t]
        BY <1>1, <4>1 DEF x, q
      <4>6. QED
        BY <4>4, <4>5 DEF x, q
    <3>3. QED
      BY <3>1, <3>2
  <2>11. QED
    BY <2>1, <2>2, <2>6, <2>9, <2>10 DEF AfterRounds
<1>9. QED
  BY <1>7, <1>8

\* Nothing is moved before the first round.
LEMMA NoRound ==
  ASSUME NEW u \in Seq(STRING)
  PROVE  AfterRounds(u, 0, [buf |-> u, len |-> 0])
<1>1. Count(u, 0) = 0 /\ NotNull(u, 0) = {}
  <2>1. Count(u, 0) = 0
    BY CountFacts
  <2>2. QED
    BY <2>1 DEF NotNull
<1>2. Count(u, 0) * TsSize = 0
  BY <1>1, TsSizeAssumption
<1>3. u \in [DOMAIN u -> STRING]
  OBVIOUS
<1>4. QED
  BY <1>1, <1>2, <1>3 DEF AfterRounds

\* The whole loop does.
LEMMA LoopCorrect ==
  ASSUME NEW u \in Seq(STRING), NEW n \in Nat, n <= Packets(u), NEW g, IsLoop(u, n, g)
  PROVE  AfterRounds(u, n, g[n])
<1>1. Packets(u) \in Nat
  BY PacketsFit
<1>2. \A i \in 0..n : g[i] = IF i = 0 THEN [buf |-> u, len |-> 0] ELSE LoopStep(g[i - 1], i)
  BY DEF IsLoop
<1> DEFINE T == {i \in Nat : i <= n => AfterRounds(u, i, g[i])}
<1>3. 0 \in T
  BY <1>2, NoRound
<1>4. ASSUME NEW i \in Nat, i \in T
      PROVE  i + 1 \in T
  <2>1. SUFFICES ASSUME i + 1 <= n
                 PROVE  AfterRounds(u, i + 1, g[i + 1])
    OBVIOUS
  <2>2. i < Packets(u) /\ i <= n /\ i + 1 \in 0..n /\ i + 1 # 0 /\ (i + 1) - 1 = i
    BY <1>1, <2>1
  <2>3. AfterRounds(u, i, g[i])
    BY <1>4, <2>2
  <2>4. AfterRounds(u, i + 1, LoopStep(g[i], i + 1))
    BY <2>2, <2>3, RoundCorrect
  <2>5. g[i + 1] = LoopStep(g[i], i + 1)
    BY <1>2, <2>2
  <2>6. QED
    BY <2>4, <2>5
<1>5. Nat \subseteq T
  <2> HIDE DEF T
  <2>1. QED
    BY <1>3, <1>4, SetInduction
<1>6. QED
  BY <1>5

\* The loop that WithoutNull runs.
LEMMA WithoutNullLoop ==
  ASSUME NEW u, Packets(u) \in Nat
  PROVE  \E g : /\ IsLoop(u, Packets(u), g)
                /\ WithoutNull(u) = SubSeq(g[Packets(u)].buf, 1, g[Packets(u)].len)
<1> DEFINE n == Packets(u)
           loop == CHOOSE g : IsLoop(u, n, g)
<1>1. IsLoop(u, n, loop)
  BY LoopExists
<1>2. WithoutNull(u) = SubSeq(loop[n].buf, 1, loop[n].len)
  BY DEF WithoutNull, IsLoop, LoopStep
<1>3. QED
  BY <1>1, <1>2

\* What the loop leaves: the packets to keep, at the places that their numbers give them.
LEMMA WithoutNullFacts ==
  ASSUME NEW u \in Seq(STRING)
  PROVE  LET n == Packets(u)
             v == WithoutNull(u)
         IN /\ n \in Nat /\ Count(u, n) \in Nat
            /\ Count(u, n) * TsSize \in Nat
            /\ v \in Seq(STRING)
            /\ Len(v) = Count(u, n) * TsSize
            /\ \A p \in NotNull(u, n), t \in 1..TsSize :
                 v[(Count(u, p) - 1) * TsSize + t] = u[Offset(p) + t]
<1> DEFINE n == Packets(u)
           len == Count(u, n) * TsSize
           v == WithoutNull(u)
<1>1. n \in Nat /\ n * TsSize <= Len(u) /\ Len(u) \in Nat /\ TsSize \in Nat /\ TsSize > 0
  BY PacketsFit, TsSizeAssumption
<1>2. PICK g : IsLoop(u, n, g) /\ v = SubSeq(g[n].buf, 1, g[n].len)
  BY <1>1, WithoutNullLoop
<1>3. AfterRounds(u, n, g[n])
  BY <1>1, <1>2, LoopCorrect
<1>4. PICK b \in [DOMAIN u -> STRING] :
        /\ g[n] = [buf |-> b, len |-> len]
        /\ \A p \in NotNull(u, n), t \in 1..TsSize :
             b[(Count(u, p) - 1) * TsSize + t] = u[Offset(p) + t]
  BY <1>3 DEF AfterRounds
<1>5. v = SubSeq(b, 1, len)
  <2> HIDE DEF n, len, v
  <2>1. g[n].buf = b /\ g[n].len = len
    BY <1>4
  <2>2. QED
    BY <1>2, <2>1
<1>6. Count(u, n) \in Nat /\ len \in Nat /\ len <= Len(u)
  <2>1. Count(u, n) \in Nat /\ Count(u, n) <= n
    BY <1>1, CountFacts
  <2>2. len \in Nat /\ len <= n * TsSize /\ n * TsSize \in Nat
    BY <1>1, <2>1, Products
  <2> HIDE DEF n, len
  <2>3. QED
    BY <1>1, <2>1, <2>2
<1>7. b \in Seq(STRING) /\ Len(b) = Len(u)
  BY <1>1
<1>8. v \in Seq(STRING) /\ Len(v) = len /\ \A k \in 1..len : v[k] = b[k]
  <2> HIDE DEF len, v
  <2>1. QED
    BY <1>1, <1>5, <1>6, <1>7
<1>9. ASSUME NEW p \in NotNull(u, n), NEW t \in 1..TsSize
      PROVE  v[(Count(u, p) - 1) * TsSize + t] = u[Offset(p) + t]
  <2> DEFINE r == Count(u, p) - 1
  <2>1. r \in Nat /\ r < Count(u, n)
    BY <1>1, NumberFacts
  <2> HIDE DEF r
  <2>2. r * TsSize \in Nat /\ r * TsSize + TsSize <= len
    BY <1>6, <2>1, Products
  <2> HIDE DEF len
  <2>3. r * TsSize + t \in 1..len
    BY <1>1, <1>6, <2>2
  <2>4. v[r * TsSize + t] = b[r * TsSize + t]
    BY <1>8, <2>3
  <2>5. QED
    BY <1>4, <2>4 DEF r
<1>10. QED
  BY <1>1, <1>6, <1>8, <1>9

\* strip_rtp_padding_and_ts_null leaves the TS packets that are not null packets, whole
\* and in order, of a payload of any length.
THEOREM StrippingCorrect ==
  ASSUME NEW u \in Seq(STRING)
  PROVE  WithoutNull(u) = Kept(u)
<1> DEFINE n == Packets(u)
           kept == NotNull(u, n)
           v == WithoutNull(u)
           len == Count(u, n) * TsSize
           Nth(q) == CHOOSE i \in kept : Cardinality(NotNull(u, i)) = q
<1>1. /\ n \in Nat /\ Count(u, n) \in Nat /\ len \in Nat /\ v \in Seq(STRING) /\ Len(v) = len
      /\ \A p \in kept, t \in 1..TsSize :
           v[(Count(u, p) - 1) * TsSize + t] = u[Offset(p) + t]
  BY WithoutNullFacts
<1>2. TsSize \in Nat /\ TsSize > 0
  BY TsSizeAssumption
<1>3. Kept(u) = [k \in 1..len |-> u[Offset(Nth((k - 1) \div TsSize + 1)) + ((k - 1) % TsSize) + 1]]
  BY DEF Kept, Count
<1>4. ASSUME NEW k \in 1..len
      PROVE  v[k] = u[Offset(Nth((k - 1) \div TsSize + 1)) + ((k - 1) % TsSize) + 1]
  <2> DEFINE r == (k - 1) \div TsSize
             m == (k - 1) % TsSize
  <2>1. r \in Nat /\ m + 1 \in 1..TsSize /\ k = r * TsSize + (m + 1)
    <3>1. k \in Nat \ {0}
      BY <1>1
    <3>2. QED
      BY <3>1, Position
  <2>2. m \in Nat
    BY <1>1, <1>2
  <2> HIDE DEF r, m, v
  <2>3. r < Count(u, n)
    <3>1. ASSUME Count(u, n) <= r
          PROVE  FALSE
      <4>1. len <= r * TsSize /\ r * TsSize \in Nat
        BY <1>1, <2>1, <3>1, Products
      <4> HIDE DEF len
      <4>2. QED
        BY <1>1, <2>1, <4>1
    <3>2. QED
      BY <1>1, <2>1, <3>1
  <2>4. r + 1 \in 1..Count(u, n)
    BY <1>1, <2>1, <2>3
  <2>5. \E p \in kept : Count(u, p) = r + 1
    BY <1>1, <2>4, CountOnto
  <2> DEFINE p == Nth(r + 1)
  <2>6. p \in kept /\ Count(u, p) = r + 1
    BY <2>5 DEF Count
  <2> HIDE DEF p, kept
  <2>7. v[(Count(u, p) - 1) * TsSize + (m + 1)] = u[Offset(p) + (m + 1)]
    BY <1>1, <2>1, <2>6
  <2>8. Count(u, p) - 1 = r
    BY <2>1, <2>6
  <2>9. Offset(p) + (m + 1) = Offset(p) + m + 1
    <3>1. Offset(p) \in Int
      BY <1>2, <2>6 DEF Offset, NotNull, kept
    <3>2. QED
      BY <2>2, <3>1
  <2>10. v[k] = u[Offset(p) + m + 1]
    BY <2>1, <2>7, <2>8, <2>9
  <2>11. QED
    BY <2>10 DEF p, r, m, kept
<1>5. v = [k \in 1..len |-> v[k]]
  BY <1>1
<1> HIDE DEF len, Nth, v
<1>6. v = Kept(u)
  BY <1>3, <1>4, <1>5
<1>7. QED
  BY <1>6 DEF v

---------------------------------------------------------------------------
(* The gate *)

\* Removing the padding leaves the beginning of the payload.
LEMMA UnpaddedFacts ==
  ASSUME NEW d \in Datagram
  PROVE  /\ Unpadded(d) \in Seq(STRING)
         /\ Len(Unpadded(d)) <= Len(d.body)
         /\ \A k \in 1..Len(Unpadded(d)) : Unpadded(d)[k] = d.body[k]
<1>1. d.body \in Seq(STRING) /\ d.last \in Nat
  BY DEF Datagram
<1>2. CASE d.pad /\ d.last \in 1..Len(d.body)
  <2> DEFINE m == Len(d.body) - d.last
  <2>1. m \in Nat /\ m <= Len(d.body)
    BY <1>1, <1>2
  <2>2. Unpadded(d) = SubSeq(d.body, 1, m)
    BY <1>2 DEF Unpadded
  <2> HIDE DEF m
  <2>3. QED
    BY <1>1, <2>1, <2>2
<1>3. CASE ~(d.pad /\ d.last \in 1..Len(d.body))
  BY <1>1, <1>3 DEF Unpadded
<1>4. QED
  BY <1>2, <1>3

\* What check_keyframe accepts is not lost with the null packets.
LEMMA KeyKept ==
  ASSUME NEW u \in Seq(STRING), NEW p \in 1..Packets(u), First(u, p) \in Accepted \ Nulls,
         \A i \in 1..Packets(u) : First(u, i) \in Sync
  PROVE  /\ IsTs(WithoutNull(u))
         /\ \E i \in 1..Packets(WithoutNull(u)) : First(WithoutNull(u), i) \in Accepted
<1> DEFINE n == Packets(u)
           v == WithoutNull(u)
           c == Count(u, n)
<1>1. /\ n \in Nat /\ c \in Nat /\ c * TsSize \in Nat /\ v \in Seq(STRING) /\ Len(v) = c * TsSize
      /\ \A q \in NotNull(u, n), t \in 1..TsSize :
           v[(Count(u, q) - 1) * TsSize + t] = u[Offset(q) + t]
  BY WithoutNullFacts
<1>2. TsSize \in Nat /\ TsSize > 0 /\ 1 \in 1..TsSize
  BY TsSizeAssumption
<1> HIDE DEF v
<1>3. ASSUME NEW q \in NotNull(u, n)
      PROVE  Count(u, q) \in 1..c /\ First(v, Count(u, q)) = First(u, q)
  <2>1. Count(u, q) - 1 \in Nat /\ Count(u, q) - 1 < c /\ Count(u, q) \in Nat
    BY <1>1, NumberFacts
  <2>2. v[(Count(u, q) - 1) * TsSize + 1] = u[Offset(q) + 1]
    BY <1>1, <1>2
  <2>3. Offset(Count(u, q)) = (Count(u, q) - 1) * TsSize
    BY DEF Offset
  <2>4. QED
    BY <1>1, <2>1, <2>2, <2>3 DEF First
<1>4. p \in NotNull(u, n)
  BY DEF NotNull
<1>5. c >= 1
  BY <1>1, <1>3, <1>4
<1>6. Packets(v) = c
  <2>1. (c * TsSize) \div TsSize = c
    BY <1>1, <1>2
  <2>2. QED
    BY <1>1, <2>1 DEF Packets
<1>7. \E i \in 1..Packets(v) : First(v, i) \in Accepted
  BY <1>3, <1>4, <1>6
<1>8. IsTs(v)
  <2>1. 1 \in 1..c
    BY <1>1, <1>5
  <2>2. PICK q \in NotNull(u, n) : Count(u, q) = 1
    BY <1>1, <2>1, CountOnto
  <2>3. First(v, 1) \in Sync
    BY <1>3, <2>2 DEF NotNull
  <2>4. First(v, 1) = v[1]
    <3>1. Offset(1) + 1 = 1
      BY <1>2 DEF Offset
    <3>2. QED
      BY <3>1 DEF First
  <2>5. Len(v) >= TsSize
    <3>1. 1 * TsSize <= c * TsSize /\ 1 * TsSize = TsSize
      BY <1>1, <1>2, <1>5, Products
    <3>2. QED
      BY <1>1, <1>2, <3>1
  <2>6. QED
    BY <2>3, <2>4, <2>5 DEF IsTs
<1>9. QED
  BY <1>7, <1>8 DEF v

\* A packet that opens the gate is forwarded, and what check_keyframe accepted is in it.
THEOREM SyncPointForwarded ==
  ASSUME NEW d \in Datagram, WellFormed(d), CheckKeyframe(d), NEW on \in BOOLEAN
  PROVE  LET v == Stripped(d, on)
         IN ~Empties(d, on) /\ IsTs(v) /\ \E i \in 1..Packets(v) : First(v, i) \in Accepted
<1> DEFINE u == Unpadded(d)
<1>1. d.header /\ IsTs(d.body) /\ \E i \in 1..Packets(d.body) : First(d.body, i) \in Accepted
  BY DEF CheckKeyframe
<1>2. /\ u \in Seq(STRING) /\ Len(u) \in Nat
      /\ \A k \in 1..Len(u) : u[k] = d.body[k]
  BY UnpaddedFacts
<1>3. CASE ~on
  BY <1>1, <1>3 DEF Stripped, Empties
<1>4. CASE on
  <2>1. PICK p \in 1..Packets(u) : First(u, p) \in Accepted \ Nulls /\ \A i \in 1..Packets(u) : First(u, i) \in Sync
    BY DEF WellFormed
  <2>2. /\ IsTs(WithoutNull(u))
        /\ \E i \in 1..Packets(WithoutNull(u)) : First(WithoutNull(u), i) \in Accepted
    BY <1>2, <2>1, KeyKept
  <2>3. IsTs(u)
    <3>1. Packets(u) \in Nat /\ Packets(u) >= 1 /\ Packets(u) * TsSize <= Len(u)
      BY <1>2, <2>1, PacketsFit
    <3>2. 1 * TsSize <= Packets(u) * TsSize /\ 1 * TsSize = TsSize /\ Packets(u) * TsSize \in Nat
      BY <3>1, Products, TsSizeAssumption
    <3>3. Len(u) >= TsSize /\ 1 \in 1..Len(u)
      BY <1>2, <3>1, <3>2, TsSizeAssumption
    <3>4. u[1] = d.body[1]
      BY <1>2, <3>3
    <3>5. QED
      BY <1>1, <3>3, <3>4 DEF IsTs
  <2>4. Stripped(d, on) = WithoutNull(u)
    BY <1>1, <1>4, <2>3 DEF Stripped
  <2>5. WithoutNull(u) # <<>>
    <3>1. WithoutNull(u) = <<>> => Len(WithoutNull(u)) = 0
      OBVIOUS
    <3>2. QED
      BY <2>2, <3>1, TsSizeAssumption DEF IsTs
  <2>6. ~Empties(d, on)
    BY <2>5 DEF Empties
  <2>7. QED
    BY <2>2, <2>4, <2>6
<1>5. QED
  BY <1>3, <1>4

=============================================================================
