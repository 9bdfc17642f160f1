-------------------------- MODULE MitmClientProofs --------------------------
(***************************************************************************)
(* An RTSPToRtspClient session: no request of a client that does not       *)
(* pipeline is lost or doubled, the response to PLAY is recognised, every  *)
(* SETUP names the proxy's ports, and no wakeup is lost, for any number of *)
(* requests, queue limit and bound of the model.                           *)
(***************************************************************************)
EXTENDS MitmClient, Induction, FunctionTheorems, FiniteSetTheorems, SequenceTheorems

---------------------------------------------------------------------------
(* The inductive invariant *)

\* The client's requests are numbered; upstream, what has no number is a keepalive.
ClientReq == {r \in Requests : r.id # 0}
UpReq     == {r \in Requests : r.id = 0 => r = Keepalive}
Setups    == {r \in ClientReq : r.kind = "SETUP"}

Shape ==
  /\ wire \in Seq(ClientReq) /\ recvBuf \in Seq(ClientReq)
  /\ toUp \in Seq(UpReq) /\ inflight \in Seq(UpReq)
  /\ parsing => recvBuf # <<>>
  /\ Len(sent) <= MaxReq

\* What is paused, and what a 461 would repeat, is a SETUP for which the relay exists.
SetupStored ==
  /\ pendingSetup \in Setups \cup {NoReq} /\ lastSetup \in Setups \cup {NoReq}
  /\ pendingSetup # NoReq \/ lastSetup # NoReq => relay
  /\ state = "WAIT_STUN" => pendingSetup # NoReq

\* Until the upstream connection is there only the first request has been read.
Connecting ==
  ~Connected => /\ toUp = <<>> /\ inflight = <<>> /\ ~parsing /\ ~pendingPlay /\ ~timer
                /\ lastSetup = NoReq
                /\ recvBuf \in Seq({r \in ClientReq : r.kind \in FirstKinds})

IndInv == TypeOK /\ Shape /\ SetupStored /\ Connecting

\* Every SETUP on its way upstream names the proxy's ports.
Ours == {r \in Requests : r.kind = "SETUP" => r.ours /\ relay}
ToUs == toUp \in Seq(Ours) /\ inflight \in Seq(Ours)

\* One if r is request i, and one if the response to request i was dropped.
Is(r, i) == IF r.id = i THEN 1 ELSE 0
Lost(i) == IF i \in dropped THEN 1 ELSE 0

\* The copies of request i, or of its response, that are not back with the client.
Away(i) ==
  Copies(wire, i) + Copies(recvBuf, i) + Copies(toUp, i) + Copies(inflight, i) +
  Is(pendingSetup, i) + Copies(toDown, i) + Lost(i)
Tally(i) == Copies(got, i) + Away(i)

\* With one request at a time: all but the last have been answered, the last one is in
\* one place, unless the session is closed, and the next is nowhere.
CountInv ==
  \A i \in 1..MaxReq :
    /\ i > Len(sent) => Tally(i) = 0
    /\ i <= Len(sent) => Tally(i) <= 1 /\ (~closed => Tally(i) = 1)
    /\ i < Len(sent) => Copies(got, i) >= 1

\* The SETUP on its way upstream is the one that a 461 would repeat.
Repeatable == {r \in Requests : r.kind = "SETUP" /\ lastSetup # NoReq => r.id = lastSetup.id}
LastMatches == toUp \in Seq(Repeatable) /\ inflight \in Seq(Repeatable)

OneInv == CountInv /\ LastMatches

\* pending_play_ says of the request on its way upstream whether it is a PLAY.
Flagged == {r \in Requests : r.id # 0 => (r.kind = "PLAY" <=> pendingPlay)}
PlayInv ==
  ~stun.on => toUp \in Seq(Flagged) /\ inflight \in Seq(Flagged) /\ timer = played

---------------------------------------------------------------------------
(* Counting requests in a queue *)

\* The places of a queue that request i is in.
Places(q, i) == {k \in DOMAIN q : q[k].id = i}

\* A queue has a number of copies.
LEMMA CopiesType ==
  ASSUME NEW S, NEW q \in Seq(S), NEW i
  PROVE  IsFiniteSet(Places(q, i)) /\ Copies(q, i) \in Nat /\ Copies(q, i) = Cardinality(Places(q, i))
<1>1. Places(q, i) \subseteq 1..Len(q) /\ IsFiniteSet(1..Len(q))
  BY FS_Interval DEF Places
<1>2. IsFiniteSet(Places(q, i))
  BY <1>1, FS_Subset
<1>3. Copies(q, i) = Cardinality(Places(q, i))
  BY DEF Copies, Places
<1>4. QED
  BY <1>2, <1>3, FS_CardinalityType

\* A queue has none of what is in none of its places.
LEMMA CopiesMember ==
  ASSUME NEW S, NEW q \in Seq(S), NEW i
  PROVE  /\ (\E k \in DOMAIN q : q[k].id = i) => Copies(q, i) >= 1
         /\ (\A k \in DOMAIN q : q[k].id # i) => Copies(q, i) = 0
<1>1. IsFiniteSet(Places(q, i)) /\ Copies(q, i) \in Nat /\ Copies(q, i) = Cardinality(Places(q, i))
  BY CopiesType
<1>2. Copies(q, i) = 0 <=> Places(q, i) = {}
  BY <1>1, FS_EmptySet
<1>3. Places(q, i) = {} <=> \A k \in DOMAIN q : q[k].id # i
  BY DEF Places
<1>4. QED
  BY <1>1, <1>2, <1>3

\* The empty queue, and a queue of one.
LEMMA CopiesOne ==
  ASSUME NEW i
  PROVE  /\ Copies(<<>>, i) = 0
         /\ \A r : Copies(<<r>>, i) = Is(r, i)
<1>1. Copies(<<>>, i) = 0
  <2>1. {k \in DOMAIN <<>> : <<>>[k].id = i} = {}
    OBVIOUS
  <2>2. QED
    BY <2>1, FS_EmptySet DEF Copies
<1>2. ASSUME NEW r
      PROVE  Copies(<<r>>, i) = Is(r, i)
  <2>1. {k \in DOMAIN <<r>> : <<r>>[k].id = i} = IF r.id = i THEN {1} ELSE {}
    OBVIOUS
  <2>2. QED
    BY <2>1, FS_EmptySet, FS_Singleton DEF Copies, Is
<1>3. QED
  BY <1>1, <1>2

\* Two queues, one after the other.
LEMMA CopiesConcat ==
  ASSUME NEW S, NEW a \in Seq(S), NEW b \in Seq(S), NEW i
  PROVE  Copies(a \o b, i) = Copies(a, i) + Copies(b, i)
<1> DEFINE A == Places(a, i)
           B == Places(b, i)
           m == Len(a)
           C == {k + m : k \in B}
           f == [k \in B |-> k + m]
<1>1. /\ a \o b \in Seq(S) /\ m \in Nat /\ Len(b) \in Nat /\ Len(a \o b) = m + Len(b)
      /\ \A k \in 1..(m + Len(b)) : (a \o b)[k] = IF k <= m THEN a[k] ELSE b[k - m]
  BY ConcatProperties
<1>2. DOMAIN a = 1..m /\ DOMAIN b = 1..Len(b) /\ DOMAIN (a \o b) = 1..(m + Len(b))
  BY <1>1
<1>3. B \subseteq Nat /\ \A k \in B : k \in 1..Len(b)
  BY <1>2 DEF Places
<1>4. Places(a \o b, i) = A \cup C
  <2>1. ASSUME NEW k \in Places(a \o b, i)
        PROVE  k \in A \cup C
    <3>1. k \in 1..(m + Len(b)) /\ (a \o b)[k].id = i
      BY <1>2 DEF Places
    <3>2. CASE k <= m
      BY <1>1, <1>2, <3>1, <3>2 DEF Places
    <3>3. CASE ~(k <= m)
      <4>1. k - m \in 1..Len(b) /\ b[k - m].id = i /\ k = (k - m) + m
        BY <1>1, <3>1, <3>3
      <4>2. k - m \in B
        BY <1>2, <4>1 DEF Places
      <4>3. QED
        BY <4>1, <4>2
    <3>4. QED
      BY <3>2, <3>3
  <2>2. ASSUME NEW k \in A
        PROVE  k \in Places(a \o b, i)
    <3>1. k \in 1..m /\ a[k].id = i
      BY <1>2 DEF Places
    <3>2. k \in 1..(m + Len(b)) /\ k <= m
      BY <1>1, <3>1
    <3>3. QED
      BY <1>1, <1>2, <3>1, <3>2 DEF Places
  <2>3. ASSUME NEW k \in B
        PROVE  k + m \in Places(a \o b, i)
    <3>1. k \in 1..Len(b) /\ b[k].id = i
      BY <1>2 DEF Places
    <3>2. k + m \in 1..(m + Len(b)) /\ ~(k + m <= m) /\ (k + m) - m = k
      BY <1>1, <3>1
    <3>3. QED
      BY <1>1, <1>2, <3>1, <3>2 DEF Places
  <2>4. QED
    BY <2>1, <2>2, <2>3
<1>5. A \cap C = {}
  <2>1. ASSUME NEW k \in A, k \in C
        PROVE  FALSE
    <3>1. k \in 1..m
      BY <1>2 DEF Places
    <3>2. PICK l \in B : k = l + m
      BY <2>1
    <3>3. l \in 1..Len(b)
      BY <1>3
    <3>4. QED
      BY <1>1, <3>1, <3>2, <3>3
  <2>2. QED
    BY <2>1
<1>6. IsFiniteSet(A) /\ IsFiniteSet(B)
  BY CopiesType
<1>7. IsFiniteSet(C) /\ Cardinality(C) = Cardinality(B)
  <2>1. f \in [B -> C]
    OBVIOUS
  <2>2. \A x, y \in B : f[x] = f[y] => x = y
    BY <1>1, <1>3
  <2>3. \A t \in C : \E k \in B : f[k] = t
    OBVIOUS
  <2> HIDE DEF B, C, f
  <2>4. f \in Bijection(B, C)
    BY <2>1, <2>2, <2>3, Fun_IsBij
  <2>5. ExistsBijection(B, C)
    BY <2>4 DEF ExistsBijection
  <2>6. QED
    BY <1>6, <2>5, FS_Bijection
<1>8. Cardinality(A \cup C) = Cardinality(A) + Cardinality(C) - Cardinality(A \cap C)
  BY <1>6, <1>7, FS_Union
<1>9. Cardinality(A \cap C) = 0 /\ Cardinality(A) \in Nat /\ Cardinality(C) \in Nat
  BY <1>5, <1>6, <1>7, FS_EmptySet, FS_CardinalityType
<1>10. Copies(a \o b, i) = Cardinality(A \cup C)
  BY <1>1, <1>4, CopiesType
<1>11. Copies(a, i) = Cardinality(A) /\ Copies(b, i) = Cardinality(B)
  BY CopiesType
<1> HIDE DEF A, B, C
<1>12. QED
  BY <1>7, <1>8, <1>9, <1>10, <1>11

\* A queue with one more.
LEMMA CopiesAppend ==
  ASSUME NEW S, NEW q \in Seq(S), NEW r \in S, NEW i
  PROVE  Copies(Append(q, r), i) = Copies(q, i) + Is(r, i)
<1>1. Append(q, r) = q \o <<r>> /\ <<r>> \in Seq(S)
  OBVIOUS
<1>2. Copies(q \o <<r>>, i) = Copies(q, i) + Copies(<<r>>, i)
  BY <1>1, CopiesConcat
<1>3. QED
  BY <1>1, <1>2, CopiesOne

\* A queue, cut in two.
LEMMA CopiesSplit ==
  ASSUME NEW S, NEW q \in Seq(S), NEW j \in 0..Len(q), NEW i
  PROVE  /\ SubSeq(q, 1, j) \in Seq(S) /\ SubSeq(q, j + 1, Len(q)) \in Seq(S)
         /\ Copies(q, i) = Copies(SubSeq(q, 1, j), i) + Copies(SubSeq(q, j + 1, Len(q)), i)
<1>1. SubSeq(q, 1, j) \in Seq(S) /\ SubSeq(q, j + 1, Len(q)) \in Seq(S)
  <2>1. \A k \in 1..Len(q) : q[k] \in S
    BY ElementOfSeq
  <2>2. (\A k \in 1..j : q[k] \in S) /\ (\A k \in (j + 1)..Len(q) : q[k] \in S)
    BY <2>1
  <2>3. QED
    BY <2>2, SubSeqProperties
<1>2. SubSeq(q, 1, j) \o SubSeq(q, j + 1, Len(q)) = q
  <2>1. 1 \in 1..(Len(q) + 1) /\ j \in (1 - 1)..Len(q) /\ Len(q) \in j..Len(q)
    OBVIOUS
  <2>2. SubSeq(q, 1, j) \o SubSeq(q, j + 1, Len(q)) = SubSeq(q, 1, Len(q))
    BY <2>1, ConcatAdjacentSubSeq
  <2>3. QED
    BY <2>2, SubSeqFull
<1> DEFINE a == SubSeq(q, 1, j)
           b == SubSeq(q, j + 1, Len(q))
<1>3. a \in Seq(S) /\ b \in Seq(S) /\ q = a \o b
  BY <1>1, <1>2
<1> HIDE DEF a, b
<1>4. Copies(a \o b, i) = Copies(a, i) + Copies(b, i)
  BY <1>3, CopiesConcat
<1>5. Copies(q, i) = Copies(a, i) + Copies(b, i)
  BY <1>3, <1>4
<1>6. QED
  BY <1>1, <1>5 DEF a, b

\* A queue without its head.
LEMMA CopiesTail ==
  ASSUME NEW S, NEW q \in Seq(S), q # <<>>, NEW i
  PROVE  Copies(q, i) = Is(Head(q), i) + Copies(Tail(q), i)
<1>1. Head(q) \in S /\ Tail(q) \in Seq(S) /\ q = <<Head(q)>> \o Tail(q)
  OBVIOUS
<1>2. <<Head(q)>> \in Seq(S)
  BY <1>1
<1>3. Copies(<<Head(q)>> \o Tail(q), i) = Copies(<<Head(q)>>, i) + Copies(Tail(q), i)
  BY <1>1, <1>2, CopiesConcat
<1>4. QED
  BY <1>1, <1>3, CopiesOne

---------------------------------------------------------------------------
(* The responses in a queue *)

Down == Replies \cup {Media}

\* The recursion of Answers.
AnswerStep(q, s, i) == IF IsReply(q[i]) THEN Append(s, q[i]) ELSE s

IsFilter(q, n, g) ==
  g = [i \in 0..n |-> IF i = 0 THEN <<>> ELSE AnswerStep(q, g[i - 1], i)]

\* It has a solution for every length.
LEMMA FilterExists ==
  ASSUME NEW q
  PROVE  \A n \in Nat : \E g : IsFilter(q, n, g)
<1> DEFINE T == {n \in Nat : \E g : IsFilter(q, n, g)}
<1>1. 0 \in T
  <2> DEFINE g == [i \in 0..0 |-> <<>>]
  <2>1. IsFilter(q, 0, g)
    BY DEF IsFilter
  <2>2. QED
    BY <2>1
<1>2. ASSUME NEW n \in Nat, n \in T
      PROVE  n + 1 \in T
  <2>1. PICK g : IsFilter(q, n, g)
    BY <1>2
  <2> DEFINE D == 0..(n + 1)
             h == [i \in D |-> IF i = n + 1 THEN AnswerStep(q, g[n], n + 1) ELSE g[i]]
             R(i) == IF i = 0 THEN <<>> ELSE AnswerStep(q, h[i - 1], i)
  <2>2. \A i \in 0..n : g[i] = IF i = 0 THEN <<>> ELSE AnswerStep(q, g[i - 1], i)
    BY <2>1 DEF IsFilter
  <2>3. \A i \in 0..n : h[i] = g[i]
    OBVIOUS
  <2>4. h[n + 1] = AnswerStep(q, g[n], n + 1) /\ h = [i \in D |-> h[i]]
    OBVIOUS
  <2>5. ASSUME NEW i \in D
        PROVE  h[i] = R(i)
    <3>1. CASE i = n + 1
      <4>1. i # 0 /\ i - 1 = n /\ n \in 0..n
        BY <3>1
      <4>2. h[i - 1] = g[n]
        BY <2>3, <4>1
      <4> HIDE DEF h
      <4>3. QED
        BY <2>4, <3>1, <4>1, <4>2
    <3>2. CASE i # n + 1
      <4>1. i \in 0..n /\ (i # 0 => i - 1 \in 0..n)
        BY <3>2
      <4>2. h[i] = g[i] /\ (i # 0 => h[i - 1] = g[i - 1])
        BY <2>3, <4>1
      <4> HIDE DEF h
      <4>3. QED
        BY <2>2, <4>1, <4>2
    <3>3. QED
      BY <3>1, <3>2
  <2>6. h = [i \in D |-> R(i)]
    <3> HIDE DEF h, D
    <3>1. [i \in D |-> h[i]] = [i \in D |-> R(i)]
      BY <2>5
    <3>2. QED
      BY <2>4, <3>1
  <2>7. IsFilter(q, n + 1, h)
    BY <2>6 DEF IsFilter
  <2>8. QED
    BY <2>7
<1>3. Nat \subseteq T
  <2> HIDE DEF T
  <2>1. QED
    BY <1>1, <1>2, SetInduction
<1>4. QED
  BY <1>3

\* The responses are all of the queue but the media, which has no number.
LEMMA AnswersFacts ==
  ASSUME NEW q \in Seq(Down)
  PROVE  /\ Answers(q) \in Seq(Replies)
         /\ \A i \in 1..MaxReq : Copies(Answers(q), i) = Copies(q, i)
<1> DEFINE n == Len(q)
           g == CHOOSE f : IsFilter(q, n, f)
           Good(m) == /\ g[m] \in Seq(Replies)
                      /\ \A i \in 1..MaxReq : Copies(g[m], i) = Copies(SubSeq(q, 1, m), i)
           T == {m \in Nat : m <= n => Good(m)}
<1>1. n \in Nat /\ \A k \in 1..n : q[k] \in Down
  BY ElementOfSeq
<1>2. IsFilter(q, n, g)
  BY <1>1, FilterExists
<1>3. Answers(q) = g[n]
  BY DEF Answers, IsFilter, AnswerStep
<1> HIDE DEF g
<1>4. \A i \in 0..n : g[i] = IF i = 0 THEN <<>> ELSE AnswerStep(q, g[i - 1], i)
  BY <1>2 DEF IsFilter
<1>5. 0 \in T
  <2>1. g[0] = <<>>
    BY <1>1, <1>4
  <2>2. SubSeq(q, 1, 0) = <<>>
    BY SubSeqEmpty
  <2>3. g[0] \in Seq(Replies)
    BY <2>1
  <2>4. \A i \in 1..MaxReq : Copies(g[0], i) = Copies(SubSeq(q, 1, 0), i)
    BY <2>1, <2>2, Zenon
  <2>5. QED
    BY <2>3, <2>4
<1>6. ASSUME NEW m \in Nat, m \in T
      PROVE  m + 1 \in T
  <2> SUFFICES ASSUME m + 1 <= n
               PROVE  Good(m + 1)
    OBVIOUS
  <2>1. m <= n /\ m + 1 \in 1..n /\ m + 1 # 0 /\ (m + 1) - 1 = m /\ m + 1 \in 0..n
    BY <1>1
  <2>2. Good(m)
    BY <1>6, <2>1
  <2> DEFINE x == q[m + 1]
             a == SubSeq(q, 1, m)
  <2>3. x \in Down
    BY <1>1, <2>1
  <2>4. g[m + 1] = IF IsReply(x) THEN Append(g[m], x) ELSE g[m]
    BY <1>4, <2>1 DEF AnswerStep
  <2>5. a \in Seq(Down) /\ SubSeq(q, 1, m + 1) = Append(a, x)
    <3>1. \A k \in 1..m : q[k] \in Down
      BY <1>1, <2>1
    <3>2. a \in Seq(Down)
      BY <3>1, SubSeqProperties
    <3>3. 1 \in 1..Len(q) /\ m + 1 \in 1..Len(q)
      BY <2>1
    <3>4. SubSeq(q, 1, m + 1) = SubSeq(q, 1, (m + 1) - 1) \o <<q[m + 1]>>
      BY <3>3, SubSeqRecursiveSecond
    <3>5. SubSeq(q, 1, m + 1) = a \o <<x>>
      BY <2>1, <3>4
    <3> HIDE DEF a, x
    <3>6. QED
      BY <2>3, <3>2, <3>5
  <2> HIDE DEF a, x
  <2>6. CASE IsReply(x)
    <3>1. x \in Replies
      BY <2>3, <2>6 DEF Down, IsReply
    <3>2. g[m + 1] = Append(g[m], x) /\ g[m + 1] \in Seq(Replies)
      BY <2>2, <2>4, <2>6, <3>1
    <3>3. ASSUME NEW i \in 1..MaxReq
          PROVE  Copies(g[m + 1], i) = Copies(SubSeq(q, 1, m + 1), i)
      <4>1. Copies(g[m + 1], i) = Copies(g[m], i) + Is(x, i)
        BY <2>2, <3>1, <3>2, CopiesAppend
      <4>2. Copies(Append(a, x), i) = Copies(a, i) + Is(x, i)
        BY <2>3, <2>5, CopiesAppend
      <4>3. Copies(g[m], i) = Copies(a, i)
        BY <2>2 DEF a
      <4>4. QED
        BY <2>5, <4>1, <4>2, <4>3
    <3>4. QED
      BY <3>2, <3>3
  <2>7. CASE ~IsReply(x)
    <3>1. x = Media /\ g[m + 1] = g[m]
      BY <2>4, <2>7 DEF IsReply
    <3>2. ASSUME NEW i \in 1..MaxReq
          PROVE  Copies(g[m + 1], i) = Copies(SubSeq(q, 1, m + 1), i)
      <4>1. Copies(Append(a, x), i) = Copies(a, i) + Is(x, i)
        BY <2>3, <2>5, CopiesAppend
      <4>2. Is(x, i) = 0
        BY <3>1 DEF Is, Media
      <4>3. Copies(g[m], i) = Copies(a, i)
        BY <2>2 DEF a
      <4>4. Copies(a, i) \in Nat
        BY <2>5, CopiesType
      <4>5. Copies(Append(a, x), i) = Copies(a, i)
        BY <4>1, <4>2, <4>4
      <4>6. Copies(g[m + 1], i) = Copies(a, i)
        BY <3>1, <4>3
      <4>7. QED
        BY <2>5, <4>5, <4>6, Zenon
    <3>3. QED
      BY <2>2, <3>1, <3>2
  <2>8. QED
    BY <2>6, <2>7
<1>7. Nat \subseteq T
  <2> HIDE DEF T
  <2>1. QED
    BY <1>5, <1>6, SetInduction
<1>8. Good(n)
  BY <1>1, <1>7
<1>9. SubSeq(q, 1, n) = q
  BY SubSeqFull
<1>10. QED
  BY <1>3, <1>8, <1>9

---------------------------------------------------------------------------
(* The operators of the handlers *)

StunType == [on : BOOLEAN, reply : BOOLEAN, lost : 0..StunLosses]

\* Recording a STUN reply does not change the mode.
LEMMA StunFacts ==
  ASSUME NEW t \in StunType, NEW b \in BOOLEAN
  PROVE  /\ [t EXCEPT !.reply = b] \in StunType
         /\ [t EXCEPT !.reply = b].on = t.on
         /\ t.lost < StunLosses =>
              /\ [t EXCEPT !.reply = b, !.lost = @ + 1] \in StunType
              /\ [t EXCEPT !.reply = b, !.lost = @ + 1].on = t.on
<1>1. t.on \in BOOLEAN /\ t.reply \in BOOLEAN /\ t.lost \in 0..StunLosses
  BY DEF StunType
<1>2. [t EXCEPT !.reply = b] = [on |-> t.on, reply |-> b, lost |-> t.lost]
  BY DEF StunType
<1>3. [t EXCEPT !.reply = b, !.lost = @ + 1] = [on |-> t.on, reply |-> b, lost |-> t.lost + 1]
  <2> DEFINE u == [t EXCEPT !.reply = b]
             n == t.lost + 1
  <2>1. [t EXCEPT !.reply = b, !.lost = @ + 1] = [u EXCEPT !.lost = n]
    OBVIOUS
  <2>2. u = [on |-> t.on, reply |-> b, lost |-> t.lost]
    BY <1>2
  <2> HIDE DEF n, u
  <2>3. [u EXCEPT !.lost = n] = [on |-> t.on, reply |-> b, lost |-> n]
    BY <2>2
  <2>4. QED
    BY <2>1, <2>3 DEF n
<1>4. t.lost < StunLosses => t.lost + 1 \in 0..StunLosses
  BY <1>1, BoundsAssumption
<1> DEFINE l == t.lost + 1
<1>5. [on |-> t.on, reply |-> b, lost |-> t.lost] \in StunType
  BY <1>1 DEF StunType
<1>6. t.lost < StunLosses => [on |-> t.on, reply |-> b, lost |-> l] \in StunType
  <2> HIDE DEF l
  <2>1. t.lost < StunLosses => l \in 0..StunLosses
    BY <1>4 DEF l
  <2>2. QED
    BY <1>1, <2>1 DEF StunType
<1>7. QED
  BY <1>2, <1>3, <1>5, <1>6

\* A request with a new Transport header is the same request.
LEMMA EditFacts ==
  ASSUME NEW r \in Requests, NEW o \in Transport, NEW b \in BOOLEAN
  PROVE  LET x == [r EXCEPT !.over = o, !.ours = b]
         IN x \in Requests /\ x.id = r.id /\ x.kind = r.kind /\ x.ours = b
<1> DEFINE x == [r EXCEPT !.over = o, !.ours = b]
           y == [r EXCEPT !.over = o]
<1>1. r.id \in 0..MaxReq /\ r.kind \in Kinds
  BY DEF Requests
<1>2. x = [y EXCEPT !.ours = b]
  OBVIOUS
<1>3. y = [id |-> r.id, kind |-> r.kind, over |-> o, ours |-> r.ours]
  BY DEF Requests
<1> HIDE DEF x, y
<1>4. x = [id |-> r.id, kind |-> r.kind, over |-> o, ours |-> b]
  BY <1>2, <1>3
<1>5. x \in Requests /\ x.id = r.id /\ x.kind = r.kind /\ x.ours = b
  BY <1>1, <1>4 DEF Requests
<1>6. QED
  BY <1>5 DEF x

\* So are a SETUP patched for the relay's ports, and one retried over TCP.
LEMMA PatchedFacts ==
  ASSUME NEW r \in Requests
  PROVE  /\ Patched(r) \in Requests
         /\ Patched(r).id = r.id /\ Patched(r).kind = r.kind /\ Patched(r).ours
         /\ LET again == [r EXCEPT !.over = "tcp", !.ours = TRUE]
            IN again \in Requests /\ again.id = r.id /\ again.kind = r.kind /\ again.ours
<1>1. "udp" \in Transport /\ "tcp" \in Transport /\ TRUE \in BOOLEAN
  BY DEF Transport
<1>2. LET x == [r EXCEPT !.over = "udp", !.ours = TRUE]
      IN x \in Requests /\ x.id = r.id /\ x.kind = r.kind /\ x.ours = TRUE
  BY <1>1, EditFacts, Zenon
<1>3. LET x == [r EXCEPT !.over = "tcp", !.ours = TRUE]
      IN x \in Requests /\ x.id = r.id /\ x.kind = r.kind /\ x.ours = TRUE
  BY <1>1, EditFacts, Zenon
<1>4. QED
  BY <1>2, <1>3, Zenon DEF Patched

\* The send loop moves requests from the queue to the server, and leaves EPOLLOUT
\* registered while some are left.
LEMMA DrainFacts ==
  ASSUME NEW S, NEW before \in Seq(S), NEW q \in Seq(S), NEW st, Drain(before, q, st),
         closed \in BOOLEAN, wantUpOut \in BOOLEAN
  PROVE  /\ inflight' \in Seq(S) /\ toUp' \in Seq(S)
         /\ closed' \in BOOLEAN /\ wantUpOut' \in BOOLEAN
         /\ closed => closed'
         /\ ~closed' /\ toUp' # <<>> => wantUpOut'
         /\ state' \in {st, "WAIT_UPSTREAM_RESP"}
         /\ \A i : Copies(inflight', i) + Copies(toUp', i) = Copies(before, i) + Copies(q, i)
<1>1. PICK j \in 0..Len(q), fails \in BOOLEAN :
        /\ fails => j < Len(q)
        /\ inflight' = before \o SubSeq(q, 1, j)
        /\ toUp' = SubSeq(q, j + 1, Len(q))
        /\ state' = IF j > 0 THEN "WAIT_UPSTREAM_RESP" ELSE st
        /\ closed' = (closed \/ fails)
        /\ wantUpOut' = IF fails THEN wantUpOut ELSE j < Len(q)
  BY DEF Drain
<1>2. SubSeq(q, 1, j) \in Seq(S) /\ toUp' \in Seq(S)
  BY <1>1, CopiesSplit
<1>3. inflight' \in Seq(S)
  BY <1>1, <1>2, ConcatProperties
<1>4. closed' \in BOOLEAN /\ wantUpOut' \in BOOLEAN /\ (closed => closed')
  <2>1. (j < Len(q)) \in BOOLEAN
    OBVIOUS
  <2>2. wantUpOut' \in BOOLEAN
    <3>1. CASE fails
      BY <1>1, <3>1
    <3>2. CASE ~fails
      BY <1>1, <2>1, <3>2
    <3>3. QED
      BY <3>1, <3>2
  <2>3. QED
    BY <1>1, <2>2
<1>5. ~closed' /\ toUp' # <<>> => wantUpOut'
  <2>1. ~(j < Len(q)) => toUp' = <<>>
    <3>1. Len(q) \in Nat
      OBVIOUS
    <3>2. ~(j < Len(q)) => Len(q) < j + 1
      BY <3>1
    <3>3. QED
      BY <1>1, <3>1, <3>2, SubSeqEmpty
  <2>2. QED
    BY <1>1, <2>1
<1>6. ASSUME NEW i
      PROVE  Copies(inflight', i) + Copies(toUp', i) = Copies(before, i) + Copies(q, i)
  <2> DEFINE a == SubSeq(q, 1, j)
  <2>1. Copies(q, i) = Copies(a, i) + Copies(toUp', i)
    BY <1>1, CopiesSplit
  <2>2. Copies(before \o a, i) = Copies(before, i) + Copies(a, i)
    BY <1>2, CopiesConcat
  <2>3. Copies(a, i) \in Nat /\ Copies(before, i) \in Nat /\ Copies(toUp', i) \in Nat
    BY <1>2, CopiesType
  <2> HIDE DEF a
  <2>4. Copies(inflight', i) = Copies(before \o a, i)
    BY <1>1, Zenon DEF a
  <2>5. QED
    BY <2>1, <2>2, <2>3, <2>4
<1>7. state' \in {st, "WAIT_UPSTREAM_RESP"}
  BY <1>1
<1>8. QED
  BY <1>2, <1>3, <1>4, <1>5, <1>6, <1>7

\* A queue of one set of requests is one of a larger set.
LEMMA SetFacts ==
  /\ ClientReq \subseteq UpReq /\ UpReq \subseteq Requests /\ ClientReq \subseteq Requests
  /\ Setups \subseteq ClientReq
  /\ Keepalive \in UpReq /\ NoReq \in Requests /\ NoReq \notin ClientReq
  /\ \A r \in ClientReq : r.id \in 1..MaxReq
  /\ \A r \in UpReq : r.id # 0 => r \in ClientReq
<1>1. Keepalive \in Requests
  BY BoundsAssumption DEF Keepalive, Requests, Kinds, Transport
<1>2. Keepalive.id = 0
  BY DEF Keepalive
<1>3. \A r \in Requests : r.id \in 0..MaxReq
  BY DEF Requests
<1>4. \A r \in ClientReq : r.id \in 1..MaxReq
  BY <1>3, BoundsAssumption DEF ClientReq
<1>5. QED
  BY <1>1, <1>2, <1>4 DEF ClientReq, UpReq, Setups, NoReq

---------------------------------------------------------------------------
(* The inductive invariant, action by action *)

\* The first request is stashed.
LEMMA InitInv == Init => IndInv
<1> SUFFICES ASSUME Init
             PROVE  IndInv
  OBVIOUS
<1>1. PICK r \in Fresh(1, FirstKinds) : recvBuf = <<r>>
  BY DEF Init
<1>2. r \in ClientReq /\ r \in Requests /\ r.kind \in FirstKinds
  BY <1>1 DEF Fresh, ClientReq
<1>3. stun \in StunType
  <2>1. PICK b \in StunModes : stun = [on |-> b, reply |-> FALSE, lost |-> 0]
    BY DEF Init
  <2>2. b \in BOOLEAN
    BY ModesAssumption
  <2>3. QED
    BY <2>1, <2>2, BoundsAssumption DEF StunType
<1>4. TypeOK
  <2>1. recvBuf \in Seq(Requests) /\ sent \in Seq(Requests)
    BY <1>1, <1>2 DEF Init
  <2>2. NoReq \in Requests
    BY SetFacts
  <2>3. /\ wire \in Seq(Requests) /\ inflight \in Seq(Requests) /\ toUp \in Seq(Requests)
        /\ toDown \in Seq(Replies \cup {Media}) /\ got \in Seq(Replies)
    BY DEF Init
  <2>4. /\ {closed, gone, wantUpOut, wantDsOut, parsing, pendingPlay, retried} \subseteq BOOLEAN
        /\ {usTcp, dsTcp, relay, timer, played} \subseteq BOOLEAN
    BY Zenon DEF Init
  <2>5. {wire, inflight, recvBuf, toUp} \subseteq Seq(Requests)
    BY <2>1, <2>3
  <2>6. {pendingSetup, lastSetup} \subseteq Requests
    BY <2>2 DEF Init
  <2>7. state \in States /\ answered \cup dropped \cup overTcp \subseteq 1..MaxReq
    BY DEF Init, States
  <2>8. QED
    BY <1>3, <2>1, <2>3, <2>4, <2>5, <2>6, <2>7, Zenon DEF TypeOK, StunType
<1>5. Shape
  <2>1. Len(sent) = 1 /\ 1 <= MaxReq
    BY <1>1, BoundsAssumption DEF Init
  <2>2. QED
    BY <1>1, <1>2, <2>1 DEF Init, Shape
<1>6. SetupStored
  BY DEF Init, SetupStored
<1>7. Connecting
  <2>1. recvBuf \in Seq({x \in ClientReq : x.kind \in FirstKinds})
    BY <1>1, <1>2
  <2>2. QED
    BY <2>1 DEF Init, Connecting
<1>8. QED
  BY <1>4, <1>5, <1>6, <1>7 DEF IndInv

\* A request is queued for the server.
LEMMA PushUpFacts ==
  ASSUME NEW S, toUp \in Seq(S), NEW r \in S, PushUp(r)
  PROVE  /\ toUp' \in Seq(S) /\ wantUpOut' = TRUE
         /\ \A i : Copies(toUp', i) = Copies(toUp, i) + Is(r, i)
<1>1. toUp' = Append(toUp, r) /\ wantUpOut' = TRUE
  BY DEF PushUp
<1>2. toUp' \in Seq(S)
  BY <1>1
<1>3. ASSUME NEW i
      PROVE  Copies(toUp', i) = Copies(toUp, i) + Is(r, i)
  BY <1>1, CopiesAppend
<1>4. QED
  BY <1>1, <1>2, <1>3

\* The head of a queue that is being read.
LEMMA HeadFacts ==
  ASSUME NEW S, NEW q \in Seq(S), q # <<>>
  PROVE  Head(q) \in S /\ Tail(q) \in Seq(S)
BY HeadTailProperties

\* Steps that change no queue towards the server.
LEMMA QuietInv ==
  ASSUME IndInv, ConnectFails \/ StrayStunReply \/ StunLost \/ PeerCloses \/ Destroy
                 \/ UNCHANGED vars
  PROVE  IndInv'
<1>1. /\ UNCHANGED <<state, wantUpOut, wantDsOut, flow, pendingPlay, pendingSetup, lastSetup,
                     retried, usTcp, dsTcp, relay, timer, client>>
      /\ closed' = closed \/ closed' = TRUE
      /\ gone' = gone \/ gone' = TRUE
  BY DEF ConnectFails, StrayStunReply, StunLost, PeerCloses, Destroy, vars, conn, flow, setup,
         client
<1>2. stun' \in StunType
  <2>1. stun \in StunType /\ FALSE \in BOOLEAN
    BY DEF IndInv, TypeOK, StunType
  <2>2. CASE stun' = stun
    BY <2>1, <2>2
  <2>3. CASE stun' = [stun EXCEPT !.reply = FALSE]
    BY <2>1, <2>3, StunFacts
  <2>4. CASE stun.lost < StunLosses /\ stun' = [stun EXCEPT !.reply = FALSE, !.lost = @ + 1]
    BY <2>1, <2>4, StunFacts
  <2>5. QED
    BY <2>2, <2>3, <2>4
       DEF ConnectFails, StrayStunReply, StunLost, PeerCloses, Destroy, vars, setup
<1>3. closed' \in BOOLEAN /\ gone' \in BOOLEAN
  BY <1>1 DEF IndInv, TypeOK
<1>4. TypeOK'
  BY <1>1, <1>2, <1>3 DEF IndInv, TypeOK, StunType, flow, client
<1>5. Shape' /\ SetupStored' /\ Connecting'
  BY <1>1 DEF IndInv, Shape, SetupStored, Connecting, Connected, flow, client
<1>6. QED
  BY <1>4, <1>5 DEF IndInv

\* The connection is there, or has room again.
LEMMA WritableInv ==
  ASSUME IndInv, ConnectDone \/ UpstreamWritable
  PROVE  IndInv'
<1>0. /\ UNCHANGED <<gone, wantDsOut, wire, parsing, toDown, setup, client>>
      /\ recvBuf' = recvBuf \/ (recvBuf' = <<>> /\ ~parsing)
      /\ ~parsing
  BY DEF ConnectDone, UpstreamWritable, Ready
<1>1. PICK q, st : /\ q \in Seq(UpReq) /\ Drain(inflight, q, st)
                   /\ st \in States \ {"WAIT_UPSTREAM_CONNECT"}
                   /\ st = "WAIT_STUN" => state = "WAIT_STUN"
  <2>1. CASE ConnectDone
    <3>1. recvBuf \in Seq(UpReq)
      BY SetFacts, SeqMonotonic DEF IndInv, Shape
    <3>2. toUp \o recvBuf \in Seq(UpReq)
      BY <3>1, ConcatProperties DEF IndInv, Shape
    <3>3. Drain(inflight, toUp \o recvBuf, "IDLE")
      BY <2>1 DEF ConnectDone
    <3>4. "IDLE" \in States \ {"WAIT_UPSTREAM_CONNECT"} /\ "IDLE" # "WAIT_STUN"
      BY DEF States
    <3>5. QED
      BY <3>2, <3>3, <3>4, Zenon
  <2>2. CASE UpstreamWritable
    <3>1. Drain(inflight, toUp, state) /\ state # "WAIT_UPSTREAM_CONNECT"
      BY <2>2 DEF UpstreamWritable, Connected
    <3>2. QED
      BY <3>1 DEF IndInv, TypeOK, Shape
  <2>3. QED
    BY <2>1, <2>2
<1>2. /\ inflight' \in Seq(UpReq) /\ toUp' \in Seq(UpReq)
      /\ closed' \in BOOLEAN /\ wantUpOut' \in BOOLEAN
      /\ state' \in {st, "WAIT_UPSTREAM_RESP"}
  BY <1>1, DrainFacts DEF IndInv, TypeOK, Shape
<1>3. inflight' \in Seq(Requests) /\ toUp' \in Seq(Requests)
  BY <1>2, SetFacts, SeqMonotonic
<1>4. recvBuf' \in Seq(ClientReq) /\ recvBuf' \in Seq(Requests)
  <2>1. recvBuf \in Seq(ClientReq) /\ <<>> \in Seq(ClientReq)
    BY EmptySeq DEF IndInv, Shape
  <2>2. recvBuf' \in Seq(ClientReq)
    BY <1>0, <2>1, Zenon
  <2>3. QED
    BY <2>2, SetFacts, SeqMonotonic
<1>5. state' \in States /\ Connected'
  BY <1>1, <1>2 DEF States, Connected
<1>6. TypeOK'
  BY <1>0, <1>2, <1>3, <1>4, <1>5 DEF IndInv, TypeOK, setup, client
<1>7. Shape'
  BY <1>0, <1>2, <1>4 DEF IndInv, Shape, client
<1>8. SetupStored'
  BY <1>0, <1>1, <1>2 DEF IndInv, SetupStored, setup
<1>9. Connecting'
  BY <1>5 DEF Connecting
<1>10. QED
  BY <1>6, <1>7, <1>8, <1>9 DEF IndInv

\* The client sends its next request.
LEMMA SendInv ==
  ASSUME IndInv, NEW r \in Requests, ClientSend(r)
  PROVE  IndInv'
<1>1. /\ r.id = Len(sent) + 1 /\ sent' = Append(sent, r) /\ wire' = Append(wire, r)
      /\ UNCHANGED <<conn, inflight, recvBuf, parsing, toUp, toDown, setup,
                     got, answered, dropped, played, overTcp>>
  BY DEF ClientSend, Fresh
<1>2. r \in ClientReq
  <2>1. Len(sent) \in Nat
    BY DEF IndInv, TypeOK
  <2>2. QED
    BY <1>1, <2>1 DEF ClientReq
<1>3. wire' \in Seq(ClientReq) /\ sent' \in Seq(Requests)
  BY <1>1, <1>2 DEF IndInv, TypeOK, Shape
<1>4. wire' \in Seq(Requests)
  BY <1>3, SetFacts, SeqMonotonic
<1>5. TypeOK'
  BY <1>1, <1>3, <1>4 DEF IndInv, TypeOK, conn, setup
<1>6. Len(sent') <= MaxReq
  BY <1>1, BoundsAssumption DEF ClientSend, IndInv, TypeOK
<1>7. Shape' /\ SetupStored' /\ Connecting'
  BY <1>1, <1>3, <1>6 DEF IndInv, Shape, SetupStored, Connecting, Connected, conn, setup
<1>8. QED
  BY <1>5, <1>7 DEF IndInv

\* The proxy receives some of what was sent.
LEMMA ReadableInv ==
  ASSUME IndInv, NEW j, DownstreamReadable(j)
  PROVE  /\ IndInv'
         /\ \A i : Copies(recvBuf', i) + Copies(wire', i) = Copies(recvBuf, i) + Copies(wire, i)
<1> DEFINE a == SubSeq(wire, 1, j)
<1>1. /\ j \in 1..Len(wire) /\ recvBuf' = recvBuf \o a
      /\ wire' = SubSeq(wire, j + 1, Len(wire)) /\ parsing' = TRUE /\ Connected
      /\ UNCHANGED <<conn, inflight, toUp, toDown, setup, client>>
  BY DEF DownstreamReadable
<1>2. j \in 0..Len(wire) /\ wire \in Seq(ClientReq) /\ recvBuf \in Seq(ClientReq)
  BY <1>1 DEF IndInv, Shape
<1>3. a \in Seq(ClientReq) /\ wire' \in Seq(ClientReq)
  BY <1>1, <1>2, CopiesSplit
<1>4. Len(a) = j
  <2>1. 1 \in Int /\ j \in Int /\ 1 <= j + 1
    BY <1>1
  <2>2. \A k \in 1..j : wire[k] \in ClientReq
    <3>1. \A k \in 1..Len(wire) : wire[k] \in ClientReq
      BY <1>2, ElementOfSeq
    <3>2. QED
      BY <1>1, <3>1
  <2>3. QED
    BY <1>1, <1>2, <2>2, SubSeqProperties
<1> HIDE DEF a
<1>5. recvBuf' \in Seq(ClientReq) /\ recvBuf' # <<>>
  <2>1. recvBuf' \in Seq(ClientReq) /\ Len(recvBuf') = Len(recvBuf) + Len(a)
    BY <1>1, <1>2, <1>3, ConcatProperties
  <2>2. Len(recvBuf') # 0
    BY <1>1, <1>2, <1>4, <2>1
  <2>3. QED
    BY <2>1, <2>2
<1>6. wire' \in Seq(Requests) /\ recvBuf' \in Seq(Requests)
  BY <1>3, <1>5, SetFacts, SeqMonotonic
<1>7. TypeOK'
  BY <1>1, <1>6 DEF IndInv, TypeOK, conn, setup, client
<1>8. Shape' /\ SetupStored' /\ Connecting'
  BY <1>1, <1>3, <1>5 DEF IndInv, Shape, SetupStored, Connecting, Connected, conn, setup, client
<1>9. ASSUME NEW i
      PROVE  Copies(recvBuf', i) + Copies(wire', i) = Copies(recvBuf, i) + Copies(wire, i)
  <2>1. Copies(wire, i) = Copies(a, i) + Copies(wire', i)
    BY <1>1, <1>2, CopiesSplit DEF a
  <2>2. Copies(recvBuf \o a, i) = Copies(recvBuf, i) + Copies(a, i)
    BY <1>2, <1>3, CopiesConcat
  <2>3. Copies(a, i) \in Nat /\ Copies(recvBuf, i) \in Nat /\ Copies(wire', i) \in Nat
    BY <1>2, <1>3, CopiesType
  <2>4. QED
    BY <1>1, <2>1, <2>2, <2>3
<1>10. QED
  BY <1>7, <1>8, <1>9 DEF IndInv

\* What the parse loop finds at the head of the buffer.
LEMMA ParseFacts ==
  ASSUME IndInv, parsing
  PROVE  /\ Connected /\ recvBuf # <<>> /\ recvBuf \in Seq(ClientReq)
         /\ Head(recvBuf) \in ClientReq /\ Head(recvBuf) \in UpReq /\ Head(recvBuf) \in Requests
         /\ Tail(recvBuf) \in Seq(ClientReq) /\ Tail(recvBuf) \in Seq(Requests)
<1>1. Connected /\ recvBuf # <<>> /\ recvBuf \in Seq(ClientReq)
  BY DEF IndInv, Shape, Connecting
<1>2. Head(recvBuf) \in ClientReq /\ Tail(recvBuf) \in Seq(ClientReq)
  BY <1>1, HeadFacts
<1>3. Tail(recvBuf) \in Seq(Requests)
  BY <1>2, SetFacts, SeqMonotonic
<1>4. QED
  BY <1>1, <1>2, <1>3, SetFacts

\* A request is forwarded.
LEMMA ForwardInv ==
  ASSUME IndInv, ForwardRequest
  PROVE  IndInv'
<1> DEFINE r == Head(recvBuf)
           t == Tail(recvBuf)
<1>1. /\ parsing /\ pendingPlay' = (r.kind = "PLAY") /\ PushUp(r)
      /\ recvBuf' = t /\ parsing' = (t # <<>>)
      /\ UNCHANGED <<state, closed, gone, wantDsOut, wire, inflight, toDown, pendingSetup,
                     lastSetup, retried, usTcp, dsTcp, relay, stun, timer, client>>
  BY DEF ForwardRequest, PlayPending
<1>2. Connected /\ r \in UpReq /\ t \in Seq(ClientReq) /\ t \in Seq(Requests)
  BY <1>1, ParseFacts
<1> HIDE DEF r, t
<1>3. toUp' \in Seq(UpReq) /\ wantUpOut' = TRUE
  BY <1>1, <1>2, PushUpFacts DEF IndInv, Shape
<1>4. toUp' \in Seq(Requests)
  BY <1>3, SetFacts, SeqMonotonic
<1>5. pendingPlay' \in BOOLEAN /\ parsing' \in BOOLEAN
  BY <1>1
<1>6. TypeOK'
  BY <1>1, <1>2, <1>3, <1>4, <1>5 DEF IndInv, TypeOK, client
<1>7. Shape' /\ SetupStored' /\ Connecting'
  BY <1>1, <1>2, <1>3 DEF IndInv, Shape, SetupStored, Connecting, Connected, client
<1>8. QED
  BY <1>6, <1>7 DEF IndInv

\* A SETUP is forwarded.
LEMMA SetupInv ==
  ASSUME IndInv, ForwardSetup
  PROVE  IndInv'
<1> DEFINE r == Head(recvBuf)
           t == Tail(recvBuf)
           p == Patched(r)
<1>1. /\ parsing /\ r.kind = "SETUP" /\ dsTcp' = (r.over = "tcp") /\ relay' = TRUE
      /\ lastSetup' = r /\ pendingPlay' = (r.kind = "PLAY") /\ PushUp(p)
      /\ recvBuf' = t /\ parsing' = (t # <<>>)
      /\ UNCHANGED <<state, closed, gone, wantDsOut, wire, inflight, toDown, pendingSetup,
                     retried, usTcp, stun, timer, client>>
  BY DEF ForwardSetup, PlayPending
<1>2. /\ Connected /\ r \in ClientReq /\ r \in Requests
      /\ t \in Seq(ClientReq) /\ t \in Seq(Requests)
  BY <1>1, ParseFacts
<1>3. p \in UpReq
  <2>1. p \in Requests /\ p.id = r.id
    BY <1>2, PatchedFacts
  <2>2. r.id # 0
    BY <1>2 DEF ClientReq
  <2> HIDE DEF r, p
  <2>3. QED
    BY <2>1, <2>2 DEF UpReq
<1> HIDE DEF r, t, p
<1>4. toUp' \in Seq(UpReq) /\ wantUpOut' = TRUE
  BY <1>1, <1>3, PushUpFacts DEF IndInv, Shape
<1>5. toUp' \in Seq(Requests)
  BY <1>4, SetFacts, SeqMonotonic
<1>6. {pendingPlay', parsing', dsTcp', relay'} \subseteq BOOLEAN
  BY <1>1, Zenon
<1>7. TypeOK'
  BY <1>1, <1>2, <1>4, <1>5, <1>6 DEF IndInv, TypeOK, client
<1>8. lastSetup' \in Setups
  BY <1>1, <1>2 DEF Setups
<1>9. Shape' /\ SetupStored' /\ Connecting'
  BY <1>1, <1>2, <1>4, <1>8 DEF IndInv, Shape, SetupStored, Connecting, Connected, client
<1>10. QED
  BY <1>7, <1>9 DEF IndInv

\* A SETUP is paused, or its relay sockets cannot be had.
LEMMA PauseInv ==
  ASSUME IndInv, PauseSetup \/ RelayFails
  PROVE  IndInv'
<1> DEFINE r == Head(recvBuf)
           t == Tail(recvBuf)
<1>1. /\ parsing /\ r.kind = "SETUP" /\ dsTcp' = (r.over = "tcp")
      /\ recvBuf' = t /\ parsing' = FALSE
      /\ UNCHANGED <<gone, wantUpOut, wantDsOut, wire, inflight, toUp, toDown, pendingPlay,
                     lastSetup, retried, usTcp, timer, client>>
      /\ \/ /\ stun' = [stun EXCEPT !.reply = TRUE] /\ closed' = closed
            /\ relay' = TRUE /\ state' = "WAIT_STUN" /\ pendingSetup' = r
         \/ /\ stun' = stun /\ closed' = TRUE
            /\ relay' = relay /\ state' = state /\ pendingSetup' = pendingSetup
  BY DEF PauseSetup, RelayFails
<1>2. /\ Connected /\ r \in ClientReq /\ r \in Requests
      /\ t \in Seq(ClientReq) /\ t \in Seq(Requests)
  BY <1>1, ParseFacts
<1> HIDE DEF r, t
<1>3. stun' \in StunType
  <2>1. stun \in StunType /\ TRUE \in BOOLEAN
    BY DEF IndInv, TypeOK, StunType
  <2>2. QED
    BY <1>1, <2>1, StunFacts
<1>4. {closed', parsing', dsTcp', relay'} \subseteq BOOLEAN /\ state' \in States
  <2>1. {closed, relay} \subseteq BOOLEAN /\ state \in States /\ "WAIT_STUN" \in States
    BY DEF IndInv, TypeOK, States
  <2>2. QED
    BY <1>1, <2>1, Zenon
<1>5. r \in Setups /\ r # NoReq
  BY <1>1, <1>2, SetFacts DEF Setups
<1>6. TypeOK'
  BY <1>1, <1>2, <1>3, <1>4 DEF IndInv, TypeOK, StunType, client
<1>7. Shape'
  BY <1>1, <1>2 DEF IndInv, Shape, client
<1>8. SetupStored'
  BY <1>1, <1>5 DEF IndInv, SetupStored
<1>9. Connecting'
  BY <1>1, <1>2 DEF Connecting, Connected
<1>10. QED
  BY <1>6, <1>7, <1>8, <1>9 DEF IndInv

\* The paused SETUP goes out.
LEMMA StunInv ==
  ASSUME IndInv, RtpWhileStun
  PROVE  IndInv'
<1> DEFINE p == Patched(pendingSetup)
<1>1. /\ state = "WAIT_STUN" /\ state' = "IDLE" /\ relay
      /\ lastSetup' = pendingSetup /\ pendingSetup' = NoReq /\ PushUp(p)
      /\ stun' \in {stun, [stun EXCEPT !.reply = FALSE]}
      /\ UNCHANGED <<closed, gone, wantDsOut, wire, inflight, recvBuf, parsing, toDown,
                     pendingPlay, retried, usTcp, dsTcp, relay, timer, client>>
  BY DEF RtpWhileStun, ResumeSetup
<1>2. pendingSetup \in Setups /\ pendingSetup \in ClientReq /\ pendingSetup \in Requests
  BY <1>1, SetFacts DEF IndInv, SetupStored
<1>3. p \in UpReq
  <2>1. p \in Requests /\ p.id = pendingSetup.id /\ pendingSetup.id # 0
    BY <1>2, PatchedFacts DEF ClientReq
  <2> HIDE DEF p
  <2>2. QED
    BY <2>1 DEF UpReq
<1> HIDE DEF p
<1>4. toUp' \in Seq(UpReq) /\ wantUpOut' = TRUE
  BY <1>1, <1>3, PushUpFacts DEF IndInv, Shape
<1>5. toUp' \in Seq(Requests)
  BY <1>4, SetFacts, SeqMonotonic
<1>6. stun' \in StunType
  <2>1. stun \in StunType /\ FALSE \in BOOLEAN
    BY DEF IndInv, TypeOK, StunType
  <2>2. QED
    BY <1>1, <2>1, StunFacts
<1>7. NoReq \in Requests /\ state' \in States
  BY <1>1, SetFacts DEF States
<1>8. TypeOK'
  BY <1>1, <1>2, <1>4, <1>5, <1>6, <1>7 DEF IndInv, TypeOK, StunType, client
<1>9. Shape' /\ SetupStored' /\ Connecting'
  BY <1>1, <1>2, <1>4 DEF IndInv, Shape, SetupStored, Connecting, Connected, client
<1>10. QED
  BY <1>8, <1>9 DEF IndInv

\* The request that the server answers.
LEMMA AnswerFacts ==
  ASSUME IndInv, inflight # <<>>
  PROVE  /\ Connected /\ Head(inflight) \in UpReq /\ Head(inflight) \in Requests
         /\ Tail(inflight) \in Seq(UpReq) /\ Tail(inflight) \in Seq(Requests)
         /\ Head(inflight).id \in 0..MaxReq
         /\ ~IsKeepalive(Head(inflight)) => Head(inflight).id \in 1..MaxReq
<1> DEFINE r == Head(inflight)
<1>1. Connected /\ r \in UpReq /\ Tail(inflight) \in Seq(UpReq)
  BY HeadFacts DEF IndInv, Shape, Connecting
<1>2. r \in Requests /\ Tail(inflight) \in Seq(Requests)
  BY <1>1, SetFacts, SeqMonotonic
<1> HIDE DEF r
<1>3. r.id \in 0..MaxReq
  BY <1>2 DEF Requests
<1>4. ~IsKeepalive(r) => r.id # 0
  BY DEF IsKeepalive, CSeq
<1>5. ~IsKeepalive(r) => r.id \in 1..MaxReq
  BY <1>3, <1>4, BoundsAssumption
<1>6. QED
  BY <1>1, <1>2, <1>3, <1>5 DEF r

\* A keepalive is answered.
LEMMA KeepaliveInv ==
  ASSUME IndInv, KeepaliveReply
  PROVE  IndInv'
<1> DEFINE r == Head(inflight)
           t == Tail(inflight)
<1>1. /\ inflight # <<>> /\ inflight' = t /\ answered' = answered \cup ({r.id} \ {0})
      /\ played' \in {played, played \/ r.kind = "PLAY"}
      /\ UNCHANGED <<conn, wire, recvBuf, parsing, toUp, toDown, setup, sent, got, dropped,
                     overTcp>>
  BY DEF KeepaliveReply
<1>2. Connected /\ t \in Seq(UpReq) /\ t \in Seq(Requests) /\ r.id \in 0..MaxReq
  BY <1>1, AnswerFacts
<1> HIDE DEF r, t
<1>3. played' \in BOOLEAN
  <2>1. played \in BOOLEAN /\ (played \/ r.kind = "PLAY") \in BOOLEAN
    BY DEF IndInv, TypeOK
  <2>2. QED
    BY <1>1, <2>1, Zenon
<1>4. {r.id} \ {0} \subseteq 1..MaxReq
  BY <1>2, BoundsAssumption
<1>5. answered' \cup dropped' \cup overTcp' \subseteq 1..MaxReq
  BY <1>1, <1>4 DEF IndInv, TypeOK
<1>6. TypeOK'
  BY <1>1, <1>2, <1>3, <1>5 DEF IndInv, TypeOK, conn, setup
<1>7. Shape' /\ SetupStored' /\ Connecting'
  BY <1>1, <1>2 DEF IndInv, Shape, SetupStored, Connecting, Connected, conn, setup
<1>8. QED
  BY <1>6, <1>7 DEF IndInv

\* The SETUP that a 461 repeats.
Again == [lastSetup EXCEPT !.over = "tcp", !.ours = TRUE]

\* It is a SETUP of the client, and the relay is there.
LEMMA AgainFacts ==
  ASSUME IndInv, lastSetup # NoReq
  PROVE  /\ lastSetup \in Setups /\ lastSetup.id \in 1..MaxReq /\ relay
         /\ Again \in UpReq /\ Again \in Requests /\ Again.id = lastSetup.id
         /\ Again.kind = "SETUP" /\ Again.ours
<1>1. lastSetup \in Setups /\ relay
  BY DEF IndInv, SetupStored
<1>2. lastSetup \in Requests /\ lastSetup.id \in 1..MaxReq /\ lastSetup.kind = "SETUP"
  BY <1>1, SetFacts DEF Setups
<1>3. Again \in Requests /\ Again.id = lastSetup.id /\ Again.kind = lastSetup.kind /\ Again.ours
  BY <1>2, PatchedFacts, Zenon DEF Again
<1>4. Again.id # 0
  BY <1>2, <1>3
<1>5. QED
  BY <1>1, <1>2, <1>3, <1>4 DEF UpReq

\* A SETUP is retried over TCP.
LEMMA RetryInv ==
  ASSUME IndInv, RetryOverTcp
  PROVE  IndInv'
<1> DEFINE r == Head(inflight)
           t == Tail(inflight)
           q == Append(toUp, Again)
<1>1. /\ inflight # <<>> /\ lastSetup # NoReq /\ retried' = TRUE
      /\ Drain(t, q, state) /\ overTcp' = overTcp \cup {lastSetup.id}
      /\ UNCHANGED <<gone, wantDsOut, wire, recvBuf, parsing, toDown, pendingPlay, pendingSetup,
                     lastSetup, usTcp, dsTcp, relay, stun, timer, sent, got, answered, dropped,
                     played>>
  BY DEF RetryOverTcp, Retries, Again
<1>2. Connected /\ t \in Seq(UpReq)
  BY <1>1, AnswerFacts
<1>3. Again \in UpReq /\ lastSetup.id \in 1..MaxReq
  BY <1>1, AgainFacts
<1>4. q \in Seq(UpReq)
  BY <1>3 DEF IndInv, Shape
<1> HIDE DEF r, t, q
<1>5. /\ inflight' \in Seq(UpReq) /\ toUp' \in Seq(UpReq)
      /\ closed' \in BOOLEAN /\ wantUpOut' \in BOOLEAN
      /\ state' \in {state, "WAIT_UPSTREAM_RESP"}
  BY <1>1, <1>2, <1>4, DrainFacts DEF IndInv, TypeOK
<1>6. inflight' \in Seq(Requests) /\ toUp' \in Seq(Requests)
  BY <1>5, SetFacts, SeqMonotonic
<1>7. state' \in States /\ Connected'
  BY <1>2, <1>5 DEF IndInv, TypeOK, States, Connected
<1>8. answered' \cup dropped' \cup overTcp' \subseteq 1..MaxReq
  BY <1>1, <1>3 DEF IndInv, TypeOK
<1>9. TypeOK'
  BY <1>1, <1>5, <1>6, <1>7, <1>8 DEF IndInv, TypeOK
<1>10. Shape' /\ SetupStored' /\ Connecting'
  BY <1>1, <1>5, <1>7 DEF IndInv, Shape, SetupStored, Connecting
<1>11. QED
  BY <1>9, <1>10 DEF IndInv

\* A response for the client is one.
LEMMA ReplyFacts ==
  ASSUME IndInv, NEW r \in Requests, r.id \in 1..MaxReq, NEW st \in {"200", "461", "err"}
  PROVE  PatchedReply(r, st) \in Replies /\ PatchedReply(r, st).id = r.id
<1> DEFINE o == IF st # "200" \/ r.kind # "SETUP" THEN "none" ELSE IF dsTcp THEN "tcp" ELSE r.over
<1>1. o \in Transport
  BY DEF Requests, Transport
<1>2. PatchedReply(r, st) = [id |-> r.id, status |-> st, over |-> o]
  BY DEF PatchedReply
<1> HIDE DEF o
<1>3. QED
  BY <1>1, <1>2 DEF Replies

\* A response is relayed.
LEMMA RelayInv ==
  ASSUME IndInv, NEW st \in {"200", "461", "err"}, RelayReply(st)
  PROVE  IndInv'
<1> DEFINE r == Head(inflight)
           t == Tail(inflight)
           p == PatchedReply(r, st)
           starts == st = "200" /\ pendingPlay
<1>1. /\ inflight # <<>> /\ ~IsKeepalive(r) /\ inflight' = t
      /\ usTcp' = (usTcp \/ (st = "200" /\ r.kind = "SETUP" /\ r.over = "tcp"))
      /\ pendingPlay' = (pendingPlay /\ ~starts) /\ timer' = (timer \/ starts)
      /\ state' = (IF starts THEN "STREAMING" ELSE state)
      /\ toDown' = Append(toDown, p) /\ wantDsOut' = TRUE /\ answered' = answered \cup {r.id}
      /\ played' = (played \/ (st = "200" /\ r.kind = "PLAY"))
      /\ UNCHANGED <<closed, gone, wantUpOut, wire, recvBuf, parsing, toUp, pendingSetup,
                     lastSetup, retried, dsTcp, relay, stun, sent, got, dropped, overTcp>>
  BY DEF RelayReply
<1>2. /\ Connected /\ r \in Requests /\ r.id \in 1..MaxReq
      /\ t \in Seq(UpReq) /\ t \in Seq(Requests)
  BY <1>1, AnswerFacts
<1>3. p \in Replies
  BY <1>2, ReplyFacts
<1> HIDE DEF r, t, p
<1>4. toDown' \in Seq(Replies \cup {Media})
  BY <1>1, <1>3 DEF IndInv, TypeOK
<1>5. {usTcp', pendingPlay', timer', wantDsOut', played'} \subseteq BOOLEAN
  BY <1>1, Zenon
<1>6. state' \in States /\ Connected' /\ (state' = "WAIT_STUN" => state = "WAIT_STUN")
  BY <1>1, <1>2 DEF IndInv, TypeOK, States, Connected
<1>7. answered' \cup dropped' \cup overTcp' \subseteq 1..MaxReq
  BY <1>1, <1>2 DEF IndInv, TypeOK
<1>8. TypeOK'
  <2> HIDE DEF starts
  <2>1. QED
    BY <1>1, <1>2, <1>4, <1>5, <1>6, <1>7 DEF IndInv, TypeOK
<1>9. Shape' /\ SetupStored' /\ Connecting'
  <2> HIDE DEF starts
  <2>1. QED
    BY <1>1, <1>2, <1>6 DEF IndInv, Shape, SetupStored, Connecting
<1>10. QED
  BY <1>8, <1>9 DEF IndInv

\* What queueing a media packet leaves: a response that made room is marked as dropped.
LEMMA MediaFacts ==
  ASSUME IndInv, PushMedia
  PROVE  /\ toDown' \in Seq(Down) /\ wantDsOut' \in BOOLEAN /\ dropped' \subseteq 1..MaxReq
         /\ wantDsOut' = TRUE \/ UNCHANGED <<toDown, wantDsOut>>
         /\ \A i \in 1..MaxReq :
              /\ i \in dropped => i \in dropped' /\ Copies(toDown', i) <= Copies(toDown, i)
              /\ i \notin dropped => Copies(toDown', i) + Lost(i)' = Copies(toDown, i)
<1> DEFINE full == Len(toDown) > QueueLimit
           h == Head(toDown)
           d == IF full THEN Tail(toDown) ELSE toDown
           x == IF full THEN {h.id} \ {0} ELSE {}
<1>1. toDown \in Seq(Down) /\ wantDsOut \in BOOLEAN /\ dropped \subseteq 1..MaxReq
  BY DEF IndInv, TypeOK, Down
<1>2. Media \in Down /\ \A i \in 1..MaxReq : Is(Media, i) = 0
  BY DEF Down, Media, Is
<1>3. \A i \in 1..MaxReq : Copies(toDown, i) \in Nat
  BY <1>1, CopiesType
<1>4. CASE closed \/ ~dsTcp
  <2>1. UNCHANGED <<toDown, wantDsOut, dropped>>
    BY <1>4 DEF PushMedia
  <2>2. \A i \in 1..MaxReq : Copies(toDown', i) = Copies(toDown, i)
    BY <2>1
  <2>3. QED
    BY <1>1, <1>3, <2>1, <2>2 DEF Lost
<1>5. CASE ~(closed \/ ~dsTcp)
  <2>1. toDown' = Append(d, Media) /\ dropped' = dropped \cup x /\ wantDsOut' = TRUE
    BY <1>5 DEF PushMedia
  <2>2. /\ d \in Seq(Down) /\ x \subseteq 1..MaxReq
        /\ \A i \in 1..MaxReq : Copies(toDown, i) = Copies(d, i) + (IF i \in x THEN 1 ELSE 0)
    <3>1. CASE full
      <4>1. toDown # <<>>
        <5>1. Len(toDown) \in Nat /\ Len(toDown) > QueueLimit
          BY <1>1, <3>1
        <5>2. Len(toDown) # 0
          BY <5>1, BoundsAssumption
        <5>3. QED
          BY <1>1, <5>2
      <4>2. h \in Down /\ Tail(toDown) \in Seq(Down)
        BY <1>1, <4>1, HeadFacts
      <4>3. x = {h.id} \ {0} /\ d = Tail(toDown)
        BY <3>1
      <4>4. h.id \in 0..MaxReq
        BY <4>2, BoundsAssumption DEF Down, Replies, Media
      <4>5. x \subseteq 1..MaxReq
        BY <4>3, <4>4, BoundsAssumption
      <4>6. ASSUME NEW i \in 1..MaxReq
            PROVE  Copies(toDown, i) = Copies(d, i) + (IF i \in x THEN 1 ELSE 0)
        <5>1. Copies(toDown, i) = Is(h, i) + Copies(d, i)
          BY <1>1, <4>1, <4>3, CopiesTail
        <5>2. Is(h, i) = IF i \in x THEN 1 ELSE 0
          BY <4>3 DEF Is
        <5>3. Copies(d, i) \in Nat
          BY <4>2, <4>3, CopiesType
        <5> HIDE DEF d, h, x
        <5>4. CASE i \in x
          BY <5>1, <5>2, <5>3, <5>4
        <5>5. CASE i \notin x
          BY <5>1, <5>2, <5>3, <5>5
        <5>6. QED
          BY <5>4, <5>5
      <4>7. QED
        BY <4>2, <4>3, <4>5, <4>6
    <3>2. CASE ~full
      BY <1>1, <1>3, <3>2
    <3>3. QED
      BY <3>1, <3>2
  <2> HIDE DEF d, x
  <2>3. toDown' \in Seq(Down)
    BY <1>2, <2>1, <2>2
  <2>4. ASSUME NEW i \in 1..MaxReq
        PROVE  /\ i \in dropped => i \in dropped' /\ Copies(toDown', i) <= Copies(toDown, i)
               /\ i \notin dropped => Copies(toDown', i) + Lost(i)' = Copies(toDown, i)
    <3>1. Copies(toDown', i) = Copies(d, i) + Is(Media, i)
      BY <1>2, <2>1, <2>2, CopiesAppend
    <3>2. Copies(d, i) \in Nat /\ Is(Media, i) = 0
      BY <1>2, <2>2, CopiesType
    <3>3. Copies(toDown, i) = Copies(d, i) + (IF i \in x THEN 1 ELSE 0)
      BY <2>2
    <3>4. CASE i \in x
      BY <2>1, <3>1, <3>2, <3>3, <3>4 DEF Lost
    <3>5. CASE i \notin x
      BY <2>1, <3>1, <3>2, <3>3, <3>5 DEF Lost
    <3>6. QED
      BY <3>4, <3>5
  <2>5. wantDsOut' \in BOOLEAN /\ dropped' \subseteq 1..MaxReq
    BY <1>1, <2>1, <2>2
  <2>6. QED
    BY <2>1, <2>3, <2>4, <2>5
<1>6. QED
  BY <1>4, <1>5

\* Media is queued for the client.
LEMMA MediaInv ==
  ASSUME IndInv, RelayMedia
  PROVE  IndInv'
<1>1. /\ PushMedia
      /\ UNCHANGED <<state, closed, gone, wantUpOut, wire, inflight, recvBuf, parsing, toUp,
                     setup, sent, got, answered, played, overTcp>>
  BY DEF RelayMedia
<1>2. toDown' \in Seq(Replies \cup {Media}) /\ wantDsOut' \in BOOLEAN /\ dropped' \subseteq 1..MaxReq
  BY <1>1, MediaFacts DEF Down
<1>3. answered' \cup dropped' \cup overTcp' \subseteq 1..MaxReq
  BY <1>1, <1>2 DEF IndInv, TypeOK
<1>4. TypeOK'
  BY <1>1, <1>2, <1>3 DEF IndInv, TypeOK, setup
<1>5. Shape' /\ SetupStored' /\ Connecting'
  BY <1>1 DEF IndInv, Shape, SetupStored, Connecting, Connected, setup
<1>6. QED
  BY <1>4, <1>5 DEF IndInv

\* A keepalive is queued for the server; the timer runs only after a response to PLAY.
LEMMA TimerInv ==
  ASSUME IndInv, Timer
  PROVE  IndInv'
<1>1. /\ PushUp(Keepalive) /\ timer
      /\ UNCHANGED <<state, closed, gone, wantDsOut, wire, inflight, recvBuf, parsing, toDown,
                     setup, client>>
  BY DEF Timer
<1>2. toUp' \in Seq(UpReq) /\ wantUpOut' = TRUE
  BY <1>1, SetFacts, PushUpFacts DEF IndInv, Shape
<1>3. toUp' \in Seq(Requests)
  BY <1>2, SetFacts, SeqMonotonic
<1>4. TypeOK'
  BY <1>1, <1>2, <1>3 DEF IndInv, TypeOK, setup, client
<1>5. Shape' /\ SetupStored' /\ Connecting'
  BY <1>1, <1>2 DEF IndInv, Shape, SetupStored, Connecting, Connected, setup, client
<1>6. QED
  BY <1>4, <1>5 DEF IndInv

\* Packets leave for the client: what has been relayed to it is as before.
LEMMA DownstreamFacts ==
  ASSUME IndInv, NEW j, DownstreamWritable(j)
  PROVE  /\ got' \in Seq(Replies) /\ toDown' \in Seq(Down) /\ wantDsOut' \in BOOLEAN
         /\ toDown' # <<>> => wantDsOut'
         /\ \A i \in 1..MaxReq :
              /\ Copies(got', i) + Copies(toDown', i) = Copies(got, i) + Copies(toDown, i)
              /\ Copies(got', i) >= Copies(got, i)
<1> DEFINE a == SubSeq(toDown, 1, j)
<1>1. /\ j \in 0..Len(toDown) /\ got' = got \o Answers(a)
      /\ toDown' = SubSeq(toDown, j + 1, Len(toDown)) /\ wantDsOut' = (j < Len(toDown))
  BY DEF DownstreamWritable
<1>2. toDown \in Seq(Down) /\ got \in Seq(Replies)
  BY DEF IndInv, TypeOK, Down
<1>3. a \in Seq(Down) /\ toDown' \in Seq(Down)
  BY <1>1, <1>2, CopiesSplit
<1>4. ASSUME NEW i
      PROVE  Copies(toDown, i) = Copies(a, i) + Copies(toDown', i)
  BY <1>1, <1>2, CopiesSplit
<1>5. toDown' # <<>> => wantDsOut'
  <2>1. ~(j < Len(toDown)) => toDown' = <<>>
    <3>1. Len(toDown) \in Nat
      BY <1>2
    <3>2. ~(j < Len(toDown)) => Len(toDown) < j + 1
      BY <1>1, <3>1
    <3>3. QED
      BY <1>1, <3>1, <3>2, SubSeqEmpty
  <2>2. QED
    BY <1>1, <2>1
<1> HIDE DEF a
<1>6. Answers(a) \in Seq(Replies) /\ \A i \in 1..MaxReq : Copies(Answers(a), i) = Copies(a, i)
  BY <1>3, AnswersFacts
<1>7. got' \in Seq(Replies)
  BY <1>1, <1>2, <1>6, ConcatProperties
<1>8. ASSUME NEW i \in 1..MaxReq
      PROVE  /\ Copies(got', i) + Copies(toDown', i) = Copies(got, i) + Copies(toDown, i)
             /\ Copies(got', i) >= Copies(got, i)
  <2>1. Copies(got', i) = Copies(got, i) + Copies(Answers(a), i)
    BY <1>1, <1>2, <1>6, CopiesConcat
  <2>2. Copies(got, i) \in Nat /\ Copies(a, i) \in Nat /\ Copies(toDown', i) \in Nat
    BY <1>2, <1>3, CopiesType
  <2>3. Copies(Answers(a), i) = Copies(a, i) /\ Copies(toDown, i) = Copies(a, i) + Copies(toDown', i)
    BY <1>4, <1>6
  <2>4. QED
    BY <2>1, <2>2, <2>3
<1>9. wantDsOut' \in BOOLEAN
  BY <1>1
<1>10. QED
  BY <1>3, <1>5, <1>7, <1>8, <1>9

\* So the invariant is kept.
LEMMA DownstreamInv ==
  ASSUME IndInv, NEW j, DownstreamWritable(j)
  PROVE  IndInv'
<1>1. UNCHANGED <<state, closed, gone, wantUpOut, wire, inflight, recvBuf, parsing, toUp, setup,
                  sent, answered, dropped, played, overTcp>>
  BY DEF DownstreamWritable
<1>2. got' \in Seq(Replies) /\ toDown' \in Seq(Replies \cup {Media}) /\ wantDsOut' \in BOOLEAN
  BY DownstreamFacts DEF Down
<1>3. TypeOK'
  BY <1>1, <1>2 DEF IndInv, TypeOK, setup
<1>4. Shape' /\ SetupStored' /\ Connecting'
  BY <1>1 DEF IndInv, Shape, SetupStored, Connecting, Connected, setup
<1>5. QED
  BY <1>3, <1>4 DEF IndInv

\* A step is one of the actions.
LEMMA StepInv ==
  ASSUME IndInv, [Next]_vars
  PROVE  IndInv'
<1>1. CASE \E r \in Requests : ClientSend(r)
  BY <1>1, SendInv
<1>2. CASE \E j \in 1..MaxReq : DownstreamReadable(j)
  BY <1>2, ReadableInv
<1>3. CASE Parse
  BY <1>3, ForwardInv, SetupInv, PauseInv DEF Parse
<1>4. CASE ServerAnswers
  BY <1>4, KeepaliveInv, RetryInv, RelayInv DEF ServerAnswers
<1>5. CASE \E j \in 0..Len(toDown) : DownstreamWritable(j)
  BY <1>5, DownstreamInv
<1>6. CASE ConnectDone \/ UpstreamWritable
  BY <1>6, WritableInv
<1>7. CASE RtpWhileStun \/ RelayMedia \/ Timer
  BY <1>7, StunInv, MediaInv, TimerInv
<1>8. CASE ConnectFails \/ StrayStunReply \/ StunLost \/ PeerCloses \/ Destroy \/ UNCHANGED vars
  BY <1>8, QuietInv
<1>9. QED
  BY <1>1, <1>2, <1>3, <1>4, <1>5, <1>6, <1>7, <1>8 DEF Next

\* In every reachable state of a session the queues hold what they are for: numbered
\* requests of the client in downstream_recv_buf_, requests and keepalives upstream, and
\* in pending_setup_req_ and last_setup_req_ nothing or a SETUP whose relay exists.
THEOREM Invariance == Spec => []IndInv
<1>1. IndInv /\ [Next]_vars => IndInv'
  BY StepInv
<1>2. QED
  BY <1>1, InitInv, PTL DEF Spec

\* The session's members have their types.
THEOREM TypeCorrect == Spec => []TypeOK
<1>1. IndInv => TypeOK
  BY DEF IndInv
<1>2. QED
  BY <1>1, Invariance, PTL

---------------------------------------------------------------------------
(* No wakeup is lost *)

\* A step leaves EPOLLOUT registered for what it queues or leaves behind.
LEMMA WakeupStep ==
  ASSUME IndInv, NoLostWakeup, [Next]_vars
  PROVE  NoLostWakeup'
<1> SUFFICES ASSUME ~closed'
             PROVE  (toUp' # <<>> => wantUpOut') /\ (toDown' # <<>> => wantDsOut')
  BY DEF NoLostWakeup
<1>1. ASSUME UNCHANGED <<toUp, wantUpOut, toDown, wantDsOut>>, closed => closed'
      PROVE  (toUp' # <<>> => wantUpOut') /\ (toDown' # <<>> => wantDsOut')
  BY <1>1 DEF NoLostWakeup
<1>2. CASE \E r \in Requests : ClientSend(r)
  BY <1>1, <1>2 DEF ClientSend, conn
<1>3. CASE \E j \in 1..MaxReq : DownstreamReadable(j)
  BY <1>1, <1>3 DEF DownstreamReadable, conn
<1>4. ASSUME wantUpOut' = TRUE, UNCHANGED <<closed, toDown, wantDsOut>>
      PROVE  (toUp' # <<>> => wantUpOut') /\ (toDown' # <<>> => wantDsOut')
  BY <1>4 DEF NoLostWakeup
<1>5. CASE ForwardRequest \/ ForwardSetup \/ RtpWhileStun \/ Timer
  BY <1>4, <1>5 DEF ForwardRequest, ForwardSetup, RtpWhileStun, ResumeSetup, Timer, PushUp
<1>6. CASE PauseSetup \/ RelayFails
  BY <1>1, <1>6 DEF PauseSetup, RelayFails
<1>7. CASE KeepaliveReply
  BY <1>1, <1>7 DEF KeepaliveReply, conn
<1>8. ASSUME NEW a \in Seq(Requests), NEW q \in Seq(Requests), NEW st, Drain(a, q, st),
             UNCHANGED <<toDown, wantDsOut>>
      PROVE  (toUp' # <<>> => wantUpOut') /\ (toDown' # <<>> => wantDsOut')
  <2>1. closed \in BOOLEAN /\ wantUpOut \in BOOLEAN
    BY DEF IndInv, TypeOK
  <2>2. (closed => closed') /\ (~closed' /\ toUp' # <<>> => wantUpOut')
    BY <1>8, <2>1, DrainFacts
  <2>3. QED
    BY <1>8, <2>2 DEF NoLostWakeup
<1>9. /\ toUp \in Seq(Requests) /\ inflight \in Seq(Requests)
      /\ toUp \o recvBuf \in Seq(Requests)
  BY ConcatProperties DEF IndInv, TypeOK
<1>10. CASE ConnectDone
  BY <1>8, <1>9, <1>10 DEF ConnectDone
<1>11. CASE UpstreamWritable
  BY <1>8, <1>9, <1>11 DEF UpstreamWritable
<1>12. CASE RetryOverTcp
  <2>1. inflight # <<>> /\ lastSetup # NoReq
    BY <1>12 DEF RetryOverTcp, Retries
  <2>2. Tail(inflight) \in Seq(Requests) /\ Again \in Requests
    BY <2>1, AnswerFacts, AgainFacts
  <2>3. Append(toUp, Again) \in Seq(Requests)
    BY <1>9, <2>2
  <2>4. Drain(Tail(inflight), Append(toUp, Again), state) /\ UNCHANGED <<toDown, wantDsOut>>
    BY <1>12 DEF RetryOverTcp, Again
  <2>5. QED
    BY <1>8, <2>2, <2>3, <2>4
<1>13. CASE \E st \in {"200", "461", "err"} : RelayReply(st)
  BY <1>13 DEF RelayReply, NoLostWakeup
<1>14. CASE RelayMedia
  <2>1. /\ UNCHANGED <<closed, toUp, wantUpOut>>
        /\ wantDsOut' = TRUE \/ UNCHANGED <<toDown, wantDsOut>>
    BY <1>14, MediaFacts DEF RelayMedia
  <2>2. QED
    BY <2>1 DEF NoLostWakeup
<1>15. CASE \E j \in 0..Len(toDown) : DownstreamWritable(j)
  <2>1. UNCHANGED <<closed, toUp, wantUpOut>> /\ (toDown' # <<>> => wantDsOut')
    BY <1>15, DownstreamFacts DEF DownstreamWritable
  <2>2. QED
    BY <2>1 DEF NoLostWakeup
<1>16. CASE ConnectFails \/ StrayStunReply \/ StunLost \/ PeerCloses \/ Destroy \/ UNCHANGED vars
  BY <1>1, <1>16 DEF ConnectFails, StrayStunReply, StunLost, PeerCloses, Destroy, vars, conn, flow
<1>17. QED
  BY <1>2, <1>3, <1>5, <1>6, <1>7, <1>10, <1>11, <1>12, <1>13, <1>14, <1>15, <1>16
     DEF Next, Parse, ServerAnswers

\* While the session is open, a connection with something queued is registered for
\* EPOLLOUT: whichever of the handlers queued it, and however little the send loop of
\* on_upstream_writable or on_downstream_writable could send.
THEOREM NothingForgotten == Spec => []NoLostWakeup
<1>1. Init => NoLostWakeup
  BY DEF Init, NoLostWakeup
<1>2. IndInv /\ NoLostWakeup /\ [Next]_vars => NoLostWakeup'
  BY WakeupStep
<1>3. QED
  BY <1>1, <1>2, Invariance, PTL DEF Spec

---------------------------------------------------------------------------
(* Every SETUP names the proxy's ports *)

\* The queues towards the server hold elements of S, when all that a step may add is in S.
LEMMA UpstreamStep ==
  ASSUME IndInv, [Next]_vars, NEW S, toUp \in Seq(S), inflight \in Seq(S),
         ConnectDone => recvBuf \in Seq(S),
         ForwardRequest => Head(recvBuf) \in S,
         ForwardSetup => Patched(Head(recvBuf)) \in S,
         RtpWhileStun => Patched(pendingSetup) \in S,
         RetryOverTcp => Again \in S,
         Timer => Keepalive \in S
  PROVE  toUp' \in Seq(S) /\ inflight' \in Seq(S)
<1>1. CASE UNCHANGED <<toUp, inflight>>
  BY <1>1
<1>2. ASSUME NEW r \in S, PushUp(r), UNCHANGED inflight
      PROVE  toUp' \in Seq(S) /\ inflight' \in Seq(S)
  BY <1>2, PushUpFacts
<1>3. ASSUME NEW a \in Seq(S), NEW q \in Seq(S), NEW st, Drain(a, q, st)
      PROVE  toUp' \in Seq(S) /\ inflight' \in Seq(S)
  <2>1. closed \in BOOLEAN /\ wantUpOut \in BOOLEAN
    BY DEF IndInv, TypeOK
  <2>2. QED
    BY <1>3, <2>1, DrainFacts
<1>4. CASE ConnectDone
  <2>1. toUp \o recvBuf \in Seq(S)
    BY <1>4, ConcatProperties
  <2>2. Drain(inflight, toUp \o recvBuf, "IDLE")
    BY <1>4 DEF ConnectDone
  <2>3. QED
    BY <1>3, <2>1, <2>2
<1>5. CASE UpstreamWritable
  BY <1>3, <1>5 DEF UpstreamWritable
<1>6. CASE ForwardRequest
  <2>1. Head(recvBuf) \in S /\ PushUp(Head(recvBuf)) /\ UNCHANGED inflight
    BY <1>6 DEF ForwardRequest
  <2>2. QED
    BY <1>2, <2>1
<1>7. CASE ForwardSetup
  <2>1. Patched(Head(recvBuf)) \in S /\ PushUp(Patched(Head(recvBuf))) /\ UNCHANGED inflight
    BY <1>7 DEF ForwardSetup
  <2>2. QED
    BY <1>2, <2>1
<1>8. CASE RtpWhileStun
  <2>1. Patched(pendingSetup) \in S /\ PushUp(Patched(pendingSetup)) /\ UNCHANGED inflight
    BY <1>8 DEF RtpWhileStun, ResumeSetup
  <2>2. QED
    BY <1>2, <2>1
<1>9. CASE Timer
  <2>1. Keepalive \in S /\ PushUp(Keepalive) /\ UNCHANGED inflight
    BY <1>9 DEF Timer
  <2>2. QED
    BY <1>2, <2>1
<1>10. CASE RetryOverTcp
  <2>1. inflight # <<>>
    BY <1>10 DEF RetryOverTcp
  <2>2. Tail(inflight) \in Seq(S)
    BY <2>1, HeadFacts
  <2>3. Append(toUp, Again) \in Seq(S)
    BY <1>10
  <2>4. Drain(Tail(inflight), Append(toUp, Again), state)
    BY <1>10 DEF RetryOverTcp, Again
  <2>5. QED
    BY <1>3, <2>2, <2>3, <2>4
<1>11. CASE KeepaliveReply \/ \E st \in {"200", "461", "err"} : RelayReply(st)
  <2>1. inflight # <<>> /\ inflight' = Tail(inflight) /\ UNCHANGED toUp
    BY <1>11 DEF KeepaliveReply, RelayReply
  <2>2. Tail(inflight) \in Seq(S)
    BY <2>1, HeadFacts
  <2>3. QED
    BY <2>1, <2>2
<1>12. CASE \/ ConnectFails \/ StrayStunReply \/ StunLost \/ PeerCloses \/ Destroy \/ UNCHANGED vars
            \/ PauseSetup \/ RelayFails \/ RelayMedia
            \/ \E r \in Requests : ClientSend(r)
            \/ \E j \in 1..MaxReq : DownstreamReadable(j)
            \/ \E j \in 0..Len(toDown) : DownstreamWritable(j)
  <2>1. UNCHANGED <<toUp, inflight>>
    BY <1>12 DEF ConnectFails, StrayStunReply, StunLost, PeerCloses, Destroy, PauseSetup,
                 RelayFails, RelayMedia, ClientSend, DownstreamReadable, DownstreamWritable,
                 vars, flow
  <2>2. QED
    BY <1>1, <2>1
<1>13. QED
  BY <1>4, <1>5, <1>6, <1>7, <1>8, <1>9, <1>10, <1>11, <1>12 DEF Next, Parse, ServerAnswers

\* Once the relay sockets exist they stay.
LEMMA RelayStays ==
  ASSUME [Next]_vars, relay
  PROVE  relay'
<1>1. relay' = relay \/ relay' = TRUE
  BY DEF Next, Parse, ServerAnswers, ConnectFails, ConnectDone, UpstreamWritable, ClientSend,
         DownstreamReadable, ForwardRequest, ForwardSetup, PauseSetup, RelayFails, RtpWhileStun,
         StrayStunReply, StunLost, KeepaliveReply, RetryOverTcp, RelayReply, RelayMedia, Timer,
         DownstreamWritable, PeerCloses, Destroy, vars, setup
<1>2. QED
  BY <1>1

\* A step sends no SETUP upstream that names other ports.
LEMMA ToUsStep ==
  ASSUME "SETUP" \notin FirstKinds, IndInv, ToUs, [Next]_vars
  PROVE  ToUs'
<1> DEFINE O == {r \in Requests : r.kind = "SETUP" => r.ours /\ relay'}
<1>1. Ours \subseteq O
  BY RelayStays DEF Ours
<1>2. toUp \in Seq(O) /\ inflight \in Seq(O)
  BY <1>1, SeqMonotonic DEF ToUs
<1>3. ConnectDone => recvBuf \in Seq(O)
  <2> DEFINE F == {r \in ClientReq : r.kind \in FirstKinds}
  <2>1. F \subseteq O
    BY DEF ClientReq
  <2>2. ConnectDone => recvBuf \in Seq(F)
    BY DEF ConnectDone, IndInv, Connecting
  <2> HIDE DEF F, O
  <2>3. QED
    BY <2>1, <2>2, SeqMonotonic
<1>4. ForwardRequest => Head(recvBuf) \in O
  BY ParseFacts DEF ForwardRequest
<1>5. ForwardSetup => Patched(Head(recvBuf)) \in O
  <2> SUFFICES ASSUME ForwardSetup
               PROVE  Patched(Head(recvBuf)) \in O
    OBVIOUS
  <2>1. relay' /\ Head(recvBuf) \in Requests
    BY ParseFacts DEF ForwardSetup
  <2>2. QED
    BY <2>1, PatchedFacts
<1>6. RtpWhileStun => Patched(pendingSetup) \in O
  <2> SUFFICES ASSUME RtpWhileStun
               PROVE  Patched(pendingSetup) \in O
    OBVIOUS
  <2>1. relay' /\ pendingSetup \in Requests
    BY RelayStays DEF RtpWhileStun, IndInv, TypeOK
  <2>2. QED
    BY <2>1, PatchedFacts
<1>7. RetryOverTcp => Again \in O
  <2> SUFFICES ASSUME RetryOverTcp
               PROVE  Again \in O
    OBVIOUS
  <2>1. lastSetup # NoReq
    BY DEF RetryOverTcp, Retries
  <2>2. Again \in Requests /\ Again.ours /\ relay'
    BY <2>1, AgainFacts, RelayStays
  <2>3. QED
    BY <2>2
<1>8. Keepalive \in O
  <2>1. Keepalive \in Requests /\ Keepalive.kind = "OTHER"
    BY SetFacts DEF Keepalive, NoReq
  <2>2. QED
    BY <2>1
<1> HIDE DEF O
<1>9. toUp' \in Seq(O) /\ inflight' \in Seq(O)
  BY <1>2, <1>3, <1>4, <1>5, <1>6, <1>7, <1>8, UpstreamStep
<1>10. QED
  BY <1>9 DEF ToUs, Ours, O

\* Every SETUP that is queued for the server or was sent to it asks for the relay's ports,
\* and the relay's sockets exist, with STUN and without, retried over TCP or not, however
\* the client pipelines its requests.  The request that opens the connection is forwarded
\* as it is, so it must not be a SETUP itself.
THEOREM SetupsPatched ==
  ASSUME "SETUP" \notin FirstKinds
  PROVE  Spec => []SetupPointsToUs
<1>1. Init => ToUs
  BY DEF Init, ToUs
<1>2. IndInv /\ ToUs /\ [Next]_vars => ToUs'
  BY ToUsStep
<1>3. ToUs => SetupPointsToUs
  <2> SUFFICES ASSUME ToUs
               PROVE  SetupPointsToUs
    OBVIOUS
  <2> DEFINE q == toUp \o inflight
  <2>1. q \in Seq(Ours)
    BY ConcatProperties DEF ToUs
  <2>2. \A i \in DOMAIN q : q[i] \in Ours
    BY <2>1, ElementOfSeq
  <2> HIDE DEF q
  <2>3. \A i \in DOMAIN q : q[i].kind = "SETUP" => q[i].ours /\ relay
    BY <2>2 DEF Ours
  <2>4. QED
    BY <2>3 DEF SetupPointsToUs, q
<1>4. QED
  BY <1>1, <1>2, <1>3, Invariance, PTL DEF Spec

---------------------------------------------------------------------------
(* One request at a time: nothing is lost, nothing is doubled *)

\* The parts of the sum are numbers, before and after a step.
LEMMA PartsType ==
  ASSUME IndInv, IndInv', NEW i
  PROVE  /\ Copies(wire, i) \in Nat /\ Copies(recvBuf, i) \in Nat /\ Copies(toUp, i) \in Nat
         /\ Copies(inflight, i) \in Nat /\ Copies(toDown, i) \in Nat /\ Copies(got, i) \in Nat
         /\ Copies(wire', i) \in Nat /\ Copies(recvBuf', i) \in Nat /\ Copies(toUp', i) \in Nat
         /\ Copies(inflight', i) \in Nat /\ Copies(toDown', i) \in Nat /\ Copies(got', i) \in Nat
         /\ Is(pendingSetup, i) \in Nat /\ Lost(i) \in Nat
         /\ Is(pendingSetup', i) \in Nat /\ Lost(i)' \in Nat
<1>1. /\ wire \in Seq(Requests) /\ recvBuf \in Seq(Requests) /\ toUp \in Seq(Requests)
      /\ inflight \in Seq(Requests) /\ toDown \in Seq(Down) /\ got \in Seq(Replies)
  BY DEF IndInv, TypeOK, Down
<1>2. /\ wire' \in Seq(Requests) /\ recvBuf' \in Seq(Requests) /\ toUp' \in Seq(Requests)
      /\ inflight' \in Seq(Requests) /\ toDown' \in Seq(Down) /\ got' \in Seq(Replies)
  BY DEF IndInv, TypeOK, Down
<1>3. /\ Is(pendingSetup, i) \in Nat /\ Lost(i) \in Nat
      /\ Is(pendingSetup', i) \in Nat /\ Lost(i)' \in Nat
  BY DEF Is, Lost
<1>4. /\ Copies(wire, i) \in Nat /\ Copies(recvBuf, i) \in Nat /\ Copies(toUp, i) \in Nat
      /\ Copies(inflight, i) \in Nat /\ Copies(toDown, i) \in Nat /\ Copies(got, i) \in Nat
  BY <1>1, CopiesType
<1>5. /\ Copies(wire', i) \in Nat /\ Copies(recvBuf', i) \in Nat /\ Copies(toUp', i) \in Nat
      /\ Copies(inflight', i) \in Nat /\ Copies(toDown', i) \in Nat /\ Copies(got', i) \in Nat
  BY <1>2, CopiesType
<1>6. QED
  BY <1>3, <1>4, <1>5

\* Count of the specification is this sum.
LEMMA CountIsTally ==
  ASSUME IndInv, NEW i \in 1..MaxReq
  PROVE  Count(i) = Tally(i)
<1>1. got \in Seq(Replies) /\ toDown \in Seq(Down)
  BY DEF IndInv, TypeOK, Down
<1>2. Answers(toDown) \in Seq(Replies) /\ Copies(Answers(toDown), i) = Copies(toDown, i)
  BY <1>1, AnswersFacts
<1>3. Copies(Relayed, i) = Copies(got, i) + Copies(toDown, i)
  <2>1. Copies(got \o Answers(toDown), i) = Copies(got, i) + Copies(Answers(toDown), i)
    BY <1>1, <1>2, CopiesConcat
  <2>2. QED
    BY <1>2, <2>1 DEF Relayed
<1>4. Copies(<<pendingSetup>>, i) = Is(pendingSetup, i)
  BY CopiesOne
<1>5. /\ Copies(wire, i) \in Nat /\ Copies(recvBuf, i) \in Nat /\ Copies(toUp, i) \in Nat
      /\ Copies(inflight, i) \in Nat /\ Copies(toDown, i) \in Nat /\ Copies(got, i) \in Nat
  BY <1>1, CopiesType DEF IndInv, TypeOK
<1>6. Is(pendingSetup, i) \in Nat /\ Lost(i) \in Nat
  BY DEF Is, Lost
<1>7. Count(i) = Copies(wire, i) + Copies(recvBuf, i) + Copies(toUp, i) + Copies(inflight, i) +
                 Is(pendingSetup, i) + (Copies(got, i) + Copies(toDown, i)) + Lost(i)
  BY <1>3, <1>4, Zenon DEF Count, Lost
<1>8. QED
  BY <1>5, <1>6, <1>7 DEF Tally, Away

\* A request that is not back is the last one, and is in one place.
LEMMA Alone ==
  ASSUME IndInv, CountInv, NEW k \in 1..MaxReq, Away(k) >= 1
  PROVE  /\ Away(k) = 1
         /\ \A i \in 1..MaxReq : i # k => Away(i) = 0
<1>1. Len(sent) \in Nat
  BY DEF IndInv, TypeOK
<1>2. ASSUME NEW i \in 1..MaxReq
      PROVE  Away(i) \in Nat /\ Copies(got, i) \in Nat
  <2>1. /\ Copies(wire, i) \in Nat /\ Copies(recvBuf, i) \in Nat /\ Copies(toUp, i) \in Nat
        /\ Copies(inflight, i) \in Nat /\ Copies(toDown, i) \in Nat /\ Copies(got, i) \in Nat
    BY CopiesType DEF IndInv, TypeOK
  <2>2. Is(pendingSetup, i) \in Nat /\ Lost(i) \in Nat
    BY DEF Is, Lost
  <2>3. QED
    BY <2>1, <2>2 DEF Away
<1>3. ASSUME NEW i \in 1..MaxReq
      PROVE  /\ Away(i) <= 1
             /\ i # Len(sent) => Away(i) = 0
  BY <1>1, <1>2 DEF CountInv, Tally
<1>4. QED
  BY <1>1, <1>2, <1>3

\* No request is added or doubled by the step, and none is lost while the session is open.
Conserved ==
  /\ UNCHANGED sent /\ (closed => closed')
  /\ \A i \in 1..MaxReq :
       /\ Copies(got', i) >= Copies(got, i)
       /\ Away(i)' + Copies(got', i) = Away(i) + Copies(got, i)
          \/ (closed' /\ Away(i)' + Copies(got', i) <= Away(i) + Copies(got, i))

\* Such a step keeps the count.
LEMMA ConservedStep ==
  ASSUME IndInv, IndInv', CountInv, Conserved
  PROVE  CountInv'
<1> SUFFICES ASSUME NEW i \in 1..MaxReq
             PROVE  /\ i > Len(sent) => Tally(i)' = 0
                    /\ i <= Len(sent) => Tally(i)' <= 1 /\ (~closed' => Tally(i)' = 1)
                    /\ i < Len(sent) => Copies(got', i) >= 1
  <2>1. sent' = sent
    BY DEF Conserved
  <2>2. QED
    BY <2>1 DEF CountInv
<1>1. Len(sent) \in Nat
  BY DEF IndInv, TypeOK
<1>2. /\ Away(i) \in Nat /\ Copies(got, i) \in Nat
      /\ Away(i)' \in Nat /\ Copies(got', i) \in Nat
  BY PartsType DEF Away
<1>3. /\ Copies(got', i) >= Copies(got, i) /\ (closed => closed')
      /\ Away(i)' + Copies(got', i) = Away(i) + Copies(got, i)
         \/ (closed' /\ Away(i)' + Copies(got', i) <= Away(i) + Copies(got, i))
  BY DEF Conserved
<1>4. /\ i > Len(sent) => Copies(got, i) + Away(i) = 0
      /\ i <= Len(sent) => Copies(got, i) + Away(i) <= 1
                           /\ (~closed => Copies(got, i) + Away(i) = 1)
      /\ i < Len(sent) => Copies(got, i) >= 1
  BY DEF CountInv, Tally
<1>5. Tally(i)' = Copies(got', i) + Away(i)'
  BY DEF Tally
<1>6. QED
  BY <1>1, <1>2, <1>3, <1>4, <1>5

\* Requests move towards the server.
LEMMA UpwardConserved ==
  ASSUME IndInv, IndInv',
         ConnectDone \/ UpstreamWritable \/ ForwardRequest \/ ForwardSetup \/ RtpWhileStun
         \/ RelayFails \/ Timer
  PROVE  Conserved
<1>1. /\ UNCHANGED <<wire, toDown, sent, got, dropped>>
      /\ closed => closed'
  <2>1. ForwardRequest \/ ForwardSetup \/ RtpWhileStun \/ RelayFails \/ Timer
          => (closed => closed')
    BY DEF ForwardRequest, ForwardSetup, RtpWhileStun, RelayFails, Timer
  <2>2. ConnectDone \/ UpstreamWritable => (closed => closed')
    BY DEF ConnectDone, UpstreamWritable, Drain
  <2>3. UNCHANGED <<wire, toDown, client>>
    BY DEF ConnectDone, UpstreamWritable, ForwardRequest, ForwardSetup, RtpWhileStun, RelayFails,
           Timer
  <2>4. QED
    BY <2>1, <2>2, <2>3 DEF client
<1>2. SUFFICES ASSUME NEW i \in 1..MaxReq
               PROVE  LET a == Copies(recvBuf, i) + Copies(toUp, i) + Copies(inflight, i)
                               + Is(pendingSetup, i)
                          b == Copies(recvBuf', i) + Copies(toUp', i) + Copies(inflight', i)
                               + Is(pendingSetup', i)
                      IN b = a \/ (closed' /\ b <= a)
  <2>1. ASSUME NEW i \in 1..MaxReq
        PROVE  /\ Copies(got', i) >= Copies(got, i)
               /\ Away(i)' + Copies(got', i) = Away(i) + Copies(got, i)
                  \/ (closed' /\ Away(i)' + Copies(got', i) <= Away(i) + Copies(got, i))
    <3>1. Copies(got', i) = Copies(got, i) /\ Copies(wire', i) = Copies(wire, i)
          /\ Copies(toDown', i) = Copies(toDown, i) /\ Lost(i)' = Lost(i)
      BY <1>1 DEF Lost
    <3>2. QED
      BY <1>2, <3>1, PartsType DEF Away
  <2>2. QED
    BY <1>1, <2>1 DEF Conserved
<1>3. /\ Copies(recvBuf, i) \in Nat /\ Copies(toUp, i) \in Nat /\ Copies(inflight, i) \in Nat
      /\ Copies(recvBuf', i) \in Nat /\ Copies(toUp', i) \in Nat /\ Copies(inflight', i) \in Nat
      /\ Is(pendingSetup, i) \in Nat /\ Is(pendingSetup', i) \in Nat
  <2>1. QED
    BY PartsType
<1>4. closed \in BOOLEAN /\ wantUpOut \in BOOLEAN
  BY DEF IndInv, TypeOK
<1>5. ASSUME NEW r \in Requests, PushUp(r)
      PROVE  Copies(toUp', i) = Copies(toUp, i) + Is(r, i)
  BY <1>5, PushUpFacts DEF IndInv, TypeOK
<1>6. ASSUME parsing, recvBuf' = Tail(recvBuf)
      PROVE  Copies(recvBuf, i) = Is(Head(recvBuf), i) + Copies(recvBuf', i)
             /\ Is(Head(recvBuf), i) \in Nat
  <2>1. recvBuf # <<>> /\ recvBuf \in Seq(ClientReq)
    BY <1>6, ParseFacts
  <2>2. Is(Head(recvBuf), i) \in Nat
    BY DEF Is
  <2>3. QED
    BY <1>6, <2>1, <2>2, CopiesTail
<1>7. CASE ConnectDone
  <2>1. /\ Drain(inflight, toUp \o recvBuf, "IDLE") /\ recvBuf' = <<>>
        /\ pendingSetup' = pendingSetup
    BY <1>7 DEF ConnectDone, setup
  <2>2. /\ toUp \in Seq(Requests) /\ recvBuf \in Seq(Requests) /\ inflight \in Seq(Requests)
        /\ toUp \o recvBuf \in Seq(Requests)
    BY ConcatProperties DEF IndInv, TypeOK
  <2>3. Copies(inflight', i) + Copies(toUp', i) = Copies(inflight, i) + Copies(toUp \o recvBuf, i)
    <3> DEFINE q == toUp \o recvBuf
    <3>1. q \in Seq(Requests) /\ Drain(inflight, q, "IDLE")
      BY <2>1, <2>2
    <3> HIDE DEF q
    <3>2. Copies(inflight', i) + Copies(toUp', i) = Copies(inflight, i) + Copies(q, i)
      BY <1>4, <2>2, <3>1, DrainFacts
    <3>3. QED
      BY <3>2 DEF q
  <2>4. Copies(toUp \o recvBuf, i) = Copies(toUp, i) + Copies(recvBuf, i)
    BY <2>2, CopiesConcat
  <2>5. Copies(recvBuf', i) = 0
    BY <2>1, CopiesOne
  <2>6. Is(pendingSetup', i) = Is(pendingSetup, i)
    BY <2>1
  <2>7. QED
    BY <1>3, <2>3, <2>4, <2>5, <2>6
<1>8. CASE UpstreamWritable
  <2>1. Drain(inflight, toUp, state) /\ recvBuf' = recvBuf /\ pendingSetup' = pendingSetup
    BY <1>8 DEF UpstreamWritable, setup
  <2>2. toUp \in Seq(Requests) /\ inflight \in Seq(Requests)
    BY DEF IndInv, TypeOK
  <2>3. Copies(inflight', i) + Copies(toUp', i) = Copies(inflight, i) + Copies(toUp, i)
    BY <1>4, <2>1, <2>2, DrainFacts
  <2>4. Copies(recvBuf', i) = Copies(recvBuf, i) /\ Is(pendingSetup', i) = Is(pendingSetup, i)
    BY <2>1
  <2>5. QED
    BY <1>3, <2>3, <2>4
<1>9. CASE ForwardRequest
  <2>1. /\ parsing /\ PushUp(Head(recvBuf)) /\ recvBuf' = Tail(recvBuf)
        /\ inflight' = inflight /\ pendingSetup' = pendingSetup
    BY <1>9 DEF ForwardRequest
  <2>2. Copies(toUp', i) = Copies(toUp, i) + Is(Head(recvBuf), i)
    BY <1>5, <2>1, ParseFacts
  <2>3. Copies(inflight', i) = Copies(inflight, i) /\ Is(pendingSetup', i) = Is(pendingSetup, i)
    BY <2>1
  <2>4. QED
    BY <1>3, <1>6, <2>1, <2>2, <2>3
<1>10. CASE ForwardSetup
  <2>1. /\ parsing /\ PushUp(Patched(Head(recvBuf))) /\ recvBuf' = Tail(recvBuf)
        /\ inflight' = inflight /\ pendingSetup' = pendingSetup
    BY <1>10 DEF ForwardSetup
  <2>2. /\ Patched(Head(recvBuf)) \in Requests
        /\ Is(Patched(Head(recvBuf)), i) = Is(Head(recvBuf), i)
    BY <2>1, ParseFacts, PatchedFacts DEF Is
  <2>3. Copies(toUp', i) = Copies(toUp, i) + Is(Head(recvBuf), i)
    BY <1>5, <2>1, <2>2
  <2>4. Copies(inflight', i) = Copies(inflight, i) /\ Is(pendingSetup', i) = Is(pendingSetup, i)
    BY <2>1
  <2>5. QED
    BY <1>3, <1>6, <2>1, <2>3, <2>4
<1>11. CASE RtpWhileStun
  <2>1. /\ PushUp(Patched(pendingSetup)) /\ pendingSetup' = NoReq
        /\ recvBuf' = recvBuf /\ inflight' = inflight
    BY <1>11 DEF RtpWhileStun, ResumeSetup
  <2>2. Patched(pendingSetup) \in Requests /\ Is(Patched(pendingSetup), i) = Is(pendingSetup, i)
    <3>1. pendingSetup \in Requests
      BY DEF IndInv, TypeOK
    <3>2. QED
      BY <3>1, PatchedFacts DEF Is
  <2>3. Copies(toUp', i) = Copies(toUp, i) + Is(pendingSetup, i)
    BY <1>5, <2>1, <2>2
  <2>4. Is(pendingSetup', i) = 0
    BY <2>1 DEF Is, NoReq, Keepalive
  <2>5. Copies(inflight', i) = Copies(inflight, i) /\ Copies(recvBuf', i) = Copies(recvBuf, i)
    BY <2>1
  <2>6. QED
    BY <1>3, <2>3, <2>4, <2>5
<1>12. CASE RelayFails
  <2>1. /\ parsing /\ recvBuf' = Tail(recvBuf) /\ closed' = TRUE
        /\ toUp' = toUp /\ inflight' = inflight /\ pendingSetup' = pendingSetup
    BY <1>12 DEF RelayFails
  <2>2. /\ Copies(inflight', i) = Copies(inflight, i) /\ Copies(toUp', i) = Copies(toUp, i)
        /\ Is(pendingSetup', i) = Is(pendingSetup, i)
    BY <2>1
  <2>3. QED
    BY <1>3, <1>6, <2>1, <2>2
<1>13. CASE Timer
  <2>1. /\ PushUp(Keepalive) /\ recvBuf' = recvBuf /\ inflight' = inflight
        /\ pendingSetup' = pendingSetup
    BY <1>13 DEF Timer, setup
  <2>2. Keepalive \in Requests /\ Is(Keepalive, i) = 0
    BY SetFacts DEF Is, Keepalive
  <2>3. Copies(toUp', i) = Copies(toUp, i) + Is(Keepalive, i)
    BY <1>5, <2>1, <2>2
  <2>4. /\ Copies(inflight', i) = Copies(inflight, i) /\ Copies(recvBuf', i) = Copies(recvBuf, i)
        /\ Is(pendingSetup', i) = Is(pendingSetup, i)
    BY <2>1
  <2>5. QED
    BY <1>3, <2>2, <2>3, <2>4
<1>14. QED
  BY <1>7, <1>8, <1>9, <1>10, <1>11, <1>12, <1>13

\* A SETUP is paused: none was paused before, for it is the only request.
LEMMA PauseConserved ==
  ASSUME IndInv, IndInv', CountInv, PauseSetup
  PROVE  Conserved
<1> DEFINE r == Head(recvBuf)
<1>1. /\ parsing /\ recvBuf' = Tail(recvBuf) /\ pendingSetup' = r /\ closed' = closed
      /\ UNCHANGED <<wire, inflight, toUp, toDown, sent, got, dropped>>
  BY DEF PauseSetup, client
<1>2. recvBuf # <<>> /\ recvBuf \in Seq(ClientReq) /\ r \in ClientReq
  BY <1>1, ParseFacts
<1> HIDE DEF r
<1>3. r.id \in 1..MaxReq
  BY <1>2, SetFacts
<1>4. ASSUME NEW i
      PROVE  Copies(recvBuf, i) = Is(r, i) + Copies(recvBuf', i)
  BY <1>1, <1>2, CopiesTail DEF r
<1>5. ASSUME NEW i \in 1..MaxReq
      PROVE  Is(pendingSetup, i) = 0
  <2>1. Is(r, r.id) = 1 /\ Is(pendingSetup, i) \in {0, 1}
    BY DEF Is
  <2>2. Copies(recvBuf, r.id) >= 1
    BY <1>4, <2>1, PartsType
  <2>3. Away(r.id) >= 1 + Is(pendingSetup, r.id) /\ Is(pendingSetup, r.id) \in Nat
    BY <2>2, PartsType DEF Away
  <2>4. Away(r.id) = 1 /\ \A k \in 1..MaxReq : k # r.id => Away(k) = 0
    <3> DEFINE m == r.id
    <3>1. m \in 1..MaxReq /\ Away(m) >= 1
      <4>1. Away(m) \in Nat
        BY PartsType DEF Away
      <4>2. QED
        BY <1>3, <2>3, <4>1
    <3> HIDE DEF m
    <3>2. Away(m) = 1 /\ \A k \in 1..MaxReq : k # m => Away(k) = 0
      BY <3>1, Alone
    <3>3. QED
      BY <3>2 DEF m
  <2>5. CASE i = r.id
    BY <2>3, <2>4, <2>5
  <2>6. CASE i # r.id
    <3>1. Away(i) = 0
      BY <2>4, <2>6
    <3>2. QED
      BY <2>1, <3>1, PartsType DEF Away
  <2>7. QED
    BY <2>5, <2>6
<1>6. ASSUME NEW i \in 1..MaxReq
      PROVE  /\ Copies(got', i) >= Copies(got, i)
             /\ Away(i)' + Copies(got', i) = Away(i) + Copies(got, i)
  <2>1. /\ Copies(wire', i) = Copies(wire, i) /\ Copies(inflight', i) = Copies(inflight, i)
        /\ Copies(toUp', i) = Copies(toUp, i) /\ Copies(toDown', i) = Copies(toDown, i)
        /\ Copies(got', i) = Copies(got, i) /\ Lost(i)' = Lost(i)
    BY <1>1 DEF Lost
  <2>2. Is(pendingSetup', i) = Is(r, i)
    BY <1>1
  <2>3. Copies(recvBuf, i) = Is(r, i) + Copies(recvBuf', i) /\ Is(pendingSetup, i) = 0
    BY <1>4, <1>5
  <2>4. QED
    BY <2>1, <2>2, <2>3, PartsType DEF Away
<1>7. QED
  BY <1>1, <1>6 DEF Conserved

\* A response with the keepalives' CSeq answers a keepalive.
LEMMA KeepaliveOnly ==
  ASSUME KeepaliveCSeq > MaxReq, IndInv, inflight # <<>>, IsKeepalive(Head(inflight))
  PROVE  Head(inflight) = Keepalive
<1>1. Head(inflight) \in UpReq /\ Head(inflight).id \in 0..MaxReq
  BY AnswerFacts
<1>2. Head(inflight).id = 0
  BY <1>1, BoundsAssumption DEF IsKeepalive, CSeq
<1>3. QED
  BY <1>1, <1>2 DEF UpReq

\* The server answers: the request comes back as a response, or goes out again.
LEMMA AnswerConserved ==
  ASSUME KeepaliveCSeq > MaxReq, IndInv, IndInv', LastMatches, ServerAnswers
  PROVE  Conserved
<1> DEFINE r == Head(inflight)
           t == Tail(inflight)
<1>1. inflight # <<>> /\ UNCHANGED <<wire, recvBuf, pendingSetup, sent, got, dropped>>
  BY DEF ServerAnswers, KeepaliveReply, RetryOverTcp, RelayReply, setup
<1>2. inflight \in Seq(Requests) /\ toUp \in Seq(Requests) /\ toDown \in Seq(Down)
  BY DEF IndInv, TypeOK, Down
<1>3. /\ r \in Requests /\ t \in Seq(Requests)
      /\ ~IsKeepalive(r) => r.id \in 1..MaxReq
  BY <1>1, AnswerFacts
<1>4. r \in Repeatable
  BY <1>1, HeadFacts DEF LastMatches
<1>5. ASSUME NEW i
      PROVE  Copies(inflight, i) = Is(r, i) + Copies(t, i)
  BY <1>1, <1>2, CopiesTail
<1>6. ASSUME NEW i
      PROVE  Is(r, i) \in Nat
  BY DEF Is
<1>7. closed \in BOOLEAN /\ wantUpOut \in BOOLEAN
  BY DEF IndInv, TypeOK
<1>8. SUFFICES ASSUME NEW i \in 1..MaxReq
               PROVE  Copies(toUp', i) + Copies(inflight', i) + Copies(toDown', i)
                      = Copies(toUp, i) + Copies(inflight, i) + Copies(toDown, i)
  <2>1. ASSUME NEW i \in 1..MaxReq
        PROVE  /\ Copies(got', i) >= Copies(got, i)
               /\ Away(i)' + Copies(got', i) = Away(i) + Copies(got, i)
    <3>1. /\ Copies(wire', i) = Copies(wire, i) /\ Copies(recvBuf', i) = Copies(recvBuf, i)
          /\ Copies(got', i) = Copies(got, i) /\ Lost(i)' = Lost(i)
          /\ Is(pendingSetup', i) = Is(pendingSetup, i)
      BY <1>1 DEF Lost
    <3>2. QED
      BY <1>8, <3>1, PartsType DEF Away
  <2>2. closed => closed'
    BY DEF ServerAnswers, KeepaliveReply, RetryOverTcp, RelayReply, Drain, conn
  <2>3. QED
    BY <1>1, <2>1, <2>2 DEF Conserved
<1>9. /\ Copies(toUp, i) \in Nat /\ Copies(inflight, i) \in Nat /\ Copies(toDown, i) \in Nat
      /\ Copies(toUp', i) \in Nat /\ Copies(inflight', i) \in Nat /\ Copies(toDown', i) \in Nat
  BY PartsType
<1>10. CASE KeepaliveReply
  <2>1. r = Keepalive
    BY <1>10, KeepaliveOnly DEF KeepaliveReply
  <2>2. Is(r, i) = 0
    BY <2>1 DEF Is, Keepalive
  <2>3. inflight' = t /\ toUp' = toUp /\ toDown' = toDown
    BY <1>10 DEF KeepaliveReply
  <2> HIDE DEF r, t
  <2>4. Copies(inflight, i) = Copies(inflight', i)
    BY <1>5, <1>9, <2>2, <2>3
  <2>5. QED
    BY <2>3, <2>4
<1>11. CASE RetryOverTcp
  <2> DEFINE q == Append(toUp, Again)
  <2>1. lastSetup # NoReq /\ r.kind = "SETUP" /\ Drain(t, q, state) /\ toDown' = toDown
    BY <1>11 DEF RetryOverTcp, Retries, Again
  <2>2. Again \in Requests /\ Again.id = lastSetup.id
    BY <2>1, AgainFacts
  <2>3. r.id = lastSetup.id
    BY <1>4, <2>1 DEF Repeatable
  <2>4. Is(Again, i) = Is(r, i)
    <3> HIDE DEF r
    <3>1. QED
      BY <2>2, <2>3 DEF Is
  <2>5. q \in Seq(Requests) /\ Copies(q, i) = Copies(toUp, i) + Is(r, i)
    <3>1. Copies(q, i) = Copies(toUp, i) + Is(Again, i)
      BY <1>2, <2>2, CopiesAppend
    <3>2. q \in Seq(Requests)
      BY <1>2, <2>2
    <3>3. QED
      BY <2>4, <3>1, <3>2
  <2> HIDE DEF r, t, q
  <2>6. Copies(inflight', i) + Copies(toUp', i) = Copies(t, i) + Copies(q, i)
    BY <1>3, <1>7, <2>1, <2>5, DrainFacts
  <2>7. Copies(t, i) \in Nat /\ Copies(inflight, i) = Is(r, i) + Copies(t, i)
    BY <1>3, <1>5, CopiesType
  <2>8. Copies(toDown', i) = Copies(toDown, i)
    BY <2>1
  <2>9. QED
    BY <1>6, <1>9, <2>5, <2>6, <2>7, <2>8
<1>12. CASE \E st \in {"200", "461", "err"} : RelayReply(st)
  <2>1. PICK st \in {"200", "461", "err"} : RelayReply(st)
    BY <1>12
  <2> DEFINE p == PatchedReply(r, st)
  <2>2. ~IsKeepalive(r) /\ inflight' = t /\ toUp' = toUp /\ toDown' = Append(toDown, p)
    BY <2>1 DEF RelayReply
  <2>3. p \in Down /\ p.id = r.id
    BY <1>3, <2>2, ReplyFacts DEF Down
  <2> HIDE DEF r, t, p
  <2>4. Copies(toDown', i) = Copies(toDown, i) + Is(p, i)
    BY <1>2, <2>2, <2>3, CopiesAppend
  <2>5. Is(p, i) = Is(r, i)
    BY <2>3 DEF Is
  <2>6. Copies(inflight, i) = Is(r, i) + Copies(inflight', i) /\ Copies(toUp', i) = Copies(toUp, i)
    BY <1>5, <2>2
  <2>7. QED
    BY <1>6, <1>9, <2>4, <2>5, <2>6
<1>13. QED
  BY <1>10, <1>11, <1>12 DEF ServerAnswers

\* Packets are queued for the client or leave for it, requests are received, or nothing moves.
Downward ==
  \/ RelayMedia
  \/ \E j \in 1..MaxReq : DownstreamReadable(j)
  \/ \E j \in 0..Len(toDown) : DownstreamWritable(j)
  \/ ConnectFails \/ StrayStunReply \/ StunLost \/ PeerCloses \/ Destroy \/ UNCHANGED vars

\* Each response and request is where it was, or one place further.
LEMMA DownwardConserved ==
  ASSUME IndInv, IndInv', CountInv, Downward
  PROVE  Conserved
<1>1. UNCHANGED <<toUp, inflight, pendingSetup, sent>> /\ (closed => closed')
  BY DEF Downward, RelayMedia, DownstreamReadable, DownstreamWritable, ConnectFails, StrayStunReply,
         StunLost, PeerCloses, Destroy, vars, conn, flow, setup, client
<1>2. SUFFICES ASSUME NEW i \in 1..MaxReq
               PROVE  /\ Copies(got', i) >= Copies(got, i)
                      /\ Copies(wire', i) + Copies(recvBuf', i) + Copies(toDown', i) + Lost(i)'
                           + Copies(got', i)
                         = Copies(wire, i) + Copies(recvBuf, i) + Copies(toDown, i) + Lost(i)
                           + Copies(got, i)
  <2>1. ASSUME NEW i \in 1..MaxReq
        PROVE  /\ Copies(got', i) >= Copies(got, i)
               /\ Away(i)' + Copies(got', i) = Away(i) + Copies(got, i)
    <3>1. /\ Copies(toUp', i) = Copies(toUp, i) /\ Copies(inflight', i) = Copies(inflight, i)
          /\ Is(pendingSetup', i) = Is(pendingSetup, i)
      BY <1>1
    <3>2. QED
      BY <1>2, <3>1, PartsType DEF Away
  <2>2. QED
    BY <1>1, <2>1 DEF Conserved
<1>3. CASE RelayMedia
  <2>1. PushMedia /\ UNCHANGED <<wire, recvBuf, got>>
    BY <1>3 DEF RelayMedia
  <2>2. /\ Copies(wire', i) = Copies(wire, i) /\ Copies(recvBuf', i) = Copies(recvBuf, i)
        /\ Copies(got', i) = Copies(got, i)
    BY <2>1
  <2>3. /\ i \in dropped => i \in dropped' /\ Copies(toDown', i) <= Copies(toDown, i)
        /\ i \notin dropped => Copies(toDown', i) + Lost(i)' = Copies(toDown, i)
    BY <2>1, MediaFacts
  <2>4. Copies(toDown', i) + Lost(i)' = Copies(toDown, i) + Lost(i)
    <3>1. CASE i \in dropped
      <4>1. Lost(i) = 1 /\ Lost(i)' = 1
        BY <2>3, <3>1 DEF Lost
      <4>2. Away(i) >= 1 + Copies(toDown, i)
        BY <4>1, PartsType DEF Away
      <4>3. Away(i) >= 1
        BY <4>1, PartsType DEF Away
      <4>4. Away(i) = 1
        BY <4>3, Alone
      <4>5. QED
        BY <2>3, <3>1, <4>1, <4>2, <4>4, PartsType
    <3>2. CASE i \notin dropped
      <4>1. Lost(i) = 0
        BY <3>2 DEF Lost
      <4>2. QED
        BY <2>3, <3>2, <4>1, PartsType
    <3>3. QED
      BY <3>1, <3>2
  <2>5. QED
    BY <2>2, <2>4, PartsType
<1>4. CASE \E j \in 1..MaxReq : DownstreamReadable(j)
  <2>1. Copies(recvBuf', i) + Copies(wire', i) = Copies(recvBuf, i) + Copies(wire, i)
    BY <1>4, ReadableInv
  <2>2. UNCHANGED <<toDown, got, dropped>>
    BY <1>4 DEF DownstreamReadable, client
  <2>3. /\ Copies(toDown', i) = Copies(toDown, i) /\ Copies(got', i) = Copies(got, i)
        /\ Lost(i)' = Lost(i)
    BY <2>2 DEF Lost
  <2>4. QED
    BY <2>1, <2>3, PartsType
<1>5. CASE \E j \in 0..Len(toDown) : DownstreamWritable(j)
  <2>1. /\ Copies(got', i) + Copies(toDown', i) = Copies(got, i) + Copies(toDown, i)
        /\ Copies(got', i) >= Copies(got, i)
    BY <1>5, DownstreamFacts
  <2>2. UNCHANGED <<wire, recvBuf, dropped>>
    BY <1>5 DEF DownstreamWritable
  <2>3. /\ Copies(wire', i) = Copies(wire, i) /\ Copies(recvBuf', i) = Copies(recvBuf, i)
        /\ Lost(i)' = Lost(i)
    BY <2>2 DEF Lost
  <2>4. QED
    BY <2>1, <2>3, PartsType
<1>6. CASE ConnectFails \/ StrayStunReply \/ StunLost \/ PeerCloses \/ Destroy \/ UNCHANGED vars
  <2>1. UNCHANGED <<wire, recvBuf, toDown, got, dropped>>
    BY <1>6 DEF ConnectFails, StrayStunReply, StunLost, PeerCloses, Destroy, vars, flow, client
  <2>2. /\ Copies(wire', i) = Copies(wire, i) /\ Copies(recvBuf', i) = Copies(recvBuf, i)
        /\ Copies(toDown', i) = Copies(toDown, i) /\ Copies(got', i) = Copies(got, i)
        /\ Lost(i)' = Lost(i)
    BY <2>1 DEF Lost
  <2>3. QED
    BY <2>2, PartsType
<1>7. QED
  BY <1>3, <1>4, <1>5, <1>6 DEF Downward

\* The client sends the next request, once all before it have been answered.
LEMMA SendCount ==
  ASSUME Window = 1, IndInv, IndInv', CountInv, NEW r \in Requests, ClientSend(r)
  PROVE  CountInv'
<1> DEFINE n == Len(sent)
<1>1. /\ r.id = n + 1 /\ sent' = Append(sent, r) /\ wire' = Append(wire, r) /\ closed' = closed
      /\ UNCHANGED <<recvBuf, toUp, inflight, pendingSetup, toDown, got, dropped>>
      /\ Cardinality(DOMAIN sent \ Ids(got)) < 1
  BY DEF ClientSend, Fresh, conn, setup
<1>2. n \in Nat /\ Len(sent') = n + 1 /\ DOMAIN sent = 1..n
  BY <1>1 DEF IndInv, TypeOK
<1>3. \A i \in 1..n : Copies(got, i) >= 1
  <2> DEFINE A == DOMAIN sent \ Ids(got)
  <2>1. IsFiniteSet(A)
    <3>1. IsFiniteSet(1..n) /\ A \subseteq 1..n
      BY <1>2, FS_Interval
    <3>2. QED
      BY <3>1, FS_Subset
  <2>2. A = {}
    <3>1. Cardinality(A) \in Nat /\ Cardinality(A) < 1
      BY <1>1, <2>1, FS_CardinalityType
    <3> HIDE DEF A
    <3>2. Cardinality(A) = 0
      BY <3>1
    <3>3. QED
      BY <2>1, <3>2, FS_EmptySet
  <2>3. ASSUME NEW i \in 1..n
        PROVE  Copies(got, i) >= 1
    <3>1. i \in Ids(got)
      BY <1>2, <2>2
    <3>2. \E k \in DOMAIN got : got[k].id = i
      BY <3>1 DEF Ids
    <3>3. got \in Seq(Replies)
      BY DEF IndInv, TypeOK
    <3>4. QED
      BY <3>2, <3>3, CopiesMember
  <2>4. QED
    BY <2>3
<1> HIDE DEF n
<1>4. ASSUME NEW i \in 1..MaxReq
      PROVE  Tally(i)' = Tally(i) + Is(r, i) /\ Tally(i) \in Nat
  <2>1. /\ Copies(recvBuf', i) = Copies(recvBuf, i) /\ Copies(inflight', i) = Copies(inflight, i)
        /\ Copies(toUp', i) = Copies(toUp, i) /\ Copies(toDown', i) = Copies(toDown, i)
        /\ Copies(got', i) = Copies(got, i) /\ Lost(i)' = Lost(i)
        /\ Is(pendingSetup', i) = Is(pendingSetup, i)
    BY <1>1 DEF Lost
  <2>2. wire \in Seq(Requests)
    BY DEF IndInv, TypeOK
  <2>3. Copies(wire', i) = Copies(wire, i) + Is(r, i)
    BY <1>1, <2>2, CopiesAppend
  <2>4. Is(r, i) \in Nat
    BY DEF Is
  <2>5. QED
    BY <2>1, <2>3, <2>4, PartsType DEF Tally, Away
<1>5. ASSUME NEW i \in 1..MaxReq
      PROVE  /\ i > n + 1 => Tally(i)' = 0
             /\ i <= n + 1 => Tally(i)' <= 1 /\ (~closed' => Tally(i)' = 1)
             /\ i < n + 1 => Copies(got', i) >= 1
  <2>1. /\ i > n => Tally(i) = 0
        /\ i <= n => Tally(i) <= 1 /\ (~closed => Tally(i) = 1)
    BY DEF CountInv, n
  <2>2. Is(r, i) = IF i = n + 1 THEN 1 ELSE 0
    BY <1>1 DEF Is
  <2>3. Copies(got', i) = Copies(got, i)
    BY <1>1
  <2>4. QED
    BY <1>1, <1>2, <1>3, <1>4, <2>1, <2>2, <2>3
<1>6. QED
  BY <1>2, <1>5 DEF CountInv

\* A queue with no request of the client has only keepalives.
LEMMA OnlyKeepalives ==
  ASSUME NEW q \in Seq(UpReq), \A i \in 1..MaxReq : Copies(q, i) = 0
  PROVE  q \in Seq({Keepalive})
<1>1. \A k \in 1..Len(q) : q[k] \in UpReq
  BY ElementOfSeq
<1>2. ASSUME NEW k \in 1..Len(q)
      PROVE  q[k] = Keepalive
  <2>1. q[k] \in UpReq /\ k \in DOMAIN q
    BY <1>1
  <2>2. q[k].id \notin 1..MaxReq
    <3> SUFFICES ASSUME q[k].id \in 1..MaxReq
                 PROVE  FALSE
      OBVIOUS
    <3> DEFINE m == q[k].id
    <3>1. m \in 1..MaxReq /\ \E l \in DOMAIN q : q[l].id = m
      BY <2>1
    <3> HIDE DEF m
    <3>2. Copies(q, m) >= 1
      BY <3>1, CopiesMember
    <3>3. Copies(q, m) = 0
      BY <3>1
    <3>4. QED
      BY <3>2, <3>3
  <2>3. q[k].id = 0
    BY <2>1, <2>2, SetFacts
  <2>4. QED
    BY <2>1, <2>3 DEF UpReq
<1>3. QED
  BY <1>2

\* While a request waits to be forwarded there is none ahead of it.
LEMMA NoneAhead ==
  ASSUME IndInv, IndInv', CountInv, NEW k \in 1..MaxReq,
         Copies(recvBuf, k) >= 1 \/ Is(pendingSetup, k) = 1
  PROVE  toUp \in Seq({Keepalive}) /\ inflight \in Seq({Keepalive})
<1>1. Away(k) >= 1 + Copies(toUp, k) + Copies(inflight, k)
  BY PartsType DEF Away
<1>2. Away(k) >= 1
  BY <1>1, PartsType DEF Away
<1>3. Away(k) = 1 /\ \A i \in 1..MaxReq : i # k => Away(i) = 0
  BY <1>2, Alone
<1>4. ASSUME NEW i \in 1..MaxReq
      PROVE  Copies(toUp, i) = 0 /\ Copies(inflight, i) = 0
  <2>1. CASE i = k
    BY <1>1, <1>3, <2>1, PartsType
  <2>2. CASE i # k
    <3>1. Away(i) = 0 /\ Away(i) >= Copies(toUp, i) + Copies(inflight, i)
      <4>1. Away(i) >= Copies(toUp, i) + Copies(inflight, i)
        BY PartsType DEF Away
      <4>2. QED
        BY <1>3, <2>2, <4>1
    <3>2. QED
      BY <3>1, PartsType
  <2>3. QED
    BY <2>1, <2>2
<1>5. QED
  BY <1>4, OnlyKeepalives DEF IndInv, Shape

\* The request at the head of the buffer is in the buffer.
LEMMA HeadCounts ==
  ASSUME IndInv, parsing
  PROVE  Head(recvBuf).id \in 1..MaxReq /\ Copies(recvBuf, Head(recvBuf).id) >= 1
<1>1. recvBuf # <<>> /\ recvBuf \in Seq(ClientReq) /\ Head(recvBuf) \in ClientReq
  BY ParseFacts
<1>2. 1 \in DOMAIN recvBuf /\ recvBuf[1] = Head(recvBuf)
  BY <1>1
<1>3. Copies(recvBuf, recvBuf[1].id) >= 1
  BY <1>1, <1>2, CopiesMember
<1>4. QED
  BY <1>1, <1>2, <1>3, SetFacts

\* What a step does to last_setup_req_.
LEMMA LastSetupStep ==
  ASSUME [Next]_vars
  PROVE  lastSetup' = lastSetup \/ ForwardSetup \/ RtpWhileStun
BY DEF Next, Parse, ServerAnswers, ConnectFails, ConnectDone, UpstreamWritable, ClientSend,
       DownstreamReadable, ForwardRequest, PauseSetup, RelayFails,
       StrayStunReply, StunLost, KeepaliveReply, RetryOverTcp, RelayReply, RelayMedia, Timer,
       DownstreamWritable, PeerCloses, Destroy, vars, setup

\* The SETUP on its way upstream stays the one that a 461 would repeat.
LEMMA LastStep ==
  ASSUME IndInv, IndInv', OneInv, [Next]_vars
  PROVE  LastMatches'
<1> DEFINE R == {r \in Requests : r.kind = "SETUP" /\ lastSetup' # NoReq => r.id = lastSetup'.id}
<1>1. Keepalive \in R /\ Keepalive \in Requests
  <2>1. Keepalive \in Requests /\ Keepalive.kind = "OTHER"
    BY SetFacts DEF Keepalive, NoReq
  <2>2. QED
    BY <2>1
<1>2. toUp \in Seq(R) /\ inflight \in Seq(R)
  <2>1. CASE lastSetup' = lastSetup
    BY <2>1 DEF OneInv, LastMatches, Repeatable
  <2>2. ASSUME toUp \in Seq({Keepalive}), inflight \in Seq({Keepalive})
        PROVE  toUp \in Seq(R) /\ inflight \in Seq(R)
    <3>1. {Keepalive} \subseteq R
      BY <1>1
    <3> HIDE DEF R
    <3>2. QED
      BY <2>2, <3>1, SeqMonotonic
  <2>3. CASE ForwardSetup
    <3>1. parsing
      BY <2>3 DEF ForwardSetup
    <3> DEFINE m == Head(recvBuf).id
    <3>2. m \in 1..MaxReq /\ Copies(recvBuf, m) >= 1
      BY <3>1, HeadCounts
    <3> HIDE DEF m, R
    <3>3. QED
      BY <2>2, <3>2, NoneAhead DEF OneInv
  <2>4. CASE RtpWhileStun
    <3>1. pendingSetup \in ClientReq
      BY <2>4, SetFacts DEF RtpWhileStun, IndInv, SetupStored
    <3> DEFINE m == pendingSetup.id
    <3>2. m \in 1..MaxReq /\ Is(pendingSetup, m) = 1
      BY <3>1, SetFacts DEF Is
    <3> HIDE DEF m, R
    <3>3. QED
      BY <2>2, <3>2, NoneAhead DEF OneInv
  <2>5. QED
    BY <2>1, <2>3, <2>4, LastSetupStep
<1>3. ConnectDone => recvBuf \in Seq(R)
  <2> SUFFICES ASSUME ConnectDone
               PROVE  recvBuf \in Seq(R)
    OBVIOUS
  <2>1. lastSetup' = NoReq /\ recvBuf \in Seq(Requests)
    BY DEF ConnectDone, IndInv, Connecting, TypeOK, setup
  <2>2. Requests \subseteq R
    BY <2>1
  <2> HIDE DEF R
  <2>3. QED
    BY <2>1, <2>2, SeqMonotonic
<1>4. ForwardRequest => Head(recvBuf) \in R
  BY ParseFacts DEF ForwardRequest
<1>5. ForwardSetup => Patched(Head(recvBuf)) \in R
  <2> SUFFICES ASSUME ForwardSetup
               PROVE  Patched(Head(recvBuf)) \in R
    OBVIOUS
  <2>1. lastSetup' = Head(recvBuf) /\ Head(recvBuf) \in Requests
    BY ParseFacts DEF ForwardSetup
  <2>2. QED
    BY <2>1, PatchedFacts
<1>6. RtpWhileStun => Patched(pendingSetup) \in R
  <2> SUFFICES ASSUME RtpWhileStun
               PROVE  Patched(pendingSetup) \in R
    OBVIOUS
  <2>1. lastSetup' = pendingSetup /\ pendingSetup \in Requests
    BY DEF RtpWhileStun, ResumeSetup, IndInv, TypeOK
  <2>2. QED
    BY <2>1, PatchedFacts
<1>7. RetryOverTcp => Again \in R
  <2> SUFFICES ASSUME RetryOverTcp
               PROVE  Again \in R
    OBVIOUS
  <2>1. lastSetup # NoReq /\ lastSetup' = lastSetup
    BY DEF RetryOverTcp, Retries
  <2>2. Again \in Requests /\ Again.id = lastSetup.id
    BY <2>1, AgainFacts
  <2>3. QED
    BY <2>1, <2>2
<1> HIDE DEF R
<1>8. toUp' \in Seq(R) /\ inflight' \in Seq(R)
  BY <1>1, <1>2, <1>3, <1>4, <1>5, <1>6, <1>7, UpstreamStep
<1>9. QED
  BY <1>8 DEF LastMatches, Repeatable, R

\* A step keeps the count.
LEMMA CountStep ==
  ASSUME Window = 1, KeepaliveCSeq > MaxReq, IndInv, IndInv', OneInv, [Next]_vars
  PROVE  CountInv'
<1>1. CASE \E r \in Requests : ClientSend(r)
  BY <1>1, SendCount DEF OneInv
<1>2. CASE ~\E r \in Requests : ClientSend(r)
  <2>1. Conserved
    <3>1. \/ ConnectDone \/ UpstreamWritable \/ ForwardRequest \/ ForwardSetup \/ RtpWhileStun
          \/ RelayFails \/ Timer \/ PauseSetup \/ ServerAnswers \/ Downward
      BY <1>2 DEF Next, Parse, Downward
    <3>2. QED
      BY <3>1, UpwardConserved, PauseConserved, AnswerConserved, DownwardConserved DEF OneInv
  <2>2. QED
    BY <2>1, ConservedStep DEF OneInv
<1>3. QED
  BY <1>1, <1>2

\* The first request is in the buffer and nowhere else.
LEMMA OneInit ==
  ASSUME Init, IndInv
  PROVE  OneInv
<1>1. PICK r \in Fresh(1, FirstKinds) : recvBuf = <<r>>
  BY DEF Init
<1>2. r.id = 1 /\ sent = <<r>> /\ Len(sent) = 1
  BY <1>1 DEF Init, Fresh
<1>3. ASSUME NEW i \in 1..MaxReq
      PROVE  Tally(i) = Is(r, i)
  <2>1. Copies(<<>>, i) = 0 /\ Copies(recvBuf, i) = Is(r, i)
    BY <1>1, CopiesOne
  <2>2. /\ Copies(wire, i) = 0 /\ Copies(toUp, i) = 0 /\ Copies(inflight, i) = 0
        /\ Copies(toDown, i) = 0 /\ Copies(got, i) = 0
    BY <2>1 DEF Init
  <2>3. Is(pendingSetup, i) = 0 /\ Lost(i) = 0 /\ Is(r, i) \in Nat
    BY DEF Init, Is, Lost, NoReq, Keepalive
  <2>4. QED
    BY <2>1, <2>2, <2>3 DEF Tally, Away
<1>4. CountInv
  BY <1>2, <1>3 DEF CountInv, Is
<1>5. LastMatches
  BY DEF Init, LastMatches
<1>6. QED
  BY <1>4, <1>5 DEF OneInv

\* The invariant of a client that does not pipeline.
LEMMA OneInvariance ==
  ASSUME Window = 1, KeepaliveCSeq > MaxReq
  PROVE  Spec => []OneInv
<1>1. Init /\ IndInv => OneInv
  BY OneInit
<1>2. IndInv /\ IndInv' /\ OneInv /\ [Next]_vars => OneInv'
  BY CountStep, LastStep DEF OneInv
<1>3. QED
  BY <1>1, <1>2, Invariance, PTL DEF Spec

\* A client that does not pipeline, and whose CSeqs stay below the one of the injected
\* keepalives, loses no request and sees none twice: until the session ends, each one is
\* in exactly one place, on its way, paused for STUN, with the server, or answered,
\* whatever the 461 fallback, STUN, the keepalives and the dropping of media do meanwhile.
THEOREM NoRequestLost ==
  ASSUME Window = 1, KeepaliveCSeq > MaxReq
  PROVE  Spec => []RequestConserved
<1>1. IndInv /\ OneInv => RequestConserved
  <2> SUFFICES ASSUME IndInv, OneInv, ~closed, NEW i \in DOMAIN sent
               PROVE  Count(i) = 1
    BY DEF RequestConserved
  <2>1. i \in 1..Len(sent) /\ Len(sent) \in Nat /\ Len(sent) <= MaxReq
    BY DEF IndInv, TypeOK, Shape
  <2>2. i \in 1..MaxReq
    BY <2>1, BoundsAssumption
  <2>3. Count(i) = Tally(i)
    BY <2>2, CountIsTally
  <2>4. QED
    BY <2>1, <2>2, <2>3 DEF OneInv, CountInv
<1>2. QED
  BY <1>1, Invariance, OneInvariance, PTL

---------------------------------------------------------------------------
(* The response to PLAY *)

\* The STUN mode does not change.
LEMMA StunModeStays ==
  ASSUME IndInv, [Next]_vars
  PROVE  stun'.on = stun.on
<1>1. stun \in StunType /\ FALSE \in BOOLEAN /\ TRUE \in BOOLEAN
  BY DEF IndInv, TypeOK, StunType
<1>2. \/ stun' = stun \/ stun' = [stun EXCEPT !.reply = FALSE]
      \/ stun' = [stun EXCEPT !.reply = TRUE]
      \/ (stun.lost < StunLosses /\ stun' = [stun EXCEPT !.reply = FALSE, !.lost = @ + 1])
  BY DEF Next, Parse, ServerAnswers, ConnectFails, ConnectDone, UpstreamWritable, ClientSend,
         DownstreamReadable, ForwardRequest, ForwardSetup, PauseSetup, RelayFails, RtpWhileStun,
         StrayStunReply, StunLost, KeepaliveReply, RetryOverTcp, RelayReply, RelayMedia, Timer,
         DownstreamWritable, PeerCloses, Destroy, vars, setup
<1>3. QED
  BY <1>1, <1>2, StunFacts

\* What a step does to pending_play_, the timer and the ghost, without STUN.
LEMMA PlayStepFacts ==
  ASSUME [Next]_vars, ~stun.on
  PROVE  \/ UNCHANGED <<pendingPlay, timer, played>>
         \/ ForwardRequest \/ ForwardSetup \/ ServerAnswers
BY DEF Next, Parse, ConnectFails, ConnectDone, UpstreamWritable, ClientSend, DownstreamReadable,
       PauseSetup, RelayFails, RtpWhileStun, StrayStunReply, StunLost, RelayMedia, Timer,
       DownstreamWritable, PeerCloses, Destroy, vars, setup, client

\* What is on its way upstream is away.
LEMMA AwayUp ==
  ASSUME IndInv, IndInv', NEW i
  PROVE  /\ Away(i) \in Nat /\ Copies(toUp, i) \in Nat /\ Copies(inflight, i) \in Nat
         /\ Away(i) >= Copies(toUp, i) + Copies(inflight, i)
BY PartsType DEF Away

\* Once a request is answered, no other is on its way upstream.
LEMMA NoneBehind ==
  ASSUME IndInv, IndInv', CountInv, inflight # <<>>, ~IsKeepalive(Head(inflight))
  PROVE  toUp \in Seq({Keepalive}) /\ Tail(inflight) \in Seq({Keepalive})
<1> DEFINE r == Head(inflight)
           t == Tail(inflight)
           k == r.id
<1>1. k \in 1..MaxReq /\ t \in Seq(UpReq) /\ inflight \in Seq(UpReq)
  BY AnswerFacts DEF IndInv, Shape
<1>2. ASSUME NEW i
      PROVE  Copies(inflight, i) = Is(r, i) + Copies(t, i) /\ Copies(t, i) \in Nat
  BY <1>1, CopiesTail, CopiesType
<1>3. Is(r, k) = 1
  BY DEF Is
<1> HIDE DEF r, t, k
<1>4. Copies(inflight, k) = 1 + Copies(t, k) /\ Copies(t, k) \in Nat
  BY <1>2, <1>3
<1>5. Away(k) >= Copies(toUp, k) + Copies(inflight, k)
  BY AwayUp
<1>6. Away(k) >= 1
  <2>1. Away(k) \in Nat /\ Copies(toUp, k) \in Nat
    BY AwayUp
  <2>2. QED
    BY <1>4, <1>5, <2>1
<1>7. Away(k) = 1 /\ \A i \in 1..MaxReq : i # k => Away(i) = 0
  BY <1>1, <1>6, Alone
<1>8. ASSUME NEW i \in 1..MaxReq
      PROVE  Copies(toUp, i) = 0 /\ Copies(t, i) = 0
  <2>1. Copies(toUp, i) \in Nat /\ Copies(inflight, i) \in Nat
    BY PartsType
  <2>2. CASE i = k
    BY <1>4, <1>5, <1>7, <2>1, <2>2
  <2>3. CASE i # k
    <3>1. Away(i) >= Copies(toUp, i) + Copies(inflight, i)
      BY AwayUp
    <3>2. Copies(inflight, i) = Is(r, i) + Copies(t, i) /\ Copies(t, i) \in Nat
      BY <1>2
    <3>3. Is(r, i) \in Nat
      BY DEF Is
    <3>4. QED
      BY <1>7, <2>1, <2>3, <3>1, <3>2, <3>3
  <2>4. QED
    BY <2>2, <2>3
<1>9. toUp \in Seq(UpReq)
  BY DEF IndInv, Shape
<1>10. QED
  BY <1>1, <1>8, <1>9, OnlyKeepalives DEF t

\* The flag keeps saying what is on its way upstream, and the timer what was accepted.
LEMMA PlayStep ==
  ASSUME KeepaliveCSeq > MaxReq, "PLAY" \notin FirstKinds,
         IndInv, IndInv', OneInv, PlayInv, [Next]_vars
  PROVE  PlayInv'
<1> SUFFICES ASSUME ~stun.on
             PROVE  /\ toUp' \in Seq(Flagged') /\ inflight' \in Seq(Flagged')
                    /\ timer' = played'
  BY StunModeStays DEF PlayInv
<1>1. /\ toUp \in Seq(Flagged) /\ inflight \in Seq(Flagged) /\ timer = played
      /\ {pendingPlay, timer, played} \subseteq BOOLEAN
  BY DEF PlayInv, IndInv, TypeOK
<1> DEFINE F == {r \in Requests : r.id # 0 => (r.kind = "PLAY" <=> pendingPlay')}
<1>2. Flagged' = F
  BY DEF Flagged
<1>3. Keepalive \in F
  <2>1. Keepalive \in Requests /\ Keepalive.id = 0
    BY SetFacts DEF Keepalive
  <2>2. QED
    BY <2>1
<1>4. Seq({Keepalive}) \subseteq Seq(F)
  <2>1. {Keepalive} \subseteq F
    BY <1>3
  <2> HIDE DEF F
  <2>2. QED
    BY <2>1, SeqMonotonic
<1>5. CASE UNCHANGED <<pendingPlay, timer, played>> /\ ~ServerAnswers /\ ~ForwardRequest
           /\ ~ForwardSetup
  <2>1. Flagged = F
    BY <1>5 DEF Flagged
  <2>2. ConnectDone => recvBuf \in Seq(F)
    <3> DEFINE G == {r \in ClientReq : r.kind \in FirstKinds}
    <3>1. ConnectDone => recvBuf \in Seq(G) /\ ~pendingPlay
      BY DEF ConnectDone, IndInv, Connecting
    <3>2. ~pendingPlay => G \subseteq F
      BY <1>5 DEF ClientReq
    <3> HIDE DEF F, G
    <3>3. QED
      BY <3>1, <3>2, SeqMonotonic
  <2>3. ~RtpWhileStun
    BY DEF RtpWhileStun
  <2>4. ~RetryOverTcp
    BY <1>5 DEF ServerAnswers
  <2> HIDE DEF F
  <2>5. toUp' \in Seq(F) /\ inflight' \in Seq(F)
    BY <1>1, <1>3, <1>5, <2>1, <2>2, <2>3, <2>4, UpstreamStep
  <2>6. QED
    BY <1>1, <1>2, <1>5, <2>5
<1>6. CASE ForwardRequest \/ ForwardSetup
  <2> DEFINE r == Head(recvBuf)
  <2>1. parsing /\ pendingPlay' = (r.kind = "PLAY") /\ UNCHANGED <<timer, played, inflight>>
    BY <1>6 DEF ForwardRequest, ForwardSetup, PlayPending, client
  <2>2. r \in Requests
    BY <2>1, ParseFacts
  <2>3. toUp \in Seq({Keepalive}) /\ inflight \in Seq({Keepalive})
    <3> DEFINE m == Head(recvBuf).id
    <3>1. m \in 1..MaxReq /\ Copies(recvBuf, m) >= 1
      BY <2>1, HeadCounts
    <3> HIDE DEF m
    <3>2. QED
      BY <3>1, NoneAhead DEF OneInv
  <2>4. r \in F
    BY <2>1, <2>2
  <2>5. Patched(r) \in F
    BY <2>1, <2>2, PatchedFacts
  <2>6. PushUp(r) \/ PushUp(Patched(r))
    BY <1>6 DEF ForwardRequest, ForwardSetup
  <2>7. toUp \in Seq(F) /\ inflight' \in Seq(F)
    BY <1>4, <2>1, <2>3
  <2> HIDE DEF F, r
  <2>8. toUp' \in Seq(F)
    BY <2>4, <2>5, <2>6, <2>7, PushUpFacts
  <2>9. QED
    BY <1>1, <1>2, <2>1, <2>7, <2>8
<1>7. CASE KeepaliveReply
  <2>1. Head(inflight) = Keepalive
    BY <1>7, KeepaliveOnly DEF KeepaliveReply
  <2>2. Head(inflight).kind # "PLAY"
    BY <2>1 DEF Keepalive
  <2>3. played' = played /\ UNCHANGED <<pendingPlay, timer, toUp>> /\ inflight' = Tail(inflight)
    <3>1. played' \in {played, played \/ Head(inflight).kind = "PLAY"}
      BY <1>7 DEF KeepaliveReply
    <3>2. (played \/ Head(inflight).kind = "PLAY") = played
      BY <1>1, <2>2
    <3>3. UNCHANGED <<pendingPlay, timer, toUp>> /\ inflight' = Tail(inflight)
      BY <1>7 DEF KeepaliveReply, setup
    <3>4. QED
      BY <3>1, <3>2, <3>3
  <2>4. Flagged = F
    BY <2>3 DEF Flagged
  <2>5. Tail(inflight) \in Seq(Flagged)
    BY <1>1, <1>7, HeadFacts DEF KeepaliveReply
  <2> HIDE DEF F
  <2>6. QED
    BY <1>1, <1>2, <2>3, <2>4, <2>5
<1>8. CASE RetryOverTcp
  <2>1. /\ UNCHANGED <<pendingPlay, timer, played>> /\ inflight # <<>> /\ lastSetup # NoReq
        /\ ~IsKeepalive(Head(inflight)) /\ Head(inflight).kind = "SETUP"
    BY <1>8 DEF RetryOverTcp, Retries
  <2>2. Flagged = F
    BY <2>1 DEF Flagged
  <2>3. Head(inflight) \in Flagged /\ Head(inflight).id # 0
    BY <1>1, <2>1, HeadFacts, AnswerFacts
  <2>4. ~pendingPlay
    BY <2>1, <2>3 DEF Flagged
  <2>5. Again \in F
    <3>1. Again \in Requests /\ Again.kind = "SETUP"
      BY <2>1, AgainFacts
    <3>2. QED
      BY <2>1, <2>4, <3>1
  <2>6. ~ConnectDone /\ ~ForwardRequest /\ ~ForwardSetup /\ ~RtpWhileStun
    <3>1. Connected /\ Ready
      BY <1>8, <2>1, AnswerFacts DEF RetryOverTcp
    <3>2. QED
      BY <3>1 DEF ConnectDone, ForwardRequest, ForwardSetup, RtpWhileStun, Ready
  <2> HIDE DEF F
  <2>7. toUp' \in Seq(F) /\ inflight' \in Seq(F)
    BY <1>1, <1>3, <2>2, <2>5, <2>6, UpstreamStep
  <2>8. QED
    BY <1>1, <1>2, <2>1, <2>7
<1>9. CASE \E st \in {"200", "461", "err"} : RelayReply(st)
  <2>1. PICK st \in {"200", "461", "err"} : RelayReply(st)
    BY <1>9
  <2>2. /\ inflight # <<>> /\ ~IsKeepalive(Head(inflight))
        /\ inflight' = Tail(inflight) /\ toUp' = toUp
        /\ timer' = (timer \/ (st = "200" /\ pendingPlay))
        /\ played' = (played \/ (st = "200" /\ Head(inflight).kind = "PLAY"))
    BY <2>1 DEF RelayReply
  <2>3. toUp' \in Seq(F) /\ inflight' \in Seq(F)
    <3>1. toUp \in Seq({Keepalive}) /\ Tail(inflight) \in Seq({Keepalive})
      BY <2>2, NoneBehind DEF OneInv
    <3> HIDE DEF F
    <3>2. QED
      BY <1>4, <2>2, <3>1
  <2>4. Head(inflight) \in Flagged /\ Head(inflight).id # 0
    BY <1>1, <2>2, HeadFacts, AnswerFacts
  <2>5. Head(inflight).kind = "PLAY" <=> pendingPlay
    BY <2>4 DEF Flagged
  <2>6. timer' = played'
    BY <1>1, <2>2, <2>5
  <2> HIDE DEF F
  <2>7. QED
    BY <1>2, <2>3, <2>6
<1>10. QED
  BY <1>5, <1>6, <1>7, <1>8, <1>9, PlayStepFacts DEF ServerAnswers

\* pending_play_ identifies the response to PLAY: without STUN, for a client that does not
\* pipeline, keeps its CSeqs below the keepalives' and does not open the connection with a
\* PLAY, the keepalive timer runs if and only if the server has accepted a PLAY.
THEOREM PlayRecognised ==
  ASSUME Window = 1, KeepaliveCSeq > MaxReq, "PLAY" \notin FirstKinds
  PROVE  Spec => []PlayDetected
<1>1. Init => PlayInv
  <2>1. <<>> \in Seq(Flagged)
    BY EmptySeq
  <2>2. QED
    BY <2>1 DEF Init, PlayInv
<1>2. IndInv /\ IndInv' /\ OneInv /\ PlayInv /\ [Next]_vars => PlayInv'
  BY PlayStep
<1>3. PlayInv => PlayDetected
  BY DEF PlayInv, PlayDetected
<1>4. QED
  BY <1>1, <1>2, <1>3, Invariance, OneInvariance, PTL DEF Spec
=============================================================================
