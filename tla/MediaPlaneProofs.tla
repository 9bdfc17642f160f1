-------------------------- MODULE MediaPlaneProofs --------------------------
(***************************************************************************)
(* The way of the media through a session: no block is lost, no packet is  *)
(* mixed up with another, whatever the queue limits, the pool size and the *)
(* number of the other sessions' blocks.                                   *)
(***************************************************************************)
EXTENDS MediaPlane, RtpPipelineProofs

\* Between two sessions nothing is left of the last one.
Clean == ~Exists => queue = <<>> /\ view = NewView /\ ~dropped

\* The queue does not outgrow its limit, except by responses, which are not dropped.
QueueBounded ==
  /\ kind = "http" => Len(queue) <= HttpLimit + 1
  /\ kind # "http" => Len(queue) <= MitmLimit + 1 + replies

\* Only the packet at the head has been sent in part, and it has a payload.
OnlyHeadSent ==
  \A i \in DOMAIN queue : queue[i].sent => i = 1 /\ queue[i].what # "void"

IndInv ==
  /\ TypeOK
  /\ Clean
  /\ QueueBounded
  /\ PoolAccounted
  /\ OnlyHeadSent
  /\ FramesWhole
  /\ MediaWakesClient

\* While no RTP packet has been begun, the first one in the queue has what check_keyframe
\* accepts.
KeyQueued ==
  config.wait /\ ~dropped /\ view.first = "none" =>
    \A i \in DOMAIN queue : queue[i].what = "av" =>
      \E k \in DOMAIN queue : k < i /\ queue[k].what = "sync"

\* Once the gate is open such a packet is queued or has been sent, except in a session
\* that queues no more.
GateOpen ==
  config.wait /\ ~dropped /\ Exists /\ ~waiting /\ ~(kind = "mitm" /\ phase = "closing") =>
    view.first # "none" \/ \E k \in DOMAIN queue : queue[k].what = "sync"

\* While no RTP packet has been begun, a client on UDP has none in its queue.
NoneBehind ==
  config.wait /\ ~dropped /\ kind = "udp" /\ view.first = "none" => ~RtpQueued

KeyInv == KeyQueued /\ GateOpen /\ SyncPointFirst /\ NoneBehind

---------------------------------------------------------------------------
(* The pool *)

\* A pool that has allocated a block only when it had none.
GoodPool(p) ==
  /\ p \in Pools
  /\ p.total >= p.available
  /\ p.total = Larger(PoolSize, p.peak)

PeakBound == MaxOthers + Larger(HttpLimit + 2, MitmLimit + MaxReplies + 3)

\* n blocks are in use.
Accounted(p, n) == GoodPool(p) /\ InUse(p) = n /\ p.peak <= PeakBound

\* acquire takes one block, and the peak follows.
LEMMA AcquireFacts ==
  ASSUME NEW p, NEW n \in Nat, Accounted(p, n), n + 1 <= PeakBound
  PROVE  Acquire(p) \in Pools /\ Accounted(Acquire(p), n + 1)
<1>1. /\ GoodPool(Acquire(p))
      /\ InUse(Acquire(p)) = InUse(p) + 1
      /\ Acquire(p).peak = Larger(p.peak, InUse(p) + 1)
  BY PoolSizeAssumption DEF Accounted, GoodPool, Pools, Acquire, InUse, Larger
<1>2. QED
  BY <1>1 DEF Accounted, GoodPool, Larger

\* release gives k blocks back.
LEMMA ReleaseFacts ==
  ASSUME NEW p, NEW n \in Nat, Accounted(p, n), NEW k \in 0..n
  PROVE  Release(p, k) \in Pools /\ Accounted(Release(p, k), n - k)
BY PoolSizeAssumption DEF Accounted, GoodPool, Pools, Release, InUse, Larger

\* PoolAccounted, in these terms.
LEMMA AccountedFacts ==
  ASSUME NEW p \in Pools, NEW n \in Nat, NEW m \in Nat
  PROVE  Accounted(p, n + m) <=> /\ p.total = p.available + n + m
                                 /\ p.total = Larger(PoolSize, p.peak)
                                 /\ p.peak <= PeakBound
<1>1. p.total \in Nat /\ p.available \in Nat
  BY DEF Pools
<1>2. p.total = p.available + n + m <=> p.total >= p.available /\ InUse(p) = n + m
  BY <1>1 DEF InUse
<1>3. QED
  BY <1>2 DEF Accounted, GoodPool

\* The room between what a session may hold and the peak.
LEMMA BoundFacts ==
  ASSUME IndInv
  PROVE  /\ Len(queue) \in Nat /\ others \in Nat /\ PeakBound \in Nat /\ Limit \in Nat
         /\ Len(queue) + others + 1 <= PeakBound
         /\ kind # "http" => Len(queue) + others + 2 <= PeakBound
         /\ others < MaxOthers => Len(queue) + others + 2 <= PeakBound
         /\ Accounted(pool, Len(queue) + others)
<1>1. Len(queue) \in Nat /\ others \in 0..MaxOthers /\ replies \in 0..MaxReplies /\ pool \in Pools
  BY DEF IndInv, TypeOK
<1>2. PeakBound \in Nat /\ Limit \in Nat
  BY BoundsAssumption DEF PeakBound, Larger, Limit
<1>3. /\ kind = "http" => Len(queue) <= HttpLimit + 1
      /\ kind # "http" => Len(queue) <= MitmLimit + 1 + replies
  BY DEF IndInv, QueueBounded
<1>4. Len(queue) + others + 1 <= PeakBound
  BY <1>1, <1>3, BoundsAssumption DEF PeakBound, Larger
<1>5. kind # "http" => Len(queue) + others + 2 <= PeakBound
  BY <1>1, <1>3, BoundsAssumption DEF PeakBound, Larger
<1>6. others < MaxOthers => Len(queue) + others + 2 <= PeakBound
  BY <1>1, <1>3, BoundsAssumption DEF PeakBound, Larger
<1>7. Accounted(pool, Len(queue) + others)
  <2>1. others \in Nat
    BY <1>1
  <2>2. /\ pool.total = pool.available + Len(queue) + others
        /\ pool.total = Larger(PoolSize, pool.peak)
        /\ pool.peak <= PeakBound
    BY DEF IndInv, PoolAccounted, PeakBound
  <2>3. QED
    BY <1>1, <2>1, <2>2, AccountedFacts
<1>8. QED
  BY <1>1, <1>2, <1>4, <1>5, <1>6, <1>7, BoundsAssumption

---------------------------------------------------------------------------
(* The queue *)

\* What is queued by a push, and what is dropped for it.
LEMMA PushFacts ==
  ASSUME NEW q \in Seq(Queueable), NEW w \in Contents, Limit \in Nat
  PROVE  /\ Pushed(q, Whole(w)) \in Seq(Queueable)
         /\ Freed(q) \in 0..Len(q)
         /\ Len(Pushed(q, Whole(w))) = Len(q) + 1 - Freed(q)
         /\ Pushed(q, Whole(w))[Len(q) + 1 - Freed(q)] = Whole(w)
         /\ \A i \in 1..(Len(q) - Freed(q)) : Pushed(q, Whole(w))[i] = q[i + Freed(q)]
<1>0. Whole(w) \in Queueable
  BY DEF Whole, Queueable
<1>1. CASE Full(q)
  <2>1. q # <<>> /\ Freed(q) = 1 /\ Pushed(q, Whole(w)) = Append(Tail(q), Whole(w))
    BY <1>1 DEF Full, Freed, Pushed
  <2>2. /\ Tail(q) \in Seq(Queueable) /\ Len(Tail(q)) = Len(q) - 1
        /\ \A i \in 1..(Len(q) - 1) : Tail(q)[i] = q[i + 1]
    BY <2>1, HeadTailProperties
  <2>3. QED
    BY <1>0, <2>1, <2>2, AppendProperties
<1>2. CASE ~Full(q)
  <2>1. Freed(q) = 0 /\ Pushed(q, Whole(w)) = Append(q, Whole(w))
    BY <1>2 DEF Freed, Pushed
  <2>2. QED
    BY <1>0, <2>1, AppendProperties
<1>3. QED
  BY <1>1, <1>2

\* What is left when j packets have been sent, and a part of the next one.
LEMMA RemainingFacts ==
  ASSUME queue \in Seq(Queueable), NEW j \in 0..Len(queue), NEW part \in BOOLEAN,
         part => j < Len(queue)
  PROVE  /\ Remaining(j, part) \in Seq(Queueable)
         /\ Len(Remaining(j, part)) = Len(queue) - j
         /\ \A i \in 1..(Len(queue) - j) :
              /\ Remaining(j, part)[i].what = queue[i + j].what
              /\ ~(part /\ i = 1) => Remaining(j, part)[i] = queue[i + j]
         /\ part => Remaining(j, part)[1].sent
<1> DEFINE rest == SubSeq(queue, j + 1, Len(queue))
<1>1. /\ rest \in Seq(Queueable) /\ Len(rest) = Len(queue) - j
      /\ \A i \in 1..(Len(queue) - j) : rest[i] = queue[i + j]
  <2>1. \A i \in (j + 1)..Len(queue) : queue[i] \in Queueable
    OBVIOUS
  <2>2. /\ rest \in Seq(Queueable)
        /\ Len(rest) = IF j + 1 <= Len(queue) THEN Len(queue) - (j + 1) + 1 ELSE 0
        /\ \A i \in 1..(Len(queue) - (j + 1) + 1) : rest[i] = queue[(j + 1) + i - 1]
    BY <2>1, SubSeqProperties
  <2>3. QED
    BY <2>2
<1> HIDE DEF rest
<1>2. CASE part
  <2> DEFINE e == [rest[1] EXCEPT !.sent = TRUE]
  <2>1. Remaining(j, part) = [rest EXCEPT ![1] = e]
    BY <1>2 DEF Remaining, rest
  <2>2. 1 \in 1..Len(rest) /\ rest[1] \in Queueable
    BY <1>1, <1>2
  <2>3. e \in Queueable /\ e.what = rest[1].what /\ e.sent
    BY <2>2 DEF Queueable
  <2> HIDE DEF e
  <2>4. /\ Remaining(j, part) \in Seq(Queueable)
        /\ Len(Remaining(j, part)) = Len(rest)
        /\ \A i \in 1..Len(rest) : Remaining(j, part)[i] = IF i = 1 THEN e ELSE rest[i]
    BY <1>1, <2>1, <2>2, <2>3, ExceptSeq
  <2>5. QED
    BY <1>1, <1>2, <2>2, <2>3, <2>4
<1>3. CASE ~part
  <2>1. Remaining(j, part) = rest
    BY <1>3 DEF Remaining, rest
  <2>2. QED
    BY <1>1, <1>3, <2>1
<1>4. QED
  BY <1>2, <1>3

---------------------------------------------------------------------------
(* The inductive invariant, action by action *)

\* The worker starts without a session.
LEMMA InitInv == Init => IndInv
<1> SUFFICES ASSUME Init
             PROVE  IndInv
  OBVIOUS
<1>1. TypeOK
  <2>1. pool \in Pools /\ others \in 0..MaxOthers /\ replies \in 0..MaxReplies
    BY BoundsAssumption, PoolSizeAssumption DEF Init, Pools, NewPool
  <2>2. view \in Views
    BY Zenon DEF Init, Views, NewView
  <2>3. {waiting, wantOut, hasPort, fresh, dropped} \subseteq BOOLEAN
    BY Zenon DEF Init
  <2>4. queue \in Seq(Queueable)
    BY DEF Init
  <2>5. QED
    BY <2>1, <2>2, <2>3, <2>4 DEF Init, TypeOK
<1>2. PoolAccounted
  BY BoundsAssumption, PoolSizeAssumption DEF Init, PoolAccounted, NewPool, Larger
<1>3. Clean /\ QueueBounded /\ OnlyHeadSent
  BY BoundsAssumption DEF Init, Clean, QueueBounded, OnlyHeadSent
<1>4. FramesWhole /\ MediaWakesClient
  BY DEF Init, FramesWhole, MediaWakesClient, Exists, NewView
<1>5. QED
  BY <1>1, <1>2, <1>3, <1>4 DEF IndInv

\* What the pool must be after a step for PoolAccounted to hold.
LEMMA PoolStep ==
  ASSUME queue' \in Seq(Queueable), others' \in 0..MaxOthers, pool' \in Pools,
         Accounted(pool', Len(queue') + others')
  PROVE  PoolAccounted'
<1>1. Len(queue') \in Nat /\ others' \in Nat
  BY BoundsAssumption
<1>2. QED
  BY <1>1, AccountedFacts DEF PoolAccounted, PeakBound

\* A handler that takes a block and gives it back.
LEMMA BorrowFacts ==
  ASSUME IndInv, pool' = Release(Acquire(pool), 1), UNCHANGED <<queue, others>>
  PROVE  pool' \in Pools /\ PoolAccounted'
<1> DEFINE n == Len(queue) + others
<1>1. n \in Nat /\ Accounted(pool, n) /\ n + 1 <= PeakBound
  BY BoundFacts
<1> HIDE DEF n
<1>2. Accounted(Acquire(pool), n + 1) /\ n + 1 \in Nat /\ 1 \in 0..(n + 1) /\ (n + 1) - 1 = n
  BY <1>1, AcquireFacts
<1>3. pool' \in Pools /\ Accounted(pool', (n + 1) - 1)
  BY <1>2, ReleaseFacts
<1>4. Accounted(pool', Len(queue') + others')
  BY <1>2, <1>3 DEF n
<1>5. queue' \in Seq(Queueable) /\ others' \in 0..MaxOthers
  BY DEF IndInv, TypeOK
<1>6. QED
  BY <1>3, <1>4, <1>5, PoolStep

\* A push into the queue of a session, whatever the packet.
LEMMA PushInv ==
  ASSUME IndInv, Exists, kind # "udp", NEW w \in Contents,
         queue' = Pushed(queue, Whole(w)), wantOut' = TRUE,
         dropped' = (dropped \/ Full(queue)),
         UNCHANGED <<kind, phase, replies, view>>
  PROVE  /\ queue' \in Seq(Queueable) /\ dropped' \in BOOLEAN
         /\ Clean' /\ QueueBounded' /\ OnlyHeadSent' /\ FramesWhole' /\ MediaWakesClient'
         /\ Freed(queue) \in 0..Len(queue)
         /\ Len(queue') = Len(queue) + 1 - Freed(queue)
<1> DEFINE f == Freed(queue)
           n == Len(queue)
<1>0. queue \in Seq(Queueable) /\ n \in Nat /\ Limit \in Nat
  BY BoundFacts DEF IndInv, TypeOK
<1>1. /\ queue' \in Seq(Queueable) /\ f \in 0..n /\ Len(queue') = n + 1 - f
      /\ queue'[n + 1 - f] = Whole(w)
      /\ \A i \in 1..(n - f) : queue'[i] = queue[i + f]
  BY <1>0, PushFacts
<1>2. DOMAIN queue' = 1..(n + 1 - f) /\ DOMAIN queue = 1..n
  BY <1>0, <1>1
<1>3. f = (IF n > Limit THEN 1 ELSE 0) /\ (Full(queue) <=> f = 1)
  BY <1>0 DEF Freed, Full
<1> HIDE DEF f, n
<1>4. QueueBounded'
  BY <1>0, <1>1, <1>3, BoundsAssumption DEF IndInv, TypeOK, QueueBounded, Limit, n
<1>5. OnlyHeadSent'
  <2> SUFFICES ASSUME NEW i \in 1..(n + 1 - f), queue'[i].sent
               PROVE  i = 1 /\ queue'[i].what # "void"
    BY <1>2 DEF OnlyHeadSent
  <2>1. i # n + 1 - f
    BY <1>1 DEF Whole
  <2>2. i \in 1..(n - f) /\ i + f \in 1..n
    BY <1>0, <1>1, <2>1
  <2>3. queue'[i] = queue[i + f]
    BY <1>1, <2>2
  <2>4. i + f = 1 /\ queue[i + f].what # "void"
    BY <1>2, <2>2, <2>3 DEF IndInv, OnlyHeadSent
  <2>5. QED
    BY <1>0, <1>1, <2>2, <2>3, <2>4
<1>6. FramesWhole'
  <2> SUFFICES ASSUME ~dropped'
               PROVE  ~view.torn /\ (view.mid <=> queue' # <<>> /\ Head(queue').sent)
    BY DEF FramesWhole
  <2>1. ~dropped /\ f = 0
    BY <1>1, <1>3
  <2>2. ~view.torn /\ (view.mid <=> queue # <<>> /\ Head(queue).sent)
    BY <2>1 DEF IndInv, FramesWhole
  <2>3. queue' # <<>> /\ Head(queue') = queue'[1]
    BY <1>0, <1>1, <2>1
  <2>4. CASE n = 0
    <3>1. queue = <<>> /\ queue'[1] = Whole(w)
      BY <1>0, <1>1, <2>1, <2>4 DEF n
    <3>2. QED
      BY <2>2, <2>3, <3>1 DEF Whole
  <2>5. CASE n # 0
    <3>1. queue # <<>> /\ Head(queue) = queue[1] /\ queue'[1] = queue[1]
      BY <1>0, <1>1, <2>1, <2>5 DEF n
    <3>2. QED
      BY <2>2, <2>3, <3>1
  <2>6. QED
    BY <2>4, <2>5
<1>7. Clean' /\ MediaWakesClient'
  BY DEF Clean, MediaWakesClient, Exists
<1>8. dropped' \in BOOLEAN
  OBVIOUS
<1>9. QED
  BY <1>1, <1>4, <1>5, <1>6, <1>7, <1>8 DEF f, n

\* Steps that leave the queue alone.
LEMMA SameQueue ==
  ASSUME IndInv, UNCHANGED <<kind, queue, wantOut, dropped, view, replies>>, Exists' <=> Exists
  PROVE  Clean' /\ QueueBounded' /\ OnlyHeadSent' /\ FramesWhole' /\ MediaWakesClient'
BY DEF IndInv, Clean, QueueBounded, OnlyHeadSent, FramesWhole, MediaWakesClient

\* The constructor: an HTTP session starts with the response header.
LEMMA OpenInv ==
  ASSUME IndInv, NEW k \in {"http", "udp"}, Open(k)
  PROVE  IndInv'
<1>0. /\ phase' = "live" /\ kind' = k /\ Exists' /\ ~Exists
      /\ queue = <<>> /\ view = NewView /\ ~dropped
      /\ UNCHANGED <<config, wantOut, replies, others, dropped, view>>
      /\ queue' \in {<<>>, <<Whole("header")>>}
  BY DEF Open, IndInv, Clean, Exists
<1>1. Whole("header") = [what |-> "header", sent |-> FALSE] /\ Whole("header") \in Queueable
  BY DEF Whole, Queueable, Contents
<1>2. queue' \in Seq(Queueable) /\ Len(queue') <= 1
  <2> DEFINE h == Whole("header")
  <2>1. h \in Queueable
    BY <1>1
  <2> HIDE DEF h
  <2>2. <<h>> \in Seq(Queueable) /\ Len(<<h>>) = 1
    BY <2>1
  <2>3. queue' \in {<<>>, <<h>>}
    BY <1>0 DEF h
  <2>4. CASE queue' = <<>>
    BY <2>4
  <2>5. CASE queue' = <<h>>
    BY <2>2, <2>5
  <2>6. QED
    BY <2>3, <2>4, <2>5
<1>3. pool' \in Pools /\ PoolAccounted'
  <2>1. CASE k = "http"
    <3>1. Len(queue') = 1 /\ Len(queue) = 0 /\ pool' = Acquire(pool) /\ others' = others
      BY <1>0, <2>1 DEF Open
    <3>2. Accounted(pool, 0 + others) /\ others \in Nat /\ 0 + others + 1 <= PeakBound
      BY <3>1, BoundFacts
    <3>3. pool' \in Pools /\ Accounted(pool', 0 + others + 1)
      BY <3>1, <3>2, AcquireFacts
    <3>4. 0 + others + 1 = Len(queue') + others'
      BY <3>1, <3>2
    <3>5. others' \in 0..MaxOthers
      BY <3>1 DEF IndInv, TypeOK
    <3>6. QED
      BY <1>2, <3>3, <3>4, <3>5, PoolStep
  <2>2. CASE k # "http"
    BY <2>2 DEF Open, IndInv, TypeOK, PoolAccounted
  <2>3. QED
    BY <2>1, <2>2
<1>4. TypeOK'
  <2>1. waiting' \in BOOLEAN
    BY DEF Open, ResetGate, IndInv, TypeOK
  <2>2. hasPort' \in BOOLEAN /\ fresh' \in BOOLEAN
    BY DEF Open
  <2>3. QED
    BY <1>0, <1>2, <1>3, <2>1, <2>2 DEF IndInv, TypeOK
<1>5. Clean' /\ QueueBounded'
  BY <1>0, <1>2, BoundsAssumption DEF IndInv, TypeOK, Clean, QueueBounded
<1>6. OnlyHeadSent' /\ MediaWakesClient'
  BY <1>0, <1>1 DEF OnlyHeadSent, MediaWakesClient
<1>7. FramesWhole'
  BY <1>0, <1>1 DEF FramesWhole, NewView
<1>8. QED
  BY <1>3, <1>4, <1>5, <1>6, <1>7 DEF IndInv

\* PLAY, the queued removal, and packets from a client.
LEMMA QuietInv ==
  ASSUME IndInv, HttpPlay \/ Close \/ FromClient
  PROVE  IndInv'
<1>1. /\ UNCHANGED <<config, kind, queue, wantOut, dropped, view, replies, others, fresh>>
      /\ phase' \in {"none", "live", "closing"} /\ (Exists' <=> Exists)
      /\ waiting' \in BOOLEAN /\ hasPort' \in BOOLEAN
  BY DEF HttpPlay, Close, FromClient, Exists, ResetGate, ghosts, IndInv, TypeOK
<1>2. Clean' /\ QueueBounded' /\ OnlyHeadSent' /\ FramesWhole' /\ MediaWakesClient'
  BY <1>1, SameQueue
<1>3. pool' \in Pools /\ PoolAccounted'
  <2>1. CASE FromClient
    BY <1>1, <2>1, BorrowFacts DEF FromClient
  <2>2. CASE HttpPlay \/ Close
    BY <1>1, <2>2 DEF HttpPlay, Close, IndInv, TypeOK, PoolAccounted
  <2>3. QED
    BY <2>1, <2>2
<1>4. TypeOK'
  BY <1>1, <1>3 DEF IndInv, TypeOK
<1>5. QED
  BY <1>2, <1>3, <1>4 DEF IndInv

\* A SETUP changes the transport, and leaves the queue alone.
LEMMA SetupInv ==
  ASSUME IndInv, NEW tcp \in BOOLEAN, MitmSetup(tcp)
  PROVE  IndInv'
<1>1. /\ Exists /\ kind # "http" /\ kind' \in {"mitm", "udp"}
      /\ phase' \in {"live", "closing"} /\ Exists' /\ hasPort' \in BOOLEAN
      /\ UNCHANGED <<config, waiting, queue, wantOut, replies, pool, others, fresh, dropped>>
  BY DEF MitmSetup, Exists, IndInv, TypeOK
<1>2. view' \in Views /\ view'.mid = view.mid /\ view'.torn = view.torn
  <2>1. view \in Views /\ (view' = view \/ view' = [view EXCEPT !.first = "overtaken"])
    BY DEF MitmSetup, IndInv, TypeOK
  <2>2. CASE view' = [view EXCEPT !.first = "overtaken"]
    <3>1. view' = [mid |-> view.mid, torn |-> view.torn, first |-> "overtaken"]
      BY <2>1, <2>2 DEF Views
    <3>2. QED
      BY <2>1, <3>1 DEF Views
  <2>3. QED
    BY <2>1, <2>2
<1>3. TypeOK'
  BY <1>1, <1>2 DEF IndInv, TypeOK
<1>4. Clean' /\ QueueBounded' /\ OnlyHeadSent' /\ MediaWakesClient' /\ PoolAccounted'
  BY <1>1 DEF IndInv, Clean, QueueBounded, OnlyHeadSent, MediaWakesClient, PoolAccounted
<1>5. FramesWhole'
  BY <1>1, <1>2 DEF IndInv, FramesWhole
<1>6. QED
  BY <1>3, <1>4, <1>5 DEF IndInv

\* A relayed response is appended to the queue without a look at its limit.
LEMMA ReplyInv ==
  ASSUME IndInv, NEW play \in BOOLEAN, MitmReply(play)
  PROVE  IndInv'
<1> DEFINE n == Len(queue)
<1>0. /\ Exists /\ kind # "http" /\ replies < MaxReplies
      /\ queue' = Append(queue, Whole("ctl")) /\ pool' = Acquire(pool)
      /\ wantOut' = TRUE /\ replies' = replies + 1
      /\ UNCHANGED <<config, kind, phase, hasPort, others, fresh, dropped, view>>
  BY DEF MitmReply, ghosts
<1>1. Whole("ctl") = [what |-> "ctl", sent |-> FALSE] /\ Whole("ctl") \in Queueable
  BY DEF Whole, Queueable, Contents
<1>2. /\ queue \in Seq(Queueable) /\ n \in Nat /\ DOMAIN queue = 1..n
      /\ queue' \in Seq(Queueable) /\ Len(queue') = n + 1 /\ DOMAIN queue' = 1..(n + 1)
      /\ queue'[n + 1] = Whole("ctl") /\ \A i \in 1..n : queue'[i] = queue[i]
  BY <1>0, <1>1, AppendProperties DEF IndInv, TypeOK
<1>3. pool' \in Pools /\ PoolAccounted'
  <2>1. Accounted(pool, n + others) /\ n + others \in Nat /\ n + others + 1 <= PeakBound
    BY BoundFacts
  <2>2. pool' \in Pools /\ Accounted(pool', n + others + 1)
    BY <1>0, <2>1, AcquireFacts
  <2>3. n + others + 1 = Len(queue') + others' /\ others' \in 0..MaxOthers
    BY <1>0, <1>2, BoundFacts DEF IndInv, TypeOK
  <2>4. QED
    BY <1>2, <2>2, <2>3, PoolStep
<1>4. TypeOK'
  <2>1. waiting' \in BOOLEAN
    BY DEF MitmReply, ResetGate, IndInv, TypeOK
  <2>2. replies' \in 0..MaxReplies
    BY <1>0, BoundsAssumption DEF IndInv, TypeOK
  <2>3. QED
    BY <1>0, <1>2, <1>3, <2>1, <2>2 DEF IndInv, TypeOK
<1> HIDE DEF n
<1>5. QueueBounded'
  <2>1. kind' # "http" => Len(queue') <= MitmLimit + 1 + replies'
    BY <1>0, <1>2, BoundsAssumption DEF IndInv, TypeOK, QueueBounded, n
  <2>2. QED
    BY <1>0, <2>1 DEF QueueBounded
<1>6. Clean' /\ MediaWakesClient'
  BY <1>0 DEF Clean, MediaWakesClient, Exists
<1>7. OnlyHeadSent'
  BY <1>1, <1>2 DEF IndInv, OnlyHeadSent
<1>8. FramesWhole'
  <2>1. CASE n = 0
    <3>1. queue = <<>> /\ Head(queue') = Whole("ctl")
      BY <1>2, <2>1 DEF n
    <3>2. QED
      BY <1>0, <1>1, <3>1 DEF IndInv, FramesWhole, Exists
  <2>2. CASE n # 0
    <3>1. queue # <<>> /\ queue' # <<>> /\ Head(queue') = Head(queue)
      BY <1>2, <2>2 DEF n
    <3>2. QED
      BY <1>0, <3>1 DEF IndInv, FramesWhole, Exists
  <2>3. QED
    BY <2>1, <2>2
<1>9. QED
  BY <1>3, <1>4, <1>5, <1>6, <1>7, <1>8 DEF IndInv

\* The destructor returns every queued block.
LEMMA DestroyInv ==
  ASSUME IndInv, Destroy
  PROVE  IndInv'
<1>0. /\ phase' = "none" /\ pool' = Release(pool, Len(queue)) /\ kind' = "http" /\ queue' = <<>>
      /\ replies' = 0 /\ dropped' = FALSE /\ view' = NewView /\ wantOut' = FALSE
      /\ UNCHANGED <<config, others>>
  BY DEF Destroy, Returned
<1>1. pool' \in Pools /\ PoolAccounted'
  <2> DEFINE n == Len(queue) + others
  <2>1. Accounted(pool, n) /\ n \in Nat /\ Len(queue) \in 0..n /\ n - Len(queue) = others
    BY BoundFacts
  <2> HIDE DEF n
  <2>2. pool' \in Pools /\ Accounted(pool', n - Len(queue))
    BY <1>0, <2>1, ReleaseFacts
  <2>3. queue' \in Seq(Queueable) /\ Len(queue') + others' = others /\ others' \in 0..MaxOthers
    BY <1>0, BoundFacts DEF IndInv, TypeOK
  <2>4. QED
    BY <2>1, <2>2, <2>3, PoolStep
<1>2. TypeOK'
  <2>1. view' \in Views
    BY <1>0, Zenon DEF Views, NewView
  <2>2. {waiting', wantOut', hasPort', fresh', dropped'} \subseteq BOOLEAN
    BY Zenon DEF Destroy
  <2>3. queue' \in Seq(Queueable) /\ replies' \in 0..MaxReplies
    BY <1>0, BoundsAssumption
  <2>4. QED
    BY <1>0, <1>1, <2>1, <2>2, <2>3 DEF IndInv, TypeOK
<1>3. Clean' /\ QueueBounded' /\ OnlyHeadSent'
  BY <1>0, BoundsAssumption DEF Clean, QueueBounded, OnlyHeadSent
<1>4. FramesWhole' /\ MediaWakesClient'
  BY <1>0 DEF FramesWhole, MediaWakesClient, Exists, NewView
<1>5. QED
  BY <1>1, <1>2, <1>3, <1>4 DEF IndInv

\* What the pipeline makes of a packet.
LEMMA ContentType ==
  ASSUME NEW u
  PROVE  Content(u) \in Contents \cap {"sync", "av", "void"} /\ (Content(u) = "void" => kind = "http")
BY DEF Content, Contents

\* The pool after a push: the block of the packet dropped comes back.
LEMMA PushPool ==
  ASSUME IndInv, queue' \in Seq(Queueable), Freed(queue) \in 0..Len(queue),
         Len(queue') = Len(queue) + 1 - Freed(queue), others' = others,
         pool' = Release(Acquire(pool), Freed(queue))
  PROVE  pool' \in Pools /\ PoolAccounted'
<1> DEFINE n == Len(queue) + others
<1>1. /\ Accounted(pool, n) /\ n \in Nat /\ n + 1 <= PeakBound
      /\ Freed(queue) \in 0..(n + 1) /\ Len(queue') + others' = (n + 1) - Freed(queue)
      /\ others' \in 0..MaxOthers
  BY BoundFacts DEF IndInv, TypeOK
<1> HIDE DEF n
<1>2. Accounted(Acquire(pool), n + 1) /\ n + 1 \in Nat
  BY <1>1, AcquireFacts
<1>3. pool' \in Pools /\ Accounted(pool', (n + 1) - Freed(queue))
  BY <1>1, <1>2, ReleaseFacts
<1>4. QED
  BY <1>1, <1>3, PoolStep

\* RTP of an HTTP session: queued, or its block given back.
LEMMA HttpRtpInv ==
  ASSUME IndInv, NEW d, HttpRtp(d)
  PROVE  IndInv'
<1> DEFINE taken == Passes(d, waiting, config.strip) /\ d.header
           w == Content(Stripped(d, config.strip))
<1>0. /\ Exists /\ kind = "http" /\ wantOut' = TRUE /\ fresh' = FALSE
      /\ UNCHANGED <<config, kind, phase, replies, others, hasPort, view>>
      /\ queue' = IF taken THEN Pushed(queue, Whole(w)) ELSE queue
      /\ pool' = Release(Acquire(pool), IF taken THEN Freed(queue) ELSE 1)
      /\ dropped' = (dropped \/ (taken /\ Full(queue)))
  BY DEF HttpRtp, Read
<1>1. waiting' \in BOOLEAN
  BY DEF HttpRtp, Read, IndInv, TypeOK
<1>2. w \in Contents
  BY ContentType
<1> HIDE DEF taken, w
<1>3. CASE taken
  <2>1. queue' = Pushed(queue, Whole(w)) /\ dropped' = (dropped \/ Full(queue))
    BY <1>0, <1>3
  <2>2. /\ queue' \in Seq(Queueable) /\ dropped' \in BOOLEAN
        /\ Clean' /\ QueueBounded' /\ OnlyHeadSent' /\ FramesWhole' /\ MediaWakesClient'
        /\ Freed(queue) \in 0..Len(queue)
        /\ Len(queue') = Len(queue) + 1 - Freed(queue)
    BY <1>0, <1>2, <2>1, PushInv
  <2>3. pool' \in Pools /\ PoolAccounted'
    BY <1>0, <1>3, <2>2, PushPool
  <2>4. TypeOK'
    BY <1>0, <1>1, <2>2, <2>3 DEF IndInv, TypeOK
  <2>5. QED
    BY <2>2, <2>3, <2>4 DEF IndInv
<1>4. CASE ~taken
  <2>1. queue' = queue /\ (dropped' <=> dropped) /\ dropped' \in BOOLEAN
    BY <1>0, <1>4 DEF IndInv, TypeOK
  <2>2. pool' \in Pools /\ PoolAccounted'
    BY <1>0, <1>4, <2>1, BorrowFacts
  <2>3. Clean' /\ QueueBounded' /\ OnlyHeadSent' /\ FramesWhole' /\ MediaWakesClient'
    BY <1>0, <2>1 DEF IndInv, Clean, QueueBounded, OnlyHeadSent, FramesWhole, MediaWakesClient,
                      Exists
  <2>4. TypeOK'
    BY <1>0, <1>1, <2>1, <2>2 DEF IndInv, TypeOK
  <2>5. QED
    BY <2>2, <2>3, <2>4 DEF IndInv
<1>5. QED
  BY <1>3, <1>4

\* A packet for a client on TCP is copied: its own block comes back, if it has one.
LEMMA InterleavedInv ==
  ASSUME IndInv, Exists, kind = "mitm", NEW w \in Contents, NEW held \in {0, 1},
         SendInterleaved(w, IF held = 1 THEN Acquire(pool) ELSE pool, held),
         waiting' \in BOOLEAN, fresh' \in BOOLEAN,
         UNCHANGED <<config, kind, phase, replies, others, hasPort, view>>
  PROVE  IndInv'
<1> DEFINE p == IF held = 1 THEN Acquire(pool) ELSE pool
           n == Len(queue) + others
<1>1. Accounted(pool, n) /\ n \in Nat /\ n + 2 <= PeakBound
  BY BoundFacts
<1>2. Accounted(p, n + held) /\ n + held \in Nat
  <2>1. CASE held = 1
    BY <1>1, <2>1, AcquireFacts, BoundFacts
  <2>2. CASE held = 0
    BY <1>1, <2>2
  <2>3. QED
    BY <2>1, <2>2
<1> HIDE DEF p
<1>3. CASE phase = "closing"
  <2>1. UNCHANGED <<queue, wantOut, dropped>> /\ pool' = Release(p, held)
    BY <1>3 DEF SendInterleaved, p
  <2>2. Clean' /\ QueueBounded' /\ OnlyHeadSent' /\ FramesWhole' /\ MediaWakesClient'
    BY <2>1, SameQueue DEF Exists
  <2>3. pool' \in Pools /\ PoolAccounted'
    <3>1. held \in 0..(n + held) /\ (n + held) - held = n
      BY <1>1
    <3>2. pool' \in Pools /\ Accounted(pool', (n + held) - held)
      BY <1>2, <2>1, <3>1, ReleaseFacts
    <3>3. Accounted(pool', Len(queue') + others') /\ others' \in 0..MaxOthers
      BY <2>1, <3>1, <3>2 DEF IndInv, TypeOK
    <3>4. QED
      BY <2>1, <3>2, <3>3, PoolStep DEF IndInv, TypeOK
  <2>4. TypeOK'
    BY <2>1, <2>3 DEF IndInv, TypeOK
  <2>5. QED
    BY <2>2, <2>3, <2>4 DEF IndInv
<1>4. CASE phase # "closing"
  <2> DEFINE f == Freed(queue)
  <2>1. /\ queue' = Pushed(queue, Whole(w)) /\ wantOut' = TRUE
        /\ pool' = Release(Release(Acquire(p), f), held)
        /\ dropped' = (dropped \/ Full(queue))
    BY <1>4 DEF SendInterleaved, p
  <2>2. /\ queue' \in Seq(Queueable) /\ dropped' \in BOOLEAN
        /\ Clean' /\ QueueBounded' /\ OnlyHeadSent' /\ FramesWhole' /\ MediaWakesClient'
        /\ f \in 0..Len(queue)
        /\ Len(queue') = Len(queue) + 1 - f
    BY <2>1, PushInv
  <2>3. pool' \in Pools /\ PoolAccounted'
    <3> DEFINE l == Len(queue)
               m == n + held + 1
    <3>0. /\ l \in Nat /\ others \in Nat /\ n = l + others /\ f \in 0..l /\ Len(queue') = l + 1 - f
          /\ PeakBound \in Nat
      BY <2>2, BoundFacts
    <3> HIDE DEF n, f, l
    <3>1. /\ m \in Nat /\ m <= PeakBound /\ f \in 0..m /\ m - f \in Nat /\ held \in 0..(m - f)
          /\ Len(queue') + others' = (m - f) - held
      BY <1>1, <3>0
    <3>2. Accounted(Acquire(p), m)
      BY <1>2, <3>1, AcquireFacts
    <3> HIDE DEF m
    <3>3. Accounted(Release(Acquire(p), f), m - f)
      BY <3>1, <3>2, ReleaseFacts
    <3>4. pool' \in Pools /\ Accounted(pool', (m - f) - held)
      BY <2>1, <3>1, <3>3, ReleaseFacts
    <3>5. others' \in 0..MaxOthers
      BY DEF IndInv, TypeOK
    <3>6. QED
      BY <2>2, <3>1, <3>4, <3>5, PoolStep
  <2>4. TypeOK'
    BY <2>1, <2>2, <2>3 DEF IndInv, TypeOK
  <2>5. QED
    BY <2>2, <2>3, <2>4 DEF IndInv
<1>5. QED
  BY <1>3, <1>4

\* RTP of a session of the other type: refused, copied, or sent on at once.
LEMMA MitmRtpInv ==
  ASSUME IndInv, NEW d, MitmRtp(d)
  PROVE  IndInv'
<1> DEFINE w == Content(Stripped(d, config.strip))
<1>0. /\ Exists /\ kind # "http" /\ fresh' = FALSE
      /\ UNCHANGED <<config, kind, phase, replies, others, hasPort>>
  BY DEF MitmRtp, Read
<1>1. waiting' \in BOOLEAN
  BY DEF MitmRtp, Read, IndInv, TypeOK
<1>2. w \in Contents /\ w \in {"sync", "av"}
  BY <1>0, ContentType
<1> HIDE DEF w
<1>3. CASE pool' = Release(Acquire(pool), 1) /\ UNCHANGED <<queue, wantOut, dropped, view>>
  <2>1. Clean' /\ QueueBounded' /\ OnlyHeadSent' /\ FramesWhole' /\ MediaWakesClient'
    BY <1>0, <1>3, SameQueue DEF Exists
  <2>2. pool' \in Pools /\ PoolAccounted'
    BY <1>0, <1>3, BorrowFacts
  <2>3. TypeOK'
    BY <1>0, <1>1, <1>3, <2>2 DEF IndInv, TypeOK
  <2>4. QED
    BY <2>1, <2>2, <2>3 DEF IndInv
<1>4. CASE kind = "mitm" /\ SendInterleaved(w, Acquire(pool), 1) /\ UNCHANGED view
  <2>1. SendInterleaved(w, IF 1 = 1 THEN Acquire(pool) ELSE pool, 1)
    BY <1>4
  <2>2. QED
    BY <1>0, <1>1, <1>2, <1>4, <2>1, InterleavedInv
<1>5. CASE kind = "udp" /\ SendUdp(w)
  <2>1. /\ pool' = Release(Acquire(pool), 1) /\ UNCHANGED <<queue, wantOut>>
        /\ dropped' = (dropped \/ ~hasPort)
    BY <1>5 DEF SendUdp
  <2>2. pool' \in Pools /\ PoolAccounted'
    BY <1>0, <2>1, BorrowFacts
  <2>3. view' \in Views /\ view'.mid = view.mid /\ view'.torn = view.torn
    <3> DEFINE f == FirstSeen(w)
    <3>1. f \in {"none", "sync", "av", "overtaken"} /\ view \in Views
      BY <1>2 DEF FirstSeen, IndInv, TypeOK, Views
    <3>2. view' = view \/ view' = [view EXCEPT !.first = f]
      BY <1>5 DEF SendUdp
    <3> HIDE DEF f
    <3>3. CASE view' = [view EXCEPT !.first = f]
      <4>1. view' = [mid |-> view.mid, torn |-> view.torn, first |-> f]
        BY <3>1, <3>3 DEF Views
      <4>2. QED
        BY <3>1, <4>1 DEF Views
    <3>4. QED
      BY <3>1, <3>2, <3>3
  <2>4. dropped' \in BOOLEAN /\ (~dropped' => ~dropped)
    BY <2>1
  <2>5. Clean' /\ QueueBounded' /\ OnlyHeadSent' /\ MediaWakesClient'
    BY <1>0, <2>1 DEF IndInv, Clean, QueueBounded, OnlyHeadSent, MediaWakesClient, Exists
  <2>6. FramesWhole'
    BY <1>0, <2>1, <2>3, <2>4 DEF IndInv, FramesWhole, Exists
  <2>7. TypeOK'
    BY <1>0, <1>1, <2>1, <2>2, <2>3, <2>4 DEF IndInv, TypeOK
  <2>8. QED
    BY <2>2, <2>5, <2>6, <2>7 DEF IndInv
<1>6. QED
  BY <1>3, <1>4, <1>5 DEF MitmRtp, w

\* RTCP goes around the pipeline.
LEMMA MitmRtcpInv ==
  ASSUME IndInv, NEW held \in {0, 1}, MitmRtcp(held)
  PROVE  IndInv'
<1> DEFINE p == IF held = 1 THEN Acquire(pool) ELSE pool
<1>0. /\ Exists /\ kind # "http"
      /\ UNCHANGED <<config, kind, phase, waiting, hasPort, replies, others, fresh, view>>
      /\ IF kind = "mitm" THEN SendInterleaved("ctl", p, held)
         ELSE pool' = Release(p, held) /\ UNCHANGED <<queue, wantOut, dropped>>
  BY DEF MitmRtcp
<1>1. waiting' \in BOOLEAN /\ fresh' \in BOOLEAN
  BY <1>0 DEF IndInv, TypeOK
<1>2. CASE kind = "mitm"
  <2>1. "ctl" \in Contents
    BY DEF Contents
  <2>2. QED
    BY <1>0, <1>1, <1>2, <2>1, InterleavedInv
<1>3. CASE kind # "mitm"
  <2>1. Clean' /\ QueueBounded' /\ OnlyHeadSent' /\ FramesWhole' /\ MediaWakesClient'
    BY <1>0, <1>3, SameQueue DEF Exists
  <2>2. pool' \in Pools /\ PoolAccounted'
    <3>1. CASE held = 1
      BY <1>0, <1>3, <3>1, BorrowFacts
    <3>2. CASE held = 0
      <4> DEFINE n == Len(queue) + others
      <4>1. pool' = Release(pool, 0) /\ Accounted(pool, n) /\ n \in Nat /\ n - 0 = n /\ 0 \in 0..n
        BY <1>0, <1>3, <3>2, BoundFacts
      <4> HIDE DEF n
      <4>2. pool' \in Pools /\ Accounted(pool', n)
        BY <4>1, ReleaseFacts
      <4>3. Accounted(pool', Len(queue') + others')
        BY <1>0, <1>3, <4>2 DEF n
      <4>4. queue' \in Seq(Queueable) /\ others' \in 0..MaxOthers
        BY <1>0, <1>3 DEF IndInv, TypeOK
      <4>5. QED
        BY <4>2, <4>3, <4>4, PoolStep
    <3>3. QED
      BY <3>1, <3>2
  <2>3. TypeOK'
    BY <1>0, <1>3, <2>2 DEF IndInv, TypeOK
  <2>4. QED
    BY <2>1, <2>2, <2>3 DEF IndInv
<1>4. QED
  BY <1>2, <1>3

\* The blocks of the other sessions.
LEMMA OthersInv ==
  ASSUME IndInv, OthersAcquire \/ OthersRelease
  PROVE  IndInv'
<1> DEFINE n == Len(queue) + others
<1>0. /\ UNCHANGED <<config, kind, phase, waiting, queue, wantOut, hasPort, replies>>
      /\ UNCHANGED <<fresh, dropped, view>> /\ others' \in 0..MaxOthers
  BY BoundsAssumption DEF OthersAcquire, OthersRelease, session, ghosts, IndInv, TypeOK
<1>1. Clean' /\ QueueBounded' /\ OnlyHeadSent' /\ FramesWhole' /\ MediaWakesClient'
  BY <1>0, SameQueue DEF Exists
<1>2. Accounted(pool, n) /\ n \in Nat /\ n + 1 <= PeakBound /\ Len(queue) \in Nat /\ others \in Nat
  BY BoundFacts
<1>3. pool' \in Pools /\ PoolAccounted'
  <2>1. CASE OthersAcquire
    <3>1. pool' = Acquire(pool) /\ Len(queue') + others' = n + 1
      BY <1>0, <1>2, <2>1 DEF OthersAcquire
    <3>2. pool' \in Pools /\ Accounted(pool', n + 1)
      BY <1>2, <3>1, AcquireFacts
    <3>3. QED
      BY <1>0, <3>1, <3>2, PoolStep DEF IndInv, TypeOK
  <2>2. CASE OthersRelease
    <3>1. pool' = Release(pool, 1) /\ Len(queue') + others' = n - 1 /\ 1 \in 0..n
      BY <1>0, <1>2, <2>2 DEF OthersRelease
    <3> HIDE DEF n
    <3>2. pool' \in Pools /\ Accounted(pool', n - 1)
      BY <1>2, <3>1, ReleaseFacts
    <3>3. QED
      BY <1>0, <3>1, <3>2, PoolStep DEF IndInv, TypeOK
  <2>3. QED
    BY <2>1, <2>2
<1>4. TypeOK'
  BY <1>0, <1>3 DEF IndInv, TypeOK
<1>5. QED
  BY <1>1, <1>3, <1>4 DEF IndInv

\* What the client sees first: the first RTP packet of what is sent.
LEMMA FirstFacts ==
  ASSUME queue \in Seq(Queueable), NEW j \in 0..Len(queue), NEW part \in BOOLEAN,
         part => j < Len(queue)
  PROVE  LET m == IF part THEN j + 1 ELSE j
             IsRtp(i) == queue[i].what \in {"sync", "av"}
         IN \/ /\ \A i \in 1..m : ~IsRtp(i)
               /\ Seen(j, part).first = view.first
            \/ \E i \in 1..m : /\ IsRtp(i)
                               /\ \A k \in 1..m : IsRtp(k) => i <= k
                               /\ Seen(j, part).first = FirstSeen(queue[i].what)
<1> DEFINE m == IF part THEN j + 1 ELSE j
           bytes == {i \in 1..m : queue[i].what # "void"}
           rtp == {i \in bytes : queue[i].what \in {"sync", "av"}}
           c == CHOOSE i \in rtp : \A k \in rtp : i <= k
<1>1. Seen(j, part).first = IF rtp = {} THEN view.first ELSE FirstSeen(queue[c].what)
  BY DEF Seen
<1>2. m \in Nat
  OBVIOUS
<1> HIDE DEF m
<1>3. \A i \in 1..m : i \in rtp <=> queue[i].what \in {"sync", "av"}
  OBVIOUS
<1>4. rtp \subseteq 1..m /\ rtp \subseteq Nat
  BY <1>2
<1> HIDE DEF bytes, rtp
<1>5. CASE rtp = {}
  BY <1>1, <1>3, <1>5 DEF m
<1>6. CASE rtp # {}
  <2>1. \E x \in rtp : \A k \in rtp : x <= k
    BY <1>4, <1>6, LeastElement
  <2>2. c \in rtp /\ \A k \in rtp : c <= k
    BY <2>1
  <2>3. c \in 1..m /\ Seen(j, part).first = FirstSeen(queue[c].what)
    BY <1>1, <1>4, <1>6, <2>2
  <2> HIDE DEF c
  <2>4. QED
    BY <1>3, <2>2, <2>3 DEF m
<1>7. QED
  BY <1>5, <1>6

\* A send of j packets and a part of the next one.
LEMMA WritableInv ==
  ASSUME IndInv, NEW j \in 0..Len(queue), NEW part \in BOOLEAN, Writable(j, part)
  PROVE  IndInv'
<1> DEFINE n == Len(queue)
<1>0. /\ Exists /\ (part => j < n /\ ~queue[j + 1].sent /\ queue[j + 1].what # "void")
      /\ queue' = Remaining(j, part) /\ pool' = Release(pool, n - Len(queue'))
      /\ wantOut' = WantsOut(queue') /\ view' = Seen(j, part)
      /\ UNCHANGED <<config, kind, phase, waiting, hasPort, replies, others, fresh, dropped>>
  BY DEF Writable
<1>1. /\ queue \in Seq(Queueable) /\ n \in Nat /\ DOMAIN queue = 1..n /\ view \in Views
      /\ j \in Nat /\ j <= n
  BY DEF IndInv, TypeOK
<1>2. /\ queue' \in Seq(Queueable) /\ Len(queue') = n - j
      /\ \A i \in 1..(n - j) : /\ queue'[i].what = queue[i + j].what
                               /\ ~(part /\ i = 1) => queue'[i] = queue[i + j]
      /\ part => queue'[1].sent
  <2> DEFINE r == Remaining(j, part)
  <2>1. /\ r \in Seq(Queueable) /\ Len(r) = Len(queue) - j
        /\ part => r[1].sent
        /\ \A i \in 1..(Len(queue) - j) :
             /\ r[i].what = queue[i + j].what
             /\ ~(part /\ i = 1) => r[i] = queue[i + j]
    BY <1>0, <1>1, RemainingFacts, Zenon DEF n
  <2> HIDE DEF r
  <2>2. queue' = r
    BY <1>0 DEF r
  <2>3. QED
    BY <2>1, <2>2
<1>3. DOMAIN queue' = 1..(n - j) /\ (queue' # <<>> => j < n /\ Head(queue') = queue'[1])
  BY <1>1, <1>2
<1>4. pool' \in Pools /\ PoolAccounted'
  <2> DEFINE u == n + others
  <2>0. Accounted(pool, u) /\ others \in Nat /\ others' = others /\ others' \in 0..MaxOthers
    BY <1>0, BoundFacts DEF IndInv, TypeOK
  <2> HIDE DEF n
  <2>1. /\ u \in Nat /\ j \in 0..u /\ n - Len(queue') = j
        /\ Len(queue') + others' = u - j
    BY <1>1, <1>2, <2>0
  <2> HIDE DEF u
  <2>2. pool' \in Pools /\ Accounted(pool', u - j)
    BY <1>0, <2>0, <2>1, ReleaseFacts
  <2>3. QED
    BY <1>2, <2>0, <2>1, <2>2, PoolStep
<1> HIDE DEF n
<1>5. view' \in Views
  <2> DEFINE bytes == {i \in 1..(IF part THEN j + 1 ELSE j) : queue[i].what # "void"}
             begun == {i \in bytes : ~queue[i].sent}
             mid   == IF part THEN TRUE ELSE bytes = {} /\ view.mid
             torn  == view.torn \/ (view.mid /\ begun # {} /\ ~Head(queue).sent)
             first == Seen(j, part).first
  <2>1. first \in {"none", "sync", "av", "overtaken"}
    BY <1>0, <1>1, FirstFacts DEF FirstSeen, Views, n
  <2>2. mid \in BOOLEAN /\ torn \in BOOLEAN
    BY <1>1 DEF Views
  <2>3. view' = [mid |-> mid, torn |-> torn, first |-> first]
    BY <1>0 DEF Seen
  <2> HIDE DEF mid, torn, first
  <2>4. QED
    BY <2>1, <2>2, <2>3 DEF Views
<1>6. TypeOK'
  <2>1. wantOut' \in BOOLEAN
    BY <1>0 DEF WantsOut
  <2>2. QED
    BY <1>0, <1>2, <1>4, <1>5, <2>1 DEF IndInv, TypeOK
<1>7. Clean' /\ MediaWakesClient'
  <2>1. wantOut' <=> queue' # <<>>
    BY <1>0 DEF WantsOut
  <2>2. queue' = <<>> => DOMAIN queue' = {}
    OBVIOUS
  <2>3. QED
    BY <1>0, <2>1, <2>2 DEF Clean, MediaWakesClient, Exists
<1>8. QueueBounded'
  <2>1. n - j <= n
    BY <1>1 DEF n
  <2>3. \A b \in Nat : n <= b => n - j <= b
    BY <1>1 DEF n
  <2>4. HttpLimit + 1 \in Nat /\ MitmLimit + 1 + replies \in Nat
    BY BoundsAssumption DEF IndInv, TypeOK
  <2>5. kind = "http" => Len(queue') <= HttpLimit + 1
    BY <1>2, <2>3, <2>4 DEF IndInv, QueueBounded, n
  <2>6. kind # "http" => Len(queue') <= MitmLimit + 1 + replies
    BY <1>2, <2>3, <2>4 DEF IndInv, QueueBounded, n
  <2>7. QED
    BY <1>0, <2>5, <2>6 DEF QueueBounded
<1>9. OnlyHeadSent'
  <2> SUFFICES ASSUME NEW i \in 1..(n - j), queue'[i].sent
               PROVE  i = 1 /\ queue'[i].what # "void"
    BY <1>3 DEF OnlyHeadSent
  <2>1. i + j \in 1..n /\ i \in Nat
    BY <1>1 DEF n
  <2>2. CASE part /\ i = 1
    <3>1. queue'[i].what = queue[i + j].what
      BY <1>2
    <3>2. i + j = j + 1
      BY <1>1, <2>2
    <3>3. QED
      BY <1>0, <2>2, <3>1, <3>2
  <2>3. CASE ~(part /\ i = 1)
    <3>1. queue'[i] = queue[i + j]
      BY <1>2, <2>3
    <3>2. i + j = 1 /\ queue[i + j].what # "void"
      BY <1>1, <2>1, <3>1 DEF IndInv, OnlyHeadSent
    <3>3. i = 1
      BY <1>1, <2>1, <3>2
    <3>4. QED
      BY <3>1, <3>2, <3>3
  <2>4. QED
    BY <2>2, <2>3
<1>10. FramesWhole'
  <2> SUFFICES ASSUME ~dropped
               PROVE  ~view'.torn /\ (view'.mid <=> queue' # <<>> /\ Head(queue').sent)
    BY <1>0 DEF FramesWhole
  <2> DEFINE bytes == {i \in 1..(IF part THEN j + 1 ELSE j) : queue[i].what # "void"}
             begun == {i \in bytes : ~queue[i].sent}
  <2>1. ~view.torn /\ (view.mid <=> queue # <<>> /\ Head(queue).sent)
    BY <1>0 DEF IndInv, FramesWhole
  <2>2. queue # <<>> => Head(queue) = queue[1] /\ n >= 1
    BY <1>1 DEF n
  <2>3. view'.torn <=> view.torn \/ (view.mid /\ begun # {} /\ ~Head(queue).sent)
    BY <1>0 DEF Seen
  <2>4. view'.mid <=> IF part THEN TRUE ELSE bytes = {} /\ view.mid
    BY <1>0 DEF Seen
  <2> HIDE DEF begun
  <2>5. ~view'.torn
    BY <2>1, <2>3
  <2>6. CASE part
    <3>1. n - j >= 1
      BY <1>0, <1>1, <2>6
    <3>2. queue' # <<>>
      BY <1>2, <3>1
    <3>3. QED
      BY <1>2, <1>3, <2>4, <2>5, <2>6, <3>2
  <2>7. CASE ~part /\ j = 0
    <3>1. bytes = {}
      BY <2>7
    <3>2. Len(queue') = Len(queue) /\ \A i \in 1..Len(queue) : queue'[i] = queue[i]
      <4>1. Len(queue') = Len(queue)
        BY <1>1, <1>2, <2>7 DEF n
      <4>2. ASSUME NEW i \in 1..Len(queue)
            PROVE  queue'[i] = queue[i]
        <5>1. i \in 1..(n - j) /\ i + j = i /\ ~part
          BY <1>1, <2>7 DEF n
        <5>2. QED
          BY <1>2, <5>1
      <4>3. QED
        BY <4>1, <4>2
    <3>3. queue' = queue
      BY <1>1, <1>2, <3>2, SeqEqual
    <3>4. QED
      BY <2>1, <2>4, <2>5, <2>7, <3>1, <3>3
  <2>8. CASE ~part /\ j # 0
    <3>1. j >= 1 /\ j <= n
      BY <1>1, <2>8 DEF n
    <3>2. ~view'.mid
      <4> SUFFICES ASSUME view.mid
                   PROVE  bytes # {}
        BY <2>4, <2>8
      <4>1. queue[1].sent /\ n >= 1
        BY <2>1, <2>2
      <4>2. queue[1].what # "void"
        BY <1>1, <4>1 DEF IndInv, OnlyHeadSent
      <4>3. 1 \in bytes
        BY <2>8, <3>1, <4>2
      <4>4. QED
        BY <4>3
    <3>3. queue' # <<>> => ~Head(queue').sent
      <4> SUFFICES ASSUME queue' # <<>>
                   PROVE  ~queue'[1].sent
        BY <1>3
      <4>1. 1 \in 1..(n - j) /\ 1 + j \in 1..n /\ 1 + j # 1
        BY <1>1, <1>3, <3>1
      <4>2. queue'[1] = queue[1 + j]
        <5>1. \A i \in 1..(n - j) : ~(part /\ i = 1) => queue'[i] = queue[i + j]
          BY <1>2
        <5>2. QED
          BY <2>8, <4>1, <5>1
      <4>3. QED
        BY <1>1, <4>1, <4>2 DEF IndInv, OnlyHeadSent
    <3>4. QED
      BY <2>5, <3>2, <3>3
  <2>9. QED
    BY <2>6, <2>7, <2>8
<1>11. QED
  BY <1>4, <1>6, <1>7, <1>8, <1>9, <1>10 DEF IndInv

\* Every handler of either session type keeps the invariant.
LEMMA StepInv == IndInv /\ [Next]_vars => IndInv'
<1> SUFFICES ASSUME IndInv, [Next]_vars
             PROVE  IndInv'
  OBVIOUS
<1>1. CASE UNCHANGED vars
  BY <1>1 DEF vars, session, ghosts, IndInv, TypeOK, Clean, QueueBounded, PoolAccounted,
              OnlyHeadSent, FramesWhole, MediaWakesClient, Exists
<1>2. QED
  BY <1>1, OpenInv, SetupInv, QuietInv, ReplyInv, DestroyInv, HttpRtpInv, MitmRtpInv, MitmRtcpInv,
     WritableInv, OthersInv DEF Next

\* The invariant that the others follow from: one block for every queued packet, a bounded
\* queue, of which only the head may have been sent in part.
THEOREM Invariance == Spec => []IndInv
BY InitInv, StepInv, PTL DEF Spec

---------------------------------------------------------------------------
(* The properties *)

\* Type correctness.
THEOREM TypeCorrect == Spec => []TypeOK
BY Invariance, PTL DEF IndInv

\* Every block comes back on every path, and the pool does not outgrow the queues.
THEOREM NoBlockLost == Spec => []PoolAccounted
BY Invariance, PTL DEF IndInv

\* A client gets whole packets.
THEOREM PacketsWhole == Spec => []FramesWhole
BY Invariance, PTL DEF IndInv

\* Whatever is queued, the session waits for the client's connection.
THEOREM NothingStuck == Spec => []MediaWakesClient
BY Invariance, PTL DEF IndInv

---------------------------------------------------------------------------
(* The gate *)

\* A datagram that opens the gate reaches the client with what check_keyframe accepted,
\* and is not dropped as empty.
LEMMA OpeningFacts ==
  ASSUME NEW d \in Datagram, WellFormed(d), CheckKeyframe(d), config.strip \in BOOLEAN
  PROVE  Content(Stripped(d, config.strip)) = "sync" /\ ~Empties(d, config.strip)
BY SyncPointForwarded DEF Content

\* What a datagram does to the gate.
LEMMA GateFacts ==
  ASSUME NEW d \in Datagram, WellFormed(d), TypeOK, Read(d)
  PROVE  /\ Opens(d, waiting) /\ waiting =>
              /\ Content(Stripped(d, config.strip)) = "sync"
              /\ Passes(d, waiting, config.strip) /\ d.header
         /\ Passes(d, waiting, config.strip) /\ Content(Stripped(d, config.strip)) # "sync" => ~waiting
         /\ ~waiting' => ~waiting \/ (Opens(d, waiting) /\ waiting)
<1>1. config.strip \in BOOLEAN
  BY DEF TypeOK
<1>2. ASSUME Opens(d, waiting), waiting
      PROVE  /\ Content(Stripped(d, config.strip)) = "sync"
             /\ Passes(d, waiting, config.strip) /\ d.header
  <2>1. CheckKeyframe(d)
    BY <1>2 DEF Opens
  <2>2. d.header
    BY <2>1 DEF CheckKeyframe
  <2>3. QED
    BY <1>1, <1>2, <2>1, <2>2, OpeningFacts DEF Passes
<1>3. Passes(d, waiting, config.strip) => Opens(d, waiting)
  BY DEF Passes
<1>4. waiting' = (waiting /\ ~Opens(d, waiting))
  BY DEF Read
<1>5. QED
  BY <1>2, <1>3, <1>4

\* Steps that leave the queue and the view as they are.
LEMMA KeySame ==
  ASSUME KeyInv, UNCHANGED <<config, kind, queue, view, dropped>>,
         config.wait /\ Exists' /\ ~waiting' /\ ~(kind = "mitm" /\ phase' = "closing") =>
           Exists /\ ~waiting /\ ~(kind = "mitm" /\ phase = "closing")
  PROVE  KeyInv'
BY DEF KeyInv, KeyQueued, GateOpen, SyncPointFirst, NoneBehind, RtpQueued

\* A packet is queued behind the others, or one was dropped.
LEMMA KeyAppend ==
  ASSUME KeyInv, TypeOK, Exists, ~(kind = "mitm" /\ phase = "closing"), NEW w \in Contents,
         UNCHANGED <<config, kind, phase, view>>,
         ~dropped' => ~dropped /\ queue' = Append(queue, Whole(w)),
         w = "av" => ~waiting, kind = "udp" => w = "ctl",
         config.wait /\ ~waiting' => w = "sync" \/ ~waiting
  PROVE  KeyInv'
<1> SUFFICES ASSUME config.wait, ~dropped'
             PROVE  KeyInv'
  BY DEF KeyInv, KeyQueued, GateOpen, SyncPointFirst, NoneBehind, RtpQueued
<1> DEFINE n == Len(queue)
<1>1. ~dropped /\ queue' = Append(queue, Whole(w)) /\ queue \in Seq(Queueable) /\ n \in Nat
  BY DEF TypeOK
<1>2. Whole(w) \in Queueable /\ Whole(w).what = w
  BY DEF Whole, Queueable
<1>3. /\ DOMAIN queue = 1..n /\ DOMAIN queue' = 1..(n + 1)
      /\ queue'[n + 1].what = w
      /\ \A i \in 1..n : queue'[i] = queue[i]
  BY <1>1, <1>2, AppendProperties
<1> HIDE DEF n
<1>4. 1..n \subseteq 1..(n + 1) /\ n + 1 \in 1..(n + 1) /\ \A i \in 1..n : i < n + 1
  BY <1>1 DEF n
<1>5. \A i \in 1..(n + 1) : i = n + 1 \/ i \in 1..n
  BY <1>1 DEF n
<1>6. ~waiting => view.first # "none" \/ \E k \in 1..n : queue[k].what = "sync"
  BY <1>1, <1>3 DEF KeyInv, GateOpen
<1>7. KeyQueued'
  <2> SUFFICES ASSUME view.first = "none", NEW i \in 1..(n + 1), queue'[i].what = "av"
               PROVE  \E k \in 1..(n + 1) : k < i /\ queue'[k].what = "sync"
    BY <1>3 DEF KeyQueued
  <2>1. CASE i = n + 1
    <3>1. PICK k \in 1..n : queue[k].what = "sync"
      BY <1>3, <1>6, <2>1
    <3>2. QED
      BY <1>3, <1>4, <2>1, <3>1
  <2>2. CASE i \in 1..n
    <3>1. queue[i].what = "av"
      BY <1>3, <2>2
    <3>2. PICK k \in 1..n : k < i /\ queue[k].what = "sync"
      BY <1>1, <1>3, <2>2, <3>1 DEF KeyInv, KeyQueued
    <3>3. QED
      BY <1>3, <1>4, <3>2
  <2>3. QED
    BY <1>5, <2>1, <2>2
<1>8. GateOpen'
  <2> SUFFICES ASSUME ~waiting', view.first = "none"
               PROVE  \E k \in 1..(n + 1) : queue'[k].what = "sync"
    BY <1>3 DEF GateOpen
  <2>1. CASE w = "sync"
    BY <1>3, <1>4, <2>1
  <2>2. CASE ~waiting
    <3>1. PICK k \in 1..n : queue[k].what = "sync"
      BY <1>6, <2>2
    <3>2. QED
      BY <1>3, <1>4, <3>1
  <2>3. QED
    BY <2>1, <2>2
<1>9. SyncPointFirst'
  BY <1>1 DEF KeyInv, SyncPointFirst
<1>10. NoneBehind'
  BY <1>1, <1>3, <1>5 DEF KeyInv, NoneBehind, RtpQueued
<1>11. QED
  BY <1>7, <1>8, <1>9, <1>10 DEF KeyInv

\* RTP of an HTTP session.
LEMMA HttpRtpKey ==
  ASSUME IndInv, KeyInv, NEW d \in Datagram, WellFormed(d), HttpRtp(d)
  PROVE  KeyInv'
<1> DEFINE taken == Passes(d, waiting, config.strip) /\ d.header
           w == Content(Stripped(d, config.strip))
<1>0. /\ Exists /\ kind = "http"
      /\ UNCHANGED <<config, kind, phase, view>>
      /\ queue' = IF taken THEN Pushed(queue, Whole(w)) ELSE queue
      /\ dropped' = (dropped \/ (taken /\ Full(queue)))
  BY DEF HttpRtp, Read
<1>1. /\ Opens(d, waiting) /\ waiting => w = "sync" /\ taken
      /\ taken /\ w # "sync" => ~waiting
      /\ ~waiting' => ~waiting \/ (Opens(d, waiting) /\ waiting)
  BY GateFacts DEF HttpRtp, IndInv
<1>2. w \in Contents
  BY ContentType
<1> HIDE DEF taken, w
<1>3. CASE taken
  <2>1. ~dropped' => ~dropped /\ queue' = Append(queue, Whole(w))
    BY <1>0, <1>3 DEF Pushed
  <2>2. w = "av" => ~waiting
    BY <1>1, <1>3
  <2>3. ~waiting' => w = "sync" \/ ~waiting
    BY <1>1
  <2>4. QED
    BY <1>0, <1>2, <2>1, <2>2, <2>3, KeyAppend DEF IndInv
<1>4. CASE ~taken
  <2>1. queue' = queue /\ (dropped' <=> dropped)
    BY <1>0, <1>4
  <2>2. dropped' = dropped
    BY <1>0, <1>4 DEF IndInv, TypeOK
  <2>3. ~waiting' => ~waiting
    BY <1>1, <1>4
  <2>4. QED
    BY <1>0, <2>1, <2>2, <2>3, KeySame DEF Exists
<1>5. QED
  BY <1>3, <1>4

\* A packet for a client on TCP.
LEMMA InterleavedKey ==
  ASSUME IndInv, KeyInv, Exists, kind = "mitm", NEW w \in Contents, NEW p, NEW held,
         SendInterleaved(w, p, held),
         UNCHANGED <<config, kind, phase, view>>,
         w = "av" => ~waiting,
         config.wait /\ ~waiting' => w = "sync" \/ ~waiting
  PROVE  KeyInv'
<1>1. CASE phase = "closing"
  <2>1. UNCHANGED <<queue, dropped>>
    BY <1>1 DEF SendInterleaved
  <2>2. QED
    BY <1>1, <2>1, KeySame
<1>2. CASE phase # "closing"
  <2>1. queue' = Pushed(queue, Whole(w)) /\ dropped' = (dropped \/ Full(queue))
    BY <1>2 DEF SendInterleaved
  <2>2. ~dropped' => ~dropped /\ queue' = Append(queue, Whole(w))
    BY <2>1 DEF Pushed
  <2>3. QED
    BY <1>2, <2>2, KeyAppend DEF IndInv
<1>3. QED
  BY <1>1, <1>2

\* RTP of a session of the other type.
LEMMA MitmRtpKey ==
  ASSUME IndInv, KeyInv, NEW d \in Datagram, WellFormed(d), MitmRtp(d)
  PROVE  KeyInv'
<1> DEFINE w == Content(Stripped(d, config.strip))
           passes == Passes(d, waiting, config.strip)
<1>0. Exists /\ kind # "http" /\ UNCHANGED <<config, kind, phase>>
  BY DEF MitmRtp, Read
<1>1. /\ Opens(d, waiting) /\ waiting => w = "sync" /\ passes
      /\ passes /\ w # "sync" => ~waiting
      /\ ~waiting' => ~waiting \/ (Opens(d, waiting) /\ waiting)
  BY GateFacts DEF MitmRtp, IndInv
<1>2. w \in Contents /\ w \in {"sync", "av"}
  BY <1>0, ContentType
<1>3. \/ ~passes /\ UNCHANGED <<queue, dropped, view>>
      \/ passes /\ kind = "mitm" /\ SendInterleaved(w, Acquire(pool), 1) /\ UNCHANGED view
      \/ passes /\ kind = "udp" /\ SendUdp(w)
  BY DEF MitmRtp
<1> HIDE DEF w, passes
<1>4. CASE ~passes /\ UNCHANGED <<queue, dropped, view>>
  <2>1. ~waiting' => ~waiting
    BY <1>1, <1>4
  <2>2. QED
    BY <1>0, <1>4, <2>1, KeySame DEF Exists
<1>5. CASE passes /\ kind = "mitm" /\ SendInterleaved(w, Acquire(pool), 1) /\ UNCHANGED view
  <2>1. w = "av" => ~waiting
    BY <1>1, <1>5
  <2>2. ~waiting' => w = "sync" \/ ~waiting
    BY <1>1
  <2>3. QED
    BY <1>0, <1>2, <1>5, <2>1, <2>2, InterleavedKey
<1>6. CASE passes /\ kind = "udp" /\ SendUdp(w)
  <2> SUFFICES ASSUME config.wait, ~dropped'
               PROVE  KeyInv'
    BY <1>0 DEF KeyInv, KeyQueued, GateOpen, SyncPointFirst, NoneBehind, RtpQueued
  <2>1. ~dropped /\ hasPort /\ queue' = queue
    BY <1>6 DEF SendUdp
  <2>2. view'.first = FirstSeen(w)
    <3> DEFINE f == FirstSeen(w)
    <3>1. view' = [view EXCEPT !.first = f] /\ view \in Views
      BY <1>6, <2>1 DEF SendUdp, IndInv, TypeOK
    <3> HIDE DEF f
    <3>2. view'.first = f
      BY <3>1 DEF Views
    <3>3. QED
      BY <3>2 DEF f
  <2>3. view.first = "none" => w = "sync"
    <3>1. view.first = "none" => ~\E k \in DOMAIN queue : queue[k].what = "sync"
      BY <1>6, <2>1 DEF KeyInv, NoneBehind, RtpQueued
    <3>2. view.first = "none" => waiting
      BY <1>0, <1>6, <2>1, <3>1 DEF KeyInv, GateOpen
    <3>3. QED
      BY <1>1, <1>6, <3>2
  <2>4. view.first \in {"none", "sync", "overtaken"}
    BY <2>1 DEF KeyInv, SyncPointFirst
  <2>5. view'.first \in {"sync", "overtaken"}
    BY <2>2, <2>3, <2>4 DEF FirstSeen
  <2>6. QED
    BY <2>5 DEF KeyInv, KeyQueued, GateOpen, SyncPointFirst, NoneBehind, RtpQueued
<1>7. QED
  BY <1>3, <1>4, <1>5, <1>6

\* What the client gets first was first in the queue.
LEMMA WritableKey ==
  ASSUME IndInv, KeyInv, NEW j \in 0..Len(queue), NEW part \in BOOLEAN, Writable(j, part)
  PROVE  KeyInv'
<1> DEFINE n == Len(queue)
           m == IF part THEN j + 1 ELSE j
           IsRtp(i) == queue[i].what \in {"sync", "av"}
<1>0. /\ Exists /\ (part => j < n)
      /\ queue' = Remaining(j, part) /\ view' = Seen(j, part)
      /\ UNCHANGED <<config, kind, phase, waiting, dropped>>
  BY DEF Writable
<1> SUFFICES ASSUME config.wait, ~dropped
             PROVE  KeyInv'
  BY <1>0 DEF KeyInv, KeyQueued, GateOpen, SyncPointFirst, NoneBehind, RtpQueued
<1>1. /\ queue \in Seq(Queueable) /\ n \in Nat /\ DOMAIN queue = 1..n
      /\ j \in Nat /\ j <= n /\ m \in Nat /\ j <= m /\ m <= n
  BY <1>0 DEF IndInv, TypeOK
<1>2. /\ DOMAIN queue' = 1..(n - j)
      /\ \A i \in 1..(n - j) : queue'[i].what = queue[i + j].what
  <2> DEFINE r == Remaining(j, part)
  <2>1. /\ r \in Seq(Queueable) /\ Len(r) = Len(queue) - j
        /\ \A i \in 1..(Len(queue) - j) : r[i].what = queue[i + j].what
    BY <1>0, <1>1, RemainingFacts, Zenon DEF n
  <2> HIDE DEF r
  <2>2. queue' = r
    BY <1>0 DEF r
  <2>3. DOMAIN r = 1..(Len(queue) - j)
    BY <2>1
  <2>4. QED
    BY <2>1, <2>2, <2>3
<1>3. \/ (\A i \in 1..m : ~IsRtp(i)) /\ view'.first = view.first
      \/ \E i \in 1..m : /\ IsRtp(i)
                         /\ \A k \in 1..m : IsRtp(k) => i <= k
                         /\ view'.first = FirstSeen(queue[i].what)
  BY <1>0, <1>1, FirstFacts
<1> HIDE DEF n, m
<1>4. \A i \in 1..m : i \in 1..n
  BY <1>1
<1>5. view.first \in {"none", "sync", "overtaken"}
  BY DEF KeyInv, SyncPointFirst
<1>6. CASE view.first # "none"
  <2>1. view'.first \in {"sync", "overtaken"}
    BY <1>3, <1>5, <1>6 DEF FirstSeen
  <2>2. QED
    BY <2>1 DEF KeyInv, KeyQueued, GateOpen, SyncPointFirst, NoneBehind, RtpQueued
<1>7. CASE view.first = "none" /\ \E i \in 1..m : IsRtp(i)
  <2>1. PICK i \in 1..m : /\ IsRtp(i)
                          /\ \A k \in 1..m : IsRtp(k) => i <= k
                          /\ view'.first = FirstSeen(queue[i].what)
    BY <1>3, <1>7
  <2>2. queue[i].what # "av"
    <3> SUFFICES ASSUME queue[i].what = "av"
                 PROVE  FALSE
      OBVIOUS
    <3>1. i \in DOMAIN queue
      BY <1>1, <1>4
    <3>2. PICK k \in DOMAIN queue : k < i /\ queue[k].what = "sync"
      BY <1>7, <3>1 DEF KeyInv, KeyQueued
    <3>3. k \in 1..m /\ ~(i <= k)
      BY <1>1, <3>2
    <3>4. QED
      BY <2>1, <3>2, <3>3
  <2>3. view'.first = "sync"
    BY <1>7, <2>1, <2>2 DEF FirstSeen
  <2>4. QED
    BY <2>3 DEF KeyInv, KeyQueued, GateOpen, SyncPointFirst, NoneBehind, RtpQueued
<1>8. CASE view.first = "none" /\ \A i \in 1..m : ~IsRtp(i)
  <2>1. view'.first = "none"
    BY <1>3, <1>8
  <2>2. ASSUME NEW k \in 1..n, queue[k].what = "sync"
        PROVE  k - j \in 1..(n - j) /\ queue'[k - j].what = "sync"
    <3>1. k \notin 1..m
      BY <1>8, <2>2
    <3>2. k - j \in 1..(n - j) /\ (k - j) + j = k
      BY <1>1, <3>1
    <3>3. QED
      BY <1>2, <2>2, <3>2
  <2>3. KeyQueued'
    <3> SUFFICES ASSUME NEW i \in 1..(n - j), queue'[i].what = "av"
                 PROVE  \E k \in 1..(n - j) : k < i /\ queue'[k].what = "sync"
      BY <1>2 DEF KeyQueued
    <3>1. i + j \in 1..n /\ queue[i + j].what = "av"
      BY <1>1, <1>2
    <3>2. PICK k \in 1..n : k < i + j /\ queue[k].what = "sync"
      BY <1>1, <1>8, <3>1 DEF KeyInv, KeyQueued
    <3>3. k - j < i
      BY <1>1, <3>2
    <3>4. QED
      BY <2>2, <3>2, <3>3
  <2>4. GateOpen'
    BY <1>0, <1>1, <1>2, <1>8, <2>2 DEF KeyInv, GateOpen, Exists
  <2>5. SyncPointFirst'
    BY <2>1 DEF SyncPointFirst
  <2>6. NoneBehind'
    <3>1. \A i \in 1..(n - j) : i + j \in 1..n
      BY <1>1
    <3>2. QED
      BY <1>0, <1>1, <1>2, <1>8, <3>1 DEF KeyInv, NoneBehind, RtpQueued
  <2>7. QED
    BY <2>3, <2>4, <2>5, <2>6 DEF KeyInv
<1>9. QED
  BY <1>6, <1>7, <1>8

\* A new session, whose gate is closed.
LEMMA OpenKey ==
  ASSUME IndInv, NEW k, Open(k)
  PROVE  KeyInv'
<1>1. /\ ~Exists /\ waiting' = config.wait /\ config' = config /\ view' = view
      /\ queue' = <<Whole("header")>> \/ queue' = queue
  BY DEF Open, Exists, ResetGate
<1>2. queue = <<>> /\ view = NewView
  BY <1>1 DEF IndInv, Clean
<1>3. \A i \in DOMAIN queue' : queue'[i].what \notin {"sync", "av"}
  BY <1>1, <1>2 DEF Whole
<1>4. view'.first = "none"
  BY <1>1, <1>2 DEF NewView
<1>5. config.wait \in BOOLEAN
  BY DEF IndInv, TypeOK
<1>6. QED
  BY <1>1, <1>3, <1>4, <1>5 DEF KeyInv, KeyQueued, GateOpen, SyncPointFirst, NoneBehind, RtpQueued

\* A SETUP: what is queued when a client goes over to UDP may be overtaken.
LEMMA SetupKey ==
  ASSUME IndInv, KeyInv, NEW tcp \in BOOLEAN, MitmSetup(tcp)
  PROVE  KeyInv'
<1>1. /\ Exists /\ kind' = (IF tcp THEN "mitm" ELSE "udp") /\ phase' \in {phase, "closing"}
      /\ UNCHANGED <<config, waiting, queue, dropped>> /\ view \in Views
      /\ view' = IF ~tcp /\ view.first = "none" /\ (RtpQueued \/ phase = "closing")
                 THEN [view EXCEPT !.first = "overtaken"] ELSE view
  BY DEF MitmSetup, IndInv, TypeOK
<1>2. CASE ~tcp /\ view.first = "none" /\ (RtpQueued \/ phase = "closing")
  <2>1. view'.first = "overtaken"
    BY <1>1, <1>2 DEF Views
  <2>2. QED
    BY <2>1 DEF KeyInv, KeyQueued, GateOpen, SyncPointFirst, NoneBehind
<1>3. CASE ~(~tcp /\ view.first = "none" /\ (RtpQueued \/ phase = "closing"))
  <2>1. view' = view
    BY <1>1, <1>3
  <2>2. KeyQueued' /\ SyncPointFirst'
    BY <1>1, <2>1 DEF KeyInv, KeyQueued, SyncPointFirst
  <2>3. NoneBehind'
    BY <1>1, <1>3, <2>1 DEF NoneBehind, RtpQueued
  <2>4. GateOpen'
    <3> SUFFICES ASSUME config.wait, ~dropped, ~waiting, ~(kind' = "mitm" /\ phase' = "closing"),
                        view.first = "none"
                 PROVE  \E k \in DOMAIN queue : queue[k].what = "sync"
      BY <1>1, <2>1 DEF GateOpen
    <3>1. phase # "closing"
      BY <1>1, <1>3
    <3>2. QED
      BY <1>1, <3>1 DEF KeyInv, GateOpen
  <2>5. QED
    BY <2>2, <2>3, <2>4 DEF KeyInv
<1>4. QED
  BY <1>2, <1>3

\* Every step.
LEMMA StepKey ==
  ASSUME \A d \in FirstDatagrams \cup Datagrams : WellFormed(d)
  PROVE  IndInv /\ KeyInv /\ [Next]_vars => KeyInv'
<1> SUFFICES ASSUME IndInv, KeyInv, [Next]_vars
             PROVE  KeyInv'
  OBVIOUS
<1>0. config.wait \in BOOLEAN /\ waiting \in BOOLEAN
  BY DEF IndInv, TypeOK
<1>1. ASSUME NEW d \in Arriving
      PROVE  d \in Datagram /\ WellFormed(d)
  BY DatagramsAssumption DEF Arriving
<1>2. ASSUME NEW tcp \in BOOLEAN, MitmSetup(tcp)
      PROVE  KeyInv'
  BY <1>2, SetupKey
<1>3. CASE HttpPlay
  BY <1>0, <1>3, KeySame DEF HttpPlay, ResetGate, ghosts
<1>4. ASSUME NEW play \in BOOLEAN, MitmReply(play)
      PROVE  KeyInv'
  <2>1. /\ Exists /\ queue' = Append(queue, Whole("ctl"))
        /\ waiting' = IF play THEN config.wait ELSE waiting
        /\ UNCHANGED <<config, kind, phase, view, dropped>>
    BY <1>4 DEF MitmReply, ResetGate, ghosts
  <2>2. config.wait /\ ~waiting' => ~waiting
    BY <1>0, <2>1
  <2>3. "ctl" \in Contents
    BY DEF Contents
  <2>4. CASE ~(kind = "mitm" /\ phase = "closing")
    BY <2>1, <2>2, <2>3, <2>4, KeyAppend DEF IndInv
  <2>5. CASE kind = "mitm" /\ phase = "closing"
    <3> DEFINE n == Len(queue)
    <3>1. /\ queue \in Seq(Queueable) /\ n \in Nat /\ DOMAIN queue = 1..n
          /\ Whole("ctl") \in Queueable /\ Whole("ctl").what = "ctl"
      BY <2>3 DEF IndInv, TypeOK, Whole, Queueable
    <3>2. /\ DOMAIN queue' = 1..(n + 1) /\ queue'[n + 1].what = "ctl"
          /\ \A i \in 1..n : queue'[i] = queue[i]
      BY <2>1, <3>1, AppendProperties
    <3> HIDE DEF n
    <3>3. \A i \in 1..(n + 1) : i = n + 1 \/ i \in 1..n
      BY <3>1
    <3>4. 1..n \subseteq 1..(n + 1)
      BY <3>1
    <3>5. KeyQueued'
      BY <2>1, <3>1, <3>2, <3>3, <3>4 DEF KeyInv, KeyQueued
    <3>6. GateOpen' /\ SyncPointFirst' /\ NoneBehind'
      BY <2>1, <2>5 DEF KeyInv, GateOpen, SyncPointFirst, NoneBehind
    <3>7. QED
      BY <3>5, <3>6 DEF KeyInv
  <2>6. QED
    BY <2>4, <2>5
<1>5. CASE Close
  BY <1>5, KeySame DEF Close, Exists, ghosts
<1>6. CASE Destroy
  <2>1. queue' = <<>> /\ view' = NewView /\ ~Exists'
    BY <1>6 DEF Destroy, Exists
  <2>2. QED
    BY <2>1 DEF KeyInv, KeyQueued, GateOpen, SyncPointFirst, NoneBehind, RtpQueued, NewView
<1>7. ASSUME NEW held \in {0, 1}, MitmRtcp(held)
      PROVE  KeyInv'
  <2> DEFINE p == IF held = 1 THEN Acquire(pool) ELSE pool
  <2>1. /\ Exists /\ UNCHANGED <<config, kind, phase, waiting, view>>
        /\ \/ kind = "mitm" /\ SendInterleaved("ctl", p, held)
           \/ UNCHANGED <<queue, dropped>>
    BY <1>7 DEF MitmRtcp
  <2>2. "ctl" \in Contents
    BY DEF Contents
  <2> HIDE DEF p
  <2>3. CASE UNCHANGED <<queue, dropped>>
    BY <2>1, <2>3, KeySame
  <2>4. CASE kind = "mitm" /\ SendInterleaved("ctl", p, held)
    BY <2>1, <2>2, <2>4, InterleavedKey
  <2>5. QED
    BY <2>1, <2>3, <2>4
<1>8. CASE FromClient \/ OthersAcquire \/ OthersRelease \/ UNCHANGED vars
  <2>1. UNCHANGED <<config, kind, phase, waiting, queue, view, dropped>>
    BY <1>8 DEF FromClient, OthersAcquire, OthersRelease, vars, session, ghosts
  <2>2. QED
    BY <2>1, KeySame DEF Exists
<1>9. QED
  BY <1>1, <1>2, <1>3, <1>4, <1>5, <1>6, <1>7, <1>8, OpenKey, HttpRtpKey, MitmRtpKey, WritableKey
     DEF Next

\* With wait_keyframe the first RTP packet that a client gets has in it what check_keyframe
\* accepts (a keyframe, a PAT, or an audio PES read as a parameter set), also when packets
\* are stripped, the gate is reset by PLAY and the transport changed by SETUP, provided
\* that in the datagrams that open the gate it is found where check_keyframe takes it to be.
THEOREM SyncPointComesFirst ==
  ASSUME \A d \in FirstDatagrams \cup Datagrams : WellFormed(d)
  PROVE  Spec => []SyncPointFirst
<1>1. Init => KeyInv
  BY DEF Init, KeyInv, KeyQueued, GateOpen, SyncPointFirst, NoneBehind, NewView, Exists
<1>2. QED
  BY <1>1, Invariance, StepKey, PTL DEF Spec, KeyInv

\* The in-place removal of null packets, for every payload that a session may read first.
THEOREM StrippingSafe == Spec => []PipelineCorrect
<1>1. PipelineCorrect
  <2> SUFFICES ASSUME NEW d \in FirstDatagrams
               PROVE  LET u == Unpadded(d)
                      IN /\ d.header /\ IsTs(u) => Stripped(d, TRUE) = Kept(u)
                         /\ Passes(d, FALSE, TRUE) /\ d.header /\ u # <<>> => Stripped(d, TRUE) # <<>>
    BY DEF PipelineCorrect
  <2> DEFINE u == Unpadded(d)
  <2>1. u \in Seq(STRING)
    BY DatagramsAssumption, UnpaddedFacts
  <2>2. d.header /\ IsTs(u) => Stripped(d, TRUE) = Kept(u)
    BY <2>1, StrippingCorrect DEF Stripped
  <2>3. Passes(d, FALSE, TRUE) /\ d.header /\ u # <<>> => Stripped(d, TRUE) # <<>>
    BY DEF Passes, Empties, Stripped
  <2>4. QED
    BY <2>2, <2>3
<1>2. QED
  BY <1>1, PTL
=============================================================================
