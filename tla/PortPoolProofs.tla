--------------------------- MODULE PortPoolProofs ---------------------------
(***************************************************************************)
(* The port pool's safety properties, for every port range, number of      *)
(* sessions and number of tries, and its refinement of PairAllocator.      *)
(***************************************************************************)
EXTENDS PortPool, Induction

\* Distinct holders have distinct pairs; a lost pair is nobody's.
PortsDistinct ==
  /\ \A g, h \in Holders : port[g] = port[h] /\ port[g] # NoPort => g = h
  /\ \A h \in Holders : port[h] \notin lost

\* used_ports_ port by port: a port is used with its pair, by a lease or lost.
UsedPorts ==
  \A p \in Ports : p \in used <=>
    \/ \E h \in Holders : port[h] # NoPort /\ (p = port[h] \/ p = port[h] + 1)
    \/ p \in lost \/ p - 1 \in lost

\* Sessions that have not reached SETUP, and destroyed ones, hold nothing.
EmptyHands ==
  \A s \in Sessions : status[s] \in {"dead", "fresh"} =>
    \A d \in Sides : port[<<s, d>>] = NoPort /\ <<s, d>> \notin bound

\* The call in progress is a live session's, for a side it has not bound; the
\* downstream side comes last.
CallFresh ==
  call.busy =>
    /\ call.holder \in Holders
    /\ status[call.holder[1]] \in {"open", "closing"}
    /\ call.holder \notin bound
    /\ call.holder[2] = "us" => <<call.holder[1], "ds">> \notin bound

IndInv ==
  /\ TypeOK
  /\ PortsDistinct
  /\ UsedPorts
  /\ EmptyHands
  /\ CallFresh
  /\ BoundIsLeased

---------------------------------------------------------------------------
(* Lemmas *)

\* The scan only visits pairs of the range.
LEMMA ScanInRange ==
  ASSUME NEW n \in Pairs, NEW i \in 0..(Half - 1)
  PROVE  Nth(n, i) \in Pairs /\ Nth(n, i) + 1 \in Ports
BY RangeAssumption DEF Nth, Pairs, Ports, Half

\* The scan position wraps inside the range.
LEMMA AfterInRange ==
  ASSUME NEW p \in Pairs
  PROVE  After(p) \in Pairs
BY RangeAssumption DEF After, Pairs, Ports

\* Pairs do not overlap, and 0 is no port.
LEMMA PairFacts ==
  /\ \A p \in Pairs : p \in Ports /\ p + 1 \in Ports /\ p \in Nat
  /\ \A p, q \in Pairs : p # q + 1
  /\ \A p, q \in Pairs : p + 1 = q + 1 => p = q
  /\ NoPort \notin Ports /\ NoPort + 1 \notin Ports
  /\ NoPort \in Nat
BY RangeAssumption DEF Pairs, Ports, NoPort

\* The empty pool satisfies the invariant.
LEMMA InitInv == Init => IndInv
<1> SUFFICES ASSUME Init PROVE IndInv
  OBVIOUS
<1> USE DEF Init
<1>1. Start \in Pairs
  BY RangeAssumption DEF Pairs, Ports
<1>2. TypeOK
  BY <1>1, TriesAssumption DEF TypeOK, Calls, NoCall, Status
<1>3. PortsDistinct /\ UsedPorts /\ BoundIsLeased
  BY DEF PortsDistinct, UsedPorts, BoundIsLeased
<1>4. EmptyHands /\ CallFresh
  BY DEF EmptyHands, CallFresh, NoCall, Holders
<1> QED
  BY <1>2, <1>3, <1>4 DEF IndInv

---------------------------------------------------------------------------
(* Every step preserves the invariant. *)

\* A constructor or the first SETUP starts a call with empty hands.
LEMMA OpenInv ==
  ASSUME IndInv, NEW s \in Sessions, OpenHttp(s) \/ OpenMitm(s) \/ Setup(s)
  PROVE  IndInv'
<1> USE DEF IndInv, OpenHttp, OpenMitm, Setup, Idle
<1>1. <<s, "us">> \in Holders
  BY DEF Holders, Sides
<1>2. TypeOK'
  <2>1. [busy |-> TRUE, holder |-> <<s, "us">>, tries |-> 0] \in Calls
    BY <1>1, TriesAssumption DEF Calls
  <2> QED
    BY <2>1 DEF TypeOK, StartCall, Status
<1>3. PortsDistinct' /\ UsedPorts'
  BY DEF PortsDistinct, UsedPorts
<1>4. EmptyHands'
  BY DEF EmptyHands, TypeOK
<1>5. CallFresh'
  BY <1>1 DEF CallFresh, EmptyHands, StartCall, TypeOK, Sides
<1>6. BoundIsLeased'
  BY DEF BoundIsLeased, Leased, TypeOK, Holders
<1> QED
  BY <1>2, <1>3, <1>4, <1>5, <1>6

\* Other processes only touch ports that no session has bound.
LEMMA OthersInv ==
  ASSUME IndInv, NEW p \in Ports, OthersBind(p) \/ OthersRelease(p)
  PROVE  IndInv'
<1> USE DEF IndInv, OthersBind, OthersRelease
<1>1. TypeOK' /\ PortsDistinct' /\ UsedPorts' /\ EmptyHands' /\ CallFresh'
  BY DEF TypeOK, PortsDistinct, UsedPorts, EmptyHands, CallFresh
<1>2. BoundIsLeased'
  BY DEF BoundIsLeased, Leased, BoundPorts, TypeOK
<1> QED
  BY <1>1, <1>2

\* The holder of the call in progress is a live session's side.
LEMMA CallHolder ==
  ASSUME TypeOK, CallFresh, call.busy
  PROVE  /\ call.holder \in Holders /\ call.holder[1] \in Sessions
         /\ call.holder[2] \in Sides /\ call.holder = <<call.holder[1], call.holder[2]>>
         /\ call.tries \in 0..(MaxTries - 1)
         /\ call = [busy |-> TRUE, holder |-> call.holder, tries |-> call.tries]
<1>1. call \in [busy : BOOLEAN, holder : Holders \cup {Nobody}, tries : 0..(MaxTries - 1)]
  BY DEF TypeOK, Calls
<1>2. call.holder \in Holders /\ call.tries \in 0..(MaxTries - 1)
      /\ call = [busy |-> TRUE, holder |-> call.holder, tries |-> call.tries]
  BY <1>1 DEF CallFresh
<1> QED
  BY <1>2 DEF Holders

\* A round of bind_udp_pair_from_pool, successful or not, preserves the invariant.
LEMMA BindPairInv ==
  ASSUME IndInv, NEW i, NEW ok \in BOOLEAN, BindPair(i, ok)
  PROVE  IndInv'
<1> DEFINE h == call.holder
           p == Nth(next_port, i)
<1> USE DEF IndInv
<1>1. p \in Pairs /\ p + 1 \in Ports /\ p \in Ports /\ p # NoPort
  BY ScanInRange, PairFacts DEF BindPair, TypeOK, Pairs
<1>2. p \notin used /\ p + 1 \notin used
  BY DEF BindPair, FirstFree, IsFree
<1>3. /\ h \in Holders /\ h[1] \in Sessions /\ h[2] \in Sides /\ h = <<h[1], h[2]>>
      /\ call.tries \in 0..(MaxTries - 1)
      /\ call = [busy |-> TRUE, holder |-> h, tries |-> call.tries]
  BY CallHolder DEF BindPair
<1>4. /\ port' = [port EXCEPT ![h] = p] /\ used' = used \cup {p, p + 1}
      /\ lost' = lost \cup ({port[h]} \ {NoPort}) /\ next_port' = After(p)
      /\ mitm' = mitm /\ taken' = taken
  BY DEF BindPair, Dropped
<1>5. \A g \in Holders : port'[g] = IF g = h THEN p ELSE port[g]
  BY <1>3, <1>4 DEF TypeOK
<1>6. \A g \in Holders : port[g] \in Pairs \cup {NoPort} /\ (port[g] # NoPort => port[g] \in used)
  BY PairFacts DEF UsedPorts, TypeOK
<1>7. status' \in [Sessions -> Status] /\ (\A s \in Sessions : s # h[1] => status'[s] = status[s])
      /\ status'[h[1]] \in {status[h[1]], "closing"}
  BY <1>3 DEF BindPair, TypeOK, Status
<1>8. call' \in Calls
  <2>1. AfterBind(h) \in Calls
    BY <1>3, TriesAssumption DEF AfterBind, Calls, NoCall, Holders, Sides
  <2>2. call.tries + 1 < MaxTries => [call EXCEPT !.tries = @ + 1] \in Calls
    <3> SUFFICES ASSUME call.tries + 1 < MaxTries
                 PROVE  [call EXCEPT !.tries = @ + 1] \in Calls
      OBVIOUS
    <3>1. call \in Calls
      BY DEF TypeOK
    <3>2. call.tries + 1 \in 0..(MaxTries - 1)
      BY <1>3, TriesAssumption
    <3> QED
      BY <3>1, <3>2 DEF Calls
  <2>3. NoCall \in Calls
    BY TriesAssumption DEF Calls, NoCall
  <2> QED
    BY <2>1, <2>2, <2>3 DEF BindPair
<1>9. bound' \in {bound, bound \cup {h}} /\ (bound' # bound => ok)
  BY DEF BindPair
<1>10. TypeOK'
  <2>1. lost' \subseteq Pairs
    BY <1>3, <1>4, <1>6 DEF TypeOK
  <2>2. bound' \subseteq Holders
    BY <1>3, <1>9 DEF TypeOK
  <2> QED
    BY <2>1, <2>2, <1>1, <1>3, <1>4, <1>7, <1>8, AfterInRange DEF TypeOK
<1>11. PortsDistinct'
  <2>1. \A q \in lost : q \in used
    BY PairFacts DEF UsedPorts, TypeOK
  <2> QED
    BY <2>1, <1>1, <1>2, <1>3, <1>4, <1>5, <1>6 DEF PortsDistinct
<1>12. UsedPorts'
  <2> SUFFICES ASSUME NEW q \in Ports
               PROVE  q \in used' <=>
                        \/ \E g \in Holders : port'[g] # NoPort /\ (q = port'[g] \/ q = port'[g] + 1)
                        \/ q \in lost' \/ q - 1 \in lost'
    BY DEF UsedPorts
  <2>1. ASSUME q \in used'
        PROVE  \/ \E g \in Holders : port'[g] # NoPort /\ (q = port'[g] \/ q = port'[g] + 1)
               \/ q \in lost' \/ q - 1 \in lost'
    <3>1. CASE q \in {p, p + 1}
      BY <3>1, <1>1, <1>3, <1>5
    <3>2. CASE q \in lost \/ q - 1 \in lost
      BY <3>2, <1>4
    <3>3. ASSUME NEW g \in Holders, port[g] # NoPort, q = port[g] \/ q = port[g] + 1
          PROVE  \/ \E f \in Holders : port'[f] # NoPort /\ (q = port'[f] \/ q = port'[f] + 1)
                 \/ q \in lost' \/ q - 1 \in lost'
      <4>1. CASE g = h
        <5>1. port[g] \in lost' /\ port[g] \in Nat
          BY <3>3, <4>1, <1>4, <1>6, PairFacts
        <5> QED
          BY <3>3, <5>1
      <4>2. CASE g # h
        BY <3>3, <4>2, <1>5
      <4> QED
        BY <4>1, <4>2
    <3> QED
      BY <2>1, <3>1, <3>2, <3>3, <1>4 DEF UsedPorts
  <2>2. ASSUME NEW g \in Holders, port'[g] # NoPort, q = port'[g] \/ q = port'[g] + 1
        PROVE  q \in used'
    BY <2>2, <1>4, <1>5 DEF UsedPorts
  <2>3. ASSUME q \in lost' \/ q - 1 \in lost'
        PROVE  q \in used'
    <3>1. CASE q \in lost \/ q - 1 \in lost
      BY <3>1, <1>4 DEF UsedPorts
    <3>2. CASE port[h] # NoPort /\ (q = port[h] \/ q - 1 = port[h])
      <4>1. q = port[h] \/ q = port[h] + 1
        BY <3>2, <1>3, <1>6, PairFacts DEF Ports
      <4> QED
        BY <3>2, <4>1, <1>3, <1>4 DEF UsedPorts
    <3> QED
      BY <2>3, <3>1, <3>2, <1>4
  <2> QED
    BY <2>1, <2>2, <2>3
<1>13. status[h[1]] \in {"open", "closing"} /\ h \notin bound
       /\ (h[2] = "us" => <<h[1], "ds">> \notin bound)
  BY DEF CallFresh, BindPair
<1>14. EmptyHands'
  <2> SUFFICES ASSUME NEW s \in Sessions, status'[s] \in {"dead", "fresh"}, NEW d \in Sides
               PROVE  port'[<<s, d>>] = NoPort /\ <<s, d>> \notin bound'
    BY DEF EmptyHands
  <2>1. s # h[1] /\ <<s, d>> # h /\ <<s, d>> \in Holders
    BY <1>3, <1>7, <1>13 DEF Holders
  <2> QED
    BY <2>1, <1>5, <1>7, <1>9 DEF EmptyHands
<1>15. CallFresh'
  <2>1. CASE ok
    <3>1. call' = AfterBind(h) /\ status' = status /\ bound' = bound \cup {h}
      BY <2>1 DEF BindPair
    <3>2. CASE mitm[h[1]] /\ h[2] = "us"
      <4>1. /\ call'.busy /\ call'.holder = <<h[1], "ds">>
            /\ <<h[1], "ds">> \in Holders /\ <<h[1], "ds">> # h
        BY <3>1, <3>2, <1>3 DEF AfterBind, Holders, Sides
      <4>2. call'.holder[1] = h[1] /\ call'.holder[2] = "ds"
        BY <4>1
      <4> QED
        BY <3>1, <3>2, <4>1, <4>2, <1>13 DEF CallFresh
    <3>3. CASE ~(mitm[h[1]] /\ h[2] = "us")
      BY <3>1, <3>3 DEF AfterBind, CallFresh, NoCall
    <3> QED
      BY <3>2, <3>3
  <2>2. CASE ~ok
    <3>1. bound' = bound /\ (call' = NoCall \/ call' = [call EXCEPT !.tries = @ + 1])
      BY <2>2 DEF BindPair
    <3>2. CASE call' = NoCall
      BY <3>2 DEF CallFresh, NoCall
    <3>3. CASE call' = [call EXCEPT !.tries = @ + 1]
      <4>1. call'.holder = h
        BY <3>3, <1>3
      <4> QED
        BY <4>1, <3>1, <1>3, <1>7, <1>13 DEF CallFresh
    <3> QED
      BY <3>1, <3>2, <3>3
  <2> QED
    BY <2>1, <2>2
<1>16. BoundIsLeased'
  <2> SUFFICES ASSUME NEW g \in bound'
               PROVE  /\ port'[g] # NoPort /\ status'[g[1]] # "dead"
                      /\ Leased(g)' \subseteq used' \ taken'
    BY DEF BoundIsLeased
  <2>1. CASE g = h
    <3>1. {p, p + 1} \cap taken = {}
      BY <2>1, <1>9, <1>13 DEF BindPair
    <3> QED
      BY <2>1, <3>1, <1>1, <1>3, <1>4, <1>5, <1>7, <1>13 DEF Leased
  <2>2. CASE g # h
    <3>1. g \in bound /\ g \in Holders /\ g[1] \in Sessions
      BY <2>2, <1>9 DEF TypeOK, Holders
    <3>2. port'[g] = port[g] /\ status'[g[1]] # "dead"
      BY <2>2, <3>1, <1>5, <1>7 DEF BoundIsLeased
    <3> QED
      BY <3>1, <3>2, <1>4 DEF BoundIsLeased, Leased
  <2> QED
    BY <2>1, <2>2
<1> QED
  BY <1>10, <1>11, <1>12, <1>14, <1>15, <1>16

\* So does a call that finds no free pair.
LEMMA BindExhaustedInv ==
  ASSUME IndInv, BindExhausted
  PROVE  IndInv'
<1> DEFINE h == call.holder
<1> USE DEF IndInv
<1>1. h \in Holders /\ h[1] \in Sessions /\ h = <<h[1], h[2]>>
  BY CallHolder DEF BindExhausted
<1>2. /\ port' = [port EXCEPT ![h] = NoPort] /\ used' = used /\ bound' = bound
      /\ lost' = lost \cup ({port[h]} \ {NoPort}) /\ next_port' = next_port
      /\ mitm' = mitm /\ taken' = taken /\ call' = NoCall
  BY DEF BindExhausted, Dropped
<1>3. \A g \in Holders : port'[g] = IF g = h THEN NoPort ELSE port[g]
  BY <1>1, <1>2 DEF TypeOK
<1>4. \A g \in Holders : port[g] \in Pairs \cup {NoPort}
  BY DEF TypeOK
<1>5. status' \in [Sessions -> Status] /\ (\A s \in Sessions : s # h[1] => status'[s] = status[s])
      /\ status'[h[1]] \in {status[h[1]], "closing"}
  BY <1>1 DEF BindExhausted, TypeOK, Status
<1>6. status[h[1]] \in {"open", "closing"} /\ h \notin bound
  BY DEF CallFresh, BindExhausted
<1>7. TypeOK'
  <2>1. lost' \subseteq Pairs
    BY <1>1, <1>2, <1>4 DEF TypeOK
  <2> QED
    BY <2>1, <1>1, <1>2, <1>5, TriesAssumption DEF TypeOK, Calls, NoCall
<1>8. PortsDistinct'
  <2>1. NoPort \notin Pairs
    BY PairFacts
  <2> QED
    BY <2>1, <1>1, <1>2, <1>3, <1>7 DEF PortsDistinct, TypeOK
<1>9. UsedPorts'
  <2> SUFFICES ASSUME NEW q \in Ports
               PROVE  q \in used <=>
                        \/ \E g \in Holders : port'[g] # NoPort /\ (q = port'[g] \/ q = port'[g] + 1)
                        \/ q \in lost' \/ q - 1 \in lost'
    BY <1>2 DEF UsedPorts
  <2>1. ASSUME q \in used
        PROVE  \/ \E g \in Holders : port'[g] # NoPort /\ (q = port'[g] \/ q = port'[g] + 1)
               \/ q \in lost' \/ q - 1 \in lost'
    <3>1. CASE q \in lost \/ q - 1 \in lost
      BY <3>1, <1>2
    <3>2. ASSUME NEW g \in Holders, port[g] # NoPort, q = port[g] \/ q = port[g] + 1
          PROVE  \/ \E f \in Holders : port'[f] # NoPort /\ (q = port'[f] \/ q = port'[f] + 1)
                 \/ q \in lost' \/ q - 1 \in lost'
      <4>1. CASE g = h
        <5>1. port[g] \in lost' /\ port[g] \in Nat
          BY <3>2, <4>1, <1>2, <1>4, PairFacts
        <5> QED
          BY <3>2, <5>1
      <4>2. CASE g # h
        BY <3>2, <4>2, <1>3
      <4> QED
        BY <4>1, <4>2
    <3> QED
      BY <2>1, <3>1, <3>2 DEF UsedPorts
  <2>2. ASSUME NEW g \in Holders, port'[g] # NoPort, q = port'[g] \/ q = port'[g] + 1
        PROVE  q \in used
    BY <2>2, <1>3 DEF UsedPorts
  <2>3. ASSUME q \in lost' \/ q - 1 \in lost'
        PROVE  q \in used
    <3>1. CASE q \in lost \/ q - 1 \in lost
      BY <3>1 DEF UsedPorts
    <3>2. CASE port[h] # NoPort /\ (q = port[h] \/ q - 1 = port[h])
      <4>1. q = port[h] \/ q = port[h] + 1
        BY <3>2, <1>1, <1>4, PairFacts DEF Ports
      <4> QED
        BY <3>2, <4>1, <1>1 DEF UsedPorts
    <3> QED
      BY <2>3, <3>1, <3>2, <1>2
  <2> QED
    BY <2>1, <2>2, <2>3
<1>10. EmptyHands'
  <2> SUFFICES ASSUME NEW s \in Sessions, status'[s] \in {"dead", "fresh"}, NEW d \in Sides
               PROVE  port'[<<s, d>>] = NoPort /\ <<s, d>> \notin bound'
    BY DEF EmptyHands
  <2>1. s # h[1] /\ <<s, d>> \in Holders
    BY <1>5, <1>6 DEF Holders
  <2> QED
    BY <2>1, <1>2, <1>3, <1>5 DEF EmptyHands
<1>11. CallFresh'
  BY <1>2 DEF CallFresh, NoCall
<1>12. BoundIsLeased'
  <2> SUFFICES ASSUME NEW g \in bound
               PROVE  /\ port'[g] # NoPort /\ status'[g[1]] # "dead"
                      /\ Leased(g)' \subseteq used' \ taken'
    BY <1>2 DEF BoundIsLeased
  <2>1. g \in Holders /\ g[1] \in Sessions /\ g # h
    BY <1>6 DEF TypeOK, Holders
  <2>2. port'[g] = port[g] /\ status'[g[1]] # "dead"
    BY <2>1, <1>3, <1>5 DEF BoundIsLeased
  <2> QED
    BY <2>2, <1>2 DEF BoundIsLeased, Leased
<1> QED
  BY <1>7, <1>8, <1>9, <1>10, <1>11, <1>12

\* A destructor frees exactly the ports of its own leases.
LEMMA DestroyInv ==
  ASSUME IndInv, NEW s \in Sessions, Destroy(s)
  PROVE  IndInv'
<1> DEFINE u == <<s, "us">>
           d == <<s, "ds">>
<1> USE DEF IndInv
<1>1. u \in Holders /\ d \in Holders /\ (\A g \in Holders : g[1] = s <=> g = u \/ g = d)
  BY DEF Holders, Sides
<1>2. /\ used' = used \ {port[u], port[u] + 1, port[d], port[d] + 1}
      /\ \A g \in Holders : port'[g] = IF g[1] = s THEN NoPort ELSE port[g]
      /\ port' \in [Holders -> Pairs \cup {NoPort}]
      /\ bound' = {g \in bound : g[1] # s}
      /\ status' = [status EXCEPT ![s] = "dead"]
      /\ UNCHANGED <<next_port, mitm, call, taken, lost>>
      /\ ~call.busy
  BY DEF Destroy, Released, Idle, TypeOK
<1>3. \A g \in Holders : port[g] \in Pairs \cup {NoPort}
  BY DEF TypeOK
<1>4. TypeOK'
  BY <1>2 DEF TypeOK, Status
<1>5. PortsDistinct'
  <2>1. NoPort \notin lost
    BY PairFacts DEF TypeOK, Pairs
  <2> QED
    BY <2>1, <1>2 DEF PortsDistinct
<1>6. UsedPorts'
  <2> SUFFICES ASSUME NEW q \in Ports
               PROVE  q \in used' <=>
                        \/ \E g \in Holders : port'[g] # NoPort /\ (q = port'[g] \/ q = port'[g] + 1)
                        \/ q \in lost \/ q - 1 \in lost
    BY <1>2 DEF UsedPorts
  <2>0. \A g \in {u, d} : q = port[g] \/ q = port[g] + 1 => port[g] # NoPort
    BY <1>1, <1>3, PairFacts
  <2>1. ASSUME q \in used'
        PROVE  \/ \E g \in Holders : port'[g] # NoPort /\ (q = port'[g] \/ q = port'[g] + 1)
               \/ q \in lost \/ q - 1 \in lost
    BY <2>1, <1>1, <1>2 DEF UsedPorts
  <2>2. ASSUME NEW g \in Holders, port'[g] # NoPort, q = port'[g] \/ q = port'[g] + 1
        PROVE  q \in used'
    <3>1. g # u /\ g # d /\ port'[g] = port[g]
      BY <2>2, <1>1, <1>2
    <3>2. q \in used
      BY <2>2, <3>1 DEF UsedPorts
    <3>3. ASSUME NEW f \in {u, d}, q = port[f] \/ q = port[f] + 1 PROVE FALSE
      <4>1. port[f] \in Pairs /\ port[g] \in Pairs
        BY <2>0, <2>2, <3>1, <3>3, <1>1, <1>3
      <4>2. port[f] = port[g]
        <5>1. q = port[g] \/ q = port[g] + 1
          BY <2>2, <3>1
        <5>2. port[f] # port[g] + 1 /\ port[g] # port[f] + 1
              /\ (port[f] + 1 = port[g] + 1 => port[f] = port[g])
          BY <4>1, PairFacts
        <5> QED
          BY <5>1, <5>2, <3>3
      <4> QED
        BY <4>1, <4>2, <2>2, <3>1, <1>1 DEF PortsDistinct
    <3> QED
      BY <3>2, <3>3, <1>2
  <2>3. ASSUME q \in lost \/ q - 1 \in lost
        PROVE  q \in used'
    <3>1. q \in used
      BY <2>3 DEF UsedPorts
    <3>2. ASSUME NEW f \in {u, d}, q = port[f] \/ q = port[f] + 1 PROVE FALSE
      <4>1. port[f] \in Pairs
        BY <2>0, <3>2, <1>1, <1>3
      <4>2. \/ q = port[f] /\ q \in lost
            \/ q - 1 = port[f] /\ q - 1 \in lost
            \/ q = port[f] /\ q - 1 \in lost
            \/ q = port[f] + 1 /\ q \in lost
        <5>1. q = port[f] + 1 => q - 1 = port[f]
          BY <4>1, PairFacts
        <5> QED
          BY <2>3, <3>2, <5>1
      <4>3. lost \subseteq Pairs /\ port[f] \notin lost
        BY <1>1 DEF TypeOK, PortsDistinct
      <4>4. q = port[f] /\ q - 1 \in lost => FALSE
        BY <4>1, <4>3, PairFacts
      <4>5. q = port[f] + 1 /\ q \in lost => FALSE
        BY <4>1, <4>3, PairFacts
      <4> QED
        BY <4>2, <4>3, <4>4, <4>5
    <3> QED
      BY <3>1, <3>2, <1>2
  <2> QED
    BY <2>1, <2>2, <2>3
<1>7. EmptyHands'
  <2> SUFFICES ASSUME NEW r \in Sessions, status'[r] \in {"dead", "fresh"}, NEW e \in Sides
               PROVE  port'[<<r, e>>] = NoPort /\ <<r, e>> \notin bound'
    BY DEF EmptyHands
  <2>1. <<r, e>> \in Holders /\ <<r, e>>[1] = r
    BY DEF Holders
  <2>2. CASE r = s
    BY <2>1, <2>2, <1>2
  <2>3. CASE r # s
    BY <2>1, <2>3, <1>2 DEF EmptyHands, TypeOK
  <2> QED
    BY <2>2, <2>3
<1>8. CallFresh'
  BY <1>2 DEF CallFresh
<1>9. BoundIsLeased'
  <2> SUFFICES ASSUME NEW g \in bound'
               PROVE  /\ port'[g] # NoPort /\ status'[g[1]] # "dead"
                      /\ Leased(g)' \subseteq used' \ taken'
    BY DEF BoundIsLeased
  <2>1. g \in bound /\ g \in Holders /\ g[1] # s /\ g[1] \in Sessions
    BY <1>2 DEF TypeOK, Holders
  <2>2. port'[g] = port[g] /\ port[g] # NoPort /\ status'[g[1]] # "dead"
    BY <2>1, <1>2 DEF BoundIsLeased, TypeOK
  <2>3. {port[g], port[g] + 1} \subseteq used'
    <3>1. port[g] \in Ports /\ port[g] + 1 \in Ports
      BY <2>1, <2>2, <1>3, PairFacts
    <3> QED
      BY <3>1, <2>1, <2>2, <1>6 DEF UsedPorts
  <2> QED
    BY <2>1, <2>2, <2>3, <1>2 DEF BoundIsLeased, Leased
<1> QED
  BY <1>4, <1>5, <1>6, <1>7, <1>8, <1>9

\* Every step preserves the inductive invariant.
LEMMA NextInv == IndInv /\ [Next]_vars => IndInv'
<1> SUFFICES ASSUME IndInv, [Next]_vars PROVE IndInv'
  OBVIOUS
<1>1. CASE CallStep
  BY <1>1, BindPairInv, BindExhaustedInv DEF CallStep
<1>2. CASE \E s \in Sessions : OpenHttp(s) \/ OpenMitm(s) \/ Setup(s) \/ Destroy(s)
  BY <1>2, OpenInv, DestroyInv
<1>3. CASE \E p \in Ports : OthersBind(p) \/ OthersRelease(p)
  BY <1>3, OthersInv
<1>4. CASE UNCHANGED vars
  BY <1>4 DEF vars, IndInv, TypeOK, PortsDistinct, UsedPorts, EmptyHands, CallFresh,
       BoundIsLeased, Leased
<1> QED
  BY <1>1, <1>2, <1>3, <1>4 DEF Next

---------------------------------------------------------------------------
(* Theorems *)

\* The inductive invariant of the pool and its users.
THEOREM Invariance == Spec => []IndInv
BY InitInv, NextInv, PTL DEF Spec

\* Every variable keeps its type; in particular next_port_ never leaves the range.
THEOREM TypeCorrect == Spec => []TypeOK
<1>1. IndInv => TypeOK
  BY DEF IndInv
<1> QED
  BY <1>1, Invariance, PTL

\* Two leases never share a port, for any range and any history of failed binds.
THEOREM NoCollision == Spec => []LeasesDisjoint
<1>1. IndInv => LeasesDisjoint
  <2> SUFFICES ASSUME IndInv, NEW g \in Holders, NEW h \in Holders, g # h,
                      NEW q \in Leased(g) \cap Leased(h)
               PROVE  FALSE
    BY DEF LeasesDisjoint
  <2>1. /\ port[g] \in Pairs /\ port[h] \in Pairs
        /\ q = port[g] \/ q = port[g] + 1
        /\ q = port[h] \/ q = port[h] + 1
    BY DEF IndInv, TypeOK, Leased
  <2>2. port[g] = port[h] /\ port[g] # NoPort
    BY <2>1, PairFacts
  <2> QED
    BY <2>2 DEF IndInv, PortsDistinct
<1> QED
  BY <1>1, Invariance, PTL

\* The pool's set is exactly the leases and the lost pairs.
THEOREM NoPortLeak == Spec => []UsedAccounted
<1>1. IndInv => UsedAccounted
  <2> SUFFICES ASSUME IndInv PROVE UsedAccounted
    OBVIOUS
  <2>1. ASSUME NEW q \in Ports
        PROVE  (\E h \in Holders : port[h] # NoPort /\ (q = port[h] \/ q = port[h] + 1))
                 <=> (\E h \in Holders : q \in Leased(h))
    BY DEF Leased
  <2> QED
    BY <2>1 DEF IndInv, UsedPorts, UsedAccounted, TypeOK
<1> QED
  BY <1>1, Invariance, PTL

\* Bound sockets are covered by leases.
THEOREM SocketsLeased == Spec => []BoundIsLeased
<1>1. IndInv => BoundIsLeased
  BY DEF IndInv
<1> QED
  BY <1>1, Invariance, PTL

---------------------------------------------------------------------------
(* The pool implements PairAllocator. *)

\* What the refinement mapping says of a pair, without its CHOOSE.
OwnerInv ==
  /\ DOMAIN Owner = Pairs
  /\ Owner = [q \in Pairs |-> Owner[q]]
  /\ \A q \in Pairs : Owner[q] \in Holders \cup {FreeMark, LostMark}
  /\ \A q \in Pairs, h \in Holders : Owner[q] = h <=> port[h] = q
  /\ \A q \in Pairs : Owner[q] = FreeMark <=> q \notin used
  /\ FreeMark \notin Holders /\ LostMark \notin Holders /\ FreeMark # LostMark

\* The mapping is well defined: a pair has one holder, and a held pair is used.
LEMMA OwnerFacts == IndInv => OwnerInv
<1> SUFFICES ASSUME IndInv PROVE OwnerInv
  OBVIOUS
<1>1. FreeMark \notin Holders /\ LostMark \notin Holders /\ FreeMark # LostMark
  BY DEF FreeMark, LostMark, Holders, Sides
<1>2. DOMAIN Owner = Pairs /\ Owner = [q \in Pairs |-> Owner[q]]
  BY DEF Owner
<1>3. ASSUME NEW q \in Pairs, NEW h \in Holders, port[h] = q
      PROVE  Owner[q] = h
  <2>1. q # NoPort
    BY PairFacts
  <2>2. \A g \in Holders : port[g] = q => g = h
    BY <1>3, <2>1 DEF IndInv, PortsDistinct
  <2>3. Owner[q] = CHOOSE g \in Holders : port[g] = q
    BY <1>3 DEF Owner
  <2> QED
    BY <1>3, <2>2, <2>3
<1>4. ASSUME NEW q \in Pairs, \A h \in Holders : port[h] # q
      PROVE  Owner[q] = IF q \in used THEN LostMark ELSE FreeMark
  BY <1>4 DEF Owner
<1>5. \A q \in Pairs : Owner[q] \in Holders \cup {FreeMark, LostMark}
  BY <1>3, <1>4
<1>6. \A q \in Pairs, h \in Holders : Owner[q] = h <=> port[h] = q
  BY <1>1, <1>3, <1>4
<1>7. ASSUME NEW q \in Pairs
      PROVE  Owner[q] = FreeMark <=> q \notin used
  <2>1. CASE \E h \in Holders : port[h] = q
    <3>1. PICK h \in Holders : port[h] = q
      BY <2>1
    <3>2. q # NoPort /\ q \in Ports
      BY PairFacts
    <3>3. q \in used
      BY <3>1, <3>2 DEF IndInv, UsedPorts
    <3> QED
      BY <3>1, <3>3, <1>1, <1>3
  <2>2. CASE \A h \in Holders : port[h] # q
    BY <2>2, <1>1, <1>4
  <2> QED
    BY <2>1, <2>2
<1> QED
  BY <1>1, <1>2, <1>5, <1>6, <1>7 DEF OwnerInv

\* Binding a pair takes it and loses the pair that failed before it.
LEMMA BindPairTakes ==
  ASSUME IndInv, OwnerInv, OwnerInv', NEW i, NEW ok \in BOOLEAN, BindPair(i, ok)
  PROVE  Leases!Next
<1> DEFINE h == call.holder
           p == Nth(next_port, i)
           Target(q) == IF q = p THEN h ELSE IF Owner[q] = h THEN LostMark ELSE Owner[q]
<1>1. p \in Pairs /\ h \in Holders
  BY ScanInRange, CallHolder DEF BindPair, IndInv, TypeOK
<1>2. /\ \A g \in Holders : port'[g] = IF g = h THEN p ELSE port[g]
      /\ used' = used \cup {p, p + 1} /\ p \notin used
  BY <1>1 DEF BindPair, FirstFree, IsFree, IndInv, TypeOK
<1>3. \A q \in Pairs : q # p => (q \in used' <=> q \in used)
  BY <1>1, <1>2, PairFacts
<1>4. ASSUME NEW q \in Pairs PROVE Owner'[q] = Target(q)
  <2>1. CASE q = p
    BY <2>1, <1>1, <1>2 DEF OwnerInv
  <2>2. CASE q # p /\ Owner[q] = h
    <3>1. port[h] = q /\ q \in used
      BY <2>2, <1>1 DEF OwnerInv
    <3>2. \A g \in Holders : port'[g] # q
      BY <2>2, <3>1, <1>1, <1>2 DEF OwnerInv
    <3> QED
      BY <2>2, <3>1, <3>2, <1>3 DEF OwnerInv
  <2>3. CASE q # p /\ Owner[q] # h
    <3>1. \A g \in Holders : port'[g] = q <=> port[g] = q
      BY <2>3, <1>1, <1>2 DEF OwnerInv
    <3> QED
      BY <2>3, <3>1, <1>3 DEF OwnerInv
  <2> QED
    BY <2>1, <2>2, <2>3
<1>5. Owner' = [q \in Pairs |-> Target(q)]
  BY <1>4 DEF OwnerInv
<1>6. Leases!Take(h, p)
  BY <1>1, <1>2, <1>5 DEF OwnerInv, Leases!Take
<1> QED
  BY <1>1, <1>6 DEF Leases!Next

\* Running out of pairs loses the pair that failed before.
LEMMA BindExhaustedForfeits ==
  ASSUME IndInv, OwnerInv, OwnerInv', BindExhausted
  PROVE  Leases!Next
<1> DEFINE h == call.holder
           Target(q) == IF Owner[q] = h THEN LostMark ELSE Owner[q]
<1>1. h \in Holders
  BY CallHolder DEF BindExhausted, IndInv
<1>2. (\A g \in Holders : port'[g] = IF g = h THEN NoPort ELSE port[g]) /\ used' = used
  BY <1>1 DEF BindExhausted, IndInv, TypeOK
<1>3. ASSUME NEW q \in Pairs PROVE Owner'[q] = Target(q)
  <2>0. q # NoPort
    BY PairFacts
  <2>1. CASE Owner[q] = h
    <3>1. port[h] = q /\ q \in used
      BY <2>1, <1>1 DEF OwnerInv
    <3>2. \A g \in Holders : port'[g] # q
      BY <2>0, <2>1, <1>1, <1>2 DEF OwnerInv
    <3> QED
      BY <2>1, <3>1, <3>2, <1>2 DEF OwnerInv
  <2>2. CASE Owner[q] # h
    <3>1. \A g \in Holders : port'[g] = q <=> port[g] = q
      BY <2>0, <2>2, <1>1, <1>2 DEF OwnerInv
    <3> QED
      BY <2>2, <3>1, <1>2 DEF OwnerInv
  <2> QED
    BY <2>1, <2>2
<1>4. Owner' = [q \in Pairs |-> Target(q)]
  BY <1>3 DEF OwnerInv
<1>5. Leases!Forfeit(h)
  BY <1>4 DEF Leases!Forfeit
<1> QED
  BY <1>1, <1>5 DEF Leases!Next

\* A destructor returns the leases of its session, and nothing else.
LEMMA DestroyReturns ==
  ASSUME IndInv, OwnerInv, OwnerInv', NEW s \in Sessions, Destroy(s)
  PROVE  Leases!Next
<1> DEFINE u == <<s, "us">>
           d == <<s, "ds">>
           Target(q) == IF Owner[q] \in {u, d} THEN FreeMark ELSE Owner[q]
<1>1. u \in Holders /\ d \in Holders /\ (\A g \in Holders : g[1] = s <=> g = u \/ g = d)
  BY DEF Holders, Sides
<1>2. /\ \A g \in Holders : port'[g] = IF g \in {u, d} THEN NoPort ELSE port[g]
      /\ used' = used \ {port[u], port[u] + 1, port[d], port[d] + 1}
  BY <1>1 DEF Destroy, Released
<1>3. \A g \in Holders : port[g] \in Pairs \cup {NoPort}
  BY DEF IndInv, TypeOK
<1>4. ASSUME NEW q \in Pairs PROVE Owner'[q] = Target(q)
  <2>0. q # NoPort /\ q # NoPort + 1
    BY PairFacts
  <2>1. \A g \in {u, d} : q # port[g] + 1
    BY <2>0, <1>1, <1>3, PairFacts
  <2>2. CASE Owner[q] \in {u, d}
    <3>1. q \notin used'
      BY <2>2, <1>1, <1>2 DEF OwnerInv
    <3> QED
      BY <2>2, <3>1 DEF OwnerInv
  <2>3. CASE Owner[q] \notin {u, d}
    <3>1. \A g \in Holders : port'[g] = q <=> port[g] = q
      BY <2>0, <2>3, <1>1, <1>2 DEF OwnerInv
    <3>2. q \in used' <=> q \in used
      BY <2>1, <2>3, <1>1, <1>2 DEF OwnerInv
    <3> QED
      BY <2>3, <3>1, <3>2 DEF OwnerInv
  <2> QED
    BY <2>2, <2>3
<1>5. Owner' = [q \in Pairs |-> Target(q)]
  BY <1>4 DEF OwnerInv
<1>6. Leases!Return({u, d})
  BY <1>5 DEF Leases!Return
<1> QED
  BY <1>1, <1>6 DEF Leases!Next

\* Every step of the pool and its users is a PairAllocator step or a stutter.
LEMMA StepRefines == IndInv /\ OwnerInv /\ OwnerInv' /\ [Next]_vars => [Leases!Next]_Owner
<1> SUFFICES ASSUME IndInv, OwnerInv, OwnerInv', [Next]_vars PROVE [Leases!Next]_Owner
  OBVIOUS
<1>1. CASE CallStep
  BY <1>1, BindPairTakes, BindExhaustedForfeits DEF CallStep
<1>2. ASSUME port' = port, used' = used PROVE Owner' = Owner
  BY <1>2 DEF Owner
<1>3. CASE \E s \in Sessions : OpenHttp(s) \/ OpenMitm(s) \/ Setup(s)
  BY <1>2, <1>3 DEF OpenHttp, OpenMitm, Setup
<1>4. CASE \E s \in Sessions : Destroy(s)
  BY <1>4, DestroyReturns
<1>5. CASE \E p \in Ports : OthersBind(p) \/ OthersRelease(p)
  BY <1>2, <1>5 DEF OthersBind, OthersRelease
<1>6. CASE UNCHANGED vars
  BY <1>2, <1>6 DEF vars
<1> QED
  BY <1>1, <1>3, <1>4, <1>5, <1>6 DEF Next

\* The pool with its users implements exclusive leases: PairAllocator's
\* specification holds of the pair owners, for every range and every history.
THEOREM Refinement == Spec => LeasesSpec
<1>1. Init => Leases!Init
  BY PairFacts DEF Init, Leases!Init, Owner
<1>2. Spec => []IndInv
  BY Invariance
<1> QED
  BY <1>1, <1>2, OwnerFacts, StepRefines, PTL DEF Spec, LeasesSpec, Leases!Spec

---------------------------------------------------------------------------
(* The scan *)

\* One round of acquire_pair's loop, and the loop.
Round(busy, s) ==
  LET q == IF s.next % 2 # 0 THEN s.next + 1 ELSE s.next
      p == IF q >= End THEN Start ELSE q
  IN IF s.pair # NoPort THEN s
     ELSE [pair |-> IF p \notin busy /\ p + 1 \notin busy THEN p ELSE NoPort,
           next |-> After(p)]

IsScan(next, busy, n, g) ==
  g = [i \in 0..n |-> IF i = 0 THEN [pair |-> NoPort, next |-> next] ELSE Round(busy, g[i - 1])]

\* After i rounds: nothing found and i pairs passed, or the first free one found.
AfterRounds(next, busy, i, s) ==
  \/ /\ s = [pair |-> NoPort, next |-> Nth(next, i)]
     /\ \A j \in 0..(i - 1) : ~IsFree(Nth(next, j), busy)
  \/ \E j \in 0..(i - 1) : /\ FirstFree(next, busy, j)
                           /\ s = [pair |-> Nth(next, j), next |-> After(Nth(next, j))]

\* The recursion of the loop has a solution for every number of rounds.
LEMMA ScanExists ==
  ASSUME NEW next, NEW busy
  PROVE  \A n \in Nat : \E g : IsScan(next, busy, n, g)
<1> DEFINE T == {n \in Nat : \E g : IsScan(next, busy, n, g)}
           base == [pair |-> NoPort, next |-> next]
<1>1. 0 \in T
  <2> DEFINE g == [i \in 0..0 |-> base]
  <2>1. IsScan(next, busy, 0, g)
    BY DEF IsScan
  <2>2. QED
    BY <2>1
<1>2. ASSUME NEW n \in Nat, n \in T
      PROVE  n + 1 \in T
  <2>1. PICK g : IsScan(next, busy, n, g)
    BY <1>2
  <2> DEFINE D == 0..(n + 1)
             h == [i \in D |-> IF i = n + 1 THEN Round(busy, g[n]) ELSE g[i]]
             R(i) == IF i = 0 THEN base ELSE Round(busy, h[i - 1])
  <2>2. \A i \in 0..n : g[i] = IF i = 0 THEN base ELSE Round(busy, g[i - 1])
    BY <2>1 DEF IsScan
  <2>3. \A i \in 0..n : h[i] = g[i]
    OBVIOUS
  <2>4. h[n + 1] = Round(busy, g[n]) /\ h = [i \in D |-> h[i]]
    OBVIOUS
  <2>5. ASSUME NEW i \in D
        PROVE  h[i] = R(i)
    <3>1. CASE i = n + 1
      <4>1. i # 0 /\ i - 1 = n /\ n \in 0..n
        BY <3>1
      <4>2. h[i - 1] = g[n]
        BY <2>3, <4>1
      <4> HIDE DEF h, base
      <4>3. QED
        BY <2>4, <3>1, <4>1, <4>2
    <3>2. CASE i # n + 1
      <4>1. i \in 0..n /\ (i # 0 => i - 1 \in 0..n)
        BY <3>2
      <4>2. h[i] = g[i] /\ (i # 0 => h[i - 1] = g[i - 1])
        BY <2>3, <4>1
      <4> HIDE DEF h, base
      <4>3. QED
        BY <2>2, <4>1, <4>2
    <3>3. QED
      BY <3>1, <3>2
  <2>6. h = [i \in D |-> R(i)]
    <3> HIDE DEF h, D
    <3>1. [i \in D |-> h[i]] = [i \in D |-> R(i)]
      BY <2>5
    <3>2. QED
      BY <2>4, <3>1
  <2>7. IsScan(next, busy, n + 1, h)
    BY <2>6 DEF IsScan
  <2>8. QED
    BY <2>7
<1>3. Nat \subseteq T
  <2> HIDE DEF T
  <2>1. QED
    BY <1>1, <1>2, SetInduction
<1>4. QED
  BY <1>3

\* The cyclic order that the scan follows: it starts at next, each round goes on by one
\* pair, and it is back after Half rounds.
LEMMA CycleFacts ==
  ASSUME NEW next \in Pairs
  PROVE  /\ Nth(next, 0) = next /\ Nth(next, Half) = next
         /\ \A i \in 0..(Half - 1) : After(Nth(next, i)) = Nth(next, i + 1)
         /\ \A p \in Pairs : \E i \in 0..(Half - 1) : Nth(next, i) = p
<1>1. /\ Start \in Nat /\ Start > 0 /\ End \in Nat /\ Start < End
      /\ next \in Nat /\ Start <= next /\ next < End
      /\ \E a \in Nat : Start = 2 * a
      /\ \E b \in Nat : End = 2 * b
      /\ \E c \in Nat : next = 2 * c
  BY RangeAssumption DEF Pairs, Ports
<1>2. Half \in Nat /\ End - Start = 2 * Half
  BY <1>1 DEF Half
<1>3. Nth(next, 0) = next /\ Nth(next, Half) = next
  BY <1>1, <1>2 DEF Nth
<1>4. ASSUME NEW i \in 0..(Half - 1)
      PROVE  After(Nth(next, i)) = Nth(next, i + 1)
  BY <1>1, <1>2 DEF Nth, After
<1>5. ASSUME NEW p \in Pairs
      PROVE  \E i \in 0..(Half - 1) : Nth(next, i) = p
  <2>1. PICK c \in Nat : next = 2 * c
    BY <1>1
  <2>2. PICK e \in Nat : p = 2 * e
    BY RangeAssumption DEF Pairs, Ports
  <2>3. p \in Nat /\ Start <= p /\ p < End
    BY RangeAssumption DEF Pairs, Ports
  <2>4. CASE p >= next
    <3>1. e - c \in 0..(Half - 1) /\ next + 2 * (e - c) = p
      BY <1>1, <1>2, <2>1, <2>2, <2>3, <2>4
    <3>2. Nth(next, e - c) = p
      BY <1>1, <2>3, <3>1 DEF Nth
    <3>3. QED
      BY <3>1, <3>2
  <2>5. CASE p < next
    <3>1. e - c + Half \in 0..(Half - 1) /\ next + 2 * (e - c + Half) = p + (End - Start)
      BY <1>1, <1>2, <2>1, <2>2, <2>3, <2>5
    <3>2. Nth(next, e - c + Half) = p
      BY <1>1, <1>2, <2>3, <3>1 DEF Nth
    <3>3. QED
      BY <3>1, <3>2
  <2>6. QED
    BY <1>1, <2>3, <2>4, <2>5
<1>6. QED
  BY <1>3, <1>4, <1>5

\* One round.
LEMMA RoundCorrect ==
  ASSUME NEW next \in Pairs, NEW busy, NEW i \in 0..(Half - 1), NEW s,
         AfterRounds(next, busy, i, s)
  PROVE  AfterRounds(next, busy, i + 1, Round(busy, s))
<1>0. Half \in Int /\ i \in Nat /\ (i + 1) - 1 = i
  BY RangeAssumption DEF Half
<1>1. CASE /\ s = [pair |-> NoPort, next |-> Nth(next, i)]
           /\ \A j \in 0..(i - 1) : ~IsFree(Nth(next, j), busy)
  <2> DEFINE p == Nth(next, i)
  <2>1. p \in Pairs /\ p \in Nat /\ p % 2 = 0 /\ ~(p >= End)
    <3>1. p \in Pairs
      BY ScanInRange
    <3> HIDE DEF p
    <3>2. QED
      BY <3>1, RangeAssumption DEF Pairs, Ports
  <2>2. After(p) = Nth(next, i + 1)
    BY CycleFacts
  <2>3. s.pair = NoPort /\ s.next = p
    BY <1>1
  <2> HIDE DEF p
  <2>4. Round(busy, s) = [pair |-> IF p \notin busy /\ p + 1 \notin busy THEN p ELSE NoPort,
                          next |-> After(p)]
    BY <2>1, <2>3 DEF Round
  <2>5. CASE IsFree(p, busy)
    <3>1. Round(busy, s) = [pair |-> p, next |-> After(p)]
      BY <2>4, <2>5 DEF IsFree
    <3>2. FirstFree(next, busy, i)
      BY <1>1, <2>5 DEF FirstFree, p
    <3>3. i \in 0..((i + 1) - 1)
      BY <1>0
    <3>4. QED
      BY <3>1, <3>2, <3>3 DEF AfterRounds, p
  <2>6. CASE ~IsFree(p, busy)
    <3>1. Round(busy, s) = [pair |-> NoPort, next |-> Nth(next, i + 1)]
      BY <2>2, <2>4, <2>6 DEF IsFree
    <3>2. \A j \in 0..((i + 1) - 1) : j = i \/ j \in 0..(i - 1)
      BY <1>0
    <3>3. \A j \in 0..((i + 1) - 1) : ~IsFree(Nth(next, j), busy)
      BY <1>1, <2>6, <3>2 DEF p
    <3>4. QED
      BY <3>1, <3>3 DEF AfterRounds
  <2>7. QED
    BY <2>5, <2>6
<1>2. ASSUME NEW j \in 0..(i - 1), FirstFree(next, busy, j),
             s = [pair |-> Nth(next, j), next |-> After(Nth(next, j))]
      PROVE  AfterRounds(next, busy, i + 1, Round(busy, s))
  <2>1. j \in 0..(Half - 1) /\ j \in 0..((i + 1) - 1)
    BY <1>0
  <2>2. Nth(next, j) # NoPort
    BY <2>1, ScanInRange, PairFacts
  <2>3. s.pair = Nth(next, j)
    BY <1>2
  <2>4. Round(busy, s) = s
    BY <2>2, <2>3 DEF Round
  <2>5. QED
    BY <1>2, <2>1, <2>4 DEF AfterRounds
<1>3. QED
  BY <1>1, <1>2 DEF AfterRounds

\* acquire_pair returns the first free pair in cyclic order, and 0 only if there is none.
LEMMA LoopCorrect ==
  ASSUME NEW next \in Pairs, NEW busy
  PROVE  AfterRounds(next, busy, Half, AcquireLoop(next, busy))
<1> DEFINE g == CHOOSE f : IsScan(next, busy, Half, f)
           T == {i \in Nat : i <= Half => AfterRounds(next, busy, i, g[i])}
<1>1. Half \in Nat
  BY RangeAssumption DEF Half
<1>2. IsScan(next, busy, Half, g)
  BY <1>1, ScanExists
<1>3. AcquireLoop(next, busy) = g[Half]
  BY DEF AcquireLoop, IsScan, Round
<1> HIDE DEF g
<1>4. \A i \in 0..Half : g[i] = IF i = 0 THEN [pair |-> NoPort, next |-> next]
                                ELSE Round(busy, g[i - 1])
  BY <1>2 DEF IsScan
<1>5. 0 \in T
  <2>1. g[0] = [pair |-> NoPort, next |-> Nth(next, 0)]
    BY <1>1, <1>4, CycleFacts
  <2>2. QED
    BY <2>1 DEF AfterRounds
<1>6. ASSUME NEW i \in Nat, i \in T
      PROVE  i + 1 \in T
  <2> SUFFICES ASSUME i + 1 <= Half
               PROVE  AfterRounds(next, busy, i + 1, g[i + 1])
    OBVIOUS
  <2>1. i \in 0..(Half - 1) /\ i <= Half /\ i + 1 \in 0..Half /\ i + 1 # 0 /\ (i + 1) - 1 = i
    BY <1>1
  <2>2. AfterRounds(next, busy, i, g[i])
    BY <1>6, <2>1
  <2>3. AfterRounds(next, busy, i + 1, Round(busy, g[i]))
    BY <2>1, <2>2, RoundCorrect
  <2>4. g[i + 1] = Round(busy, g[i])
    BY <1>4, <2>1
  <2>5. QED
    BY <2>3, <2>4
<1>7. Nat \subseteq T
  <2> HIDE DEF T
  <2>1. QED
    BY <1>5, <1>6, SetInduction
<1>8. QED
  BY <1>1, <1>3, <1>7

\* acquire_pair finds the first free pair in cyclic order from next_port_, whatever the
\* range and the ports in use, and gives up only when there is none.
THEOREM ScanFinds == Spec => []ScanCorrect
<1>1. IndInv => ScanCorrect
  <2> SUFFICES ASSUME IndInv
               PROVE  ScanCorrect
    OBVIOUS
  <2>1. next_port \in Pairs
    BY DEF IndInv, TypeOK
  <2>2. AfterRounds(next_port, used, Half, AcquireLoop(next_port, used))
    BY <2>1, LoopCorrect
  <2>3. Nth(next_port, Half) = next_port
    BY <2>1, CycleFacts
  <2>4. (\A j \in 0..(Half - 1) : ~IsFree(Nth(next_port, j), used)) => \A p \in Pairs : ~IsFree(p, used)
    BY <2>1, CycleFacts
  <2>5. QED
    BY <2>2, <2>3, <2>4 DEF AfterRounds, ScanCorrect
<1>2. QED
  BY <1>1, Invariance, PTL
=============================================================================
