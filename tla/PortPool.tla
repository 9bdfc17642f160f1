------------------------------ MODULE PortPool ------------------------------
(***************************************************************************)
(* PortPool and its only users: bind_udp_pair_from_pool and the            *)
(* constructors, SETUP handling and destructors of the two session types.  *)
(*                                                                         *)
(* A session leases one pair (RTSPToHttpClient, facing the upstream) or    *)
(* two (RTSPToRtspClient, `us' towards the upstream and `ds' towards the   *)
(* client).  The reactor is single threaded, so one call of                *)
(* bind_udp_pair_from_pool is in progress at a time, but other processes   *)
(* bind and release UDP ports between its system calls.                    *)
(***************************************************************************)
EXTENDS Integers, FiniteSets

CONSTANTS
  Start, End,  \* start_port_ and end_port_: the range [Start, End)
  Sessions,    \* addresses a session object may be allocated at
  MaxTries     \* pairs that one call tries to bind (10)

ASSUME RangeAssumption ==
  /\ Start \in Nat \ {0} /\ End \in Nat /\ Start < End /\ End < 65536
  /\ Start % 2 = 0 /\ End % 2 = 0

ASSUME TriesAssumption == MaxTries \in Nat \ {0}

Ports   == Start..(End - 1)
Pairs   == {p \in Ports : p % 2 = 0}
Half    == (End - Start) \div 2        \* total_ports / 2
NoPort  == 0
Sides   == {"us", "ds"}
Holders == Sessions \X Sides
Status  == {"dead", "fresh", "open", "closing"}
Nobody  == <<"pool", "nobody">>
NoCall  == [busy |-> FALSE, holder |-> Nobody, tries |-> 0]
Calls   == [busy : BOOLEAN, holder : Holders \cup {Nobody}, tries : 0..(MaxTries - 1)]

VARIABLES
  next_port,  \* PortPool::next_port_
  used,       \* PortPool::used_ports_
  port,       \* rtp_port_ / local_rtp_us_port_ / local_rtp_ds_port_ per holder
  bound,      \* holders whose two sockets are open and bound
  status,     \* life of a session object
  mitm,       \* is it an RTSPToRtspClient?
  call,       \* the bind_udp_pair_from_pool call in progress
  taken,      \* ports other processes have bound
  lost        \* ghost: pairs whose number the call overwrote after a failure

vars == <<next_port, used, port, bound, status, mitm, call, taken, lost>>

TypeOK ==
  /\ next_port \in Pairs
  /\ used \subseteq Ports
  /\ port \in [Holders -> Pairs \cup {NoPort}]
  /\ bound \subseteq Holders
  /\ status \in [Sessions -> Status]
  /\ mitm \in [Sessions -> BOOLEAN]
  /\ call \in Calls
  /\ taken \subseteq Ports
  /\ lost \subseteq Pairs

Init ==
  /\ next_port = Start
  /\ used = {}
  /\ port = [h \in Holders |-> NoPort]
  /\ bound = {}
  /\ status = [s \in Sessions |-> "dead"]
  /\ mitm = [s \in Sessions |-> FALSE]
  /\ call = NoCall
  /\ taken = {}
  /\ lost = {}

---------------------------------------------------------------------------
(* PortPool *)

\* Mutant: the scan position does not wrap.
After_NoWrap(p) == p + 2

\* The scan position after p.
After(p) == IF p + 2 >= End THEN Start ELSE p + 2

\* Mutant: the scan stops one round early.
AcquireLoop_Short(next, busy) ==
  LET round[i \in 0..Half] ==
        IF i = 0 THEN [pair |-> NoPort, next |-> next]
        ELSE LET s == round[i - 1]
                 p == s.next
             IN IF s.pair # NoPort THEN s
                ELSE [pair |-> IF p \notin busy /\ p + 1 \notin busy THEN p ELSE NoPort,
                      next |-> After(p)]
  IN round[Half - 1]

\* acquire_pair as it is written: at most Half rounds from next_port_, none of them
\* after a free pair has been found.  The result is the pair, or 0, and the new
\* next_port_.
AcquireLoop(next, busy) ==
  LET round[i \in 0..Half] ==
        IF i = 0 THEN [pair |-> NoPort, next |-> next]
        ELSE LET s == round[i - 1]
                 q == IF s.next % 2 # 0 THEN s.next + 1 ELSE s.next
                 p == IF q >= End THEN Start ELSE q
             IN IF s.pair # NoPort THEN s
                ELSE [pair |-> IF p \notin busy /\ p + 1 \notin busy THEN p ELSE NoPort,
                      next |-> After(p)]
  IN round[Half]

\* The same as a specification: the first free pair in cyclic order.
Nth(next, i) ==
  IF next + 2 * i >= End THEN next + 2 * i - (End - Start) ELSE next + 2 * i
IsFree(p, busy) == p \notin busy /\ p + 1 \notin busy
FirstFree(next, busy, i) ==
  /\ IsFree(Nth(next, i), busy)
  /\ \A j \in 0..(i - 1) : ~IsFree(Nth(next, j), busy)

\* Mutants: only the even port is erased; the neighbouring pair is erased too.
Released_Even(p, busy) == busy \ {p}
Released_Neighbour(p, busy) == busy \ p..(p + 3)

\* release_pair; 0 is ignored (0 and 1 are outside the range).
Released(p, busy) == busy \ {p, p + 1}

---------------------------------------------------------------------------
(* Sessions *)

Idle == ~call.busy

StartCall(h) == call' = [busy |-> TRUE, holder |-> h, tries |-> 0]

\* The RTSPToHttpClient constructor calls init_rtp_rtcp_sockets.
OpenHttp(s) ==
  /\ Idle
  /\ status[s] = "dead"
  /\ status' = [status EXCEPT ![s] = "open"]
  /\ mitm' = [mitm EXCEPT ![s] = FALSE]
  /\ StartCall(<<s, "us">>)
  /\ UNCHANGED <<next_port, used, port, bound, taken, lost>>

\* The RTSPToRtspClient constructor opens no relay socket.
OpenMitm(s) ==
  /\ Idle
  /\ status[s] = "dead"
  /\ status' = [status EXCEPT ![s] = "fresh"]
  /\ mitm' = [mitm EXCEPT ![s] = TRUE]
  /\ UNCHANGED <<next_port, used, port, bound, call, taken, lost>>

\* on_downstream_readable, the first SETUP (relay_ready_ is false).
Setup(s) ==
  /\ Idle
  /\ status[s] = "fresh"
  /\ status' = [status EXCEPT ![s] = "open"]
  /\ StartCall(<<s, "us">>)
  /\ UNCHANGED <<next_port, used, port, bound, mitm, taken, lost>>

\* What follows a successful bind: init_relay_sockets goes on to the other side.
AfterBind(h) ==
  IF mitm[h[1]] /\ h[2] = "us"
  THEN [busy |-> TRUE, holder |-> <<h[1], "ds">>, tries |-> 0]
  ELSE NoCall

\* The pair a new acquire_pair result overwrites.
Dropped(h) == {port[h]} \ {NoPort}

\* One round of bind_udp_pair_from_pool: acquire_pair, then bind both sockets.
\* bind fails for a port somebody has; socket(2) and SO_BINDTODEVICE may fail for
\* any port.  mark_occupied adds a port that acquire_pair has already inserted.
BindPair(i, ok) ==
  LET h == call.holder
      p == Nth(next_port, i)
  IN
  /\ call.busy
  /\ i \in 0..(Half - 1)
  /\ FirstFree(next_port, used, i)
  /\ ok => {p, p + 1} \cap taken = {}
  /\ next_port' = After(p)
  /\ used' = used \cup {p, p + 1}
  /\ port' = [port EXCEPT ![h] = p]
  /\ lost' = lost \cup Dropped(h)
  /\ \/ /\ ok
        /\ bound' = bound \cup {h}
        /\ call' = AfterBind(h)
        /\ UNCHANGED status
     \/ /\ ~ok /\ call.tries + 1 < MaxTries
        /\ call' = [call EXCEPT !.tries = @ + 1]
        /\ UNCHANGED <<bound, status>>
     \/ /\ ~ok /\ call.tries + 1 = MaxTries
        /\ call' = NoCall
        /\ status' = [status EXCEPT ![h[1]] = IF mitm[h[1]] THEN "closing" ELSE @]
        /\ UNCHANGED bound
  /\ UNCHANGED <<mitm, taken>>

\* acquire_pair returns 0: the call fails at once, rtp_port is 0.
BindExhausted ==
  LET h == call.holder IN
  /\ call.busy
  /\ \A p \in Pairs : ~IsFree(p, used)
  /\ port' = [port EXCEPT ![h] = NoPort]
  /\ lost' = lost \cup Dropped(h)
  /\ call' = NoCall
  /\ status' = [status EXCEPT ![h[1]] = IF mitm[h[1]] THEN "closing" ELSE @]
  /\ UNCHANGED <<next_port, used, bound, mitm, taken>>

\* Mutant: the destructor forgets the downstream pair.
Destroy_OneSide(s) ==
  /\ Idle
  /\ status[s] # "dead"
  /\ used' = Released(port[<<s, "us">>], used)
  /\ port' = [h \in Holders |-> IF h[1] = s THEN NoPort ELSE port[h]]
  /\ bound' = {h \in bound : h[1] # s}
  /\ status' = [status EXCEPT ![s] = "dead"]
  /\ UNCHANGED <<next_port, mitm, call, taken, lost>>

\* Mutant: the destructor releases both pairs but its sockets stay open.
Destroy_Open(s) ==
  /\ Idle
  /\ status[s] # "dead"
  /\ used' = Released(port[<<s, "us">>], Released(port[<<s, "ds">>], used))
  /\ port' = [h \in Holders |-> IF h[1] = s THEN NoPort ELSE port[h]]
  /\ status' = [status EXCEPT ![s] = "dead"]
  /\ UNCHANGED <<next_port, bound, mitm, call, taken, lost>>

\* The destructors release the pairs and close the sockets.
Destroy(s) ==
  /\ Idle
  /\ status[s] # "dead"
  /\ used' = Released(port[<<s, "us">>], Released(port[<<s, "ds">>], used))
  /\ port' = [h \in Holders |-> IF h[1] = s THEN NoPort ELSE port[h]]
  /\ bound' = {h \in bound : h[1] # s}
  /\ status' = [status EXCEPT ![s] = "dead"]
  /\ UNCHANGED <<next_port, mitm, call, taken, lost>>

\* Another process binds or releases a port of the range.
BoundPorts == {port[h] : h \in bound} \cup {port[h] + 1 : h \in bound}

OthersBind(p) ==
  /\ p \in Ports \ (taken \cup BoundPorts)
  /\ taken' = taken \cup {p}
  /\ UNCHANGED <<next_port, used, port, bound, status, mitm, call, lost>>

OthersRelease(p) ==
  /\ p \in taken
  /\ taken' = taken \ {p}
  /\ UNCHANGED <<next_port, used, port, bound, status, mitm, call, lost>>

CallStep == (\E i \in 0..(Half - 1), ok \in BOOLEAN : BindPair(i, ok)) \/ BindExhausted

Next ==
  \/ \E s \in Sessions : OpenHttp(s) \/ OpenMitm(s) \/ Setup(s) \/ Destroy(s)
  \/ CallStep
  \/ \E p \in Ports : OthersBind(p) \/ OthersRelease(p)

Spec == Init /\ [][Next]_vars

---------------------------------------------------------------------------
(* Properties *)

\* The ports of a holder's current lease.
Leased(h) == IF port[h] = NoPort THEN {} ELSE {port[h], port[h] + 1}

\* No two leases overlap ("without internal collisions", port_pool.h), whatever
\* calls failed, were retried or ran out of pairs in between.
LeasesDisjoint ==
  \A g, h \in Holders : g # h => Leased(g) \cap Leased(h) = {}

\* used_ports_ is exactly the leases of live sessions and the lost pairs: no
\* destructor path leaks a port or frees one that is still leased.
UsedAccounted ==
  used = {p \in Ports : \/ \E h \in Holders : p \in Leased(h)
                        \/ p \in lost \/ p - 1 \in lost}

\* A bound socket's ports are leased by its session, and no other process has
\* them: the pool never considers free what this process has bound.
BoundIsLeased ==
  \A h \in bound : /\ port[h] # NoPort /\ status[h[1]] # "dead"
                   /\ Leased(h) \subseteq used \ taken

\* acquire_pair's loop finds the first free pair in cyclic order from next_port_,
\* and gives up only when there is none.
ScanCorrect ==
  LET r == AcquireLoop(next_port, used) IN
  \/ \E i \in 0..(Half - 1) : /\ FirstFree(next_port, used, i)
                              /\ r = [pair |-> Nth(next_port, i), next |-> After(Nth(next_port, i))]
  \/ /\ \A p \in Pairs : ~IsFree(p, used)
     /\ r = [pair |-> NoPort, next |-> next_port]

\* Who has a pair, as PairAllocator sees it.
FreeMark == <<"pool", "free">>
LostMark == <<"pool", "lost">>
Owner ==
  [p \in Pairs |-> IF \E h \in Holders : port[h] = p THEN CHOOSE h \in Holders : port[h] = p
                   ELSE IF p \in used THEN LostMark ELSE FreeMark]

Leases == INSTANCE PairAllocator WITH Free <- FreeMark, Lost <- LostMark, owner <- Owner

\* The pool implements exclusive leases with attrition: every step of a session,
\* of a bind call or of another process takes, loses or returns whole leases as
\* PairAllocator allows, and a lost pair never comes back.
LeasesSpec == Leases!Spec
=============================================================================
