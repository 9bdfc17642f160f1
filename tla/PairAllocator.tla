--------------------------- MODULE PairAllocator ---------------------------
(***************************************************************************)
(* What the port pool promises its users: exclusive leases on RTP/RTCP     *)
(* port pairs.  A pair is free, leased to one holder, or lost.  Losing is  *)
(* the pool's only failure mode: a lost pair is never handed out again.    *)
(***************************************************************************)
CONSTANTS Pairs, Holders,
          Free, Lost  \* two marks that are not holders

VARIABLE owner

TypeOK == owner \in [Pairs -> Holders \cup {Free, Lost}]

Init == owner = [p \in Pairs |-> Free]

\* h leases a free pair; the pair it held until now, if any, is lost.
Take(h, p) ==
  /\ owner[p] = Free
  /\ owner' = [q \in Pairs |-> IF q = p THEN h
                               ELSE IF owner[q] = h THEN Lost ELSE owner[q]]

\* h finds nothing to lease and loses the pair it held.
Forfeit(h) ==
  owner' = [q \in Pairs |-> IF owner[q] = h THEN Lost ELSE owner[q]]

\* The holders in H end together and return their pairs.
Return(H) ==
  owner' = [q \in Pairs |-> IF owner[q] \in H THEN Free ELSE owner[q]]

Next ==
  \/ \E h \in Holders, p \in Pairs : Take(h, p)
  \/ \E h \in Holders : Forfeit(h)
  \/ \E H \in SUBSET Holders : Return(H)

Spec == Init /\ [][Next]_owner
=============================================================================
