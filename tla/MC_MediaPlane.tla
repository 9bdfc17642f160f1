--------------------------- MODULE MC_MediaPlane ----------------------------
(* Payloads of up to MaxTs TS packets of two units, with what may follow them. *)
EXTENDS MediaPlane

CONSTANT MaxTs

Seconds == <<"b1", "b2", "b3">>

Body(f, tail, padding) ==
  [k \in 1..(2 * Len(f)) |-> IF k % 2 = 1 THEN f[(k + 1) \div 2] ELSE Seconds[k \div 2]]
    \o [k \in 1..(tail + padding) |-> "byte"]

Rtp(f) == [rtp |-> TRUE, header |-> TRUE, pad |-> FALSE, last |-> 0, body |-> Body(f, 0, 0)]

\* With units after the last TS packet, and padding of 1 or 2 units or with a length
\* (0, 9) that is not believed.
Padded(f, tail) ==
  {[Rtp(f) EXCEPT !.pad = TRUE, !.last = n, !.body = Body(f, tail, IF n = 9 THEN 0 ELSE n)] :
     n \in {0, 1, 2, 9}}

Stun     == [rtp |-> FALSE, header |-> FALSE, pad |-> FALSE, last |-> 0, body |-> <<"byte">>]
BadShape == [Stun EXCEPT !.rtp = TRUE]

MC_FirstDatagrams ==
  {Stun, BadShape}
  \cup {Rtp(f) : f \in UNION {[1..n -> {"av", "null"}] : n \in 0..MaxTs}}
  \cup UNION {Padded(f, tail) : f \in {<<>>, <<"key">>, <<"av", "null">>, <<"other">>},
                               tail \in {0, 1}}
  \cup {Rtp(f) : f \in {<<"key">>, <<"null", "av", "key">>, <<"pat">>, <<"pes", "av">>,
                       <<"av", "null", "pes">>, <<"nullkey", "key">>, <<"pat", "nullkey">>,
                       <<"key", "nullkey", "av">>}}

MC_Datagrams == {BadShape} \cup {Rtp(f) : f \in {<<"pat">>, <<"av">>, <<"null">>, <<>>}}

\* The hypothesis under which what check_keyframe accepts is proved to come first.
ASSUME WellFormedAssumption ==
  \A d \in FirstDatagrams \cup Datagrams : WellFormed(d)
=============================================================================
