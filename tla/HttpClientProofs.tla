-------------------------- MODULE HttpClientProofs --------------------------
(***************************************************************************)
(* The audit of a request decides what the configuration means, for every  *)
(* request, token, blacklist and answer of the resolver; and the RTSP      *)
(* dialogue of a session, for any number of keepalives that the server     *)
(* leaves unanswered.                                                      *)
(***************************************************************************)
EXTENDS HttpClient, SequenceTheorems, TLAPS

---------------------------------------------------------------------------
(* Which calls are admitted *)

\* inet_pton yields a number of Width bits.
LEMMA ValueType ==
  ASSUME NEW h \in Hosts, IsAddress(h)
  PROVE  Value(h) \in 0..15
<1> DEFINE Octet(w) == (CHOOSE i \in 1..4 : Octets[i] = w) - 1
<1>1. ASSUME NEW w, IsOctet(w)
      PROVE  Octet(w) \in 0..3
  <2>1. \E i \in 1..4 : Octets[i] = w
    BY <1>1 DEF IsOctet
  <2>2. (CHOOSE i \in 1..4 : Octets[i] = w) \in 1..4
    BY <2>1
  <2>3. QED
    BY <2>2
<1>2. Octet(h[1]) \in 0..3 /\ Octet(h[2]) \in 0..3
  BY <1>1 DEF IsAddress
<1>3. Value(h) = 4 * Octet(h[1]) + Octet(h[2])
  BY DEF Value
<1> HIDE DEF Octet
<1>4. QED
  BY <1>2, <1>3

\* The bits of a number, one by one.
LEMMA BitFacts ==
  ASSUME NEW n \in 0..15
  PROVE  /\ Bits(n) \subseteq 0..3
         /\ 0 \in Bits(n) <=> n % 2 = 1
         /\ 1 \in Bits(n) <=> (n \div 2) % 2 = 1
         /\ 2 \in Bits(n) <=> (n \div 4) % 2 = 1
         /\ 3 \in Bits(n) <=> (n \div 8) % 2 = 1
<1>1. 2^0 = 1 /\ 2^1 = 2 /\ 2^2 = 4 /\ 2^3 = 8
  OBVIOUS
<1>2. Bits(n) \subseteq 0..3
  BY DEF Bits, Width
<1>3. /\ 0 \in Bits(n) <=> (n \div 2^0) % 2 = 1
      /\ 1 \in Bits(n) <=> (n \div 2^1) % 2 = 1
      /\ 2 \in Bits(n) <=> (n \div 2^2) % 2 = 1
      /\ 3 \in Bits(n) <=> (n \div 2^3) % 2 = 1
  BY DEF Bits, Width
<1>4. QED
  BY <1>1, <1>2, <1>3

\* The masks of the blocks.
LEMMA MaskFacts ==
  /\ Mask(0) = 0 /\ Mask(1) = 8 /\ Mask(2) = 12 /\ Mask(3) = 14 /\ Mask(4) = 15
<1>1. 2^0 = 1 /\ 2^1 = 2 /\ 2^2 = 4 /\ 2^3 = 8 /\ 2^4 = 16
  OBVIOUS
<1>2. Mask(0) = 0
  BY DEF Mask
<1>3. Mask(1) = (15 * 8) % 16
  BY <1>1 DEF Mask, Width
<1>4. Mask(2) = (15 * 4) % 16
  BY <1>1 DEF Mask, Width
<1>5. Mask(3) = (15 * 2) % 16
  BY <1>1 DEF Mask, Width
<1>6. Mask(4) = (15 * 1) % 16
  BY <1>1 DEF Mask, Width
<1>7. QED
  BY <1>2, <1>3, <1>4, <1>5, <1>6

\* The bits of the masks: the leading ones.
LEMMA MaskBits ==
  /\ Bits(Mask(0)) = {} /\ Bits(Mask(1)) = {3} /\ Bits(Mask(2)) = {2, 3}
  /\ Bits(Mask(3)) = {1, 2, 3} /\ Bits(Mask(4)) = {0, 1, 2, 3}
<1>1. \A n \in 0..15 : Bits(n) \subseteq {0, 1, 2, 3}
  BY BitFacts
<1>2. Bits(0) = {}
  BY <1>1, BitFacts
<1>3. Bits(8) = {3}
  BY <1>1, BitFacts
<1>4. Bits(12) = {2, 3}
  BY <1>1, BitFacts
<1>5. Bits(14) = {1, 2, 3}
  BY <1>1, BitFacts
<1>6. Bits(15) = {0, 1, 2, 3}
  BY <1>1, BitFacts
<1>7. QED
  BY <1>2, <1>3, <1>4, <1>5, <1>6, MaskFacts

\* Agreeing under the mask is being in the same block.
LEMMA BlockFacts ==
  ASSUME NEW m \in 0..15, NEW n \in 0..15, NEW bits \in 0..Width
  PROVE  Bits(m) \cap Bits(Mask(bits)) = Bits(n) \cap Bits(Mask(bits))
           <=> m \div 2^(Width - bits) = n \div 2^(Width - bits)
<1>1. \A k \in {m, n} : /\ 0 \in Bits(k) <=> k % 2 = 1
                        /\ 1 \in Bits(k) <=> (k \div 2) % 2 = 1
                        /\ 2 \in Bits(k) <=> (k \div 4) % 2 = 1
                        /\ 3 \in Bits(k) <=> (k \div 8) % 2 = 1
  BY BitFacts
<1>2. CASE bits = 0
  <2>1. 2^(Width - bits) = 16
    BY <1>2 DEF Width
  <2>2. Bits(Mask(bits)) = {}
    BY <1>2, MaskBits
  <2>3. Bits(m) \cap Bits(Mask(bits)) = Bits(n) \cap Bits(Mask(bits))
          <=> \A i \in {} : i \in Bits(m) <=> i \in Bits(n)
    BY <2>2
  <2>4. QED
    BY <1>1, <2>1, <2>3
<1>3. CASE bits = 1
  <2>1. 2^(Width - bits) = 8
    BY <1>3 DEF Width
  <2>2. Bits(Mask(bits)) = {3}
    BY <1>3, MaskBits
  <2>3. Bits(m) \cap Bits(Mask(bits)) = Bits(n) \cap Bits(Mask(bits))
          <=> \A i \in {3} : i \in Bits(m) <=> i \in Bits(n)
    BY <2>2
  <2>4. QED
    BY <1>1, <2>1, <2>3
<1>4. CASE bits = 2
  <2>1. 2^(Width - bits) = 4
    BY <1>4 DEF Width
  <2>2. Bits(Mask(bits)) = {2, 3}
    BY <1>4, MaskBits
  <2>3. Bits(m) \cap Bits(Mask(bits)) = Bits(n) \cap Bits(Mask(bits))
          <=> \A i \in {2, 3} : i \in Bits(m) <=> i \in Bits(n)
    BY <2>2
  <2>4. QED
    BY <1>1, <2>1, <2>3
<1>5. CASE bits = 3
  <2>1. 2^(Width - bits) = 2
    BY <1>5 DEF Width
  <2>2. Bits(Mask(bits)) = {1, 2, 3}
    BY <1>5, MaskBits
  <2>3. Bits(m) \cap Bits(Mask(bits)) = Bits(n) \cap Bits(Mask(bits))
          <=> \A i \in {1, 2, 3} : i \in Bits(m) <=> i \in Bits(n)
    BY <2>2
  <2>4. QED
    BY <1>1, <2>1, <2>3
<1>6. CASE bits = 4
  <2>1. 2^(Width - bits) = 1
    BY <1>6 DEF Width
  <2>2. Bits(Mask(bits)) = {0, 1, 2, 3}
    BY <1>6, MaskBits
  <2>3. Bits(m) \cap Bits(Mask(bits)) = Bits(n) \cap Bits(Mask(bits))
          <=> \A i \in {0, 1, 2, 3} : i \in Bits(m) <=> i \in Bits(n)
    BY <2>2
  <2>4. QED
    BY <1>1, <2>1, <2>3
<1>7. QED
  BY <1>2, <1>3, <1>4, <1>5, <1>6 DEF Width

\* match_cidr: two numbers agree under the mask when they are in the same block.
LEMMA CidrFacts ==
  ASSUME NEW h \in Hosts, NEW p \in Patterns, p.kind = "cidr"
  PROVE  MatchCidr(h, p) <=> Covers(p, h)
<1>1. ASSUME IsAddress(p.text), IsAddress(h)
      PROVE  MatchCidr(h, p) <=> Covers(p, h)
  <2>1. Value(h) \in 0..15 /\ Value(p.text) \in 0..15
    BY <1>1, ValueType DEF Patterns
  <2>2. p.bits \in 0..Width
    BY DEF Patterns
  <2>3. MatchCidr(h, p)
          <=> Bits(Value(h)) \cap Bits(Mask(p.bits)) = Bits(Value(p.text)) \cap Bits(Mask(p.bits))
    BY <1>1 DEF MatchCidr
  <2>4. Covers(p, h) <=> Value(h) \div 2^(Width - p.bits) = Value(p.text) \div 2^(Width - p.bits)
    BY <1>1 DEF Covers
  <2> DEFINE m == Value(h)
             n == Value(p.text)
             b == p.bits
  <2> HIDE DEF m, n, b
  <2>5. Bits(m) \cap Bits(Mask(b)) = Bits(n) \cap Bits(Mask(b))
          <=> m \div 2^(Width - b) = n \div 2^(Width - b)
    <3>1. m \in 0..15 /\ n \in 0..15 /\ b \in 0..Width
      BY <2>1, <2>2 DEF m, n, b
    <3>2. QED
      BY <3>1, BlockFacts, Zenon
  <2>6. QED
    BY <2>3, <2>4, <2>5 DEF m, n, b
<1>2. CASE ~(IsAddress(p.text) /\ IsAddress(h))
  BY <1>2 DEF MatchCidr, Covers
<1>3. QED
  BY <1>1, <1>2

\* A sequence is any beginning of it and the rest.
LEMMA SplitFacts ==
  ASSUME NEW h \in Hosts, NEW i \in 0..Len(h)
  PROVE  /\ SubSeq(h, 1, i) \in Hosts /\ Len(SubSeq(h, 1, i)) = i
         /\ SubSeq(h, i + 1, Len(h)) \in Hosts /\ Len(SubSeq(h, i + 1, Len(h))) = Len(h) - i
         /\ SubSeq(h, 1, i) \o SubSeq(h, i + 1, Len(h)) = h
<1>1. Len(h) \in Nat /\ \A j \in 1..Len(h) : h[j] \in STRING
  BY DEF Hosts
<1>2. SubSeq(h, 1, i) \in Hosts /\ Len(SubSeq(h, 1, i)) = i
  BY <1>1, SubSeqProperties DEF Hosts
<1>3. SubSeq(h, i + 1, Len(h)) \in Hosts /\ Len(SubSeq(h, i + 1, Len(h))) = Len(h) - i
  BY <1>1, SubSeqProperties DEF Hosts
<1>4. SubSeq(h, 1, i) \o SubSeq(h, i + 1, Len(h)) = SubSeq(h, 1, Len(h))
  <2>1. 1 \in 1..(Len(h) + 1) /\ i \in (1 - 1)..Len(h) /\ Len(h) \in i..Len(h)
    BY <1>1
  <2>2. QED
    BY <2>1, ConcatAdjacentSubSeq DEF Hosts
<1>5. SubSeq(h, 1, Len(h)) = h
  BY SubSeqFull DEF Hosts
<1>6. QED
  BY <1>2, <1>3, <1>4, <1>5

\* Equal parts cancel.
LEMMA Cancel ==
  ASSUME NEW s \in Hosts, NEW t \in Hosts, NEW v \in Hosts
  PROVE  (s \o t = s \o v => t = v) /\ (s \o v = t \o v => s = t)
<1>1. s \in Seq(STRING) /\ t \in Seq(STRING) /\ v \in Seq(STRING)
  BY DEF Hosts
<1>2. \A S : \A x, y, z \in Seq(S) : x \o y = x \o z => y = z
  BY ConcatSimplifications, Zenon
<1>3. \A S : \A x, y, z \in Seq(S) : x \o z = y \o z => x = y
  BY ConcatSimplifications, Zenon
<1>4. s \o t = s \o v => t = v
  BY <1>1, <1>2, Zenon
<1>5. s \o v = t \o v => s = t
  BY <1>1, <1>3, Zenon
<1>6. QED
  BY <1>4, <1>5

\* compare at the end of the host is "anything, then the text".
LEMMA SuffixFacts ==
  ASSUME NEW h \in Hosts, NEW t \in Hosts
  PROVE  (Len(h) >= Len(t) /\ SubSeq(h, Len(h) - Len(t) + 1, Len(h)) = t)
           <=> \E i \in 0..Len(h) : SubSeq(h, 1, i) \o t = h
<1>0. Len(h) \in Nat /\ Len(t) \in Nat
  BY DEF Hosts
<1>1. ASSUME Len(h) >= Len(t), SubSeq(h, Len(h) - Len(t) + 1, Len(h)) = t
      PROVE  \E i \in 0..Len(h) : SubSeq(h, 1, i) \o t = h
  <2>1. Len(h) - Len(t) \in 0..Len(h)
    BY <1>0, <1>1
  <2>2. SubSeq(h, 1, Len(h) - Len(t)) \o t = h
    BY <1>1, <2>1, SplitFacts
  <2>3. QED
    BY <2>1, <2>2
<1>2. ASSUME NEW i \in 0..Len(h), SubSeq(h, 1, i) \o t = h
      PROVE  Len(h) >= Len(t) /\ SubSeq(h, Len(h) - Len(t) + 1, Len(h)) = t
  <2>1. SubSeq(h, 1, i) \o t = SubSeq(h, 1, i) \o SubSeq(h, i + 1, Len(h))
    BY <1>2, SplitFacts
  <2>2. t = SubSeq(h, i + 1, Len(h))
    <3>1. SubSeq(h, 1, i) \in Hosts /\ SubSeq(h, i + 1, Len(h)) \in Hosts
      BY SplitFacts
    <3>2. QED
      BY <2>1, <3>1, Cancel, Zenon
  <2>3. Len(t) = Len(h) - i
    BY <2>2, SplitFacts
  <2>4. Len(h) - Len(t) + 1 = i + 1 /\ Len(h) >= Len(t)
    BY <1>0, <2>3
  <2>5. QED
    BY <2>2, <2>4
<1>3. QED
  BY <1>1, <1>2

\* compare at its beginning is "the text, then anything".
LEMMA PrefixFacts ==
  ASSUME NEW h \in Hosts, NEW t \in Hosts
  PROVE  (Len(h) >= Len(t) /\ SubSeq(h, 1, Len(t)) = t)
           <=> \E i \in 0..Len(h) : t \o SubSeq(h, i + 1, Len(h)) = h
<1>0. Len(h) \in Nat /\ Len(t) \in Nat
  BY DEF Hosts
<1>1. ASSUME Len(h) >= Len(t), SubSeq(h, 1, Len(t)) = t
      PROVE  \E i \in 0..Len(h) : t \o SubSeq(h, i + 1, Len(h)) = h
  <2>1. Len(t) \in 0..Len(h)
    BY <1>0, <1>1
  <2>2. t \o SubSeq(h, Len(t) + 1, Len(h)) = h
    BY <1>1, <2>1, SplitFacts
  <2>3. QED
    BY <2>1, <2>2
<1>2. ASSUME NEW i \in 0..Len(h), t \o SubSeq(h, i + 1, Len(h)) = h
      PROVE  Len(h) >= Len(t) /\ SubSeq(h, 1, Len(t)) = t
  <2>1. t \o SubSeq(h, i + 1, Len(h)) = SubSeq(h, 1, i) \o SubSeq(h, i + 1, Len(h))
    BY <1>2, SplitFacts
  <2>2. t = SubSeq(h, 1, i)
    <3>1. SubSeq(h, 1, i) \in Hosts /\ SubSeq(h, i + 1, Len(h)) \in Hosts
      BY SplitFacts
    <3>2. QED
      BY <2>1, <3>1, Cancel, Zenon
  <2>3. Len(t) = i
    BY <2>2, SplitFacts
  <2>4. QED
    BY <1>0, <2>2, <2>3
<1>3. QED
  BY <1>1, <1>2

\* One pattern and one host: check_once tells what the pattern means.
LEMMA PatternFacts ==
  ASSUME NEW h \in Hosts, NEW p \in Patterns
  PROVE  CheckOnce(h, {p}) <=> Covers(p, h)
<1>0. p.text \in Hosts
  BY DEF Patterns
<1>1. CASE p.kind = "cidr"
  BY <1>1, CidrFacts DEF CheckOnce
<1>2. CASE p.kind = "exact" \/ p.kind = "any"
  BY <1>2 DEF CheckOnce, Covers, MatchWildcard
<1>3. CASE p.kind = "suffix"
  BY <1>0, <1>3, SuffixFacts DEF CheckOnce, Covers, MatchWildcard
<1>4. CASE p.kind = "prefix"
  BY <1>0, <1>4, PrefixFacts DEF CheckOnce, Covers, MatchWildcard
<1>5. CASE p.kind \notin {"cidr", "exact", "any", "suffix", "prefix"}
  BY <1>5 DEF CheckOnce, Covers, MatchWildcard
<1>6. QED
  BY <1>1, <1>2, <1>3, <1>4, <1>5

\* The audit of a call decides what the configuration means: the token and the blacklist
\* with its blocks and wildcards for the host and every address it resolves to; and what
\* is_loopback refuses besides does lead to the proxy itself.
THEOREM AuditExact ==
  ASSUME NEW c \in CallType
  PROVE  /\ Admitted(c) => Permitted(c)
         /\ Permitted(c) /\ ~ReachesSelf(c) => Admitted(c)
<1> DEFINE r == c.request
<1>0. /\ r \in Requests /\ c.blacklist \subseteq Patterns /\ c.ips \subseteq Hosts
      /\ r.host \in Hosts /\ c.own \in [host : Hosts, port : Int]
      /\ r.params \in Seq([key : STRING, val : STRING])
  BY DEF CallType, Requests
<1>1. Authorized(c) <=>
        /\ r.complete
        /\ c.token # "none" =>
             [key |-> "token", val |-> c.token] \in {r.params[i] : i \in DOMAIN r.params}
  <2>1. ASSUME NEW i \in DOMAIN r.params
        PROVE  (r.params[i].key = "token" /\ r.params[i].val = c.token)
                 <=> r.params[i] = [key |-> "token", val |-> c.token]
    <3> DEFINE q == r.params[i]
    <3>1. q \in [key : STRING, val : STRING]
      <4>1. DOMAIN r.params = 1..Len(r.params)
        BY <1>0, LenProperties
      <4>2. QED
        BY <1>0, <2>1, <4>1, ElementOfSeq
    <3> HIDE DEF q
    <3>2. (q.key = "token" /\ q.val = c.token) <=> q = [key |-> "token", val |-> c.token]
      BY <3>1
    <3>3. QED
      BY <3>2 DEF q
  <2>2. QED
    BY <2>1 DEF Authorized
<1>2. IsBlacklisted(c) <=> \E p \in c.blacklist, h \in {r.host} \cup c.ips : Covers(p, h)
  <2>1. \A h \in Hosts : CheckOnce(h, c.blacklist) <=> \E p \in c.blacklist : CheckOnce(h, {p})
    BY DEF CheckOnce
  <2>2. \A h \in {r.host} \cup c.ips, p \in c.blacklist : CheckOnce(h, {p}) <=> Covers(p, h)
    BY <1>0, PatternFacts
  <2>3. \A h \in {r.host} \cup c.ips : h \in Hosts
    BY <1>0
  <2>4. QED
    BY <2>1, <2>2, <2>3, Zenon DEF IsBlacklisted
<1>3. IsLoopback(c) => ReachesSelf(c)
  <2>1. Target(Localhost) = Any
    BY DEF Target, IsAddress, Localhost
  <2>2. Target(Loopback) \in {Loopback, Any}
    BY DEF Target
  <2>3. Target(c.own.host) \in {c.own.host, Any}
    BY DEF Target
  <2>4. QED
    BY <2>1, <2>2, <2>3 DEF IsLoopback, ReachesSelf
<1>4. Parses(r) <=> <<r.host, r.port>> # << <<>>, <<>> >> /\ r.numeric
  BY DEF Parses
<1>5. QED
  BY <1>1, <1>2, <1>3, <1>4 DEF Admitted, Permitted

---------------------------------------------------------------------------
(* The dialogue: the inductive invariant *)

\* Before is_init_ok nothing has been sent, and before the constructor no STUN reply is
\* under way.
Untouched ==
  /\ ~initOk => cur = "none" /\ inflight = <<>> /\ sending = "no" /\ ~timer /\ torn = {}
  /\ initOk => cur # "none"
  /\ phase = "request" => ~initOk /\ ~stun.reply /\ call \in Calls

\* Until the first keepalive one request is under way: it is being sent, or it has been
\* sent and is not answered.
OneUnderWay ==
  cur # "GET_PARAMETER" =>
    /\ Len(inflight) <= 1
    /\ sending # "no" => inflight = <<>>

\* When the timer may fire for the first time the dialogue is over.
TimerAfterDialogue ==
  timer /\ cur # "GET_PARAMETER" => inflight = <<>> /\ sending = "no"

IndInv ==
  /\ TypeOK
  /\ Untouched
  /\ OneUnderWay
  /\ TimerAfterDialogue
  /\ RepliesMatch
  /\ DialogueWhole

---------------------------------------------------------------------------
(* Its proof *)

\* Before the request arrives nothing has been sent.
LEMMA InitInv == Init => IndInv
<1> SUFFICES ASSUME Init
             PROVE  IndInv
  OBVIOUS
<1>1. TypeOK
  <2>1. stun \in [on : BOOLEAN, reply : BOOLEAN, lost : 0..StunLosses]
    <3>1. stun.on \in BOOLEAN /\ stun.reply = FALSE /\ stun.lost = 0
      BY ModesAssumption DEF Init
    <3>2. stun = [on |-> stun.on, reply |-> stun.reply, lost |-> stun.lost]
      BY DEF Init
    <3>3. 0 \in 0..StunLosses
      BY BoundsAssumption
    <3>4. QED
      BY <3>1, <3>2, <3>3, Zenon
  <2>2. inflight \in Seq(Methods)
    BY DEF Init
  <2>3. {initOk, sockets, upstream, retried, timer, closing} \subseteq BOOLEAN
    BY Zenon DEF Init
  <2>4. torn \subseteq Methods
    BY DEF Init
  <2>5. QED
    BY <2>1, <2>2, <2>3, <2>4 DEF Init, TypeOK
<1>2. stun.reply = FALSE
  BY DEF Init
<1>3. Untouched
  BY <1>2 DEF Init, Untouched
<1>4. OneUnderWay /\ TimerAfterDialogue
  BY DEF Init, OneUnderWay, TimerAfterDialogue
<1>5. RepliesMatch /\ DialogueWhole
  BY DEF Init, RepliesMatch, DialogueWhole
<1>6. QED
  BY <1>1, <1>3, <1>4, <1>5 DEF IndInv

\* The first answer leaves at most none of the dialogue, and all of the same kind.
LEMMA AnswerFacts ==
  ASSUME IndInv, inflight # <<>>
  PROVE  /\ Tail(inflight) \in Seq(Methods)
         /\ \A i \in DOMAIN Tail(inflight) : Tail(inflight)[i] = cur
         /\ cur \in Methods /\ initOk /\ Head(inflight) = cur
         /\ cur # "GET_PARAMETER" => Tail(inflight) = <<>> /\ sending = "no" /\ ~timer
BY DEF IndInv, TypeOK, Untouched, OneUnderWay, TimerAfterDialogue, RepliesMatch

\* Updates of the STUN exchange.
LEMMA StunFacts ==
  ASSUME NEW s \in [on : BOOLEAN, reply : BOOLEAN, lost : 0..StunLosses], NEW b \in BOOLEAN
  PROVE  /\ [s EXCEPT !.reply = b] \in [on : BOOLEAN, reply : BOOLEAN, lost : 0..StunLosses]
         /\ s.lost < StunLosses =>
              [s EXCEPT !.reply = b, !.lost = s.lost + 1]
                \in [on : BOOLEAN, reply : BOOLEAN, lost : 0..StunLosses]
<1>1. s.on \in BOOLEAN /\ s.lost \in 0..StunLosses
  OBVIOUS
<1>2. [s EXCEPT !.reply = b] = [on |-> s.on, reply |-> b, lost |-> s.lost]
  OBVIOUS
<1>3. [s EXCEPT !.reply = b, !.lost = s.lost + 1]
        = [on |-> s.on, reply |-> b, lost |-> s.lost + 1]
  <2> DEFINE t == [s EXCEPT !.reply = b]
             n == s.lost + 1
  <2>1. [s EXCEPT !.reply = b, !.lost = n] = [t EXCEPT !.lost = n]
    OBVIOUS
  <2> HIDE DEF n, t
  <2>2. [t EXCEPT !.lost = n] = [on |-> s.on, reply |-> b, lost |-> n]
    <3>1. t = [on |-> s.on, reply |-> b, lost |-> s.lost]
      BY <1>2 DEF t
    <3>2. QED
      BY <3>1
  <2>3. QED
    BY <2>1, <2>2 DEF n
<1>4. s.lost < StunLosses => s.lost + 1 \in 0..StunLosses
  BY <1>1, BoundsAssumption
<1>5. QED
  BY <1>1, <1>2, <1>3, <1>4

\* Every handler keeps the invariant.
LEMMA StepInv == IndInv /\ [Next]_vars => IndInv'
<1> SUFFICES ASSUME IndInv, [Next]_vars
             PROVE  IndInv'
  OBVIOUS
<1> USE DEF IndInv, TypeOK, Untouched, OneUnderWay, TimerAfterDialogue, RepliesMatch, DialogueWhole,
            Methods, request, up
<1>1. CASE TurnAway
  BY <1>1 DEF TurnAway
<1>2. ASSUME NEW bound \in BOOLEAN, NEW connected \in BOOLEAN, Construct(bound, connected)
      PROVE  IndInv'
  <2>1. /\ phase = "request" /\ phase' = "live" /\ call' = NoCall /\ sockets' = bound
        /\ cur = "none" /\ inflight = <<>> /\ sending = "no" /\ ~timer /\ torn = {} /\ ~initOk
    BY <1>2 DEF Construct
  <2>2. CASE stun' = [stun EXCEPT !.reply = bound] /\ UNCHANGED <<up, request, closing>>
    <3>1. stun' \in [on : BOOLEAN, reply : BOOLEAN, lost : 0..StunLosses]
      BY <2>2, StunFacts
    <3>2. QED
      BY <2>1, <2>2, <3>1
  <2>3. CASE SendOption(connected, FALSE) /\ UNCHANGED <<stun, inflight, retried, timer>>
    BY <2>1, <2>3 DEF SendOption, Send, CutOff
  <2>4. QED
    BY <1>2, <2>2, <2>3 DEF Construct
<1>3. CASE ConnectFails
  BY <1>3 DEF ConnectFails
<1>4. CASE SendFails
  BY <1>4 DEF SendFails, Connected
<1>5. ASSUME NEW part \in BOOLEAN, RtspWritable(part)
      PROVE  IndInv'
  BY <1>5 DEF RtspWritable, Connected
<1>6. CASE RetryOverTcp
  BY <1>6, AnswerFacts DEF RetryOverTcp, Reading, Listening, IsSetup, Fallback, Send, CutOff
<1>7. CASE Refused
  BY <1>7, AnswerFacts DEF Refused, Reading, Listening
<1>8. CASE Accepted
  BY <1>8, AnswerFacts DEF Accepted, Reading, Listening, ArmsTimer, NextRequest, IsSetup, Send, CutOff
<1>9. CASE ServerRequest
  BY <1>9 DEF ServerRequest, Listening, CutOff
<1>10. CASE ServerCloses \/ ClientCloses \/ Destroy
  <2>1. /\ UNCHANGED <<call, sockets, stun, request, up>>
        /\ phase' \in {"live", "gone"} /\ closing' \in BOOLEAN
    BY <1>10 DEF ServerCloses, ClientCloses, Destroy, Live, Listening
  <2>2. QED
    BY <2>1
<1>11. CASE Timer
  BY <1>11 DEF Timer, Send, CutOff
<1>12. CASE StunLost
  <2>1. stun.reply /\ UNCHANGED <<call, phase, sockets, closing, request, up>>
    BY <1>12 DEF StunLost
  <2>2. stun' \in [on : BOOLEAN, reply : BOOLEAN, lost : 0..StunLosses]
    BY <1>12, StunFacts DEF StunLost
  <2>3. phase # "request"
    BY <2>1
  <2>4. QED
    BY <2>1, <2>2, <2>3
<1>13. ASSUME NEW connected \in BOOLEAN, StunReply(connected)
       PROVE  IndInv'
  <2>1. /\ phase = "live" /\ UNCHANGED <<call, phase, sockets, inflight, retried, timer>>
        /\ cur = "none" /\ inflight = <<>> /\ sending = "no" /\ ~timer /\ torn = {}
        /\ SendOption(connected, TRUE)
    BY <1>13 DEF StunReply, Live
  <2>2. stun' \in [on : BOOLEAN, reply : BOOLEAN, lost : 0..StunLosses]
    BY <1>13, StunFacts DEF StunReply
  <2>3. QED
    BY <2>1, <2>2 DEF SendOption, Send, CutOff
<1>14. CASE UNCHANGED vars
  BY <1>14 DEF vars
<1> HIDE DEF IndInv
<1>15. QED
  BY <1>1, <1>2, <1>3, <1>4, <1>5, <1>6, <1>7, <1>8, <1>9, <1>10, <1>11, <1>12, <1>13, <1>14
     DEF Next, ServerAnswers

\* The invariant that the others follow from: one request is under way until the first
\* keepalive, and the timer is armed when none is.
THEOREM Invariance == Spec => []IndInv
BY InitInv, StepInv, PTL DEF Spec

---------------------------------------------------------------------------
(* The properties *)

\* Type correctness.
THEOREM TypeCorrect == Spec => []TypeOK
BY Invariance, PTL DEF IndInv

\* No response is attributed to another request, for any number of keepalives that the
\* server has not answered.
THEOREM RepliesRight == Spec => []RepliesMatch
BY Invariance, PTL DEF IndInv

\* No request of the dialogue is cut off by what is sent next.
THEOREM DialogueSafe == Spec => []DialogueWhole
BY Invariance, PTL DEF IndInv

\* A session is only made for a call that the configuration permits, and for each of
\* those that does not lead to the proxy itself.
THEOREM AdmissionSafe == Spec => AdmissionExact
<1> DEFINE Exact == phase = "request" =>
                      /\ phase' = "live" => Permitted(call)
                      /\ Permitted(call) /\ ~ReachesSelf(call) => phase' = "live"
<1>1. IndInv /\ [Next]_vars => [Exact]_vars
  <2> SUFFICES ASSUME IndInv, Next, phase = "request"
               PROVE  /\ phase' = "live" => Permitted(call)
                      /\ Permitted(call) /\ ~ReachesSelf(call) => phase' = "live"
    OBVIOUS
  <2>1. call \in Calls /\ ~stun.reply
    BY DEF IndInv, Untouched
  <2>2. /\ Admitted(call) => Permitted(call)
        /\ Permitted(call) /\ ~ReachesSelf(call) => Admitted(call)
    BY <2>1, CallsAssumption, AuditExact
  <2>3. TurnAway \/ \E bound, connected \in BOOLEAN : Construct(bound, connected)
    BY <2>1 DEF IndInv, Untouched, Next, ConnectFails, SendFails, RtspWritable, ServerAnswers,
                RetryOverTcp, Refused, Accepted, Reading, Listening, ServerRequest,
                ServerCloses, Timer, StunLost, StunReply, ClientCloses, Destroy, Live
  <2>4. CASE TurnAway
    BY <2>2, <2>4 DEF TurnAway
  <2>5. CASE \E bound, connected \in BOOLEAN : Construct(bound, connected)
    BY <2>2, <2>5 DEF Construct
  <2>6. QED
    BY <2>3, <2>4, <2>5
<1>2. QED
  BY <1>1, Invariance, PTL DEF Spec, AdmissionExact
=============================================================================
