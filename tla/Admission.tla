----------------------------- MODULE Admission ------------------------------
(***************************************************************************)
(* Which requests for a stream become a session: RequestParser::parse,     *)
(* the token check of MasterHandle, rtspParser::parse_url and the audit of *)
(* the upstream by BlacklistChecker, as functions of one call c:           *)
(*   c.request    complete (three words on the request line), http,        *)
(*                params (of the query), host (<<>>: it is empty), port    *)
(*                (<<>>: not given) and numeric: stoi accepts the port     *)
(*   c.token      the configured token, or "none"                          *)
(*   c.blacklist  the configured patterns                                  *)
(*   c.ips        what the resolver returns for the host (external)        *)
(*   c.own        host and port of the connection's own end                *)
(*                                                                         *)
(* A host is a sequence of words, the text between its dots; an address    *)
(* has two octets of two bits.                                             *)
(***************************************************************************)
EXTENDS Integers, Sequences

Octets   == <<"0", "1", "2", "3">>
Width    == 4                                \* bits of an address (32)
IsOctet(w)   == \E i \in 1..4 : Octets[i] = w
IsAddress(h) == Len(h) = 2 /\ IsOctet(h[1]) /\ IsOctet(h[2])

\* inet_pton.
Value(h) ==
  LET Octet(w) == (CHOOSE i \in 1..4 : Octets[i] = w) - 1
  IN 4 * Octet(h[1]) + Octet(h[2])

Localhost == <<"localhost">>
Loopback  == <<"3", "0">>                    \* 127.0.0.1
Any       == <<"0", "0">>                    \* 0.0.0.0

DefaultPort == 554

Hosts    == Seq(STRING)
Patterns == [kind : STRING, text : Hosts, bits : 0..Width]
Requests == [complete : BOOLEAN, http : BOOLEAN, params : Seq([key : STRING, val : STRING]),
             host : Hosts, port : Seq(Int), numeric : BOOLEAN]

\* The calls: the blocks of the configuration have at most Width bits.
CallType == [request : Requests, token : STRING, blacklist : SUBSET Patterns,
             ips : SUBSET Hosts, own : [host : Hosts, port : Int]]

---------------------------------------------------------------------------
(* RequestParser and rtspParser *)

Authorized(c) ==
  /\ c.request.complete
  /\ \/ c.token = "none"
     \/ \E i \in DOMAIN c.request.params :
          c.request.params[i].key = "token" /\ c.request.params[i].val = c.token

\* parse_url succeeds: something stands before the path, be it only a port, and a
\* port that is given is a number.
Parses(r) == (r.host # <<>> \/ r.port # <<>>) /\ r.numeric

\* server_rtsp_port has 16 bits.
Port(r) == IF r.port = <<>> THEN DefaultPort ELSE r.port[1] % 2^16

---------------------------------------------------------------------------
(* BlacklistChecker *)

Bits(n)    == {i \in 0..(Width - 1) : (n \div 2^i) % 2 = 1}

\* Mutant: one bit too few is compared.
Mask_Short(bits) == ((2^Width - 1) * 2^(Width - bits + 1)) % 2^Width

Mask(bits) == IF bits = 0 THEN 0 ELSE ((2^Width - 1) * 2^(Width - bits)) % 2^Width

MatchCidr(h, p) ==
  /\ IsAddress(p.text) /\ IsAddress(h)
  /\ Bits(Value(h)) \cap Bits(Mask(p.bits)) = Bits(Value(p.text)) \cap Bits(Mask(p.bits))

\* match_wildcard, for a pattern that is "*", ends in it, begins with it or has it inside.
MatchWildcard(h, p) ==
  LET n == Len(p.text) IN
  \/ p.kind = "any"
  \/ p.kind = "suffix" /\ Len(h) >= n /\ SubSeq(h, Len(h) - n + 1, Len(h)) = p.text
  \/ p.kind = "prefix" /\ Len(h) >= n /\ SubSeq(h, 1, n) = p.text

CheckOnce(h, blacklist) ==
  \E p \in blacklist : CASE p.kind = "cidr"  -> MatchCidr(h, p)
                         [] p.kind = "exact" -> h = p.text
                         [] OTHER            -> MatchWildcard(h, p)

IsBlacklisted(c) == \E h \in {c.request.host} \cup c.ips : CheckOnce(h, c.blacklist)

IsLoopback(c) ==
  /\ c.request.host \in {Loopback, Localhost, c.own.host}
  /\ Port(c.request) = c.own.port

\* MasterHandle::handle and RtspToHttpHandle::dispatch go on to the constructor.
Admitted(c) ==
  /\ Authorized(c)
  /\ c.request.http /\ Parses(c.request)
  /\ ~IsBlacklisted(c) /\ ~IsLoopback(c)

---------------------------------------------------------------------------
(* What the configuration means: an address is in a block when it agrees with the     *)
(* block's base up to the block's size, a wildcard stands for any words.               *)

Covers(p, h) ==
  CASE p.kind = "cidr"   -> /\ IsAddress(h) /\ IsAddress(p.text)
                            /\ LET size == 2^(Width - p.bits)
                               IN Value(h) \div size = Value(p.text) \div size
    [] p.kind = "exact"  -> h = p.text
    [] p.kind = "any"    -> TRUE
    [] p.kind = "suffix" -> \E i \in 0..Len(h) : SubSeq(h, 1, i) \o p.text = h
    [] p.kind = "prefix" -> \E i \in 0..Len(h) : p.text \o SubSeq(h, i + 1, Len(h)) = h
    [] OTHER             -> FALSE

\* The token, the blacklist and the form of the request allow it.
Permitted(c) ==
  LET r == c.request IN
  /\ r.complete /\ r.http /\ r.numeric /\ <<r.host, r.port>> # << <<>>, <<>> >>
  /\ c.token # "none" =>
       [key |-> "token", val |-> c.token] \in {r.params[i] : i \in DOMAIN r.params}
  /\ \A p \in c.blacklist, h \in {r.host} \cup c.ips : ~Covers(p, h)

\* Where create_nonblocking_tcp connects to: what inet_pton cannot read leaves the
\* address zero.
Target(h) == IF IsAddress(h) THEN h ELSE Any

\* The upstream is the proxy itself.  It listens on every address of its host: the
\* one the client used, the loopback block, and 0.0.0.0, which connect(2) takes for
\* this host.  (The host's further addresses are not part of a call.)
ReachesSelf(c) ==
  LET a == Target(c.request.host) IN
  /\ Port(c.request) = c.own.port
  /\ a \in {c.own.host, Any} \/ a[1] = Loopback[1]
=============================================================================
