--------------------------- MODULE MC_HttpClient ---------------------------
(* HttpClient for TLC: every block over the addresses of four bits and every other kind *)
(* of pattern against an upstream on every address or with a name; then tokens, ports   *)
(* and requests that are no calls for a stream.                                          *)
EXTENDS HttpClient

Addresses == {<<Octets[i], Octets[j]>> : i, j \in 1..4}
Names     == {<<"tv", "lan">>, Localhost}

Param(k, v) == [key |-> k, val |-> v]

Call(host, blacklist, ips) ==
  [request   |-> [complete |-> TRUE, http |-> TRUE, params |-> <<>>, host |-> host,
                  port |-> <<>>, numeric |-> TRUE],
   token     |-> "none",
   blacklist |-> blacklist,
   ips       |-> ips,
   own       |-> [host |-> <<"0", "1">>, port |-> 8554]]

Cidr(base, bits) == [kind |-> "cidr", text |-> base, bits |-> bits]
Text(kind, text) == [kind |-> kind, text |-> text, bits |-> 0]

Blocks   == {Cidr(<<"1", "2">>, b) : b \in 0..Width} \cup {Cidr(<<"2", "1">>, b) : b \in 1..Width}
Audits == Blocks \cup {Text("any", <<>>), Text("prefix", <<"1">>), Text("suffix", <<"lan">>),
                        Text("inner", <<"tv">>), Text("exact", <<"tv", "lan">>),
                        Cidr(<<"tv", "lan">>, 2)}

Audited ==
  {Call(h, {p}, {h}) : h \in Addresses, p \in Audits}
  \cup {Call(n, {p}, ips) : n \in Names, p \in Audits,
                           ips \in {{}, {<<"1", "2">>, <<"2", "0">>}}}
  \cup {Call(h, {}, {h}) : h \in Addresses}
  \cup {Call(<<"1", "1">>, {Cidr(<<"1", "2">>, 4), Cidr(<<"1", "0">>, 3)}, {<<"1", "1">>})}

\* The proxy's own port, another one, and one that wraps around to the own, for hosts
\* that is_loopback refuses, others that lead to the proxy, and none.
Ported ==
  {[Call(h, {}, {}) EXCEPT !.request.port = <<port>>] :
     h \in {<<"0", "1">>, <<"1", "1">>, Loopback, Localhost, <<"3", "1">>, Any,
           <<"tv", "lan">>, <<>>}, port \in {554, 8554, 8554 + 2^16}}

Queries == {<<>>, <<Param("token", "t")>>, <<Param("token", "x"), Param("token", "t")>>,
            <<Param("key", "t")>>}

Guarded ==
  {[Call(<<"1", "1">>, {}, {}) EXCEPT !.token = t, !.request.params = q] :
     t \in {"none", "t"}, q \in Queries}

Others ==
  LET c == Call(<<"1", "1">>, {}, {})
  IN {[c EXCEPT !.request.complete = FALSE], [c EXCEPT !.request.http = FALSE],
      [c EXCEPT !.request.host = <<>>], [c EXCEPT !.request.numeric = FALSE]}

MC_Calls == Audited \cup Ported \cup Guarded \cup Others
=============================================================================
