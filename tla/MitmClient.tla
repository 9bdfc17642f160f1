----------------------------- MODULE MitmClient -----------------------------
(***************************************************************************)
(* One RTSPToRtspClient session: the RTSP dialogue between a client, the   *)
(* proxy and the upstream server, the 461 fallback to TCP, the STUN pause, *)
(* the injected keepalives and the queue towards the client.               *)
(*                                                                         *)
(* TCP streams carry whole messages: the handlers act on complete messages *)
(* only, and a message that is still incomplete is one not yet received.   *)
(* The client numbers its requests 1, 2, 3, ...; that number is the CSeq.  *)
(* The upstream server (external) answers what it received, in order; its  *)
(* answer is chosen when the proxy reads it.                               *)
(***************************************************************************)
EXTENDS Integers, Sequences, FiniteSets

CONSTANTS
  MaxReq,        \* bound: requests the client sends
  Window,        \* requests the client leaves unanswered at a time (1: no pipelining)
  FirstKinds,    \* kinds of the request that opened the connection
  StunModes,     \* values of "NAT traversal is on, with method stun"
  KeepaliveCSeq, \* the CSeq of injected keepalives (99)
  MaxKeepalives, \* bound: keepalives under way at a time
  QueueLimit,    \* to_downstream_q_ size above which the oldest is dropped (2048)
  StunLosses     \* bound: STUN replies that the network loses

Kinds     == {"SETUP", "PLAY", "OTHER"}
Transport == {"none", "udp", "tcp"}
States    == {"WAIT_UPSTREAM_CONNECT", "IDLE", "WAIT_STUN", "WAIT_UPSTREAM_RESP", "STREAMING"}

ASSUME BoundsAssumption ==
  /\ MaxReq \in Nat \ {0} /\ Window \in Nat \ {0} /\ KeepaliveCSeq \in Nat \ {0}
  /\ MaxKeepalives \in Nat /\ QueueLimit \in Nat /\ StunLosses \in Nat

ASSUME ModesAssumption == FirstKinds \subseteq Kinds /\ StunModes \subseteq BOOLEAN

\* A request: its number (0 for a keepalive of the proxy), its kind, the transport
\* a SETUP asks for, and whether its Transport header names the proxy's ports.
Requests  == [id : 0..MaxReq, kind : Kinds, over : Transport, ours : BOOLEAN]
Keepalive == [id |-> 0, kind |-> "OTHER", over |-> "none", ours |-> FALSE]
NoReq     == Keepalive   \* the empty string in pending_setup_req_ and last_setup_req_
CSeq(r)   == IF r.id = 0 THEN KeepaliveCSeq ELSE r.id

\* The n-th request, as the client sends it.
Fresh(n, kinds) ==
  {r \in Requests : /\ r.id = n /\ r.kind \in kinds /\ ~r.ours
                    /\ r.kind = "SETUP" <=> r.over # "none"}

\* The packets of to_downstream_q_: responses, and interleaved RTP/RTCP packets.
Replies == [id : 1..MaxReq, status : {"200", "461", "err"}, over : Transport]
Media   == [id |-> 0, status |-> "media", over |-> "none"]
IsReply(p) == p # Media

\* The responses among them, in order (SelectSeq, in a form that can be reasoned about).
Answers(q) ==
  LET keep[i \in 0..Len(q)] ==
        IF i = 0 THEN <<>>
        ELSE IF IsReply(q[i]) THEN Append(keep[i - 1], q[i]) ELSE keep[i - 1]
  IN keep[Len(q)]

VARIABLES
  state, closed,
  gone,         \* the loop has destroyed the session
  wantUpOut, wantDsOut,  \* EPOLLOUT among the registered events of each connection
  wire,         \* sent by the client, not yet received
  inflight,     \* sent to the server, not yet answered
  recvBuf,      \* downstream_recv_buf_
  parsing,      \* the loop of on_downstream_readable is running
  toUp, toDown, \* to_upstream_q_ and to_downstream_q_
  pendingPlay, pendingSetup, lastSetup, retried,
  usTcp, dsTcp, relay,
  stun,         \* method enabled, reply under way, replies lost
  timer,        \* timer_fd_ is armed
  sent,         \* requests the client has sent, in order
  got,          \* responses the client has received, in order
  answered,     \* ghost: requests the server has answered, a retried 461 excepted
  dropped,      \* ghost: responses that drop-oldest discarded
  played,       \* ghost: the server has accepted a PLAY
  overTcp       \* ghost: SETUPs retried over TCP

conn   == <<state, closed, gone, wantUpOut, wantDsOut>>
flow   == <<wire, inflight, recvBuf, parsing, toUp, toDown>>
setup  == <<pendingPlay, pendingSetup, lastSetup, retried, usTcp, dsTcp, relay, stun, timer>>
client == <<sent, got, answered, dropped, played, overTcp>>
vars   == <<conn, flow, setup, client>>

TypeOK ==
  /\ state \in States
  /\ {closed, gone, wantUpOut, wantDsOut, parsing, pendingPlay, retried} \subseteq BOOLEAN
  /\ {usTcp, dsTcp, relay, timer, played} \subseteq BOOLEAN
  /\ stun \in [on : BOOLEAN, reply : BOOLEAN, lost : 0..StunLosses]
  /\ {wire, inflight, recvBuf, toUp} \subseteq Seq(Requests)
  /\ toDown \in Seq(Replies \cup {Media})
  /\ got \in Seq(Replies)
  /\ {pendingSetup, lastSetup} \subseteq Requests
  /\ sent \in Seq(Requests)
  /\ answered \cup dropped \cup overTcp \subseteq 1..MaxReq

\* MasterHandle has read the first request and constructed the session; the
\* constructor stashes the request and starts the non-blocking connect.
Init ==
  /\ state = "WAIT_UPSTREAM_CONNECT" /\ closed = FALSE /\ gone = FALSE
  /\ wantUpOut = TRUE /\ wantDsOut = FALSE
  /\ wire = <<>> /\ inflight = <<>> /\ parsing = FALSE
  /\ recvBuf \in {<<r>> : r \in Fresh(1, FirstKinds)}
  /\ toUp = <<>> /\ toDown = <<>>
  /\ pendingPlay = FALSE /\ pendingSetup = NoReq /\ lastSetup = NoReq /\ retried = FALSE
  /\ usTcp = FALSE /\ dsTcp = FALSE /\ relay = FALSE /\ timer = FALSE
  /\ stun \in [on : StunModes, reply : {FALSE}, lost : {0}]
  /\ sent = recvBuf /\ got = <<>> /\ answered = {} /\ dropped = {} /\ played = FALSE /\ overTcp = {}

Ids(q) == {q[i].id : i \in DOMAIN q}
Connected == state # "WAIT_UPSTREAM_CONNECT"

\* A handler may start: the session exists and no other handler is running.  A
\* closed session still gets the events of the batch being dispatched.
Ready == ~gone /\ ~parsing

---------------------------------------------------------------------------
(* The upstream connection: sending *)

\* The send loop of on_upstream_writable over the queue q, entered in state st with
\* `before' unanswered: some messages leave, then the queue is empty, the socket
\* full, or an error ends it.
Drain(before, q, st) ==
  \E j \in 0..Len(q), fails \in BOOLEAN :
    /\ fails => j < Len(q)
    /\ inflight' = before \o SubSeq(q, 1, j)
    /\ toUp' = SubSeq(q, j + 1, Len(q))
    /\ state' = IF j > 0 THEN "WAIT_UPSTREAM_RESP" ELSE st
    /\ closed' = (closed \/ fails)
    /\ wantUpOut' = IF fails THEN wantUpOut ELSE j < Len(q)

\* on_upstream_writable, while connecting: SO_ERROR is set.
ConnectFails ==
  /\ Ready /\ ~Connected /\ wantUpOut
  /\ closed' = TRUE
  /\ UNCHANGED <<state, gone, wantUpOut, wantDsOut, flow, setup, client>>

\* The same, connected: the stashed request is queued as it is, with its URI
\* rewritten; from here on the client's connection is read.
ConnectDone ==
  /\ Ready /\ ~Connected /\ wantUpOut
  /\ Drain(inflight, toUp \o recvBuf, "IDLE")
  /\ recvBuf' = <<>>
  /\ UNCHANGED <<gone, wantDsOut, wire, parsing, toDown, setup, client>>

UpstreamWritable ==
  /\ Ready /\ Connected /\ wantUpOut
  /\ Drain(inflight, toUp, state)
  /\ UNCHANGED <<gone, wantDsOut, wire, recvBuf, parsing, toDown, setup, client>>

\* Mutant: the message is queued without requesting EPOLLOUT.
PushUp_Unarmed(r) ==
  /\ toUp' = Append(toUp, r)
  /\ UNCHANGED wantUpOut

\* A message is queued for the server and EPOLLOUT requested.
PushUp(r) ==
  /\ toUp' = Append(toUp, r)
  /\ wantUpOut' = TRUE

---------------------------------------------------------------------------
(* The client's requests *)

ClientSend(r) ==
  /\ ~gone /\ Len(sent) < MaxReq
  /\ Cardinality(DOMAIN sent \ Ids(got)) < Window
  /\ r \in Fresh(Len(sent) + 1, Kinds)
  /\ sent' = Append(sent, r)
  /\ wire' = Append(wire, r)
  /\ UNCHANGED <<conn, inflight, recvBuf, parsing, toUp, toDown, setup,
                 got, answered, dropped, played, overTcp>>

\* on_downstream_readable: recv returns the first j requests.
DownstreamReadable(j) ==
  /\ Ready /\ Connected
  /\ j \in 1..Len(wire)
  /\ recvBuf' = recvBuf \o SubSeq(wire, 1, j)
  /\ wire' = SubSeq(wire, j + 1, Len(wire))
  /\ parsing' = TRUE
  /\ UNCHANGED <<conn, inflight, toUp, toDown, setup, client>>

\* patch_transport_for_upstream: UDP, to the relay's ports.
Patched(r) == [r EXCEPT !.over = "udp", !.ours = TRUE]

\* Mutant: a request that is no PLAY leaves the flag as it is.
PlayPending_Sticky(r) == pendingPlay \/ r.kind = "PLAY"

\* pending_play_ after forwarding r.
PlayPending(r) == r.kind = "PLAY"

\* One round of the parse loop, for a request that is no SETUP.
ForwardRequest ==
  LET r == Head(recvBuf) IN
  /\ parsing /\ r.kind # "SETUP"
  /\ pendingPlay' = PlayPending(r)
  /\ PushUp(r)
  /\ recvBuf' = Tail(recvBuf)
  /\ parsing' = (Tail(recvBuf) # <<>>)
  /\ UNCHANGED <<state, closed, gone, wantDsOut, wire, inflight, toDown, pendingSetup,
                 lastSetup, retried, usTcp, dsTcp, relay, stun, timer, client>>

\* A SETUP that is forwarded at once.
ForwardSetup ==
  LET r == Head(recvBuf) IN
  /\ parsing /\ r.kind = "SETUP" /\ ~stun.on
  /\ dsTcp' = (r.over = "tcp")
  /\ relay' = TRUE
  /\ lastSetup' = r
  /\ pendingPlay' = PlayPending(r)
  /\ PushUp(Patched(r))
  /\ recvBuf' = Tail(recvBuf)
  /\ parsing' = (Tail(recvBuf) # <<>>)
  /\ UNCHANGED <<state, closed, gone, wantDsOut, wire, inflight, toDown, pendingSetup,
                 retried, usTcp, stun, timer, client>>

\* A SETUP that waits for the STUN mapping: the loop is left, what follows in the
\* buffer stays there until the next recv.
PauseSetup ==
  LET r == Head(recvBuf) IN
  /\ parsing /\ r.kind = "SETUP" /\ stun.on
  /\ dsTcp' = (r.over = "tcp")
  /\ relay' = TRUE
  /\ stun' = [stun EXCEPT !.reply = TRUE]
  /\ state' = "WAIT_STUN"
  /\ pendingSetup' = r
  /\ recvBuf' = Tail(recvBuf)
  /\ parsing' = FALSE
  /\ UNCHANGED <<closed, gone, wantUpOut, wantDsOut, wire, inflight, toUp, toDown,
                 pendingPlay, lastSetup, retried, usTcp, timer, client>>

\* init_relay_sockets fails.
RelayFails ==
  LET r == Head(recvBuf) IN
  /\ parsing /\ r.kind = "SETUP" /\ ~relay
  /\ dsTcp' = (r.over = "tcp")
  /\ closed' = TRUE
  /\ recvBuf' = Tail(recvBuf)
  /\ parsing' = FALSE
  /\ UNCHANGED <<state, gone, wantUpOut, wantDsOut, wire, inflight, toUp, toDown,
                 pendingPlay, pendingSetup, lastSetup, retried, usTcp, relay, stun, timer, client>>

---------------------------------------------------------------------------
(* STUN *)

\* Mutants: pending_setup_req_ is not cleared; the SETUP goes out unpatched.
ResumeSetup_Kept ==
  /\ state' = "IDLE"
  /\ lastSetup' = pendingSetup
  /\ UNCHANGED pendingSetup
  /\ PushUp(Patched(pendingSetup))
ResumeSetup_Raw ==
  /\ state' = "IDLE"
  /\ lastSetup' = pendingSetup
  /\ pendingSetup' = NoReq
  /\ PushUp(pendingSetup)

\* process_pending_setup: the paused SETUP goes out.
ResumeSetup ==
  /\ state' = "IDLE"
  /\ lastSetup' = pendingSetup
  /\ pendingSetup' = NoReq
  /\ PushUp(Patched(pendingSetup))

\* send_interleaved_downstream: the oldest packet makes room when the queue is over
\* its limit.  Nothing is queued for a client on UDP or for a closed session.
PushMedia ==
  LET full == Len(toDown) > QueueLimit IN
  IF closed \/ ~dsTcp THEN UNCHANGED <<toDown, wantDsOut, dropped>>
  ELSE /\ toDown' = Append(IF full THEN Tail(toDown) ELSE toDown, Media)
       /\ dropped' = dropped \cup (IF full THEN {Head(toDown).id} \ {0} ELSE {})
       /\ wantDsOut' = TRUE

\* handle_rtp_from_upstream while waiting for STUN: the datagram, whatever it is,
\* ends the wait (a reply that does not parse means the local port is used).
RtpWhileStun ==
  /\ Ready /\ relay /\ stun.on /\ state = "WAIT_STUN"
  /\ stun' \in {stun, [stun EXCEPT !.reply = FALSE]}
  /\ ResumeSetup
  /\ UNCHANGED <<closed, gone, wantDsOut, wire, inflight, recvBuf, parsing, toDown,
                 pendingPlay, retried, usTcp, dsTcp, relay, timer, client>>

\* A STUN reply in any other state goes to the RTP pipeline, which drops it: its
\* version bits are not RTP's.
StrayStunReply ==
  /\ Ready /\ stun.reply /\ state # "WAIT_STUN"
  /\ stun' = [stun EXCEPT !.reply = FALSE]
  /\ UNCHANGED <<conn, flow, pendingPlay, pendingSetup, lastSetup, retried, usTcp, dsTcp,
                 relay, timer, client>>

\* The reply arrives.
StunReply == stun.reply /\ (RtpWhileStun \/ StrayStunReply) /\ ~stun'.reply

\* The network loses the STUN reply; nothing in the code times out.
StunLost ==
  /\ stun.reply /\ stun.lost < StunLosses
  /\ stun' = [stun EXCEPT !.reply = FALSE, !.lost = @ + 1]
  /\ UNCHANGED <<conn, flow, pendingPlay, pendingSetup, lastSetup, retried, usTcp, dsTcp,
                 relay, timer, client>>

---------------------------------------------------------------------------
(* The upstream connection: receiving, and media *)

\* Mutant: nothing is consumed.
IsKeepalive_Never(r) == FALSE

\* A response with the keepalives' CSeq is taken for the answer to one.
IsKeepalive(r) == CSeq(r) = KeepaliveCSeq

\* It is consumed.
KeepaliveReply ==
  LET r == Head(inflight) IN
  /\ Ready /\ inflight # <<>> /\ IsKeepalive(r)
  /\ inflight' = Tail(inflight)
  /\ answered' = answered \cup ({r.id} \ {0})
  /\ played' \in {played, played \/ r.kind = "PLAY"}
  /\ UNCHANGED <<conn, wire, recvBuf, parsing, toUp, toDown, setup, sent, got, dropped,
                 overTcp>>

\* Mutant: the fallback has no memory.
Retries_Always(r) == r.kind = "SETUP" /\ lastSetup # NoReq

\* Is a 461 answer consumed and the last SETUP retried over TCP?
Retries(r) == r.kind = "SETUP" /\ ~retried /\ lastSetup # NoReq

\* 461: patch_transport_for_upstream_tcp, and an immediate on_upstream_writable.
RetryOverTcp ==
  LET r == Head(inflight)
      again == [lastSetup EXCEPT !.over = "tcp", !.ours = TRUE]
  IN
  /\ Ready /\ inflight # <<>> /\ ~IsKeepalive(r)
  /\ Retries(r)
  /\ retried' = TRUE
  /\ Drain(Tail(inflight), Append(toUp, again), state)
  /\ overTcp' = overTcp \cup {lastSetup.id}
  /\ UNCHANGED <<gone, wantDsOut, wire, recvBuf, parsing, toDown, pendingPlay, pendingSetup,
                 lastSetup, usTcp, dsTcp, relay, stun, timer, sent, got, answered, dropped,
                 played>>

\* patch_response_for_client: the Transport of a SETUP response becomes TCP for a
\* client on TCP, and stays as it is otherwise.
PatchedReply(r, st) ==
  [id |-> r.id, status |-> st,
   over |-> IF st # "200" \/ r.kind # "SETUP" THEN "none" ELSE IF dsTcp THEN "tcp" ELSE r.over]

\* Any other response is relayed.
RelayReply(st) ==
  LET r == Head(inflight)
      starts == st = "200" /\ pendingPlay
  IN
  /\ Ready /\ inflight # <<>> /\ ~IsKeepalive(r)
  /\ st = "461" => r.kind = "SETUP" /\ ~Retries(r)
  /\ inflight' = Tail(inflight)
  /\ usTcp' = (usTcp \/ (st = "200" /\ r.kind = "SETUP" /\ r.over = "tcp"))
  /\ pendingPlay' = (pendingPlay /\ ~starts)
  /\ timer' = (timer \/ starts)
  /\ state' = IF starts THEN "STREAMING" ELSE state
  /\ toDown' = Append(toDown, PatchedReply(r, st))
  /\ wantDsOut' = TRUE
  /\ answered' = answered \cup {r.id}
  /\ played' = (played \/ (st = "200" /\ r.kind = "PLAY"))
  /\ UNCHANGED <<closed, gone, wantUpOut, wire, recvBuf, parsing, toUp, pendingSetup,
                 lastSetup, retried, dsTcp, relay, stun, sent, got, dropped, overTcp>>

\* RTP or RTCP from the server, over UDP or interleaved.  In WAIT_STUN it is RTCP or
\* interleaved: an RTP datagram ends the wait (RtpWhileStun).
RelayMedia ==
  /\ Ready /\ (relay \/ usTcp)
  /\ PushMedia
  /\ UNCHANGED <<state, closed, gone, wantUpOut, wire, inflight, recvBuf, parsing, toUp,
                 setup, sent, got, answered, played, overTcp>>

\* handle_timer: a keepalive is queued.
Timer ==
  /\ Ready /\ timer
  /\ Cardinality({i \in DOMAIN (toUp \o inflight) : (toUp \o inflight)[i].id = 0})
       < MaxKeepalives
  /\ PushUp(Keepalive)
  /\ UNCHANGED <<state, closed, gone, wantDsOut, wire, inflight, recvBuf, parsing, toDown,
                 setup, client>>

---------------------------------------------------------------------------
(* The client's connection: sending, and the end of the session *)

\* on_downstream_writable: j packets leave.
DownstreamWritable(j) ==
  /\ Ready /\ wantDsOut
  /\ j \in 0..Len(toDown)
  /\ got' = got \o Answers(SubSeq(toDown, 1, j))
  /\ toDown' = SubSeq(toDown, j + 1, Len(toDown))
  /\ wantDsOut' = (j < Len(toDown))
  /\ UNCHANGED <<state, closed, gone, wantUpOut, wire, inflight, recvBuf, parsing, toUp, setup,
                 sent, answered, dropped, played, overTcp>>

\* close_all on a hang-up or a failed recv or send of either connection.
PeerCloses ==
  /\ Ready /\ ~closed
  /\ closed' = TRUE
  /\ UNCHANGED <<state, gone, wantUpOut, wantDsOut, flow, setup, client>>

\* The task that close_all queued destroys the session.
Destroy ==
  /\ Ready /\ closed
  /\ gone' = TRUE
  /\ UNCHANGED <<state, closed, wantUpOut, wantDsOut, flow, setup, client>>

Parse == ForwardRequest \/ ForwardSetup \/ PauseSetup \/ RelayFails

ServerAnswers ==
  \/ KeepaliveReply
  \/ RetryOverTcp
  \/ \E st \in {"200", "461", "err"} : RelayReply(st)

Next ==
  \/ ConnectFails \/ ConnectDone \/ UpstreamWritable
  \/ \E r \in Requests : ClientSend(r)
  \/ \E j \in 1..MaxReq : DownstreamReadable(j)
  \/ Parse
  \/ RtpWhileStun \/ StrayStunReply \/ StunLost
  \/ ServerAnswers
  \/ RelayMedia \/ Timer
  \/ \E j \in 0..Len(toDown) : DownstreamWritable(j)
  \/ PeerCloses \/ Destroy

Spec == Init /\ [][Next]_vars

\* The loop dispatches what is ready; the server answers, the client reads, and a
\* datagram that is not lost arrives.
FairSpec ==
  /\ Spec
  /\ WF_vars(ConnectFails \/ ConnectDone)
  /\ WF_vars(UpstreamWritable)
  /\ WF_vars(\E j \in 1..MaxReq : DownstreamReadable(j))
  /\ WF_vars(Parse)
  /\ WF_vars(StunReply)
  /\ WF_vars(ServerAnswers)
  /\ WF_vars(\E j \in 0..Len(toDown) : DownstreamWritable(j))

---------------------------------------------------------------------------
(* Properties *)

\* The responses relayed so far, received by the client or still queued.
Relayed == got \o Answers(toDown)

\* Level-triggered epoll wakes the session for every queued byte: a connection with
\* something queued is registered for EPOLLOUT, whichever handler queued or drained.
NoLostWakeup ==
  ~closed => /\ toUp # <<>> => wantUpOut
             /\ toDown # <<>> => wantDsOut

\* How many copies of request i there are, on its way or as an answer.
Copies(q, i) == Cardinality({k \in DOMAIN q : q[k].id = i})
Count(i) ==
  Copies(wire, i) + Copies(recvBuf, i) + Copies(toUp, i) + Copies(inflight, i) +
  Copies(<<pendingSetup>>, i) + Copies(Relayed, i) + (IF i \in dropped THEN 1 ELSE 0)

\* A request of a client that does not pipeline is never lost and never doubled: it
\* is in one place, on its way up, paused for STUN, with the server, or answered;
\* the 461 retry, keepalives and STUN replies in between notwithstanding.
RequestConserved ==
  ~closed => \A i \in DOMAIN sent : Count(i) = 1

\* pending_play_ identifies the PLAY response ("so we can correctly detect the
\* response"): without STUN, the keepalive timer runs if and only if the server has
\* accepted a PLAY.
PlayDetected == ~stun.on => timer = played

\* Every SETUP sent upstream names the proxy's ports, and the relay sockets exist
\* ("patch the Transport header so the RTP/RTCP ports point back to us").
SetupPointsToUs ==
  \A i \in DOMAIN (toUp \o inflight) :
    LET r == (toUp \o inflight)[i] IN r.kind = "SETUP" => r.ours /\ relay

\* Under a server that answers, a client that reads and no STUN, each request is
\* answered, unless the session ends or the response was dropped for media.
EveryRequestAnswered ==
  \A i \in 1..MaxReq :
    (Len(sent) >= i /\ ~stun.on) ~> (closed \/ i \in Ids(got) \cup dropped)

\* "We forward every request to the real upstream server": whatever was read from
\* the client is sent to the server, unless the session ends.
EveryRequestForwarded ==
  \A i \in 1..MaxReq :
    (i \in Ids(recvBuf) \cup Ids(<<pendingSetup>>)) ~> (closed \/ i \in Ids(inflight))

\* "relay the upstream responses back to the client": no answer is withheld.
ResponsesRelayed == ~closed => answered \subseteq Ids(Relayed)

\* A 461 is "automatically intercepted" and retried over TCP, "fully transparent to
\* the client" (README): the client sees no 461 that was not retried, and the response
\* to its SETUP offers the transport that it asked for.
FallbackTransparent ==
  \A i \in DOMAIN Relayed :
    LET p == Relayed[i] IN
    /\ p.status = "461" => p.id \in overTcp
    /\ p.over # "none" => p.over = sent[p.id].over
=============================================================================
