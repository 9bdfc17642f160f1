----------------------------- MODULE HttpClient -----------------------------
(***************************************************************************)
(* One RTSPToHttpClient session, from the request that asks for it: the    *)
(* proxy itself is the RTSP client (OPTIONS, DESCRIBE, SETUP, PLAY, then   *)
(* keepalives).  What happens to the media is in MediaPlane.               *)
(*                                                                         *)
(* The proxy has one request under way: req_buf_ and current_request_ are  *)
(* overwritten by the next one, and a response is attributed to whatever   *)
(* current_request_ is when it arrives.  The server (external) answers in  *)
(* order, and may send requests of its own.                                *)
(***************************************************************************)
EXTENDS Admission, FiniteSets

CONSTANTS
  Calls,         \* the requests, with the configuration they meet
  StunModes,     \* values of "NAT traversal is on, with method stun"
  MaxKeepalives, \* bound: unanswered keepalives
  StunLosses     \* bound: STUN replies that the network loses

ASSUME CallsAssumption == Calls \subseteq CallType

ASSUME BoundsAssumption == MaxKeepalives \in Nat /\ StunLosses \in Nat

ASSUME ModesAssumption == StunModes \subseteq BOOLEAN

Methods == {"OPTIONS", "DESCRIBE", "SETUP", "SETUP_TCP", "PLAY", "GET_PARAMETER"}

VARIABLES
  call,      \* the request, as long as it is being handled
  phase,     \* "request", "live" or "gone": before, after the constructor; destroyed
  state,     \* state_
  initOk,    \* is_init_ok
  sockets,   \* bind_udp_pair_from_pool succeeded
  upstream,  \* rtsp_fd_ is a socket
  cur,       \* current_request_.method ("none" before the first)
  sending,   \* "queued": req_buf_ is to be sent, EPOLLOUT is registered instead of
             \* EPOLLIN; "partial": tcp_send_offset_ > 0
  inflight,  \* requests the server has, unanswered
  retried,   \* setup_retry_with_tcp_
  timer,     \* timer_fd_ is armed
  stun,      \* method enabled, reply under way, replies lost
  closing,   \* on_closed_callback_ has queued the session's removal
  torn       \* ghost: requests of which a part was sent and then something else

request == <<cur, sending, torn>>
up      == <<state, initOk, upstream, inflight, retried, timer>>
vars    == <<call, phase, sockets, stun, closing, request, up>>

NoCall == [request |-> [complete |-> FALSE]]

TypeOK ==
  /\ call \in Calls \cup {NoCall}
  /\ phase \in {"request", "live", "gone"}
  /\ state \in {"INIT", "CONNECTING", "CONNECTED", "STREAMING"}
  /\ {initOk, sockets, upstream, retried, timer, closing} \subseteq BOOLEAN
  /\ cur \in Methods \cup {"none"}
  /\ sending \in {"no", "queued", "partial"}
  /\ inflight \in Seq(Methods)
  /\ stun \in [on : BOOLEAN, reply : BOOLEAN, lost : 0..StunLosses]
  /\ torn \subseteq Methods

Init ==
  /\ call \in Calls
  /\ phase = "request" /\ state = "INIT" /\ initOk = FALSE /\ sockets = FALSE /\ upstream = FALSE
  /\ cur = "none" /\ sending = "no" /\ torn = {} /\ inflight = <<>>
  /\ retried = FALSE /\ timer = FALSE
  /\ stun \in [on : StunModes, reply : {FALSE}, lost : {0}]
  /\ closing = FALSE

Live == phase = "live"

---------------------------------------------------------------------------
(* Requests *)

\* Something else goes out: a request that was sent in part is cut off.
CutOff == torn' = IF sending = "partial" THEN torn \cup {cur} ELSE torn

\* build_and_send_request: current_request_ and req_buf_ are replaced, tcp_send_offset_
\* is 0, and EPOLLOUT replaces EPOLLIN; on a session without a socket epoll_ctl fails.
Send(m, hasSocket) ==
  /\ CutOff
  /\ cur' = m
  /\ sending' = IF hasSocket THEN "queued" ELSE "no"

\* send_rtsp_option: connect_server, then OPTIONS.  A failed connect is reported
\* through the callback, which the constructor does not have yet.
SendOption(ok, hasCallback) ==
  /\ initOk' = TRUE
  /\ upstream' = ok
  /\ state' = IF ok THEN "CONNECTING" ELSE state
  /\ closing' = (closing \/ (~ok /\ hasCallback))
  /\ Send("OPTIONS", ok)

\* The request is not for a stream, or not permitted: its connection is closed.
TurnAway ==
  /\ phase = "request" /\ ~Admitted(call)
  /\ call' = NoCall
  /\ phase' = "gone"
  /\ UNCHANGED <<sockets, stun, closing, request, up>>

\* dispatch and the constructor, with bind_udp_pair_from_pool and connect failing or not.
Construct(bound, connected) ==
  /\ phase = "request" /\ Admitted(call)
  /\ call' = NoCall
  /\ phase' = "live"
  /\ sockets' = bound
  /\ \/ /\ stun.on
        /\ stun' = [stun EXCEPT !.reply = bound]
        /\ UNCHANGED <<up, request, closing>>
     \/ /\ ~stun.on
        /\ SendOption(connected, FALSE)
        /\ UNCHANGED <<stun, inflight, retried, timer>>

\* on_rtsp_writable.
ConnectFails ==
  /\ Live /\ state = "CONNECTING"
  /\ closing' = TRUE
  /\ UNCHANGED <<call, phase, sockets, stun, request, up>>

Connected == IF state = "CONNECTING" THEN "CONNECTED" ELSE state

\* All of what is left of req_buf_ is sent, or (once, for a request) a part of it.
RtspWritable(part) ==
  /\ Live /\ sending # "no"
  /\ part => sending = "queued"
  /\ state' = Connected
  /\ sending' = IF part THEN "partial" ELSE "no"
  /\ inflight' = IF part THEN inflight ELSE Append(inflight, cur)
  /\ UNCHANGED <<call, phase, sockets, stun, closing, cur, torn, initOk, upstream, retried, timer>>

SendFails ==
  /\ Live /\ sending # "no"
  /\ state' = Connected
  /\ closing' = TRUE
  /\ UNCHANGED <<call, phase, sockets, stun, request, initOk, upstream, inflight, retried, timer>>

---------------------------------------------------------------------------
(* What the server sends.  EPOLLIN is off from build_and_send_request until the request *)
(* has left; but on_rtsp_readable goes on to the end of what it has read, and an event  *)
(* of the same batch may have been reported before.                                     *)

\* Mutant: EPOLLIN stays registered while a request is being sent.
Listening_Always == Live /\ upstream

Listening == Live /\ upstream /\ sending # "partial"

Reading == Listening /\ inflight # <<>>

IsSetup(m) == m \in {"SETUP", "SETUP_TCP"}

\* Mutant: the fallback has no memory.
Fallback_Always == IsSetup(cur)

\* The 461 answers a SETUP and is the first.
Fallback == IsSetup(cur) /\ ~retried

\* 461 to a SETUP: once, the SETUP is sent again, for TCP.
RetryOverTcp ==
  /\ Reading /\ IsSetup(Head(inflight))
  /\ Fallback
  /\ retried' = TRUE
  /\ inflight' = Tail(inflight)
  /\ Send("SETUP_TCP", upstream)
  /\ UNCHANGED <<call, phase, sockets, stun, closing, state, initOk, upstream, timer>>

\* Any other status than 200, a body without a track of format 33 or a SETUP response
\* without ports: the session is closed.
Refused ==
  /\ Reading
  /\ inflight' = Tail(inflight)
  /\ closing' = TRUE
  /\ UNCHANGED <<call, phase, sockets, stun, request, state, initOk, upstream, retried, timer>>

\* Mutant: the response to PLAY falls through to a request that has no text.
NextRequest_Fallthrough(m) ==
  CASE m = "OPTIONS"  -> "DESCRIBE"
    [] m = "DESCRIBE" -> "SETUP"
    [] IsSetup(m)     -> "PLAY"
    [] m = "PLAY"     -> "UNKNOWN"
    [] OTHER          -> "none"

\* The request that a 200 to m triggers.
NextRequest(m) ==
  CASE m = "OPTIONS"  -> "DESCRIBE"
    [] m = "DESCRIBE" -> "SETUP"
    [] IsSetup(m)     -> "PLAY"
    [] OTHER          -> "none"

\* Mutant: the timer is armed by the SETUP response.
ArmsTimer_Early(m) == IsSetup(m) \/ m = "PLAY"

\* init_timer_fd is called for a 200 to m.
ArmsTimer(m) == m = "PLAY"

\* 200, taken for the response to current_request_.
Accepted ==
  /\ Reading
  /\ inflight' = Tail(inflight)
  /\ timer' = (timer \/ ArmsTimer(cur))
  /\ state' = IF cur = "PLAY" THEN "STREAMING" ELSE state
  /\ IF NextRequest(cur) = "none" THEN UNCHANGED request
     ELSE Send(NextRequest(cur), upstream)
  /\ UNCHANGED <<call, phase, sockets, stun, closing, initOk, upstream, retried>>

\* A request from the server is answered at once, beside req_buf_.
ServerRequest ==
  /\ Listening
  /\ CutOff
  /\ UNCHANGED <<call, phase, sockets, stun, closing, cur, sending, up>>

\* recv returns 0 or fails, or what it returns is no response and has no CSeq.
ServerCloses ==
  /\ Listening /\ ~closing
  /\ closing' = TRUE
  /\ UNCHANGED <<call, phase, sockets, stun, request, up>>

\* handle_timer: a keepalive replaces whatever req_buf_ holds.
Timer ==
  /\ Live /\ timer /\ Len(inflight) < MaxKeepalives
  /\ Send("GET_PARAMETER", upstream)
  /\ UNCHANGED <<call, phase, sockets, stun, closing, up>>

---------------------------------------------------------------------------
(* STUN and the HTTP client *)

\* on_rtp_readable before is_init_ok, with a datagram that the pipeline does not take:
\* the STUN reply, parsed or not, or any other, starts the RTSP dialogue.
StunReply(connected) ==
  /\ Live /\ sockets /\ ~initOk
  /\ stun' \in {stun, [stun EXCEPT !.reply = FALSE]}
  /\ SendOption(connected, TRUE)
  /\ UNCHANGED <<call, phase, sockets, inflight, retried, timer>>

StunLost ==
  /\ stun.reply /\ stun.lost < StunLosses
  /\ stun' = [stun EXCEPT !.reply = FALSE, !.lost = @ + 1]
  /\ UNCHANGED <<call, phase, sockets, closing, request, up>>

\* on_client_closed.
ClientCloses ==
  /\ Live /\ ~closing
  /\ closing' = TRUE
  /\ UNCHANGED <<call, phase, sockets, stun, request, up>>

\* The queued task destroys the session.
Destroy ==
  /\ Live /\ closing
  /\ phase' = "gone"
  /\ UNCHANGED <<call, sockets, stun, closing, request, up>>

ServerAnswers == RetryOverTcp \/ Refused \/ Accepted

Next ==
  \/ TurnAway
  \/ \E bound, connected \in BOOLEAN : Construct(bound, connected)
  \/ ConnectFails \/ SendFails
  \/ \E part \in BOOLEAN : RtspWritable(part)
  \/ ServerAnswers \/ ServerRequest \/ ServerCloses \/ Timer
  \/ StunLost
  \/ \E connected \in BOOLEAN : StunReply(connected)
  \/ ClientCloses \/ Destroy

Spec == Init /\ [][Next]_vars

Writable == \E part \in BOOLEAN : RtspWritable(part)

\* The loop dispatches what is ready, and the server answers.
FairSpec ==
  /\ Spec
  /\ WF_vars(Writable \/ ConnectFails \/ SendFails)
  /\ WF_vars(ServerAnswers)
  /\ WF_vars(Destroy)

---------------------------------------------------------------------------
(* Properties *)

\* A session is only made for a request the configuration permits: with the token when
\* there is one, for an upstream that no blacklist pattern covers, by name or by any
\* address its name resolves to, with the bit masks of match_cidr compared with
\* arithmetic on the blocks.  And a permitted request is turned away only when the
\* upstream is the proxy itself.  (That every such request is turned away, README.md:142,
\* is not true of is_loopback and not claimed here.)
AdmissionExact ==
  [][phase = "request" =>
       /\ phase' = "live" => Permitted(call)
       /\ Permitted(call) /\ ~ReachesSelf(call) => phase' = "live"]_vars

\* A response is attributed to the request it answers, although current_request_ is a
\* single slot that every new request, keepalives included, overwrites.
RepliesMatch == \A i \in DOMAIN inflight : inflight[i] = cur

\* No request of the dialogue is cut off on the wire by what is sent next, although
\* three places write to the connection: the next request, the keepalive timer and the
\* answer to a request of the server.  Only a keepalive can be, by the next keepalive.
DialogueWhole == torn \subseteq {"GET_PARAMETER"}

\* The session is not left half open: once it has an upstream connection, the dialogue
\* ends in streaming or in the session's removal, refusals, the 461 fallback, partial
\* and failed sends included.
DialogueEnds == upstream ~> (state = "STREAMING" \/ phase = "gone")
=============================================================================
