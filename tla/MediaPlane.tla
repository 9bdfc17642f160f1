----------------------------- MODULE MediaPlane -----------------------------
(***************************************************************************)
(* The way of the media through a session: a datagram is read into a block *)
(* of the BufferPool, goes through the RtpPipeline into the session's      *)
(* bounded send queue, and leaves it in pieces, as the client's connection *)
(* has room.  RTSPToHttpClient ("http") and RTSPToRtspClient with a client *)
(* on TCP ("mitm") do this with different code; to a client on UDP ("udp") *)
(* the latter sends each packet at once.                                   *)
(*                                                                         *)
(* One session is followed from its constructor to its destructor, again   *)
(* and again; the others are the blocks they hold.  A packet is sent whole *)
(* or first in part.  What the client sees of it is recorded in `view'.    *)
(***************************************************************************)
EXTENDS BufferPool, RtpPipeline

CONSTANTS
  HttpLimit, MitmLimit,  \* queue size above which the oldest is dropped (512, 2048)
  FirstDatagrams,        \* the first datagram of a session is any of these,
  Datagrams,             \* bound: the later ones are of these
  MaxReplies,            \* bound: RTSP responses relayed by a session
  MaxOthers              \* bound: blocks that the other sessions hold

ASSUME DatagramsAssumption == FirstDatagrams \cup Datagrams \subseteq Datagram

ASSUME BoundsAssumption ==
  /\ HttpLimit \in Nat /\ MitmLimit \in Nat
  /\ MaxReplies \in Nat /\ MaxOthers \in Nat

VARIABLES
  config,    \* isWaitKeyframe() and isStripPadding()
  kind,      \* the type of the session
  phase,     \* "none", "live" or "closing": its removal is queued
  waiting,   \* wait_for_keyframe_
  queue,     \* send_queue_ or to_downstream_q_
  wantOut,   \* EPOLLOUT is registered for the client's connection
  hasPort,   \* client_rtp_addr_ has a port
  replies    \* responses relayed

VARIABLES
  pool,      \* the BufferPool
  others     \* blocks held by the other sessions

VARIABLES
  fresh,      \* the session has read no datagram yet
  dropped,    \* ghost: a packet that passed the pipeline was dropped
  view        \* ghost: what the client has seen

session == <<kind, phase, waiting, queue, wantOut, hasPort, replies>>
ghosts  == <<fresh, dropped, view>>
vars    == <<config, session, pool, others, ghosts>>

\* A queued packet: the HTTP response header, a relayed RTSP response or RTCP ("ctl"), or
\* RTP, with something that check_keyframe accepts ("sync") or without ("av"; "void":
\* without a payload, of which an HTTP client gets nothing); and whether a part of it has
\* been sent.
Contents == {"header", "ctl", "sync", "av", "void"}
Queueable == [what : Contents, sent : BOOLEAN]
Whole(w) == [what |-> w, sent |-> FALSE]

RtpQueued == \E i \in DOMAIN queue : queue[i].what \in {"sync", "av"}

\* The client is in the middle of a packet; the packet before was cut off; the first RTP
\* packet ("overtaken": the client went over to UDP before the queued ones reached it).
Views == [mid : BOOLEAN, torn : BOOLEAN, first : {"none", "sync", "av", "overtaken"}]
NewView == [mid |-> FALSE, torn |-> FALSE, first |-> "none"]

TypeOK ==
  /\ config \in [wait : BOOLEAN, strip : BOOLEAN]
  /\ kind \in {"http", "mitm", "udp"}
  /\ phase \in {"none", "live", "closing"}
  /\ {waiting, wantOut, hasPort, fresh, dropped} \subseteq BOOLEAN
  /\ queue \in Seq(Queueable)
  /\ replies \in 0..MaxReplies
  /\ pool \in Pools
  /\ others \in 0..MaxOthers
  /\ view \in Views

Init ==
  /\ config \in [wait : BOOLEAN, strip : BOOLEAN]
  /\ kind = "http" /\ phase = "none" /\ waiting = FALSE
  /\ queue = <<>> /\ wantOut = FALSE /\ hasPort = FALSE /\ replies = 0
  /\ pool = NewPool /\ others = 0
  /\ fresh = TRUE /\ dropped = FALSE /\ view = NewView

Exists == phase # "none"
Limit  == IF kind = "http" THEN HttpLimit ELSE MitmLimit

---------------------------------------------------------------------------
(* The session *)

\* Mutant: the pipeline is built without consulting the configuration.
ResetGate_Open == FALSE

\* RtpPipeline::reset.
ResetGate == config.wait

\* The constructors.  An HTTP client's response header is queued first; an RTSP client is
\* on UDP, without a port, until a SETUP says otherwise.
Open(k) ==
  /\ phase = "none"
  /\ kind' = k /\ phase' = "live"
  /\ hasPort' = FALSE
  /\ waiting' = ResetGate
  /\ IF k = "http" THEN /\ queue' = <<Whole("header")>>
                        /\ pool' = Acquire(pool)
                   ELSE UNCHANGED <<queue, pool>>
  /\ fresh' = TRUE
  /\ UNCHANGED <<config, wantOut, replies, others, dropped, view>>

\* Every SETUP of an RTSP client decides anew on its transport, whatever is queued.  The
\* port a client on UDP names may be none, which keeps the old one, or 0; the session is
\* closed when there are no relay sockets for it.  What goes out over UDP overtakes the
\* queue; a closing session queues no more.
MitmSetup(tcp) ==
  /\ Exists /\ kind # "http"
  /\ kind' = IF tcp THEN "mitm" ELSE "udp"
  /\ IF tcp THEN UNCHANGED hasPort ELSE hasPort' \in BOOLEAN
  /\ phase' \in {phase, "closing"}
  /\ view' = IF ~tcp /\ view.first = "none" /\ (RtpQueued \/ phase = "closing")
             THEN [view EXCEPT !.first = "overtaken"] ELSE view
  /\ UNCHANGED <<config, waiting, queue, wantOut, replies, pool, others, fresh, dropped>>

\* An HTTP session has read the 200 to its PLAY.
HttpPlay ==
  /\ Exists /\ kind = "http"
  /\ waiting' = ResetGate
  /\ UNCHANGED <<config, kind, phase, queue, wantOut, hasPort, replies, pool, others, ghosts>>

\* on_upstream_readable relays a response, without looking at the length of the queue;
\* with the one to a PLAY the gate closes.
MitmReply(play) ==
  /\ Exists /\ kind # "http" /\ replies < MaxReplies
  /\ waiting' = IF play THEN ResetGate ELSE waiting
  /\ pool' = Acquire(pool)
  /\ queue' = Append(queue, Whole("ctl"))
  /\ wantOut' = TRUE
  /\ replies' = replies + 1
  /\ UNCHANGED <<config, kind, phase, hasPort, others, ghosts>>

\* close_all, on_client_closed: the session is removed when the batch is over.
Close ==
  /\ phase = "live"
  /\ phase' = "closing"
  /\ UNCHANGED <<config, kind, waiting, queue, wantOut, hasPort, replies, pool, others, ghosts>>

\* Mutant: the packet under way is forgotten.
Returned_Unsent == Len(SelectSeq(queue, LAMBDA p : ~p.sent))

\* The blocks that the destructor returns.
Returned == Len(queue)

Destroy ==
  /\ phase = "closing"
  /\ phase' = "none"
  /\ pool' = Release(pool, Returned)
  /\ kind' = "http" /\ waiting' = FALSE /\ queue' = <<>>
  /\ wantOut' = FALSE /\ hasPort' = FALSE /\ replies' = 0
  /\ fresh' = TRUE /\ dropped' = FALSE /\ view' = NewView
  /\ UNCHANGED <<config, others>>

---------------------------------------------------------------------------
(* Media in *)

\* What the socket may deliver now.
Arriving == IF fresh THEN FirstDatagrams ELSE Datagrams

\* The queue q after packet p was added, and whether the oldest had to go.
Full(q)     == Len(q) > Limit
Pushed(q, p) == Append(IF Full(q) THEN Tail(q) ELSE q, p)
Freed(q)    == IF Full(q) THEN 1 ELSE 0

\* What the packet is to the client.
Content(u) ==
  IF \E i \in 1..Packets(u) : IsTs(u) /\ First(u, i) \in Accepted THEN "sync"
  ELSE IF u = <<>> /\ kind = "http" THEN "void" ELSE "av"

\* A datagram has been read: the gate opens for good with the first that passes it.
Read(d) ==
  /\ fresh' = FALSE
  /\ waiting' = (waiting /\ ~Opens(d, waiting))
  /\ UNCHANGED <<config, kind, phase, replies, others>>

\* on_rtp_readable and handle_interleaved_packet of an HTTP session.  A packet whose
\* header does not fit is given back; EPOLLOUT is requested in any case.
HttpRtp(d) ==
  LET taken == Passes(d, waiting, config.strip) /\ d.header
      p == Whole(Content(Stripped(d, config.strip)))
  IN
  /\ Exists /\ kind = "http"
  /\ Read(d)
  /\ UNCHANGED <<hasPort, view>>
  /\ queue' = IF taken THEN Pushed(queue, p) ELSE queue
  /\ pool' = Release(Acquire(pool), IF taken THEN Freed(queue) ELSE 1)
  /\ wantOut' = TRUE
  /\ dropped' = (dropped \/ (taken /\ Full(queue)))

\* send_interleaved_downstream, with pool p: the packet is copied into a block of its
\* own, cut to its size if need be (a cut packet is framed as one; what it has lost is
\* not told apart); the caller then returns the one that it holds, if any.
SendInterleaved(w, p, held) ==
  IF phase = "closing" THEN UNCHANGED <<queue, wantOut, dropped>> /\ pool' = Release(p, held)
  ELSE /\ queue' = Pushed(queue, Whole(w))
       /\ pool' = Release(Release(Acquire(p), Freed(queue)), held)
       /\ wantOut' = TRUE
       /\ dropped' = (dropped \/ Full(queue))

\* The first RTP packet that the client gets.
FirstSeen(w) == IF view.first = "none" THEN w ELSE view.first

\* sendto: without a port the packet is dropped.
SendUdp(w) ==
  /\ pool' = Release(Acquire(pool), 1)
  /\ view' = IF hasPort THEN [view EXCEPT !.first = FirstSeen(w)] ELSE view
  /\ dropped' = (dropped \/ ~hasPort)
  /\ UNCHANGED <<queue, wantOut>>

\* handle_rtp_from_upstream and handle_interleaved_from_upstream.
MitmRtp(d) ==
  LET w == Content(Stripped(d, config.strip)) IN
  /\ Exists /\ kind # "http"
  /\ Read(d)
  /\ \/ /\ ~Passes(d, waiting, config.strip)
        /\ pool' = Release(Acquire(pool), 1)
        /\ UNCHANGED <<queue, wantOut, dropped, view>>
     \/ /\ Passes(d, waiting, config.strip) /\ kind = "mitm"
        /\ SendInterleaved(w, Acquire(pool), 1)
        /\ UNCHANGED view
     \/ /\ Passes(d, waiting, config.strip) /\ kind = "udp"
        /\ SendUdp(w)
  /\ UNCHANGED hasPort

\* RTCP, without the pipeline: handle_rtcp_from_upstream reads it into a block, and
\* handle_interleaved_from_upstream has it in upstream_recv_buf_.  A client on UDP gets
\* it at once.
MitmRtcp(held) ==
  LET p == IF held = 1 THEN Acquire(pool) ELSE pool IN
  /\ Exists /\ kind # "http"
  /\ IF kind = "mitm" THEN SendInterleaved("ctl", p, held)
     ELSE /\ pool' = Release(p, held)
          /\ UNCHANGED <<queue, wantOut, dropped>>
  /\ UNCHANGED <<config, kind, phase, waiting, hasPort, replies, others, fresh, view>>

\* handle_rtp_from_client and handle_rtcp_from_client: the packet goes on to the server.
\* The source port of RTP from the client's address is the client's port from now on.
FromClient ==
  /\ Exists /\ kind = "udp"
  /\ hasPort' \in {hasPort, TRUE}
  /\ pool' = Release(Acquire(pool), 1)
  /\ UNCHANGED <<config, kind, phase, waiting, queue, wantOut, replies, others, ghosts>>

---------------------------------------------------------------------------
(* Media out *)

\* Mutant: a packet that was sent in part is taken off the queue.
Remaining_Popped(j, part) == SubSeq(queue, IF part THEN j + 2 ELSE j + 1, Len(queue))

\* The queue after j packets left, and a part of the next one.
Remaining(j, part) ==
  LET rest == SubSeq(queue, j + 1, Len(queue)) IN
  IF part THEN [rest EXCEPT ![1].sent = TRUE] ELSE rest

\* Mutants: EPOLLOUT is withdrawn after a partial send; after every call.
WantsOut_Whole(rest) == rest # <<>> /\ ~Head(rest).sent
WantsOut_Never(rest) == FALSE

\* EPOLLOUT stays registered as long as the queue is not empty.
WantsOut(rest) == rest # <<>>

\* What the client makes of it: the packets that carry bytes for it; the ones that
\* begin now.
Seen(j, part) ==
  LET bytes  == {i \in 1..(IF part THEN j + 1 ELSE j) : queue[i].what # "void"}
      begun  == {i \in bytes : ~queue[i].sent}
      rtp    == {i \in bytes : queue[i].what \in {"sync", "av"}}
  IN [mid   |-> IF part THEN TRUE ELSE bytes = {} /\ view.mid,
      torn  |-> view.torn \/ (view.mid /\ begun # {} /\ ~Head(queue).sent),
      first |-> IF rtp = {} THEN view.first
                ELSE FirstSeen(queue[CHOOSE i \in rtp : \A k \in rtp : i <= k].what)]

\* on_client_writable, on_downstream_writable.
Writable(j, part) ==
  /\ Exists /\ wantOut
  /\ j \in 0..Len(queue)
  /\ part => j < Len(queue) /\ ~queue[j + 1].sent /\ queue[j + 1].what # "void"
  /\ queue' = Remaining(j, part)
  /\ pool' = Release(pool, Len(queue) - Len(queue'))
  /\ wantOut' = WantsOut(queue')
  /\ view' = Seen(j, part)
  /\ UNCHANGED <<config, kind, phase, waiting, hasPort, replies, others, fresh, dropped>>

---------------------------------------------------------------------------
(* The other sessions *)

OthersAcquire ==
  /\ others < MaxOthers
  /\ others' = others + 1
  /\ pool' = Acquire(pool)
  /\ UNCHANGED <<config, session, ghosts>>

OthersRelease ==
  /\ others > 0
  /\ others' = others - 1
  /\ pool' = Release(pool, 1)
  /\ UNCHANGED <<config, session, ghosts>>

Next ==
  \/ \E k \in {"http", "udp"} : Open(k)
  \/ \E tcp \in BOOLEAN : MitmSetup(tcp)
  \/ HttpPlay \/ (\E play \in BOOLEAN : MitmReply(play))
  \/ Close \/ Destroy
  \/ \E d \in Arriving : HttpRtp(d)
  \/ \E d \in Arriving : MitmRtp(d)
  \/ (\E held \in {0, 1} : MitmRtcp(held)) \/ FromClient
  \/ \E j \in 0..Len(queue), part \in BOOLEAN : Writable(j, part)
  \/ OthersAcquire \/ OthersRelease

Spec == Init /\ [][Next]_vars

\* A client that reads: whenever its connection is reported writable, something leaves.
Sends == \E j \in 0..Len(queue), part \in BOOLEAN : Writable(j, part) /\ queue' # queue

FairSpec == Spec /\ WF_vars(Sends)

---------------------------------------------------------------------------
(* Properties *)

\* No block is lost or counted twice: what the pool has allocated is free, queued or
\* with another session, on every path a packet can take (sent, dropped for a newer
\* one, refused by the pipeline, left over in a destroyed session); a block is allocated
\* only when none is free; and media for a slow client cannot make the pool grow beyond
\* the queue limit and the blocks a handler holds for a moment.  Responses can: they are
\* queued without a limit, so that the bound has as many blocks more as there are of them
\* (MaxReplies).
PoolAccounted ==
  /\ pool.total = pool.available + Len(queue) + others
  /\ pool.total = Larger(PoolSize, pool.peak)
  /\ pool.peak <= MaxOthers + Larger(HttpLimit + 2, MitmLimit + MaxReplies + 3)

\* Unless the queue overflowed, the client receives whole packets: a packet sent in part
\* is continued where it stopped before anything else is sent.
FramesWhole ==
  ~dropped => /\ ~view.torn
              /\ Exists => (view.mid <=> queue # <<>> /\ Head(queue).sent)

\* With wait_keyframe the first RTP packet that a client gets has in it what check_keyframe
\* accepts, also when packets arrive before the response to PLAY, which resets the gate,
\* and whatever is stripped; unless it was dropped, by a queue that overflowed or for want
\* of the client's port, or overtaken, in a session whose client went over to UDP with RTP
\* still in its queue.  That need not be a keyframe, from which forwarding starts by
\* README.md:156 ("确保从关键帧开始转发"): a PAT is accepted on purpose, an audio PES by mistake.
SyncPointFirst ==
  config.wait /\ ~dropped => view.first \in {"none", "sync", "overtaken"}

\* The in-place loop leaves exactly the TS packets that are not null packets, whole and
\* in order, for every payload that a session may read first, with or without padding,
\* an incomplete TS packet at its end or a padding length that does not fit.  It depends
\* on no state, and is evaluated between two sessions.
PipelineCorrect ==
  ~Exists => \A d \in FirstDatagrams :
    LET u == Unpadded(d)
    IN /\ d.header /\ IsTs(u) => Stripped(d, TRUE) = Kept(u)
       /\ Passes(d, FALSE, TRUE) /\ d.header /\ u # <<>> => Stripped(d, TRUE) # <<>>

\* What is queued is awaited with EPOLLOUT, so that it cannot get stuck, whichever handler
\* queued it and whatever the last send left; only the HTTP response header waits for the
\* first datagram.
MediaWakesClient == (\E i \in DOMAIN queue : queue[i].what # "header") => wantOut

\* A client that reads gets the rest of a packet it has got a part of: unless its session
\* ends or packets are dropped, it is between two packets again and again, or packets
\* are completed again and again.
PacketCompleted ==
  \/ []<>(~view.mid \/ ~Exists \/ dropped)
  \/ []<><<Len(queue') < Len(queue)>>_vars
=============================================================================
