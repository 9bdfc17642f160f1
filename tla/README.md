# A TLA+ verification project for rtsproxy

rtsproxy is a single-threaded, epoll-driven proxy for IPTV: a client asks for an
RTSP stream over HTTP (`/rtp/...`, `/tv/...`) or over RTSP, the proxy fetches it from the
upstream server and relays the media. This directory holds TLA+ models of its
core, TLC configurations that check them on small instances, and TLAPS proofs of
the properties that matter most for every instance. Paths below are relative to
the repository's root.

## 1. Inventory

| Component | State | Operations | Hard part |
|---|---|---|---|
| Reactor: `src/core/epoll_loop.cpp`, `include/common/socket_ctx.h` | epoll table of raw `SocketCtx*`, `ctx_ptr_map`, `client_ptr_map`, `deferred_delete_ctx_`, `task_queue_` | `set`, `remove`, `defer_delete`, `add_task`, `add_client_to_map`, `loop` | pointers fetched by `epoll_wait` are used after handlers of the same batch have closed things; descriptor numbers are reused |
| Accept and routing: `src/core/proxy_server.cpp`, `src/handlers/*.cpp` | none of their own | accept, `MasterHandle::handle`, the two streaming handles | who closes the descriptor, on which path, how often |
| MITM session: `src/clients/rtsp_to_rtsp_client.cpp` | connection state, two send queues, `pending_play_`, `pending_setup_req_`, `last_setup_req_`, `setup_retry_with_tcp_`, relay sockets, timer | relay of requests and responses, 461 fallback, STUN pause, keepalives, media | one state variable for several activities; responses matched by position, not by CSeq |
| HTTP session: `src/clients/rtsp_to_http_client.cpp` | `state_`, one request slot and its send offset, `send_queue_`, sockets, timer | the RTSP dialogue, fallback, STUN, keepalives, media | the slot is overwritten by keepalives; three writers on one connection; bounded queue |
| Admission: `request_parser.cpp`, `rtsp_parser.cpp`, `blacklist_checker.cpp`, the handles | none | token, URL, blacklist and loopback checks | masks at the ends of their range; names and addresses |
| Media path: `BufferPool`, `RtpPipeline`, the two sessions' queues | free blocks and counters; `wait_for_keyframe_`; packets with an offset | acquire, release; process, reset; queue, drop, send | who returns a block on which path; partial sends; a gate that is reset while media flows |
| `Logger`: `src/core/logger.cpp` | stream with its buffer, `currentLogLines`, `logMutex` | log, flush, rotate | two processes share the file and its path |
| `PortPool`: `src/core/port_pool.cpp`, `bind_udp_pair_from_pool` in `src/utils/socket_helper.cpp` | `next_port_`, `used_ports_` | `acquire_pair`, `mark_occupied`, `release_pair` | partial failure of a bind, exhaustion, sessions that die half-way |
| Watchdog and signals: `src/core/proxy_server.cpp`, `src/main.cpp` | `worker_pid`, processes, pending signals, `logMutex` | fork, waitpid, restart, signal handlers | a signal between any two instructions; reused process numbers |
| `StunClient` | none | build, parse, extract the mapping | a datagram that never comes |
| `URLRewriter`, SDP and header parsing | none | pure functions on text | text formats |
| `DNSResolver`, `ApiHandle`, web UI, `Statistics`, `ServerConfig` | counters, options | I/O | none of their own |

How they interact: the reactor calls a `SocketCtx`'s closure; the closure of a
fresh connection is `MasterHandle`, which may construct a session that takes the
descriptor over and installs its own contexts. A session reports its end through a
closed-callback that queues a task; the reactor destroys the session after the
batch. Sessions lease ports from the pool in their constructor or at the first
SETUP and return them in their destructor. A media packet is read into a block of the
pool that all sessions share, passes the session's pipeline and waits in the session's
queue for the client's connection. The worker runs all of this; the supervisor sees its
exit status, and shares the log file with it.

What makes each part correct:

* reactor: no handler is reached through a dangling pointer, no descriptor number is
  confused with its next user, a closed session is destroyed in the same cycle;
* sessions: only permitted requests get one, and no permitted one is refused without a
  reason; requests and responses are neither lost, doubled nor cut off; a dialogue ends;
* media: blocks are neither lost nor doubled, packets stay whole, the first one is a point
  to start from, queued bytes are always awaited;
* pool: leases are exclusive, and every used port is accounted for;
* watchdog: one worker at a time, restarted after a crash and not after a stop; its log
  lines are written once and its log stays in place.

## 2. Modules

`PROJECT.json` maps every definition to the lines it models. Definitions named
`X_Something` are deliberately broken variants of `X`; each shows that a property
would notice that mistake. `Induction` is the principle that the proofs about loops rest
on; it models nothing.

### EpollLoop (`EpollLoopProofs`, `MC_EpollLoop`)

The state is identity and ownership: which number is open, which pointer the kernel
has for it (`interest`), which `unique_ptr` owns a context (`ctx_ptr_map`,
`deferred`, a session's slot `slotCtx`), which guard holds a number (`slotFd`), and
what a context's closure captured (`handler`). Actions: `EpollWait`; the accept loop
(`AcceptBegin`, `AcceptOne`, `AcceptDone`); the outcomes of `MasterHandle::handle`
(`MasterAgain`, `MasterClose`, `MasterThrow`, `MasterStream`); of a session's event
(`ClientIdle`, `ClientClose`, `ClientOpen`); `BatchDone`, `RunTask` and `EndCycle`.
A handler runs to completion, so it is one step; accepting is split because it loops.
A session has four slots: downstream, upstream, the relay sockets (opened and closed
together) and the timer. What bytes are relayed is left out: whichever data arrives,
an event has one of the listed effects on the loop.

`Iface` says whether an upstream interface is configured. Then `SO_BINDTODEVICE` may fail,
and `bind_udp_socket` closes the socket but leaves its number in the session's guard
(`src/utils/socket_helper.cpp:141-147`; `shut` in `MasterStream` and `ClientOpen`). An HTTP
session lives on with it. The next socket or connection may get the number, so that in
these behaviours a guard may close a stranger's descriptor, a session may register its own
context for a stranger's number (`Rearmed`) or find its own taken (`Displaced`), a re-armed
timer may close itself, a fresh connection's `recv` may fail (`MasterClose`), and
`add_client_to_map` may drop a session whose number is in the map already (`MasterThrow`).

Kernel (external): a new descriptor or allocation is any free one; closing the last
descriptor of a socket drops its registration. A fresh `SocketCtx` is taken to differ
from pointers still pending, so that a dangling pointer stays visible as one.

### PortPool, PairAllocator (`PortPoolProofs`, `MC_PortPool`)

`PortPool` models the pool together with its users. `BindPair` is one round of
`bind_udp_pair_from_pool`, with binds that succeed or fail and other processes
(external) taking ports in between; `OpenHttp`, `OpenMitm`, `Setup` and `Destroy` are
the sessions. `AcquireLoop` is `acquire_pair` as written, a bounded cyclic scan: a
recursive function of the number of rounds, with the pair found and `next_port_` in its state;
`FirstFree` is the specification of it that the actions use, and `ScanCorrect`
compares the two in every reachable state. `lost` is a ghost: the pairs whose number
a failed round overwrote. `PairAllocator` is the abstract promise: a pair is free,
leased to one holder, or lost for good. `PortPool` implements it under the mapping
`Owner`.

### MitmClient (`MitmClientProofs`, `MC_MitmClient`)

One `RTSPToRtspClient` with its client and its server. The parse loop of
`on_downstream_readable` is one step per request (`ForwardRequest`, `ForwardSetup`,
`PauseSetup`, `RelayFails`) and excludes other handlers while it runs. `Drain` is the
send loop of `on_upstream_writable`: any number of messages leave, then the queue is
empty, the socket is full, or an error closes the session. `KeepaliveReply`,
`RetryOverTcp` and `RelayReply` are what `on_upstream_readable` does with a response.
`Answers` is what the client has received, without the media.
`RtpWhileStun`, `StrayStunReply` and `StunLost` are the fates of the STUN exchange.

Abstractions: streams carry whole messages (the code acts on complete ones only; a
partially sent one counts as not sent); the client numbers its requests 1, 2, ...;
headers are reduced to the transport of a SETUP and whether it names the proxy's
ports; the server (external) answers in order and answers 461 to SETUP only. Media from
the client to the server and ZTE heartbeats touch no state of the dialogue.

### Admission, HttpClient (`HttpClientProofs`, `MC_HttpClient`)

`Admission` holds the checks that a request passes before a session is made: the token
(`RequestParser::parse`), the upstream's host and port (`rtspParser::parse_url`), the
blacklist against the name and against every address the resolver returns, and the
loopback check. Host names are sequences of words, addresses have four bits instead of
32, and `match_cidr` keeps its masks. `Permitted` says what token, form and blacklist allow
without masks and prefixes, with block arithmetic and concatenation. `ReachesSelf` says when
the upstream is the proxy itself, from where `create_nonblocking_tcp` connects to (`Target`)
and from the proxy listening on every address, and not from `is_loopback`. `AdmissionExact`
compares: a session is made only for permitted requests, and a permitted request is refused
only if it leads back to the proxy. The converse, that every such request is refused, does
not hold (section 5).

`HttpClient` is one `RTSPToHttpClient` from that request on. `cur` is
`current_request_`; `sending` says how much of `req_buf_` has left, during which the
connection waits for EPOLLOUT only; `inflight` is what the server has received. A
response is attributed to `cur` as in the code; that this is right is `RepliesMatch`.
`torn` records requests of which a part was sent and then something else, for
`DialogueWhole`. `TurnAway`, `Construct`, `RtspWritable`, `RetryOverTcp`, `Refused`,
`Accepted`, `ServerRequest`, `Timer`, `StunReply` and the failure steps are the handlers.
The server (external) answers in order and sends requests of its own at any time.

### BufferPool, RtpPipeline, MediaPlane (`RtpPipelineProofs`, `MediaPlaneProofs`, `MC_MediaPlane`)

`BufferPool` is three numbers and the two operations on them. `RtpPipeline` is one
packet's way through `process`: the wait_keyframe gate, padding, and the loop that removes
null packets in place (`WithoutNull`, a recursive function with the buffer in its state,
because a later iteration reads what an earlier one has moved). A payload is a sequence
of units, `TsSize` of which are a TS packet; what `check_keyframe` finds in a TS packet is
an attribute of its first unit: a keyframe, a PAT, an audio PES whose start code reads as a
VPS, a null packet, a null packet with signs of a keyframe, or none of these. `Accepted` are
those that open the gate. `Kept` is the definition that the loop is compared with.

`MediaPlane` composes both with the queues of the sessions. One session is followed
through its lives, as an HTTP session, a MITM session with a client on TCP, or one with a
client on UDP: `Open`, `MitmSetup` (every SETUP decides anew between TCP and UDP, whatever
is queued), `HttpPlay` and `MitmReply` (both reset the gate), `HttpRtp`, `MitmRtp`,
`MitmRtcp`, `FromClient`, `Writable`, `Close`, `Destroy`. The blocks of all
other sessions are a number that changes at any time. A queue entry is a kind of content
and whether a part of it has been sent; `Writable(j, part)` sends `j` entries and a part
of the next. `view` records what the client sees (in the middle of a packet, a packet cut
off, the first RTP packet, or that it may have been overtaken by media on UDP), `dropped`
that something which passed the pipeline was discarded. A packet too large for a block is
cut to its size by `send_interleaved_downstream` (lines 660-663); lengths are not modelled,
and such a packet counts as one like any other. The HTTP and the MITM code differ in where the block is acquired, whether the
packet is copied, what happens after closing, and in the events they register; all four
differences are in the actions.

### Watchdog, LoggedWatchdog (`WatchdogProofs`, `MC_Watchdog`, `MC_LoggedWatchdog`)

`Watchdog`: supervisor and worker as processes, one step per instruction that a signal
handler can tell apart: the return of `fork` and the store to `worker_pid` are two steps in
both processes. Process numbers are reused, by workers and by other programs. A signal that
arrives inside `Logger::log`, also inside the call that `crash_handler` makes, finds
`logMutex` held by its own thread, and its handler, which logs, never returns.

`LoggedWatchdog` conjoins to each of these steps what it does to the log: the levels and
which of them are flushed, the copy of the stream that a child gets, the two line counters,
and the rotation, which renames whatever is at the path. The state of a process's `Logger`
is where its open file is now (`path`, renamed to `.1`, replaced there), whether it opened
it itself, its counter and whether its buffer holds lines.

## 3. Runs

| Run | Configuration | Shows |
|---|---|---|
| `reactor` | 4 descriptors, 4 contexts, 2 sessions, batches of up to 3, an upstream interface that may fail (`Iface`), symmetry | event pointers are live, registrations owned, tasks remove their own session, handlers outlive their call |
| `reactor_live` | 3, 3, 2, batches of up to 3, no interface, no symmetry, fairness | numbers are closed by one owner; a closed session is destroyed; the loop returns to `epoll_wait` |
| `port_pool` | ports 2..7 (three pairs), 2 sessions, 2 tries | exclusive, accounted leases; the scan; the refinement of `PairAllocator` |
| `mitm` | 3 requests, no pipelining, STUN on and off, a lost reply, 2 keepalives, queue limit 1 | conservation of requests, no lost wake-up, patched SETUPs; without STUN, answers and PLAY detection |
| `http` | about 340 calls: every address against nine blocks and six other patterns, names, an empty host, tokens, ports, malformed requests; 2 keepalives, STUN on and off | sessions only for permitted requests, and for all of them that do not lead back to the proxy; responses are attributed correctly, no request is cut off, the dialogue ends |
| `media` | pool of 2, queue limits 1, TS packets of 2 units, first payload any of up to 3 TS packets or with odd ends and padding, 1 relayed response, 1 block with other sessions | blocks accounted for, packets whole, an accepted packet first, stripping, wake-ups, completion, with clients that change their transport |
| `watchdog` | 3 process numbers, rotation after 2 lines | one worker; the supervisor waits for its own child; crash restarts, stop does not; lines once, log in place |

Runs that refute what the documentation says (findings):

| Run | Refuted statement | What happens |
|---|---|---|
| `mitm_fallback` | the fallback is "fully transparent to the client" (README.md:153) | a UDP client gets a SETUP response with a TCP transport |
| `mitm_stun_state` | "We forward every request" (`rtsp_to_rtsp_client.h:25`) | a send that completes during the STUN pause overwrites `WAIT_STUN`; the paused SETUP is never sent |
| `mitm_cseq` | "relay the upstream responses back to the client" (`:26`) | the response to the client's own request number 99 is swallowed as a keepalive's |
| `watchdog_stop` | "Killing worker and exiting..." (`proxy_server.cpp:25`) | SIGTERM between `fork` and the store to `worker_pid` orphans the worker |
| `watchdog_deadlock` | restart after a crash (README.md:115) | a crash inside `Logger::log` blocks the handler on `logMutex`; `waitpid` never returns |

Bounds. The reactor's errors need at most a descriptor and its next user, a re-armed
timer (two contexts of one slot) and two events of one batch; four numbers and two
sessions contain all of these, and the proofs remove the bound. Two numbers are enough for
a guard with a closed number and the owner it is given to; in `reactor_live` three are a
session with its upstream or timer and a second connection. Three pairs with two
sessions let one call fail, wrap around and run out while the other session holds a
lease. In `mitm`, three requests cover refused and repeated SETUPs, a refused PLAY
followed by another request, and SETUP with PLAY and keepalives after it; a queue limit
of 1 instead of 2048 overflows with two packets, and the code compares with the limit
only. In `media`, limits of 1 overflow with a third packet, while a part of the first may
have been sent; a pool of 2 is empty when the session queues two and another reads; three
TS packets are the least with which a kept packet moves over a moved one. Only the first
datagram of a session is any of the payloads (the gate and the stripping depend on one
packet at a time), the later ones are one of each sort. In `http`, blocks of all five sizes
over 16 addresses include both ends of the shift. In `watchdog`, a rotation after two lines
lets each process rotate several times; all start with a supervisor that has logged 0, 1 or
2. `KeepaliveCSeq` is 99, out of reach, except in `mitm_cseq`, where it is 2 so that
a client reaches it in two requests. `MaxKeepalives`, `StunLosses`, `MaxReplies` and
`MaxOthers` cap counters. `MaxReplies` also is a term of the bound in `PoolAccounted`: the
code queues responses without a limit, so that a client that asks and never reads makes the
pool grow by as many blocks as it asks for; only media is bounded by the queue limit. Three process numbers are a worker, its successor and a stranger.

`CHECK_DEADLOCK FALSE` is set for the dialogues and the watchdog, which really end.

Fairness. `EpollLoop`: handlers do not block, so an entered cycle goes on; nothing is
assumed about events. Sessions: level-triggered epoll reports a ready descriptor again
until its handler has run, so each handler is weakly fair; so are the server's answers
and a client that reads, without which no proxy makes progress. Timers and media are
not fair. In `media` only sending is fair, that is, the client reads; without it a packet
sent in part would stay so rightly. Watchdog: both processes are scheduled, and a pending signal is delivered.

## 4. Proofs

Every safety property of a passing run, invariant or action property, is also a theorem
of TLAPS. The theorems hold for every value of the constants that satisfies the
assumptions below: any number of descriptors, sessions, ports, requests, keepalives,
queue limits, pool sizes, process numbers and log lines. Where a theorem needs more than
the run's property says, the hypothesis is part of the theorem's statement.

**Reactor (`EpollLoopProofs`).** `TypeOK` and the five safety properties of the two
runs. All but `OneCloser` are proved without an assumption on `Iface`. They are not inductive by themselves: that a pending pointer is live depends
on who may free it, which depends on who holds its descriptor. `IndInv` says that
ctx_ptr_map's contexts captured their own number even when the entry is stale
(`MapHandlers`), a slot's context captured its session and slot (`SlotHandlers`), the
client map is keyed by the downstream number (`MapKeys`), only mapped sessions hold
anything (`HoldersMapped`), every registration has one of two owners (`Registrations`),
each undispatched pointer is backed by the accept map, its slot or the deferred list
(`Batch`), queue and batch are empty in the right phases (`Cycle`), and a queued session is
in the map under the number its task captured until tasks run (`Queued`). It says nothing of
which numbers guards hold, and so survives guards with closed or strangers' numbers. One
lemma per action; `HandlersSafe` is an action property from the same invariant. Without an
interface, `Exclusive` is invariant too (`GuardsExclusive`): guards hold distinct, open,
registered numbers (`SlotFds`), and an undispatched fresh connection still has its own
(`BatchRegistered`); `ClosersDistinct` (`OneCloser`) follows from it.

**Port pool (`PortPoolProofs`).** `TypeOK`, `LeasesDisjoint`, `UsedAccounted`,
`BoundIsLeased`, the refinement of `PairAllocator` and `ScanCorrect`, for every even range
below 65536. The strengthening: holders have distinct pairs that are not lost
(`PortsDistinct`), `used` port by port (`UsedPorts`), sessions before SETUP and after
destruction hold nothing (`EmptyHands`), the call in progress belongs to a live session
and an unbound side (`CallFresh`). `Owner` uses CHOOSE; `OwnerFacts` turns it into facts
about the unique holder, and each action is shown to be a `Take`, `Forfeit`, `Return` or
a stutter. `ScanFinds` is an induction over the rounds of the loop: after i rounds it has
either passed i pairs, none of them free, or has stopped at the first free one
(`AfterRounds`); the cyclic scan visits every pair of the range (`CycleFacts`).

**MITM session (`MitmClientProofs`).** `IndInv` says which messages each queue may hold
and that only a keepalive has no number (`Shape`), that a paused or repeatable SETUP is
one and that the relay then exists (`SetupStored`), and what has not happened before the
upstream connection is there (`Connecting`). It holds of every client. On it rest

* `NothingForgotten` (`NoLostWakeup`), without any hypothesis, so also for a client that
  pipelines;
* `SetupsPatched` (`SetupPointsToUs`), if the first request is no SETUP: that one is
  forwarded unpatched (section 5);
* `NoRequestLost` (`RequestConserved`), if the client waits for each response
  (`Window = 1`) and the keepalives' CSeq is above its own. The run `mitm_cseq` shows that
  the second hypothesis is needed. `CountInv` counts each request over all places at once
  (`Tally`): a step moves one copy from one place to another, so the sum stays, where a
  claim about single places would not be inductive. That the code matches responses by
  position is right because the one request of the client on its way upstream is the SETUP
  that a 461 would repeat (`LastMatches`);
* `PlayRecognised` (`PlayDetected`), under the same hypotheses and with no PLAY as the
  first request: `pending_play_` says whether the one request under way is a PLAY
  (`Flagged`).

Requests are counted with `Cardinality`; `AnswersFacts` is the induction over what
the client has received.

**Admission and HTTP session (`HttpClientProofs`).** `AuditExact`: for every request,
token, blacklist and resolver answer, `Admitted`, with the masks of `match_cidr` and the
suffix and prefix comparisons of `CheckOnce`, implies `Permitted`, and is implied by it unless
`ReachesSelf`. For the masks, a block's size
is a power of two up to 2^`Width`, so masking and block arithmetic are compared for each of
the `Width` + 1 sizes; the comparisons are cancellation laws of concatenation.
`AdmissionSafe` lifts it to the session. For the dialogue, `RepliesMatch` and
`DialogueWhole` need that nothing is sent before `is_init_ok_` (`Untouched`), that until the
first keepalive exactly one request is being sent or awaits its answer (`OneUnderWay`), and
that the timer is armed only when the dialogue is over (`TimerAfterDialogue`).

**Media (`RtpPipelineProofs`, `MediaPlaneProofs`).** `StrippingCorrect`: the loop that
moves TS packets inside one buffer leaves the kept packets, whole and in order, for every
payload and every size of a TS packet. The invariant of the loop is that the kept packets
of the part read stand at the front and the part not read is untouched, which holds because
the write offset never passes the read offset. `SyncPointForwarded`: a well-formed packet
that opens the gate is forwarded with what opened it. `MediaPlane`'s `IndInv` adds to the
run's properties that nothing is left of a destroyed session (`Clean`), the queue exceeds
its limit by responses only (`QueueBounded`; the bound on the pool's peak follows), and only
the head of the queue has been sent in part (`OnlyHeadSent`, without which a partial send
and a drop could interleave packets). `SyncPointComesFirst` takes `KeyInv` as well: the first
RTP packet in the queue has what `check_keyframe` accepts while none has been begun
(`KeyQueued`), an open gate means that one is queued or was sent (`GateOpen`), and a session
on UDP whose client has got nothing has none in its queue (`NoneBehind`). Its hypothesis, `WellFormed` datagrams,
is what `check_keyframe` takes for granted (section 5); the datagrams of the run satisfy
it (`WellFormedAssumption`).

**Watchdog and log (`WatchdogProofs`).** `OneWorker`, `WaitsForWorker` and `TermIsFinal`:
an unreaped process of the supervisor is the one it forked last (`OnlyChild`), there is none
between the return of `waitpid` and the next `fork` (`NoneBetween`), there is one from `fork`
to the return of `waitpid`, and `worker_pid` denotes it once stored (`OneBelow`); once a
worker has left on SIGTERM, its exit code is on its way to the decision to stop (`LastOne`).
`LogImplements` shows that the watchdog with its log implements the watchdog with its
fairness, so those theorems carry over (`LoggedSafe`). `LinesOnce` and `LogInPlace` need
`Flushed`: the supervisor's buffer is empty in every state in which it may fork or be killed,
and a worker's until it has its own signal handlers.

**Induction.** The library's induction theorems take an operator, which no installed prover
instantiates. `SetInduction` takes a set instead: with T the numbers for which a claim
holds, 0 in T and closure under successor give Nat. Least elements come from the
well-foundedness of < on Nat. Every result about a loop or a recursive function uses it;
for each of them the existence of a function that satisfies the recursion is proved first
(`ScanExists`, `LoopExists`, `FilterExists`).

Assumptions on constants, each evaluated by TLC in the runs: `SentinelAssumption` (null
values are no addresses) and `PidAssumption` (nor a process number); `RangeAssumption` (an
even, non-empty range of ports, as the constants in `include/core/port_pool.h` give one);
`CallsAssumption` and `DatagramsAssumption` (the inputs have their types);
`ModesAssumption`; and that bounds and sizes are numbers, not zero where the code's constant
is not: `MaxEventsAssumption`, `TriesAssumption`, `BoundsAssumption`, `PoolSizeAssumption`,
`TsSizeAssumption`, `MaxLinesAssumption`.

Only model-checked: the liveness properties (`RemovalHappens`, `BackToWait`,
`EveryRequestAnswered`, `DialogueEnds`, `PacketCompleted`, `DeathRestarts`, `TermStops`),
because the prover reasons neither about fairness nor about ENABLED. The five refuted
properties have counterexamples and no proofs. An address has four bits in the proof of
`AuditExact` as in the run: `Width` is a definition of `Admission`.

## 5. Observations beyond the runs

Met while modelling, visible in the models, and excluded from the passing runs by the
stated configuration or property:

* `include/core/port_pool.h:29` says an occupied port is "skipped for a while"; nothing
  erases it again (`lost` never shrinks), so it is skipped until the process ends.
* A second SETUP that is refused with 461 is passed on: `setup_retry_with_tcp_` is per
  session.
* Under STUN, a SETUP after a refused PLAY leaves `pending_play_` set, and its response
  starts streaming (`PlayDetected` is stated without STUN).
* A SETUP as the very first request is forwarded with the client's ports
  (`FirstKinds` in `mitm` has no SETUP).
* Media that overflows the queue can discard a relayed response or the HTTP response
  header. When the head of the queue was sent in part, the rest of it is discarded and the
  client is left in the middle of a frame; when it holds the packet that opened the gate,
  the client starts without it. A UDP client whose port is not known yet misses it too.
  `FramesWhole`, `SyncPointFirst` and `PacketCompleted` are stated for sessions without such
  a drop.
* Forwarding starts from a keyframe (`确保从关键帧开始转发`, README.md:156); `check_keyframe`
  accepts more. A PAT opens the gate on purpose (`src/protocol/rtp_pipeline.cpp:100`), and a
  client may well get audio and inter frames after it. An audio PES header, 00 00 01 C0,
  reads as an H.265 VPS (lines 120-121, (0xC0 >> 1) & 0x3F = 32). `SyncPointFirst` is about
  what the code accepts; a session whose first datagram is a PAT without a keyframe begins
  with that one.
* A null packet is not excluded from the test: one whose stuffing looks like a keyframe opens
  the gate and is then stripped (`nullkey`; excluded by `WellFormed`).
* Every SETUP decides anew on the client's transport (`rtsp_to_rtsp_client.cpp:882-891`).
  Media on UDP then overtakes what is queued for TCP, and a packet behind the one that opened
  the gate may arrive first (`overtaken` in `SyncPointFirst`).
* With an upstream interface on which `SO_BINDTODEVICE` fails, a session's guard keeps the
  number of a socket that `bind_udp_socket` has closed. The next owner of the number loses
  its registration and its descriptor when the session ends, and two sessions may send and
  read on each other's sockets. `OneCloser` is violated at once (set `Iface` in
  `EpollLoopLive.cfg`); no pointer dangles and no registration is without an owner, which
  `reactor` checks and the proofs show.
* Requests to the proxy's own listening port are recognised and refused
  ("自动识别并拒绝指向其自身监听端口的请求", README.md:142): `is_loopback` compares the host with
  127.0.0.1, localhost and the address that the client used. The proxy listens on every
  address (`socket_helper.cpp:44`), so 0.0.0.0, 127.0.0.2 and its other addresses lead back
  to it and are admitted. So are all names other than localhost and an empty host with a port
  (`rtsp_parser.cpp:226` only tests that the two together are not empty): `inet_pton` cannot
  read them, its result is ignored (`socket_helper.cpp:75`), and the address stays 0.0.0.0.
  `AdmissionExact` with "is not `ReachesSelf`" added to its first half is violated.
* When the RTSPToRtspClient constructor throws, its guard and then `MasterHandle` close the
  connection's number. Between the two only the error message is logged; a rotation of the
  log at that line may open the new file under the number, which is then closed
  (`rtsp_to_rtsp_handle.cpp:47`; one step, without the logger, in `MasterThrow`).
* Requests buffered behind a paused SETUP are parsed only when the client sends more
  (`rtsp_to_rtsp_client.cpp:925`), and a STUN reply that is lost is neither asked for again
  nor timed out.
* `on_rtcp_readable` and `on_client_readable` of the HTTP session read nothing; with
  level-triggered epoll the loop spins while data waits. When `epoll_wait` fails, the worker
  exits with 0 and the watchdog takes it for a regular end (`LoopReturns`).
* SIGTERM while `crash_handler` logs hangs the worker like the crash inside `Logger::log`
  (`WorkerSignal`).
* A packet that arrives before the response to PLAY may open the gate and is forwarded;
  `reset()` then closes the gate again, and the client has a gap until the next such packet.
* The HTTP response header is queued without EPOLLOUT: the client gets it with the first
  datagram, not before (`MediaWakesClient` excepts it).
* `check_keyframe` does not look for padding and tests the sync byte of the first TS packet
  only. A packet whose padding is as long as a TS packet may open the gate with what stands
  in the padding, and is then forwarded without it (`SyncPointComesFirst` is proved for
  datagrams that are `WellFormed`).
* A prefix length outside 0..32 in the blacklist reaches the shift of `match_cidr`, which is
  undefined for it; `CallType` has lengths from 0 to the width of an address.
* With `strip_padding` off, RTP padding is part of what an HTTP client receives.
* A keepalive that falls due while the previous one is sent in part replaces it, and the
  server receives the beginning of one request followed by another (`DialogueWhole`
  excepts keepalives). It takes a connection that does not accept a request for a whole
  keepalive interval.
* `on_downstream_readable` ends a request at the empty line; the body of one that has a
  body is taken for the next request. RTCP that a client sends over TCP is relayed only
  when the upstream uses UDP.
* `log_lines` ("日志文件最大滚动行数", README.md:112) bounds the lines of one process, not of
  the file: supervisor and worker count separately, a file that exists at the start is
  appended to with a count of 0, and a restarted worker writes to the file the supervisor
  has open, which its predecessor may have renamed or replaced (`LogInPlace` is about the
  supervisor's rotations only).
* The last line of `supervisor_sig_handler` is INFO and not flushed before `_exit`, so that
  it does not reach the file (`LinesOnce` is about lines logged before).
* `url_rewriter.cpp:26` and `:31` replace one character more than `{word}` and `{any}`
  have.
* After a worker was reaped, `worker_pid` keeps its number until the next fork; a stop
  in that interval signals whoever has it (second half of `StopKillsWorker`).

## 6. Not modelled

* Text formats: URL rewriting (regular expressions and time shifts), SDP, header fields,
  STUN encoding. They keep no state; the models start from parsed messages.
* The bytes by which a TS packet is accepted (PID, random access indicator, NAL scan) are an
  attribute of the packet, because a model of the bytes would repeat the code.
* The JSON API, the web UI and statistics: reports that nothing depends on. `ServerConfig`:
  option parsing; its values are constants and initial states of the models.
* Media from a client to the server over TCP, and ZTE heartbeats: sends without effect on
  the proxy's state.
* The body of `getaddrinfo`, packaging, and the vendored `include/3rd/json.hpp`, which is
  25,712 of the repository's 31,618 lines of C++; the program's own code is about 5,900.
* A composition of reactor, pool and dialogues in one specification: they share no state
  beyond the descriptors and the closed-callback, which `EpollLoop` already has for every
  order of events, and the product would be beyond TLC.

## 7. Plan

All safety properties of the passing runs are proved. What is worth adding:

* an abstract specification of a relay (a request is asked, then answered once or given up)
  that both dialogues implement, proved with the invariants of section 4;
* the order of responses: a client gets them in the order of its requests, which needs a
  strengthening of `CountInv` from numbers to sequences;
* `RequestConserved` for clients that pipeline (`Window` > 1), with the conditions on 461
  and STUN under which it holds;
* `AuditExact` for addresses of any width.
