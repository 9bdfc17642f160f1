----------------------------- MODULE EpollLoop -----------------------------
(***************************************************************************)
(* The single-threaded reactor of rtsproxy: EpollLoop, the accept handler  *)
(* of ProxyServer, the routing of MasterHandle, and the part of a proxy    *)
(* session (RTSPToHttpClient, RTSPToRtspClient) that touches the loop.     *)
(*                                                                         *)
(* The state is about identity and ownership.  The kernel's epoll table    *)
(* holds raw SocketCtx pointers (`interest'); a SocketCtx is owned by a    *)
(* unique_ptr in ctx_ptr_map, in deferred_delete_ctx_ or in a session; a   *)
(* session is owned by client_ptr_map and closes its descriptors when it   *)
(* is destroyed, after which the kernel may hand the numbers out again.    *)
(* A pointer fetched by epoll_wait is used until the batch is finished.    *)
(*                                                                         *)
(* What a session does with the bytes is abstracted: an event on one of    *)
(* its contexts opens a socket or re-arms the keepalive timer, asks for    *)
(* removal, or leaves the loop's state alone.  The RTP and RTCP relay      *)
(* sockets, which are opened and closed together, are one slot.            *)
(*                                                                         *)
(* A guard may hold a number that is not open: bind_udp_socket writes the  *)
(* socket into the guard, and when SO_BINDTODEVICE fails it closes the     *)
(* socket and leaves the number there.  This happens only when the         *)
(* configuration names an upstream interface (`Iface').                    *)
(***************************************************************************)
EXTENDS Naturals, Sequences, FiniteSets

CONSTANTS
  Fds,        \* descriptor numbers the kernel may hand out to connections
  Ctxs,       \* addresses a SocketCtx may be allocated at
  Clients,    \* addresses a session object may be allocated at
  MaxEvents,  \* EpollLoop::max_events_, the longest batch
  Listen,     \* the SocketCtx of the listening socket; it is never removed
  Iface,      \* an upstream interface is configured, SO_BINDTODEVICE may fail
  NoFd, NoCtx, NoClient

ASSUME SentinelAssumption ==
  /\ NoFd \notin Fds
  /\ NoCtx \notin Ctxs
  /\ NoClient \notin Clients
  /\ Listen \notin Ctxs \cup {NoCtx}

ASSUME IfaceAssumption == Iface \in BOOLEAN

ASSUME MaxEventsAssumption == MaxEvents \in Nat \ {0}

\* The descriptors of a session, each an FdGuard with a SocketCtx beside it:
\* the downstream connection, the upstream connection, the UDP relay sockets,
\* the keepalive timer.
Slots == {"down", "up", "relay", "timer"}
Kinds == {"http", "mitm"}

\* The slots whose FdGuard carries the loop when it is destroyed, and so calls
\* EpollLoop::remove before close.  `up' and `timer' lose the loop when they are
\* assigned from a plain int; the relay guards of RTSPToHttpClient never had it.
Guarded(k) == IF k = "mitm" THEN {"down", "relay"} ELSE {"down"}

VARIABLES
  open,            \* descriptors in use (kernel)
  interest,        \* kernel epoll table: descriptor -> SocketCtx pointer
  ctx_ptr_map,     \* EpollLoop::ctx_ptr_map
  client_ptr_map,  \* EpollLoop::client_ptr_map
  deferred,        \* EpollLoop::deferred_delete_ctx_
  task_queue,      \* EpollLoop::task_queue_, removal tasks in order
  phase,           \* where EpollLoop::loop is
  pending,         \* SocketCtx pointers of events_ not yet dispatched
  handler,         \* SocketCtx::handler, what the closure captured
  slotFd,          \* descriptor held by a session's FdGuard
  slotCtx,         \* SocketCtx owned by a session
  kind             \* concrete type of the session object

vars == <<open, interest, ctx_ptr_map, client_ptr_map, deferred, task_queue,
          phase, pending, handler, slotFd, slotCtx, kind>>

kernel == <<open, interest>>
loop   == <<ctx_ptr_map, client_ptr_map, deferred>>
object == <<handler, slotFd, slotCtx, kind>>

\* The accept handler's lambda captures the descriptor; a session's captures
\* `this' and the member function.
MasterOf(fd)    == [fd |-> fd, client |-> NoClient, slot |-> "down"]
SessionOf(c, s) == [fd |-> NoFd, client |-> c, slot |-> s]
Blank == [fd |-> NoFd, client |-> NoClient, slot |-> "down"]
Handlers == [fd : Fds \cup {NoFd}, client : Clients \cup {NoClient}, slot : Slots]

\* A task is the lambda the closed-callback queues: it captures client_fd only.
\* `by', the session that queued it, is a ghost the code does not have.
Tasks == [fd : Fds, by : Clients]

TypeOK ==
  /\ open \subseteq Fds
  /\ interest \in [Fds -> Ctxs \cup {NoCtx}]
  /\ ctx_ptr_map \in [Fds -> Ctxs \cup {NoCtx}]
  /\ client_ptr_map \in [Fds -> Clients \cup {NoClient}]
  /\ deferred \subseteq Ctxs
  /\ task_queue \in Seq(Tasks)
  /\ phase \in {"wait", "dispatch", "accept", "tasks"}
  /\ pending \subseteq Ctxs \cup {Listen}
  /\ handler \in [Ctxs -> Handlers]
  /\ slotFd \in [Clients -> [Slots -> Fds \cup {NoFd}]]
  /\ slotCtx \in [Clients -> [Slots -> Ctxs \cup {NoCtx}]]
  /\ kind \in [Clients -> Kinds]

---------------------------------------------------------------------------
(* Ownership *)

Alive == {c \in Clients : \E fd \in Fds : client_ptr_map[fd] = c}

\* The contexts some unique_ptr owns; every other address is freed memory.
InMap     == {x \in Ctxs : \E fd \in Fds : ctx_ptr_map[fd] = x}
InSession == {x \in Ctxs : \E c \in Clients, s \in Slots : slotCtx[c][s] = x}
Live      == InMap \cup InSession \cup deferred

\* An allocation returns memory nobody owns.  It is taken to differ from every
\* pointer still in use as well, so that a dangling pointer stays recognisable.
FreshCtxs ==
  {x \in Ctxs \ (Live \cup pending) : \A fd \in Fds : interest[fd] # x}

FreshFds == Fds \ open

---------------------------------------------------------------------------
(* Updates that several handlers share *)

\* Mutant: the replaced context is destroyed instead of parked.
Parked_Destroyed(F) == {}

\* EpollLoop::remove and the owning EpollLoop::set both move the context that
\* ctx_ptr_map has for a descriptor into deferred_delete_ctx_.
Parked(F) == {ctx_ptr_map[fd] : fd \in F} \ {NoCtx}

\* Mutants: the old timer context is destroyed at once; a null one is parked.
Replaced_Destroyed(c, s) == {}
Replaced_Null(c, s) == {slotCtx[c][s]}

\* EpollLoop::defer_delete of the timer context that a re-arm replaces.
Replaced(c, s) == {slotCtx[c][s]} \ {NoCtx}

\* close(2) on the descriptors F drops their epoll registrations.
Closed(F, table) == [fd \in Fds |-> IF fd \in F THEN NoCtx ELSE table[fd]]

\* Mutant: a guard without a loop forgets to close.
HeldFds_Guarded(c) == {slotFd[c][s] : s \in Guarded(kind[c])} \ {NoFd}

\* The descriptors a session's guards hold, those that are EpollLoop::removed.
HeldFds(c)    == {slotFd[c][s] : s \in Slots} \ {NoFd}
RemovedFds(c) == {slotFd[c][s] : s \in Guarded(kind[c])} \ {NoFd}

\* The connections of a session whose number is open under another registration
\* or none, which only a stranger's close can bring about.
Displaced(c) ==
  {s \in {"down", "up"} : slotFd[c][s] \in open /\ interest[slotFd[c][s]] # slotCtx[c][s]}

\* EpollLoop::set with the session's own context, to change the event mask of its
\* connections: it adds the registration or replaces the one the number has.  S
\* are the connections it makes a difference to.
Rearmed(c, S) ==
  [fd \in Fds |-> IF "down" \in S /\ slotFd[c]["down"] = fd THEN slotCtx[c]["down"]
                  ELSE IF "up" \in S /\ slotFd[c]["up"] = fd THEN slotCtx[c]["up"]
                  ELSE interest[fd]]

NoFds  == [s \in Slots |-> NoFd]
NoCtxs == [s \in Slots |-> NoCtx]

\* The closed-callback: add_task of the lambda that removes `client_fd'.
RemovalTask(c) == [fd |-> slotFd[c]["down"], by |-> c]

\* RTSPToRtspClient::close_all runs the callback once (closed_); the error paths
\* of RTSPToHttpClient run it every time.
MayClose(c) ==
  kind[c] = "http" \/ \A i \in 1..Len(task_queue) : task_queue[i].by # c

---------------------------------------------------------------------------

Init ==
  /\ open = {}
  /\ interest = [fd \in Fds |-> NoCtx]
  /\ ctx_ptr_map = [fd \in Fds |-> NoCtx]
  /\ client_ptr_map = [fd \in Fds |-> NoClient]
  /\ deferred = {}
  /\ task_queue = <<>>
  /\ phase = "wait"
  /\ pending = {}
  /\ handler = [x \in Ctxs |-> Blank]
  /\ slotFd = [c \in Clients |-> NoFds]
  /\ slotCtx = [c \in Clients |-> NoCtxs]
  /\ kind = [c \in Clients |-> "http"]

\* epoll_wait returns some ready contexts, at most max_events_ of them.
EpollWait(X) ==
  /\ phase = "wait"
  /\ X # {} /\ Cardinality(X) <= MaxEvents
  /\ X \subseteq ({interest[fd] : fd \in Fds} \ {NoCtx}) \cup {Listen}
  /\ pending' = X
  /\ phase' = "dispatch"
  /\ UNCHANGED <<kernel, loop, task_queue, object>>

\* The accept handler loops until accept(2) fails.
AcceptBegin ==
  /\ phase = "dispatch"
  /\ Listen \in pending
  /\ phase' = "accept"
  /\ UNCHANGED <<kernel, loop, task_queue, pending, object>>

AcceptOne(fd, x) ==
  /\ phase = "accept"
  /\ fd \in FreshFds /\ x \in FreshCtxs
  /\ open' = open \cup {fd}
  /\ handler' = [handler EXCEPT ![x] = MasterOf(fd)]
  /\ deferred' = deferred \cup Parked({fd})
  /\ ctx_ptr_map' = [ctx_ptr_map EXCEPT ![fd] = x]
  /\ interest' = [interest EXCEPT ![fd] = x]
  /\ UNCHANGED <<client_ptr_map, task_queue, phase, pending, slotFd, slotCtx, kind>>

\* Mutant: accept(2) is retried on EAGAIN.
AcceptDone_Retry ==
  /\ phase = "accept"
  /\ UNCHANGED vars

AcceptDone ==
  /\ phase = "accept"
  /\ pending' = pending \ {Listen}
  /\ phase' = "dispatch"
  /\ UNCHANGED <<kernel, loop, task_queue, object>>

\* ctx->handler(events): x is the next pointer of the batch.
Dispatch(x) ==
  /\ phase = "dispatch"
  /\ x \in pending \cap Ctxs
  /\ pending' = pending \ {x}
  /\ phase' = phase

IsMaster(x)  == handler[x].client = NoClient
IsSession(x) == handler[x].client \in Clients

\* MasterHandle::handle, recv gives EAGAIN.
MasterAgain(x) ==
  /\ Dispatch(x) /\ IsMaster(x) /\ handler[x].fd \in open
  /\ UNCHANGED <<kernel, loop, task_queue, object>>

\* MasterHandle::handle closes the connection itself: end of stream or a recv
\* that fails (a number somebody else closed), an API request, 401, no handler, a
\* blacklisted or recursive upstream.  The loop is not told: ctx_ptr_map keeps an
\* entry for the closed number.
MasterClose(x) ==
  /\ Dispatch(x) /\ IsMaster(x)
  /\ open' = open \ {handler[x].fd}
  /\ interest' = Closed({handler[x].fd}, interest)
  /\ UNCHANGED <<loop, task_queue, object>>

\* A session that is made and lost at once.  The RTSPToRtspClient constructor
\* throws when the upstream socket cannot be made: unwinding removes and closes
\* the descriptor, and MasterHandle closes the number again.  add_client_to_map
\* drops the new session when client_ptr_map already has the number, which a
\* stranger's guard closed under its first owner.  `leak' are the sockets that
\* create_nonblocking_tcp abandons when connect(2) fails at once and those that
\* bind_udp_pair_from_pool overwrites after a failed bind(2).
MasterThrow(x, leak) ==
  /\ Dispatch(x) /\ IsMaster(x) /\ handler[x].fd \in open
  /\ leak \subseteq FreshFds
  /\ open' = (open \ {handler[x].fd}) \cup leak
  /\ interest' = Closed({handler[x].fd}, interest)
  /\ deferred' = deferred \cup Parked({handler[x].fd})
  /\ ctx_ptr_map' = Closed({handler[x].fd}, ctx_ptr_map)
  /\ UNCHANGED <<client_ptr_map, task_queue, object>>

\* What the constructors open.  RTSPToRtspClient has an upstream socket (or
\* throws).  RTSPToHttpClient may have none: it waits for STUN, or its connect
\* failed while no callback was installed; its relay guard may hold a socket that
\* is not bound and not registered, or (`shut') the number of one that is closed
\* and that the upstream socket, made next, may be given.
ConstructorOpens(k, F, X, shut) ==
  /\ F["up"] # F["relay"] \/ F["up"] = NoFd \/ shut
  /\ X["up"] # X["relay"] \/ X["up"] = NoCtx
  /\ (F["up"] = NoFd) = (X["up"] = NoCtx)
  /\ F["relay"] = NoFd => X["relay"] = NoCtx
  /\ k = "mitm" => F["up"] # NoFd /\ F["relay"] = NoFd
  /\ shut => Iface /\ F["relay"] # NoFd /\ X["relay"] = NoCtx

\* RtspToHttpHandle::dispatch, RtspToRtspHandle::dispatch: the constructor takes
\* the descriptor over (remove, then set with its own context), the session goes
\* into client_ptr_map and gets its closed-callback.  F and X are the further
\* descriptors and contexts of the session, d its downstream context.
MasterStream(x, c, k, d, F, X, shut) ==
  LET fd == handler[x].fd
      newFds  == [NoFds EXCEPT !["down"] = fd, !["up"] = F["up"], !["relay"] = F["relay"]]
      newCtxs == [NoCtxs EXCEPT !["down"] = d, !["up"] = X["up"], !["relay"] = X["relay"]]
      opened  == {F["up"]} \cup (IF shut THEN {} ELSE {F["relay"]})
  IN
  /\ Dispatch(x) /\ IsMaster(x) /\ fd \in open
  /\ c \in Clients \ Alive /\ k \in Kinds
  /\ d \in FreshCtxs /\ d \notin {X["up"], X["relay"]}
  /\ \A s \in {"up", "relay"} : F[s] \in FreshFds \cup {NoFd} /\ X[s] \in FreshCtxs \cup {NoCtx}
  /\ ConstructorOpens(k, F, X, shut)
  /\ client_ptr_map[fd] = NoClient       \* otherwise add_client_to_map drops it
  /\ open' = open \cup (opened \ {NoFd})
  /\ interest' = [g \in Fds |-> CASE g = fd         -> d
                                  [] g = F["up"]    -> X["up"]
                                  [] g = F["relay"] /\ ~shut -> X["relay"]
                                  [] OTHER          -> interest[g]]
  /\ deferred' = deferred \cup Parked({fd})
  /\ ctx_ptr_map' = [ctx_ptr_map EXCEPT ![fd] = NoCtx]
  /\ client_ptr_map' = [client_ptr_map EXCEPT ![fd] = c]
  /\ handler' = [y \in Ctxs |-> CASE y = d          -> SessionOf(c, "down")
                                  [] y = X["up"]    -> SessionOf(c, "up")
                                  [] y = X["relay"] -> SessionOf(c, "relay")
                                  [] OTHER          -> handler[y]]
  /\ slotFd' = [slotFd EXCEPT ![c] = newFds]
  /\ slotCtx' = [slotCtx EXCEPT ![c] = newCtxs]
  /\ kind' = [kind EXCEPT ![c] = k]
  /\ UNCHANGED task_queue

\* A session's event that only moves data, or changes the event mask of its
\* connections S (EpollLoop::set with the same context).
ClientIdle(x, S) ==
  /\ Dispatch(x) /\ IsSession(x)
  /\ interest' = Rearmed(handler[x].client, S)
  /\ UNCHANGED <<open, loop, task_queue, object>>

\* Mutant: the connection is closed in the handler, and by its guard later.
ClientClose_Now(x, S) ==
  LET c == handler[x].client IN
  /\ Dispatch(x) /\ IsSession(x)
  /\ MayClose(c)
  /\ task_queue' = Append(task_queue, RemovalTask(c))
  /\ open' = open \ {slotFd[c]["down"]}
  /\ interest' = Closed({slotFd[c]["down"]}, interest)
  /\ UNCHANGED <<loop, object>>

\* A session's event that ends it: the callback queues the removal.
ClientClose(x, S) ==
  LET c == handler[x].client IN
  /\ Dispatch(x) /\ IsSession(x)
  /\ MayClose(c)
  /\ task_queue' = Append(task_queue, RemovalTask(c))
  /\ interest' = Rearmed(c, S)
  /\ UNCHANGED <<open, loop, object>>

\* Which descriptor an event of slot s may open: connect_server after the STUN
\* answer, init_relay_sockets at the first SETUP, init_timer_fd after PLAY.
MayOpen(c, s, t) ==
  \/ kind[c] = "http" /\ s = "relay" /\ t = "up" /\ slotFd[c][t] = NoFd
  \/ kind[c] = "mitm" /\ s = "down" /\ t = "relay" /\ slotFd[c][t] = NoFd
  \/ s = "up" /\ t = "timer"

\* A session's event that opens a descriptor, possibly ending the session later
\* in the same handler (`closes').  The timer's old number is closed after the new
\* timer was made, and its old context deferred: when a stranger had closed the
\* old number, the new timer may have been given it, and is closed at once.  Relay
\* sockets that could not be bound stay in their guards without a context, open or
\* (`shut') closed, and the session closes.
ClientOpen(x, S, t, fd, y, closes, shut) ==
  LET c == handler[x].client
      gone == (IF shut THEN {fd} ELSE {}) \cup ({slotFd[c][t]} \ {NoFd})
  IN
  /\ Dispatch(x) /\ IsSession(x)
  /\ MayOpen(c, handler[x].slot, t)
  /\ fd \in FreshFds
  /\ \/ y \in FreshCtxs /\ ~shut
     \/ y = NoCtx /\ t = "relay" /\ closes /\ (shut => Iface)
  /\ closes => MayClose(c)
  /\ open' = (open \cup {fd}) \ gone
  /\ interest' = Closed(gone, [Rearmed(c, S) EXCEPT ![fd] = y])
  /\ deferred' = deferred \cup Replaced(c, t)
  /\ handler' = [z \in Ctxs |-> IF z = y THEN SessionOf(c, t) ELSE handler[z]]
  /\ slotFd' = [slotFd EXCEPT ![c][t] = fd]
  /\ slotCtx' = [slotCtx EXCEPT ![c][t] = y]
  /\ task_queue' = IF closes THEN Append(task_queue, RemovalTask(c)) ELSE task_queue
  /\ UNCHANGED <<ctx_ptr_map, client_ptr_map, kind>>

\* Mutant: process_tasks only runs when the batch was full.
BatchDone_Skips ==
  /\ phase = "dispatch"
  /\ pending = {}
  /\ phase' = IF Len(task_queue) >= MaxEvents THEN "tasks" ELSE "wait"
  /\ UNCHANGED <<kernel, loop, task_queue, pending, object>>

\* process_tasks, entered when every event of the batch has been dispatched.
BatchDone ==
  /\ phase = "dispatch"
  /\ pending = {}
  /\ phase' = "tasks"
  /\ UNCHANGED <<kernel, loop, task_queue, pending, object>>

\* One task: client_ptr_map.erase(fd) destroys the session, whose guards remove
\* and close their descriptors and whose contexts are freed.
RunTask ==
  LET fd == Head(task_queue).fd
      c  == client_ptr_map[fd]
  IN
  /\ phase = "tasks"
  /\ task_queue # <<>>
  /\ task_queue' = Tail(task_queue)
  /\ client_ptr_map' = [client_ptr_map EXCEPT ![fd] = NoClient]
  /\ IF c = NoClient
       THEN UNCHANGED <<kernel, ctx_ptr_map, deferred, object>>
       ELSE /\ open' = open \ HeldFds(c)
            /\ interest' = Closed(HeldFds(c), interest)
            /\ deferred' = deferred \cup Parked(RemovedFds(c))
            /\ ctx_ptr_map' = Closed(RemovedFds(c), ctx_ptr_map)
            /\ slotFd' = [slotFd EXCEPT ![c] = NoFds]
            /\ slotCtx' = [slotCtx EXCEPT ![c] = NoCtxs]
            /\ kind' = [kind EXCEPT ![c] = "http"]
            /\ UNCHANGED handler
  /\ UNCHANGED <<phase, pending>>

\* Mutant: process_tasks runs at most some of the tasks (no while).
EndCycle_Early ==
  /\ phase = "tasks"
  /\ deferred' = {}
  /\ handler' = [x \in Ctxs |-> IF x \in InMap \cup InSession THEN handler[x] ELSE Blank]
  /\ phase' = "wait"
  /\ UNCHANGED <<kernel, ctx_ptr_map, client_ptr_map, task_queue, pending,
                 slotFd, slotCtx, kind>>

\* process_tasks returns with an empty queue; deferred_delete_ctx_.clear().
\* What a freed context held is forgotten.
EndCycle ==
  /\ phase = "tasks"
  /\ task_queue = <<>>
  /\ deferred' = {}
  /\ handler' = [x \in Ctxs |-> IF x \in InMap \cup InSession THEN handler[x] ELSE Blank]
  /\ phase' = "wait"
  /\ UNCHANGED <<kernel, ctx_ptr_map, client_ptr_map, task_queue, pending,
                 slotFd, slotCtx, kind>>

Accept ==
  \/ AcceptBegin
  \/ \E fd \in Fds, x \in Ctxs : AcceptOne(fd, x)
  \/ AcceptDone

\* The handler that an event's context calls.
Master(x) ==
  \/ MasterAgain(x)
  \/ MasterClose(x)
  \/ \E leak \in SUBSET FreshFds : MasterThrow(x, leak)
  \/ \E c \in Clients \ Alive, k \in Kinds, d \in FreshCtxs,
        F \in [{"up", "relay"} -> FreshFds \cup {NoFd}],
        X \in [{"up", "relay"} -> FreshCtxs \cup {NoCtx}], shut \in BOOLEAN :
        MasterStream(x, c, k, d, F, X, shut)

Client(x) == IsSession(x) /\ \E S \in SUBSET Displaced(handler[x].client) :
  \/ ClientIdle(x, S)
  \/ ClientClose(x, S)
  \/ \E t \in Slots, fd \in FreshFds, y \in FreshCtxs \cup {NoCtx},
        closes, shut \in BOOLEAN : ClientOpen(x, S, t, fd, y, closes, shut)

Wait == \E X \in SUBSET ({interest[fd] : fd \in Fds} \cup {Listen}) : EpollWait(X)

Run ==
  \/ Accept
  \/ \E x \in pending \cap Ctxs : Master(x) \/ Client(x)
  \/ BatchDone \/ RunTask \/ EndCycle

Next == Wait \/ Run

Spec == Init /\ [][Next]_vars

\* No handler blocks: once events are fetched the thread runs on to the next
\* epoll_wait.  Nothing makes events arrive.
FairSpec == Spec /\ WF_vars(Run)

---------------------------------------------------------------------------
(* Properties *)

\* Every SocketCtx pointer that epoll_wait handed to the running batch still
\* points to an owned context, and the session its closure captured has not been
\* destroyed (EpollLoop::loop dereferences it without a check).
EventPointersLive ==
  \A x \in pending \cap Ctxs :
    x \in Live /\ (IsSession(x) => handler[x].client \in Alive)

\* The kernel's table only holds pointers whose context is owned, and owned by a
\* party that holds the descriptor: the accept entry for that number, or a live
\* session's slot with that number in its guard.  A stale ctx_ptr_map entry for a
\* reused number, or a registration that survives its session, would break it.
\* Guards that hold a stranger's number (Iface) may take a registration away or
\* replace it by their own, but never leave one without an owner.
RegistrationOwned ==
  \A fd \in Fds : interest[fd] # NoCtx =>
    LET x == interest[fd] IN
    /\ fd \in open
    /\ \/ ctx_ptr_map[fd] = x /\ handler[x] = MasterOf(fd)
       \/ \E c \in Alive, s \in Slots :
            slotCtx[c][s] = x /\ slotFd[c][s] = fd /\ handler[x] = SessionOf(c, s)

\* A descriptor has one owner that will close it: two guards never hold the same
\* number, and a connection still waiting for its first request is in no guard.
\* Closing a number twice would otherwise close a stranger's connection.  It holds
\* as long as no upstream interface is configured: with one, the closed number
\* that bind_udp_socket leaves in a guard is soon in two.
OneCloser ==
  /\ \A c, d \in Alive, s, t \in Slots :
       slotFd[c][s] = slotFd[d][t] /\ slotFd[c][s] # NoFd => c = d /\ s = t
  /\ \A fd \in Fds, c \in Alive, s \in Slots :
       interest[fd] # NoCtx /\ interest[fd] = ctx_ptr_map[fd] => slotFd[c][s] # fd

\* A removal task captured a descriptor number, not the session.  When it runs,
\* the number still denotes the session that queued it, or none: a second task
\* for the same session never removes the next user of the number.
TaskRemovesOwn ==
  \A i \in 1..Len(task_queue) :
    client_ptr_map[task_queue[i].fd] \in {task_queue[i].by, NoClient}

\* The context being processed, and the session it belongs to, outlive the call
\* of its handler ("prevents bad_function_call crashes if the context is being
\* processed", epoll_loop.h).
HandlerOutlivesCall ==
  [][\A x \in Ctxs : x \in pending /\ x \notin pending' =>
        /\ x \in Live'
        /\ handler'[x] = handler[x]
        /\ IsSession(x) => handler[x].client \in Alive']_vars

\* A session that asked for its removal is destroyed in the same cycle.
RemovalHappens ==
  \A c \in Clients :
    (\E i \in 1..Len(task_queue) : task_queue[i].by = c) ~> (c \notin Alive)

\* The reactor always comes back to epoll_wait.
BackToWait == (phase # "wait") ~> (phase = "wait")
=============================================================================
