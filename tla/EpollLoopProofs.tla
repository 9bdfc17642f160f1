-------------------------- MODULE EpollLoopProofs --------------------------
(***************************************************************************)
(* The safety properties of EpollLoop, for any number of descriptors,      *)
(* contexts and sessions and any batch size.  IndInv holds whether or not  *)
(* SO_BINDTODEVICE can fail; Exclusive, that every guard's number is open, *)
(* registered and its own, holds beside it without an upstream interface.  *)
(***************************************************************************)
EXTENDS EpollLoop, TLAPS

\* A context in ctx_ptr_map is the accept handler's for that very number, even
\* when the entry is stale.
MapHandlers ==
  \A fd \in Fds : ctx_ptr_map[fd] # NoCtx => handler[ctx_ptr_map[fd]] = MasterOf(fd)

\* A context in a session's slot captured that session and slot.
SlotHandlers ==
  \A c \in Clients, s \in Slots : slotCtx[c][s] # NoCtx =>
    handler[slotCtx[c][s]] = SessionOf(c, s) /\ slotFd[c][s] # NoFd

\* client_ptr_map is keyed by the session's downstream descriptor.
MapKeys ==
  \A fd \in Fds : client_ptr_map[fd] # NoClient =>
    slotFd[client_ptr_map[fd]]["down"] = fd

\* Only a session that client_ptr_map has under its downstream number holds
\* anything: a destroyed one is empty.
HoldersMapped ==
  \A c \in Clients, s \in Slots : slotFd[c][s] # NoFd =>
    /\ slotFd[c]["down"] # NoFd
    /\ client_ptr_map[slotFd[c]["down"]] = c

\* A registration is the accept handler's, or the slot's that holds the number.
Registrations ==
  \A fd \in Fds : interest[fd] # NoCtx =>
    LET h == handler[interest[fd]] IN
    /\ fd \in open
    /\ \/ interest[fd] = ctx_ptr_map[fd]
       \/ /\ h.client \in Clients
          /\ slotFd[h.client][h.slot] = fd
          /\ slotCtx[h.client][h.slot] = interest[fd]

\* An undispatched accept context is in the map under its number or parked; an
\* undispatched session context is in its slot or parked, and its session is alive.
Batch ==
  \A x \in pending \cap Ctxs :
    LET h == handler[x] IN
    \/ /\ h.fd \in Fds /\ h = MasterOf(h.fd)
       /\ ctx_ptr_map[h.fd] = x \/ x \in deferred
    \/ /\ h.client \in Clients
       /\ slotFd[h.client]["down"] # NoFd
       /\ slotCtx[h.client][h.slot] = x \/ x \in deferred

Cycle ==
  /\ phase \in {"wait", "tasks"} => pending = {}
  /\ phase = "wait" => task_queue = <<>>

\* Until the tasks run, a queued session is in the map under the task's number.
Queued ==
  \A i \in 1..Len(task_queue) :
    \/ client_ptr_map[task_queue[i].fd] = task_queue[i].by
    \/ phase = "tasks" /\ client_ptr_map[task_queue[i].fd] = NoClient

IndInv ==
  /\ TypeOK
  /\ MapHandlers
  /\ SlotHandlers
  /\ MapKeys
  /\ HoldersMapped
  /\ Registrations
  /\ Batch
  /\ Cycle
  /\ Queued

\* A guard's descriptor is open, no other guard's, and registered with the
\* context beside it.
SlotFds ==
  /\ \A c \in Clients, s \in Slots : slotFd[c][s] # NoFd =>
       slotFd[c][s] \in open /\ interest[slotFd[c][s]] = slotCtx[c][s]
  /\ \A c, d \in Clients, s, t \in Slots :
       slotFd[c][s] = slotFd[d][t] /\ slotFd[c][s] # NoFd => c = d /\ s = t

\* An undispatched accept context still has its number, registered for it.
BatchRegistered ==
  \A x \in pending \cap Ctxs : handler[x].client = NoClient =>
    /\ handler[x].fd \in Fds
    /\ interest[handler[x].fd] = x /\ ctx_ptr_map[handler[x].fd] = x

Exclusive == SlotFds /\ BatchRegistered
---------------------------------------------------------------------------
(* Lemmas *)

\* What a handler record of the accept handler or of a session says.
LEMMA HandlerFields ==
  /\ \A fd \in Fds \cup {NoFd} :
       /\ MasterOf(fd) \in Handlers
       /\ MasterOf(fd).client = NoClient /\ MasterOf(fd).fd = fd
  /\ \A c \in Clients, s \in Slots :
       /\ SessionOf(c, s) \in Handlers
       /\ SessionOf(c, s).client = c /\ SessionOf(c, s).slot = s
  /\ Blank \in Handlers
  /\ \A h \in Handlers :
       /\ h.fd \in Fds \cup {NoFd}
       /\ h.client \in Clients \cup {NoClient}
       /\ h.slot \in Slots
BY DEF MasterOf, SessionOf, Handlers, Slots, Blank

\* The loop starts with empty tables.
LEMMA InitInv == Init => IndInv /\ Exclusive
<1> SUFFICES ASSUME Init PROVE IndInv /\ Exclusive
  OBVIOUS
<1> USE SentinelAssumption, HandlerFields DEF Init
<1>1. TypeOK
  BY DEF TypeOK, NoFds, NoCtxs, Kinds
<1>2. MapHandlers
  BY DEF MapHandlers, NoFds, NoCtxs, Kinds
<1>3. SlotHandlers
  BY DEF SlotHandlers, NoFds, NoCtxs, Kinds
<1>4. MapKeys
  BY DEF MapKeys, NoFds, NoCtxs, Kinds
<1>5. HoldersMapped
  BY DEF HoldersMapped, NoFds, NoCtxs, Kinds
<1>6. Exclusive
  BY DEF Exclusive, SlotFds, BatchRegistered, NoFds, NoCtxs, Kinds
<1>7. Registrations
  BY DEF Registrations, NoFds, NoCtxs, Kinds
<1>8. Batch
  BY DEF Batch, NoFds, NoCtxs, Kinds
<1>9. Cycle
  BY DEF Cycle, NoFds, NoCtxs, Kinds
<1>10. Queued
  BY DEF Queued, NoFds, NoCtxs, Kinds
<1> QED
  BY <1>1, <1>2, <1>3, <1>4, <1>5, <1>6, <1>7, <1>8, <1>9, <1>10 DEF IndInv


---------------------------------------------------------------------------
(* Every step preserves the invariant, one lemma per action. *)

\* Steps that only move on in the batch leave the tables alone.
LEMMA QuietStepInv ==
  ASSUME IndInv,
         \/ AcceptBegin \/ AcceptDone \/ BatchDone
         \/ \E x \in pending : MasterAgain(x)
  PROVE  IndInv' /\ (Exclusive => Exclusive')
<1> USE SentinelAssumption
<1>1. IndInv'
  BY DEF IndInv, AcceptBegin, AcceptDone, BatchDone, MasterAgain, Dispatch,
         kernel, loop, object, TypeOK, MapHandlers, SlotHandlers, MapKeys, HoldersMapped,
         Registrations, Batch, Cycle, Queued
<1>2. Exclusive => Exclusive'
  BY DEF AcceptBegin, AcceptDone, BatchDone, MasterAgain, Dispatch,
         kernel, loop, object, Exclusive, SlotFds, BatchRegistered
<1> QED
  BY <1>1, <1>2

\* epoll_wait only returns registered pointers, and a registration's owner is
\* alive between cycles.
LEMMA EpollWaitInv ==
  ASSUME IndInv, NEW X, EpollWait(X)
  PROVE  IndInv' /\ (Exclusive => Exclusive')
<1> USE SentinelAssumption, HandlerFields DEF IndInv, EpollWait
<1>1. TypeOK'
  BY DEF TypeOK, kernel, loop, object
<1>2. Batch'
  BY DEF TypeOK, Batch, Registrations, MapHandlers, SlotHandlers, HoldersMapped,
         kernel, loop, object
<1>3. Exclusive => Exclusive'
  <2> SUFFICES ASSUME Exclusive PROVE BatchRegistered'
    BY DEF Exclusive, SlotFds, kernel, loop, object
  <2> SUFFICES ASSUME NEW x \in X \cap Ctxs, handler[x].client = NoClient
               PROVE  /\ handler[x].fd \in Fds
                      /\ interest[handler[x].fd] = x /\ ctx_ptr_map[handler[x].fd] = x
    BY DEF BatchRegistered, kernel, loop, object
  <2>1. PICK fd \in Fds : interest[fd] = x
    OBVIOUS
  <2>2. ctx_ptr_map[fd] = x
    BY <2>1 DEF Registrations
  <2> QED
    BY <2>1, <2>2 DEF MapHandlers
<1> QED
  BY <1>1, <1>2, <1>3 DEF MapHandlers, SlotHandlers, MapKeys, HoldersMapped,
       Registrations, Cycle, Queued, kernel, loop, object

\* A stale ctx_ptr_map entry under the accepted number is parked, not lost.
LEMMA AcceptOneInv ==
  ASSUME IndInv, NEW fd, NEW x, AcceptOne(fd, x)
  PROVE  IndInv' /\ (Exclusive => Exclusive')
<1> USE SentinelAssumption, HandlerFields DEF IndInv, AcceptOne, FreshFds, FreshCtxs
<1>1. TypeOK'
  BY DEF TypeOK, Parked
<1>2. MapHandlers' /\ SlotHandlers'
  BY DEF TypeOK, MapHandlers, SlotHandlers, Live, InMap, InSession
<1>3. Exclusive => Exclusive'
  BY DEF TypeOK, Exclusive, SlotFds, BatchRegistered, Registrations, MapHandlers
<1>4. Registrations'
  BY DEF TypeOK, Registrations
<1>5. Batch'
  BY DEF TypeOK, Batch, Parked
<1> QED
  BY <1>1, <1>2, <1>3, <1>4, <1>5 DEF MapKeys, HoldersMapped, Cycle, Queued

\* An accept context that is being dispatched is owned by the loop.
LEMMA MasterDispatch ==
  ASSUME IndInv, NEW x, Dispatch(x), IsMaster(x)
  PROVE  /\ x \in pending \cap Ctxs /\ handler[x].fd \in Fds
         /\ handler[x] = MasterOf(handler[x].fd)
         /\ ctx_ptr_map[handler[x].fd] = x \/ x \in deferred
BY SentinelAssumption, HandlerFields DEF IndInv, TypeOK, Batch, Dispatch, IsMaster

\* While guards only hold numbers of their own, it also has its number, registered
\* and held by no guard.
LEMMA MasterHolds ==
  ASSUME IndInv, Exclusive, NEW x, Dispatch(x), IsMaster(x)
  PROVE  /\ interest[handler[x].fd] = x /\ ctx_ptr_map[handler[x].fd] = x
         /\ handler[x].fd \in open
         /\ \A c \in Clients, s \in Slots : slotFd[c][s] # handler[x].fd
<1> USE SentinelAssumption, HandlerFields DEF IndInv
<1> DEFINE fd == handler[x].fd
<1>1. x \in Ctxs /\ fd \in Fds /\ interest[fd] = x /\ ctx_ptr_map[fd] = x /\ fd \in open
  BY MasterDispatch DEF TypeOK, Exclusive, BatchRegistered, Registrations, IsMaster
<1>2. ASSUME NEW c \in Clients, NEW s \in Slots, slotFd[c][s] = fd PROVE FALSE
  <2>1. slotCtx[c][s] = x
    BY <1>1, <1>2 DEF Exclusive, SlotFds
  <2>2. handler[x] = SessionOf(c, s) /\ handler[x] = MasterOf(fd)
    BY <2>1, <1>1 DEF SlotHandlers, MapHandlers
  <2> QED
    BY <2>2, <1>1
<1> QED
  BY <1>1, <1>2

\* close(2) without EpollLoop::remove leaves only a stale map entry.
LEMMA MasterCloseInv ==
  ASSUME IndInv, NEW x, MasterClose(x)
  PROVE  IndInv' /\ (Exclusive => Exclusive')
<1> USE SentinelAssumption, HandlerFields DEF IndInv, MasterClose, loop, object, Closed
<1>0. /\ handler[x].fd \in Fds
      /\ pending' = pending \ {x} /\ phase' = phase
  BY MasterDispatch DEF Dispatch
<1>1. TypeOK'
  BY <1>0 DEF TypeOK
<1>2. Exclusive => Exclusive'
  <2> SUFFICES ASSUME Exclusive PROVE Exclusive'
    OBVIOUS
  <2>1. /\ interest[handler[x].fd] = x
        /\ \A c \in Clients, s \in Slots : slotFd[c][s] # handler[x].fd
    BY MasterHolds
  <2> QED
    BY <1>0, <2>1 DEF TypeOK, Exclusive, SlotFds, BatchRegistered
<1>3. Registrations'
  BY <1>0 DEF TypeOK, Registrations
<1>4. Batch'
  BY <1>0 DEF TypeOK, Batch
<1> QED
  BY <1>0, <1>1, <1>2, <1>3, <1>4 DEF MapHandlers, SlotHandlers, MapKeys, HoldersMapped,
       Cycle, Queued

\* A session that is lost at once parks the context the map has for its number
\* and closes the number; a second close finds nothing.
LEMMA MasterThrowInv ==
  ASSUME IndInv, NEW x, NEW leak, MasterThrow(x, leak)
  PROVE  IndInv' /\ (Exclusive => Exclusive')
<1> USE SentinelAssumption, HandlerFields DEF IndInv, MasterThrow, object, Closed
<1>0. /\ handler[x].fd \in Fds
      /\ pending' = pending \ {x} /\ phase' = phase
  BY MasterDispatch DEF Dispatch
<1>1. TypeOK'
  BY <1>0 DEF TypeOK, Parked, FreshFds
<1>2. MapHandlers'
  BY <1>0 DEF TypeOK, MapHandlers
<1>3. Exclusive => Exclusive'
  <2> SUFFICES ASSUME Exclusive PROVE Exclusive'
    OBVIOUS
  <2>1. /\ interest[handler[x].fd] = x
        /\ \A c \in Clients, s \in Slots : slotFd[c][s] # handler[x].fd
    BY MasterHolds
  <2> QED
    BY <1>0, <2>1 DEF TypeOK, Exclusive, SlotFds, BatchRegistered
<1>4. Registrations'
  BY <1>0 DEF TypeOK, Registrations
<1>5. Batch'
  BY <1>0 DEF TypeOK, Batch, Parked
<1> QED
  BY <1>0, <1>1, <1>2, <1>3, <1>4, <1>5 DEF SlotHandlers, MapKeys, HoldersMapped, Cycle, Queued

\* The session whose event is being handled is in the map under its number.
LEMMA SessionDispatch ==
  ASSUME IndInv, NEW x, Dispatch(x), IsSession(x)
  PROVE  LET c == handler[x].client IN
         /\ x \in pending \cap Ctxs /\ c \in Clients
         /\ slotFd[c]["down"] \in Fds /\ client_ptr_map[slotFd[c]["down"]] = c
         /\ RemovalTask(c) \in Tasks
         /\ RemovalTask(c).fd = slotFd[c]["down"] /\ RemovalTask(c).by = c
<1> DEFINE c == handler[x].client
<1>1. c \in Clients /\ slotFd[c]["down"] \in Fds /\ client_ptr_map[slotFd[c]["down"]] = c
  <2> USE SentinelAssumption, HandlerFields DEF IndInv
  <2>1. x \in pending \cap Ctxs /\ c \in Clients
    BY DEF Dispatch, IsSession
  <2>2. handler[x] \in Handlers /\ c # NoClient
    BY <2>1 DEF TypeOK
  <2>3. slotFd[c]["down"] # NoFd
    BY <2>1, <2>2 DEF Batch
  <2> QED
    BY <2>1, <2>3 DEF TypeOK, HoldersMapped, Slots
<1> QED
  BY <1>1 DEF RemovalTask, Tasks, Dispatch

\* Re-registering its own connections keeps every registration with an owner, and
\* without strangers there is nothing to re-register.
LEMMA RearmedTable ==
  ASSUME IndInv, NEW c \in Clients, NEW S \in SUBSET Displaced(c)
  PROVE  /\ Rearmed(c, S) \in [Fds -> Ctxs \cup {NoCtx}]
         /\ \A fd \in Fds : Rearmed(c, S)[fd] # NoCtx =>
              LET h == handler[Rearmed(c, S)[fd]] IN
              /\ fd \in open
              /\ \/ Rearmed(c, S)[fd] = ctx_ptr_map[fd]
                 \/ /\ h.client \in Clients
                    /\ slotFd[h.client][h.slot] = fd
                    /\ slotCtx[h.client][h.slot] = Rearmed(c, S)[fd]
         /\ Exclusive => Rearmed(c, S) = interest
<1> USE SentinelAssumption DEF IndInv
<1>1. /\ S \subseteq {"down", "up"}
      /\ \A s \in S : slotFd[c][s] \in open /\ interest[slotFd[c][s]] # slotCtx[c][s]
  BY DEF Displaced
<1>2. \A s \in {"down", "up"} : s \in Slots /\ slotCtx[c][s] \in Ctxs \cup {NoCtx}
  BY DEF TypeOK, Slots
<1>3. Rearmed(c, S) \in [Fds -> Ctxs \cup {NoCtx}]
  BY <1>2 DEF Rearmed, TypeOK
<1>4. ASSUME NEW fd \in Fds, Rearmed(c, S)[fd] # NoCtx
      PROVE  LET h == handler[Rearmed(c, S)[fd]] IN
             /\ fd \in open
             /\ \/ Rearmed(c, S)[fd] = ctx_ptr_map[fd]
                \/ /\ h.client \in Clients
                   /\ slotFd[h.client][h.slot] = fd
                   /\ slotCtx[h.client][h.slot] = Rearmed(c, S)[fd]
  <2>1. CASE Rearmed(c, S)[fd] = interest[fd]
    BY <1>4, <2>1 DEF Registrations
  <2>2. ASSUME NEW s \in S, slotFd[c][s] = fd, slotCtx[c][s] = Rearmed(c, S)[fd]
        PROVE  /\ fd \in open /\ handler[Rearmed(c, S)[fd]].client = c
               /\ handler[Rearmed(c, S)[fd]].slot = s
    <3>1. s \in Slots /\ handler[Rearmed(c, S)[fd]] = SessionOf(c, s)
      BY <1>1, <1>2, <1>4, <2>2 DEF SlotHandlers
    <3> QED
      BY <3>1, <1>1, <2>2, HandlerFields
  <2>3. Rearmed(c, S)[fd] = interest[fd]
        \/ \E s \in S : slotFd[c][s] = fd /\ slotCtx[c][s] = Rearmed(c, S)[fd]
    BY DEF Rearmed
  <2> QED
    BY <2>1, <2>2, <2>3
<1>5. ASSUME Exclusive PROVE Rearmed(c, S) = interest
  <2>1. \A s \in S : slotFd[c][s] # NoFd
    BY <1>1 DEF TypeOK
  <2>2. S = {}
    BY <2>1, <1>1, <1>2, <1>5 DEF Exclusive, SlotFds
  <2> QED
    BY <2>2 DEF Rearmed, TypeOK
<1> QED
  BY <1>3, <1>4, <1>5

\* An event that leaves the session as it is.
LEMMA ClientIdleInv ==
  ASSUME IndInv, NEW x, NEW S \in SUBSET Displaced(handler[x].client), ClientIdle(x, S)
  PROVE  IndInv' /\ (Exclusive => Exclusive')
<1> DEFINE c == handler[x].client
<1>1. x \in pending /\ c \in Clients
  BY SessionDispatch DEF ClientIdle
<1>2. /\ interest' = Rearmed(c, S) /\ pending' = pending \ {x}
      /\ UNCHANGED <<open, loop, task_queue, object, phase>>
  BY DEF ClientIdle, Dispatch
<1>3. TypeOK'
  BY <1>1, <1>2, RearmedTable DEF IndInv, TypeOK, loop, object
<1>4. Registrations'
  BY <1>1, <1>2, RearmedTable DEF Registrations, loop, object
<1>5. Cycle'
  BY <1>2 DEF IndInv, Cycle, ClientIdle, Dispatch
<1>6. Exclusive => Exclusive'
  <2> SUFFICES ASSUME Exclusive PROVE Exclusive'
    OBVIOUS
  <2>1. interest' = interest
    BY <1>1, <1>2, RearmedTable
  <2> QED
    BY <2>1, <1>2 DEF Exclusive, SlotFds, BatchRegistered, loop, object
<1> QED
  BY <1>2, <1>3, <1>4, <1>5, <1>6 DEF IndInv, loop, object, MapHandlers, SlotHandlers,
       MapKeys, HoldersMapped, Batch, Queued

\* The session that queues its removal is in the map under the task's number.
LEMMA ClientCloseInv ==
  ASSUME IndInv, NEW x, NEW S \in SUBSET Displaced(handler[x].client), ClientClose(x, S)
  PROVE  IndInv' /\ (Exclusive => Exclusive')
<1> DEFINE c == handler[x].client
<1>1. /\ x \in pending /\ c \in Clients
      /\ slotFd[c]["down"] \in Fds /\ client_ptr_map[slotFd[c]["down"]] = c
      /\ RemovalTask(c) \in Tasks
      /\ RemovalTask(c).fd = slotFd[c]["down"] /\ RemovalTask(c).by = c
  BY SessionDispatch DEF ClientClose
<1>2. /\ task_queue' = Append(task_queue, RemovalTask(c))
      /\ interest' = Rearmed(c, S) /\ pending' = pending \ {x}
      /\ UNCHANGED <<open, loop, object, phase>>
  BY DEF ClientClose, Dispatch
<1>3. TypeOK'
  <2>1. interest' \in [Fds -> Ctxs \cup {NoCtx}]
    BY <1>1, <1>2, RearmedTable
  <2> QED
    BY <2>1, <1>1, <1>2 DEF IndInv, TypeOK, loop, object
<1>4. Registrations'
  BY <1>1, <1>2, RearmedTable DEF Registrations, loop, object
<1>5. Queued'
  BY <1>1, <1>2 DEF IndInv, TypeOK, Queued, loop, object
<1>6. Cycle'
  BY <1>2 DEF IndInv, Cycle, ClientClose, Dispatch
<1>7. Exclusive => Exclusive'
  <2> SUFFICES ASSUME Exclusive PROVE Exclusive'
    OBVIOUS
  <2>1. interest' = interest
    BY <1>1, <1>2, RearmedTable
  <2> QED
    BY <2>1, <1>2 DEF Exclusive, SlotFds, BatchRegistered, loop, object
<1> QED
  BY <1>2, <1>3, <1>4, <1>5, <1>6, <1>7 DEF IndInv, loop, object, MapHandlers, SlotHandlers,
       MapKeys, HoldersMapped, Batch

\* No registration points to a context that clear() frees.
LEMMA EndCycleInv ==
  ASSUME IndInv, EndCycle
  PROVE  IndInv' /\ (Exclusive => Exclusive')
<1> USE SentinelAssumption, HandlerFields DEF IndInv, EndCycle, kernel
<1>1. TypeOK'
  BY DEF TypeOK
<1>2. MapHandlers' /\ SlotHandlers'
  BY DEF TypeOK, MapHandlers, SlotHandlers, InMap, InSession
<1>3. Registrations'
  <2> SUFFICES ASSUME NEW fd \in Fds, interest[fd] # NoCtx
               PROVE  handler'[interest[fd]] = handler[interest[fd]]
    BY DEF Registrations
  <2>1. interest[fd] \in InMap \cup InSession
    BY DEF Registrations, TypeOK, InMap, InSession
  <2> QED
    BY <2>1 DEF TypeOK
<1>4. Exclusive => Exclusive'
  BY DEF Exclusive, SlotFds, BatchRegistered, Cycle
<1> QED
  BY <1>1, <1>2, <1>3, <1>4 DEF MapKeys, HoldersMapped, Batch, Cycle, Queued

\* A re-armed timer's old context moves from its slot to the deferred list, where
\* an undispatched event may still find it.
LEMMA ClientOpenInv ==
  ASSUME IndInv, NEW x, NEW S \in SUBSET Displaced(handler[x].client), NEW t \in Slots,
         NEW fd, NEW y, NEW closes \in BOOLEAN, NEW shut \in BOOLEAN,
         ClientOpen(x, S, t, fd, y, closes, shut)
  PROVE  IndInv' /\ (Exclusive /\ ~Iface => Exclusive')
<1> DEFINE c == handler[x].client
           R == Rearmed(c, S)
           gone == (IF shut THEN {fd} ELSE {}) \cup ({slotFd[c][t]} \ {NoFd})
<1>0. /\ R \in [Fds -> Ctxs \cup {NoCtx}]
      /\ \A g \in Fds : R[g] # NoCtx =>
           LET h == handler[R[g]] IN
           /\ g \in open
           /\ \/ R[g] = ctx_ptr_map[g]
              \/ h.client \in Clients /\ slotFd[h.client][h.slot] = g /\ slotCtx[h.client][h.slot] = R[g]
      /\ Exclusive => R = interest
  <2>1. c \in Clients
    BY SessionDispatch DEF ClientOpen
  <2> QED
    BY <2>1, RearmedTable
<1> USE SentinelAssumption, HandlerFields DEF IndInv
<1>1. /\ x \in pending /\ c \in Clients
      /\ slotFd[c]["down"] \in Fds /\ client_ptr_map[slotFd[c]["down"]] = c
      /\ RemovalTask(c) \in Tasks
      /\ RemovalTask(c).fd = slotFd[c]["down"] /\ RemovalTask(c).by = c
  BY SessionDispatch DEF ClientOpen
<1>2. t # "down" /\ fd \in Fds /\ fd \notin open
  BY DEF ClientOpen, MayOpen, FreshFds
<1>3. /\ y \in Ctxs \cup {NoCtx}
      /\ y \in Ctxs => /\ y \notin pending
                       /\ \A g \in Fds : ctx_ptr_map[g] # y /\ interest[g] # y
                       /\ \A e \in Clients, s \in Slots : slotCtx[e][s] # y
  BY DEF ClientOpen, FreshCtxs, Live, InMap, InSession
<1>4. \A e \in Clients, s \in Slots :
        /\ slotFd'[e][s]  = IF e = c /\ s = t THEN fd ELSE slotFd[e][s]
        /\ slotCtx'[e][s] = IF e = c /\ s = t THEN y ELSE slotCtx[e][s]
  BY <1>1 DEF TypeOK, ClientOpen
<1>5. /\ open' = (open \cup {fd}) \ gone
      /\ interest' = Closed(gone, [R EXCEPT ![fd] = y])
      /\ \A z \in Ctxs : handler'[z] = IF z = y THEN SessionOf(c, t) ELSE handler[z]
      /\ pending' = pending \ {x}
      /\ UNCHANGED <<ctx_ptr_map, client_ptr_map, phase>>
  BY DEF ClientOpen, Dispatch
<1>6. \A g : g \in gone <=> (shut /\ g = fd) \/ (g = slotFd[c][t] /\ g # NoFd)
  OBVIOUS
<1> HIDE DEF gone, R
<1>7. \A g \in Fds : interest'[g] = IF g \in gone THEN NoCtx ELSE IF g = fd THEN y ELSE R[g]
  BY <1>5, <1>0 DEF Closed
<1>8. TypeOK'
  <2>1. interest' \in [Fds -> Ctxs \cup {NoCtx}]
    BY <1>3, <1>5, <1>0 DEF Closed
  <2>2. open' \subseteq Fds
    BY <1>2, <1>5 DEF TypeOK
  <2>3. /\ slotFd' \in [Clients -> [Slots -> Fds \cup {NoFd}]]
        /\ slotCtx' \in [Clients -> [Slots -> Ctxs \cup {NoCtx}]]
    BY <1>2, <1>3 DEF TypeOK, ClientOpen
  <2>4. handler' \in [Ctxs -> Handlers]
    BY <1>1 DEF TypeOK, ClientOpen
  <2>5. deferred' \subseteq Ctxs
    BY <1>1 DEF TypeOK, ClientOpen, Replaced
  <2>6. task_queue' \in Seq(Tasks)
    BY <1>1 DEF TypeOK, ClientOpen
  <2>7. kind' = kind
    BY DEF ClientOpen
  <2> QED
    BY <2>1, <2>2, <2>3, <2>4, <2>5, <2>6, <2>7, <1>5 DEF TypeOK
<1>9. MapHandlers'
  BY <1>3, <1>5 DEF TypeOK, MapHandlers
<1>10. SlotHandlers'
  BY <1>1, <1>2, <1>3, <1>4, <1>5 DEF TypeOK, SlotHandlers
<1>11. MapKeys'
  BY <1>2, <1>4, <1>5 DEF TypeOK, MapKeys, Slots
<1>12. HoldersMapped'
  BY <1>1, <1>2, <1>4, <1>5 DEF TypeOK, HoldersMapped, Slots
<1>13. Registrations'
  <2> SUFFICES ASSUME NEW g \in Fds, interest'[g] # NoCtx
               PROVE  LET h == handler'[interest'[g]] IN
                      /\ g \in open'
                      /\ \/ interest'[g] = ctx_ptr_map'[g]
                         \/ /\ h.client \in Clients
                            /\ slotFd'[h.client][h.slot] = g
                            /\ slotCtx'[h.client][h.slot] = interest'[g]
    BY DEF Registrations
  <2>0. g \notin gone
    BY <1>7
  <2>1. CASE g = fd
    <3>1. interest'[g] = y /\ y \in Ctxs /\ g \in open'
      BY <2>0, <2>1, <1>3, <1>5, <1>7
    <3>2. handler'[y] = SessionOf(c, t)
      BY <3>1, <1>5
    <3> QED
      BY <2>1, <3>1, <3>2, <1>1, <1>4
  <2>2. CASE g # fd
    <3>1. g # slotFd[c][t] /\ interest'[g] = R[g] /\ R[g] \in Ctxs
      BY <2>0, <2>2, <1>0, <1>6, <1>7
    <3>2. g \in open /\ g \in open'
      BY <2>0, <3>1, <1>5, <1>0
    <3>3. CASE R[g] = ctx_ptr_map[g]
      BY <3>1, <3>2, <3>3, <1>5
    <3>4. CASE R[g] # ctx_ptr_map[g]
      <4> DEFINE h == handler[R[g]]
      <4>1. h.client \in Clients /\ h.slot \in Slots
            /\ slotFd[h.client][h.slot] = g /\ slotCtx[h.client][h.slot] = R[g]
        BY <3>1, <3>4, <1>0 DEF TypeOK
      <4>2. ~(h.client = c /\ h.slot = t) /\ R[g] # y
        BY <4>1, <3>1, <1>3
      <4>3. handler'[R[g]] = h
        BY <4>2, <3>1, <1>5
      <4> QED
        BY <4>1, <4>2, <4>3, <3>1, <3>2, <1>4
    <3> QED
      BY <3>3, <3>4
  <2> QED
    BY <2>1, <2>2
<1>14. Batch'
  <2> SUFFICES ASSUME NEW z \in pending' \cap Ctxs
               PROVE  LET h == handler'[z] IN
                      \/ /\ h.fd \in Fds /\ h = MasterOf(h.fd)
                         /\ ctx_ptr_map'[h.fd] = z \/ z \in deferred'
                      \/ /\ h.client \in Clients
                         /\ slotFd'[h.client]["down"] # NoFd
                         /\ slotCtx'[h.client][h.slot] = z \/ z \in deferred'
    BY DEF Batch
  <2> DEFINE h == handler[z]
  <2>1. z \in pending \cap Ctxs /\ handler'[z] = h /\ h \in Handlers
    BY <1>3, <1>5 DEF TypeOK
  <2>2. deferred' = deferred \cup ({slotCtx[c][t]} \ {NoCtx})
    BY DEF ClientOpen, Replaced
  <2>3. CASE h.fd \in Fds /\ h = MasterOf(h.fd) /\ (ctx_ptr_map[h.fd] = z \/ z \in deferred)
    BY <2>1, <2>2, <2>3, <1>5
  <2>4. CASE /\ h.client \in Clients /\ slotFd[h.client]["down"] # NoFd
             /\ slotCtx[h.client][h.slot] = z \/ z \in deferred
    <3>1. "down" \in Slots /\ h.slot \in Slots
      BY <2>1 DEF Slots
    <3>2. slotFd'[h.client]["down"] # NoFd
      BY <2>4, <3>1, <1>2, <1>4
    <3>3. slotCtx'[h.client][h.slot] = z \/ z \in deferred'
      BY <2>1, <2>2, <2>4, <3>1, <1>4
    <3> QED
      BY <2>1, <2>4, <3>2, <3>3
  <2> QED
    BY <2>1, <2>3, <2>4 DEF Batch
<1>15. Cycle'
  BY DEF Cycle, ClientOpen, Dispatch
<1>16. Queued'
  <2>1. task_queue' \in {task_queue, Append(task_queue, RemovalTask(c))}
    BY DEF ClientOpen
  <2>2. \A i \in 1..Len(task_queue) : Append(task_queue, RemovalTask(c))[i] = task_queue[i]
    BY DEF TypeOK
  <2>3. /\ Len(Append(task_queue, RemovalTask(c))) = Len(task_queue) + 1
        /\ Append(task_queue, RemovalTask(c))[Len(task_queue) + 1] = RemovalTask(c)
        /\ Len(task_queue) \in Nat
    BY DEF TypeOK
  <2>4. CASE task_queue' = task_queue
    BY <2>4, <1>5 DEF Queued
  <2>5. CASE task_queue' = Append(task_queue, RemovalTask(c))
    <3> SUFFICES ASSUME NEW i \in 1..(Len(task_queue) + 1)
                 PROVE  \/ client_ptr_map[task_queue'[i].fd] = task_queue'[i].by
                        \/ phase = "tasks" /\ client_ptr_map[task_queue'[i].fd] = NoClient
      BY <2>3, <2>5, <1>5 DEF Queued
    <3>1. CASE i \in 1..Len(task_queue)
      BY <3>1, <2>2, <2>5 DEF Queued
    <3>2. CASE i = Len(task_queue) + 1
      BY <3>2, <2>3, <2>5, <1>1
    <3> QED
      BY <3>1, <3>2, <2>3
  <2> QED
    BY <2>1, <2>4, <2>5
<1>17. ASSUME Exclusive, ~Iface PROVE Exclusive'
  <2>1. /\ \A e \in Clients, s \in Slots : slotFd[e][s] # NoFd =>
             slotFd[e][s] \in open /\ interest[slotFd[e][s]] = slotCtx[e][s]
        /\ \A e, f \in Clients, s, u \in Slots :
             slotFd[e][s] = slotFd[f][u] /\ slotFd[e][s] # NoFd => e = f /\ s = u
    BY <1>17 DEF Exclusive, SlotFds
  <2>2. /\ ~shut /\ fd \notin gone
        /\ \A g : g \in gone <=> g = slotFd[c][t] /\ g # NoFd
    <3>1. ~shut
      BY <1>17 DEF ClientOpen
    <3> QED
      BY <3>1, <1>1, <1>2, <1>6, <2>1
  <2>3. \A g \in Fds : interest'[g] = IF g = fd THEN y ELSE
                                       IF g = slotFd[c][t] THEN NoCtx ELSE interest[g]
    BY <2>2, <1>0, <1>7, <1>17
  <2>4. ASSUME NEW e \in Clients, NEW s \in Slots, slotFd'[e][s] # NoFd
        PROVE  slotFd'[e][s] \in open' /\ interest'[slotFd'[e][s]] = slotCtx'[e][s]
    <3>1. CASE e = c /\ s = t
      <4>1. slotFd'[e][s] = fd /\ slotCtx'[e][s] = y
        BY <3>1, <1>4
      <4>2. fd \in open' /\ interest'[fd] = y
        BY <2>2, <2>3, <1>2, <1>5
      <4> QED
        BY <4>1, <4>2
    <3>2. CASE ~(e = c /\ s = t)
      <4>1. slotFd[e][s] \in open /\ interest[slotFd[e][s]] = slotCtx[e][s]
        BY <2>1, <2>4, <3>2, <1>4
      <4>2. slotFd[e][s] # slotFd[c][t] /\ slotFd[e][s] # fd /\ slotFd[e][s] \in Fds
        BY <2>1, <2>4, <3>2, <4>1, <1>1, <1>2, <1>4 DEF TypeOK
      <4>3. slotFd'[e][s] = slotFd[e][s] /\ slotCtx'[e][s] = slotCtx[e][s]
        BY <3>2, <1>4
      <4>4. slotFd[e][s] \in open' /\ interest'[slotFd[e][s]] = interest[slotFd[e][s]]
        BY <4>1, <4>2, <2>2, <2>3, <1>5
      <4> QED
        BY <4>1, <4>3, <4>4
    <3> QED
      BY <3>1, <3>2
  <2>5. ASSUME NEW e \in Clients, NEW f \in Clients, NEW s \in Slots, NEW u \in Slots,
               slotFd'[e][s] = slotFd'[f][u], slotFd'[e][s] # NoFd
        PROVE  e = f /\ s = u
    <3>1. \A g \in Clients, v \in Slots : slotFd[g][v] # NoFd => slotFd[g][v] # fd
      BY <2>1, <1>2
    <3>2. CASE e = c /\ s = t
      BY <3>1, <3>2, <2>5, <1>1, <1>4
    <3>3. CASE f = c /\ u = t
      BY <3>1, <3>3, <2>5, <1>1, <1>4
    <3>4. CASE ~(e = c /\ s = t) /\ ~(f = c /\ u = t)
      BY <2>1, <3>4, <2>5, <1>4
    <3> QED
      BY <3>2, <3>3, <3>4
  <2>6. ASSUME NEW z \in pending' \cap Ctxs, handler'[z].client = NoClient
        PROVE  /\ handler'[z].fd \in Fds /\ interest'[handler'[z].fd] = z
               /\ ctx_ptr_map'[handler'[z].fd] = z
    <3> DEFINE h == handler[z]
    <3>1. z \in pending \cap Ctxs /\ handler'[z] = h
      BY <1>3, <1>5
    <3>2. h.fd \in Fds /\ interest[h.fd] = z /\ ctx_ptr_map[h.fd] = z
      BY <2>6, <3>1, <1>17 DEF Exclusive, BatchRegistered
    <3>3. h.fd \in open
      BY <3>1, <3>2 DEF Registrations
    <3>4. h.fd # slotFd[c][t]
      BY <2>1, <2>6, <3>1, <3>2, <1>1 DEF SlotHandlers
    <3> QED
      BY <3>1, <3>2, <3>3, <3>4, <2>3, <1>2, <1>5
  <2> QED
    BY <2>4, <2>5, <2>6 DEF Exclusive, SlotFds, BatchRegistered
<1> QED
  BY <1>8, <1>9, <1>10, <1>11, <1>12, <1>13, <1>14, <1>15, <1>16, <1>17

\* The session takes the connection over from the running accept context.
LEMMA MasterStreamInv ==
  ASSUME IndInv, NEW x, NEW c, NEW k, NEW d, NEW F, NEW X, NEW shut \in BOOLEAN,
         MasterStream(x, c, k, d, F, X, shut)
  PROVE  IndInv' /\ (Exclusive /\ ~Iface => Exclusive')
<1> DEFINE fd == handler[x].fd
           newFd(s)  == CASE s = "down" -> fd [] s = "up" -> F["up"]
                          [] s = "relay" -> F["relay"] [] OTHER -> NoFd
           newCtx(s) == CASE s = "down" -> d [] s = "up" -> X["up"]
                          [] s = "relay" -> X["relay"] [] OTHER -> NoCtx
           opened == {F["up"]} \cup (IF shut THEN {} ELSE {F["relay"]})
<1> USE SentinelAssumption, HandlerFields DEF IndInv
<1>1. /\ x \in pending \cap Ctxs /\ fd \in Fds /\ fd \in open
      /\ handler[x] = MasterOf(fd) /\ (ctx_ptr_map[fd] = x \/ x \in deferred)
  BY MasterDispatch DEF MasterStream
<1>2. c \in Clients /\ client_ptr_map[fd] = NoClient /\ \A g \in Fds : client_ptr_map[g] # c
  BY DEF MasterStream, Alive
<1>3. \A s \in Slots : slotFd[c][s] = NoFd /\ slotCtx[c][s] = NoCtx
  <2> SUFFICES ASSUME NEW s \in Slots PROVE slotFd[c][s] = NoFd /\ slotCtx[c][s] = NoCtx
    OBVIOUS
  <2>1. slotFd[c]["down"] \in Fds \cup {NoFd}
    BY <1>2 DEF TypeOK, Slots
  <2>2. slotFd[c][s] = NoFd
    BY <2>1, <1>2 DEF HoldersMapped
  <2> QED
    BY <2>2, <1>2 DEF SlotHandlers
<1>4. /\ d \in Ctxs /\ d # X["up"] /\ d # X["relay"]
      /\ F["up"] \in (Fds \ open) \cup {NoFd} /\ F["relay"] \in (Fds \ open) \cup {NoFd}
      /\ X["up"] \in Ctxs \cup {NoCtx} /\ X["relay"] \in Ctxs \cup {NoCtx}
      /\ F["up"] # F["relay"] \/ F["up"] = NoFd \/ shut
      /\ X["up"] # X["relay"] \/ X["up"] = NoCtx
      /\ F["up"] = NoFd <=> X["up"] = NoCtx
      /\ F["relay"] = NoFd => X["relay"] = NoCtx
      /\ shut => Iface /\ X["relay"] = NoCtx
  BY DEF MasterStream, ConstructorOpens, FreshFds, FreshCtxs
<1>5. \A y \in {d, X["up"], X["relay"]} \cap Ctxs :
        /\ y \notin pending
        /\ \A g \in Fds : ctx_ptr_map[g] # y /\ interest[g] # y
        /\ \A e \in Clients, s \in Slots : slotCtx[e][s] # y
  BY DEF MasterStream, FreshCtxs, Live, InMap, InSession
<1>6. \A e \in Clients, s \in Slots :
        /\ slotFd'[e][s]  = IF e = c THEN newFd(s) ELSE slotFd[e][s]
        /\ slotCtx'[e][s] = IF e = c THEN newCtx(s) ELSE slotCtx[e][s]
  <2> DEFINE newFds  == [NoFds EXCEPT !["down"] = fd, !["up"] = F["up"], !["relay"] = F["relay"]]
             newCtxs == [NoCtxs EXCEPT !["down"] = d, !["up"] = X["up"], !["relay"] = X["relay"]]
  <2>1. slotFd' = [slotFd EXCEPT ![c] = newFds] /\ slotCtx' = [slotCtx EXCEPT ![c] = newCtxs]
    BY DEF MasterStream
  <2>2. \A s \in Slots : newFds[s] = newFd(s) /\ newCtxs[s] = newCtx(s)
    BY DEF NoFds, NoCtxs, Slots
  <2> HIDE DEF newFds, newCtxs, newFd, newCtx
  <2> QED
    BY <2>1, <2>2, <1>2 DEF TypeOK
<1>7. /\ open' = open \cup (opened \ {NoFd})
      /\ \A g \in Fds : interest'[g] = CASE g = fd -> d [] g = F["up"] -> X["up"]
                                         [] g = F["relay"] /\ ~shut -> X["relay"] [] OTHER -> interest[g]
      /\ \A y \in Ctxs : handler'[y] = CASE y = d -> SessionOf(c, "down")
                                         [] y = X["up"] -> SessionOf(c, "up")
                                         [] y = X["relay"] -> SessionOf(c, "relay")
                                         [] OTHER -> handler[y]
      /\ ctx_ptr_map' = [ctx_ptr_map EXCEPT ![fd] = NoCtx]
      /\ client_ptr_map' = [client_ptr_map EXCEPT ![fd] = c]
      /\ pending' = pending \ {x}
      /\ deferred' = deferred \cup ({ctx_ptr_map[fd]} \ {NoCtx})
      /\ UNCHANGED <<phase, task_queue>>
  BY <1>1 DEF MasterStream, Dispatch, Parked
<1>8. TypeOK'
  <2>1. interest' \in [Fds -> Ctxs \cup {NoCtx}] /\ handler' \in [Ctxs -> Handlers]
    BY <1>2, <1>4, <1>7 DEF TypeOK, MasterStream, Slots
  <2>2. slotFd' \in [Clients -> [Slots -> Fds \cup {NoFd}]]
    BY <1>1, <1>4 DEF TypeOK, MasterStream, NoFds, Slots
  <2>3. slotCtx' \in [Clients -> [Slots -> Ctxs \cup {NoCtx}]]
    BY <1>4 DEF TypeOK, MasterStream, NoCtxs, Slots
  <2>4. kind' \in [Clients -> Kinds]
    BY DEF TypeOK, MasterStream
  <2> QED
    BY <2>1, <2>2, <2>3, <2>4, <1>1, <1>2, <1>4, <1>7 DEF TypeOK
<1>9. MapHandlers'
  BY <1>1, <1>5, <1>7 DEF TypeOK, MapHandlers
<1>10. SlotHandlers'
  BY <1>1, <1>2, <1>4, <1>5, <1>6, <1>7 DEF TypeOK, SlotHandlers, Slots
<1>11. MapKeys'
  BY <1>1, <1>2, <1>6, <1>7 DEF TypeOK, MapKeys, Slots
<1>12. HoldersMapped'
  BY <1>1, <1>2, <1>6, <1>7 DEF TypeOK, HoldersMapped, Slots
<1>13. Registrations'
  <2> SUFFICES ASSUME NEW g \in Fds, interest'[g] # NoCtx
               PROVE  LET h == handler'[interest'[g]] IN
                      /\ g \in open'
                      /\ \/ interest'[g] = ctx_ptr_map'[g]
                         \/ /\ h.client \in Clients
                            /\ slotFd'[h.client][h.slot] = g
                            /\ slotCtx'[h.client][h.slot] = interest'[g]
    BY DEF Registrations
  <2>1. CASE g \in {fd} \cup opened
    BY <2>1, <1>1, <1>2, <1>4, <1>5, <1>6, <1>7 DEF Slots
  <2>2. CASE g \notin {fd} \cup opened
    <3>1. interest'[g] = interest[g] /\ interest[g] \in Ctxs
      BY <2>2, <1>7 DEF TypeOK
    <3>2. handler'[interest'[g]] = handler[interest[g]]
      BY <3>1, <1>5, <1>7
    <3>3. g \in open' /\ ctx_ptr_map'[g] = ctx_ptr_map[g]
      BY <2>2, <3>1, <1>7 DEF Registrations, TypeOK
    <3>4. CASE interest[g] = ctx_ptr_map[g]
      BY <3>1, <3>3, <3>4
    <3>5. CASE interest[g] # ctx_ptr_map[g]
      <4> DEFINE h == handler[interest[g]]
      <4>1. h.client \in Clients /\ h.slot \in Slots
            /\ slotFd[h.client][h.slot] = g /\ slotCtx[h.client][h.slot] = interest[g]
        BY <3>1, <3>5 DEF Registrations, TypeOK
      <4>2. h.client # c
        BY <4>1, <1>3
      <4> QED
        BY <4>1, <4>2, <3>1, <3>2, <3>3, <1>6
    <3> QED
      BY <3>4, <3>5
  <2> QED
    BY <2>1, <2>2
<1>14. Batch'
  <2> SUFFICES ASSUME NEW z \in pending' \cap Ctxs
               PROVE  LET h == handler'[z] IN
                      \/ /\ h.fd \in Fds /\ h = MasterOf(h.fd)
                         /\ ctx_ptr_map'[h.fd] = z \/ z \in deferred'
                      \/ /\ h.client \in Clients
                         /\ slotFd'[h.client]["down"] # NoFd
                         /\ slotCtx'[h.client][h.slot] = z \/ z \in deferred'
    BY DEF Batch
  <2> DEFINE h == handler[z]
  <2>1. z \in pending \cap Ctxs /\ handler'[z] = h /\ h \in Handlers
    BY <1>5, <1>7 DEF TypeOK
  <2>2. CASE h.fd \in Fds /\ h = MasterOf(h.fd) /\ (ctx_ptr_map[h.fd] = z \/ z \in deferred)
    BY <2>1, <2>2, <1>7 DEF TypeOK
  <2>3. CASE /\ h.client \in Clients /\ slotFd[h.client]["down"] # NoFd
             /\ slotCtx[h.client][h.slot] = z \/ z \in deferred
    <3>1. "down" \in Slots /\ h.slot \in Slots
      BY <2>1 DEF Slots
    <3>2. h.client # c
      BY <2>3, <3>1, <1>3
    <3> QED
      BY <2>1, <2>3, <3>1, <3>2, <1>6, <1>7
  <2> QED
    BY <2>1, <2>2, <2>3 DEF Batch
<1>15. Cycle'
  BY DEF Cycle, MasterStream, Dispatch
<1>16. Queued'
  <2>1. \A i \in 1..Len(task_queue) : task_queue[i] \in Tasks
    BY DEF TypeOK
  <2>2. \A i \in 1..Len(task_queue) :
          task_queue[i].fd \in Fds /\ task_queue[i].by \in Clients
    BY <2>1 DEF Tasks
  <2>3. phase = "dispatch"
    BY DEF MasterStream, Dispatch
  <2>4. \A i \in 1..Len(task_queue) : task_queue[i].fd # fd
    BY <2>2, <2>3, <1>2 DEF Queued
  <2> QED
    BY <2>2, <2>3, <2>4, <1>1, <1>7 DEF Queued, TypeOK
<1>17. ASSUME Exclusive, ~Iface PROVE Exclusive'
  <2>1. /\ interest[fd] = x /\ ctx_ptr_map[fd] = x
        /\ \A e \in Clients, s \in Slots : slotFd[e][s] # fd
    BY <1>17, MasterHolds DEF MasterStream
  <2>2. ~shut /\ opened = {F["up"], F["relay"]}
    BY <1>4, <1>17
  <2>3. ASSUME NEW e \in Clients, NEW s \in Slots, slotFd'[e][s] # NoFd
        PROVE  slotFd'[e][s] \in open' /\ interest'[slotFd'[e][s]] = slotCtx'[e][s]
    <3>1. CASE e = c
      BY <3>1, <2>2, <2>3, <1>1, <1>4, <1>6, <1>7 DEF Slots
    <3>2. CASE e # c
      <4>1. /\ slotFd'[e][s] = slotFd[e][s] /\ slotCtx'[e][s] = slotCtx[e][s]
            /\ slotFd[e][s] \in Fds
        BY <3>2, <2>3, <1>6 DEF TypeOK
      <4>2. slotFd[e][s] \in open /\ interest[slotFd[e][s]] = slotCtx[e][s]
        BY <4>1, <2>3, <1>17 DEF Exclusive, SlotFds
      <4>3. slotFd[e][s] \notin {fd, F["up"], F["relay"]}
        BY <4>1, <4>2, <1>4, <2>1
      <4> QED
        BY <4>1, <4>2, <4>3, <1>7
    <3> QED
      BY <3>1, <3>2
  <2>4. ASSUME NEW e \in Clients, NEW f \in Clients, NEW s \in Slots, NEW u \in Slots,
               slotFd'[e][s] = slotFd'[f][u], slotFd'[e][s] # NoFd
        PROVE  e = f /\ s = u
    <3>1. \A g \in Clients, v \in Slots : g # c /\ slotFd[g][v] # NoFd =>
            slotFd[g][v] \in open /\ slotFd[g][v] # fd
      BY <2>1, <1>17 DEF Exclusive, SlotFds
    <3>2. CASE e = c /\ f = c
      BY <3>2, <2>2, <2>4, <1>1, <1>4, <1>6 DEF Slots
    <3>3. CASE e # c /\ f # c
      BY <3>3, <2>4, <1>6, <1>17 DEF Exclusive, SlotFds
    <3>4. CASE e = c /\ f # c
      BY <3>1, <3>4, <2>4, <1>1, <1>4, <1>6 DEF Slots
    <3>5. CASE e # c /\ f = c
      BY <3>1, <3>5, <2>4, <1>1, <1>4, <1>6 DEF Slots
    <3> QED
      BY <3>2, <3>3, <3>4, <3>5
  <2>5. ASSUME NEW z \in pending' \cap Ctxs, handler'[z].client = NoClient
        PROVE  /\ handler'[z].fd \in Fds /\ interest'[handler'[z].fd] = z
               /\ ctx_ptr_map'[handler'[z].fd] = z
    <3> DEFINE h == handler[z]
    <3>1. z \in pending \cap Ctxs /\ z # x /\ handler'[z] = h
      BY <1>5, <1>7 DEF TypeOK
    <3>2. h.fd \in Fds /\ interest[h.fd] = z /\ ctx_ptr_map[h.fd] = z
      BY <2>5, <3>1, <1>17 DEF Exclusive, BatchRegistered
    <3>3. h.fd \in open
      BY <3>1, <3>2 DEF Registrations
    <3>4. h.fd \notin {fd, F["up"], F["relay"]}
      BY <2>1, <3>1, <3>2, <3>3, <1>1, <1>4
    <3> QED
      BY <3>1, <3>2, <3>4, <1>7 DEF TypeOK
  <2> QED
    BY <2>3, <2>4, <2>5 DEF Exclusive, SlotFds, BatchRegistered
<1> QED
  BY <1>8, <1>9, <1>10, <1>11, <1>12, <1>13, <1>14, <1>15, <1>16, <1>17

\* Destroying a session takes its contexts with every registration of theirs; and
\* nobody else's, as long as its numbers are its own.
LEMMA RunTaskInv ==
  ASSUME IndInv, RunTask
  PROVE  IndInv' /\ (Exclusive => Exclusive')
<1> DEFINE fd == Head(task_queue).fd
           c  == client_ptr_map[fd]
<1> USE SentinelAssumption, HandlerFields DEF IndInv
<1>1. /\ fd \in Fds /\ c \in Clients \cup {NoClient}
      /\ task_queue \in Seq(Tasks) /\ Tail(task_queue) \in Seq(Tasks)
      /\ phase = "tasks" /\ phase' = "tasks" /\ pending = {} /\ pending' = {}
      /\ task_queue' = Tail(task_queue)
      /\ client_ptr_map' = [client_ptr_map EXCEPT ![fd] = NoClient]
      /\ handler' = handler
  <2>1. task_queue \in Seq(Tasks) /\ task_queue # <<>> /\ phase = "tasks"
    BY DEF RunTask, TypeOK
  <2>2. Head(task_queue) \in Tasks /\ Tail(task_queue) \in Seq(Tasks)
    BY <2>1
  <2>3. fd \in Fds
    BY <2>2 DEF Tasks
  <2>4. c \in Clients \cup {NoClient}
    BY <2>3 DEF TypeOK
  <2>5. handler' = handler
    BY DEF RunTask, object
  <2> QED
    BY <2>1, <2>2, <2>3, <2>4, <2>5 DEF RunTask, Cycle
<1>2. Batch' /\ Cycle'
  BY <1>1 DEF Batch, Cycle
<1>3. Queued'
  <2>1. \A i \in 1..Len(Tail(task_queue)) :
          /\ Tail(task_queue)[i] = task_queue[i + 1]
          /\ i + 1 \in 1..Len(task_queue)
          /\ Tail(task_queue)[i] \in Tasks
    BY <1>1 DEF RunTask
  <2>2. \A t \in Tasks : t.fd \in Fds
    BY DEF Tasks
  <2>3. \A g \in Fds : client_ptr_map'[g] \in {client_ptr_map[g], NoClient}
    BY <1>1 DEF TypeOK
  <2> SUFFICES ASSUME NEW i \in 1..Len(Tail(task_queue))
               PROVE  client_ptr_map'[Tail(task_queue)[i].fd] \in {Tail(task_queue)[i].by, NoClient}
    BY <1>1 DEF Queued
  <2> QED
    BY <2>1, <2>2, <2>3 DEF Queued
<1>4. CASE c = NoClient
  <2>1. UNCHANGED <<open, interest, ctx_ptr_map, deferred, handler, slotFd, slotCtx, kind>>
        /\ client_ptr_map' = client_ptr_map
    BY <1>1, <1>4 DEF RunTask, kernel, object, TypeOK
  <2> QED
    BY <2>1, <1>1, <1>2, <1>3 DEF TypeOK, MapHandlers, SlotHandlers, MapKeys,
         HoldersMapped, Registrations, Exclusive, SlotFds, BatchRegistered
<1>5. CASE c # NoClient
  <2>1. c \in Clients /\ slotFd[c]["down"] = fd
    BY <1>1, <1>5 DEF MapKeys
  <2>2. \A e \in Clients, s \in Slots :
          /\ slotFd'[e][s]  = IF e = c THEN NoFd ELSE slotFd[e][s]
          /\ slotCtx'[e][s] = IF e = c THEN NoCtx ELSE slotCtx[e][s]
    BY <2>1, <1>5 DEF RunTask, TypeOK, NoFds, NoCtxs
  <2>3. /\ open' = open \ HeldFds(c)
        /\ \A g \in Fds : interest'[g] = IF g \in HeldFds(c) THEN NoCtx ELSE interest[g]
        /\ \A g \in Fds : ctx_ptr_map'[g] \in {ctx_ptr_map[g], NoCtx}
        /\ \A g \in Fds \ HeldFds(c) : ctx_ptr_map'[g] = ctx_ptr_map[g]
    <3>1. RemovedFds(c) \subseteq HeldFds(c)
      BY DEF RemovedFds, HeldFds, Guarded, Slots
    <3>2. /\ open' = open \ HeldFds(c)
          /\ interest' = Closed(HeldFds(c), interest)
          /\ ctx_ptr_map' = Closed(RemovedFds(c), ctx_ptr_map)
      BY <1>5 DEF RunTask
    <3> QED
      BY <3>1, <3>2 DEF Closed
  <2>4. \A g \in HeldFds(c) : \E s \in Slots : slotFd[c][s] = g /\ g # NoFd
    BY DEF HeldFds
  <2>5. \A s \in Slots : slotFd[c][s] # NoFd => slotFd[c][s] \in HeldFds(c)
    BY DEF HeldFds
  <2>7. TypeOK'
    <3>1. slotFd' \in [Clients -> [Slots -> Fds \cup {NoFd}]]
          /\ slotCtx' \in [Clients -> [Slots -> Ctxs \cup {NoCtx}]]
      <4>1. NoFds \in [Slots -> Fds \cup {NoFd}] /\ NoCtxs \in [Slots -> Ctxs \cup {NoCtx}]
        BY DEF NoFds, NoCtxs
      <4>2. slotFd' = [slotFd EXCEPT ![c] = NoFds] /\ slotCtx' = [slotCtx EXCEPT ![c] = NoCtxs]
        BY <1>5 DEF RunTask
      <4> QED
        BY <4>1, <4>2, <2>1 DEF TypeOK
    <3>2. interest' \in [Fds -> Ctxs \cup {NoCtx}] /\ ctx_ptr_map' \in [Fds -> Ctxs \cup {NoCtx}]
      BY <1>5 DEF RunTask, TypeOK, Closed
    <3>3. deferred' \subseteq Ctxs
      <4>1. RemovedFds(c) \subseteq Fds
        BY <2>1 DEF RemovedFds, Guarded, TypeOK, Slots
      <4> QED
        BY <4>1, <1>5 DEF RunTask, TypeOK, Parked
    <3>4. kind' \in [Clients -> Kinds]
      BY <1>5 DEF RunTask, TypeOK, Kinds
    <3> QED
      BY <3>1, <3>2, <3>3, <3>4, <2>3, <1>1 DEF TypeOK
  <2>8. MapHandlers' /\ SlotHandlers'
    <3>1. MapHandlers'
      BY <2>3, <1>1 DEF MapHandlers
    <3>2. SlotHandlers'
      BY <2>2, <1>1 DEF SlotHandlers
    <3> QED
      BY <3>1, <3>2
  <2>9. MapKeys'
    BY <2>1, <2>2, <1>1 DEF MapKeys, TypeOK, Slots
  <2>10. HoldersMapped'
    <3> SUFFICES ASSUME NEW e \in Clients, NEW s \in Slots, slotFd'[e][s] # NoFd
                 PROVE  slotFd'[e]["down"] # NoFd /\ client_ptr_map'[slotFd'[e]["down"]] = e
      BY DEF HoldersMapped
    <3>1. "down" \in Slots /\ e # c
      BY <2>2 DEF Slots
    <3>2. slotFd[e]["down"] \in Fds /\ client_ptr_map[slotFd[e]["down"]] = e
      BY <3>1, <2>2 DEF HoldersMapped, TypeOK
    <3> QED
      BY <3>1, <3>2, <2>2, <1>1 DEF TypeOK
  <2>11. ASSUME Exclusive PROVE Exclusive'
    <3>1. \A e \in Clients, s \in Slots : e # c => slotFd[e][s] \notin HeldFds(c)
      BY <2>1, <2>4, <2>11 DEF Exclusive, SlotFds
    <3>2. ASSUME NEW e \in Clients, NEW s \in Slots, slotFd'[e][s] # NoFd
          PROVE  slotFd'[e][s] \in open' /\ interest'[slotFd'[e][s]] = slotCtx'[e][s]
      BY <2>11, <3>1, <3>2, <2>2, <2>3 DEF Exclusive, SlotFds, TypeOK
    <3>3. ASSUME NEW e \in Clients, NEW f \in Clients, NEW s \in Slots, NEW u \in Slots,
                 slotFd'[e][s] = slotFd'[f][u], slotFd'[e][s] # NoFd
          PROVE  e = f /\ s = u
      BY <2>11, <3>3, <2>2 DEF Exclusive, SlotFds
    <3> QED
      BY <3>2, <3>3, <1>1 DEF Exclusive, SlotFds, BatchRegistered
  <2>12. Registrations'
    <3> SUFFICES ASSUME NEW g \in Fds, interest'[g] # NoCtx
                 PROVE  LET h == handler'[interest'[g]] IN
                        /\ g \in open'
                        /\ \/ interest'[g] = ctx_ptr_map'[g]
                           \/ /\ h.client \in Clients
                              /\ slotFd'[h.client][h.slot] = g
                              /\ slotCtx'[h.client][h.slot] = interest'[g]
      BY DEF Registrations
    <3>1. /\ g \notin HeldFds(c) /\ interest'[g] = interest[g] /\ interest[g] \in Ctxs
          /\ ctx_ptr_map'[g] = ctx_ptr_map[g] /\ g \in open'
      BY <2>3 DEF TypeOK, Registrations
    <3>2. CASE interest[g] = ctx_ptr_map[g]
      BY <3>1, <3>2
    <3>3. CASE interest[g] # ctx_ptr_map[g]
      <4> DEFINE h == handler[interest[g]]
      <4>1. h.client \in Clients /\ h.slot \in Slots
            /\ slotFd[h.client][h.slot] = g /\ slotCtx[h.client][h.slot] = interest[g]
        BY <3>1, <3>3 DEF Registrations, TypeOK
      <4>2. h.client # c
        BY <4>1, <3>1, <2>5
      <4> QED
        BY <4>1, <4>2, <3>1, <2>2, <1>1
    <3> QED
      BY <3>2, <3>3
  <2> QED
    BY <2>7, <2>8, <2>9, <2>10, <2>11, <2>12, <1>2, <1>3
<1> QED
  BY <1>4, <1>5

\* Every step of the reactor preserves the inductive invariant.
LEMMA NextInv ==
  IndInv /\ [Next]_vars => IndInv' /\ (Exclusive /\ ~Iface => Exclusive')
<1> SUFFICES ASSUME IndInv, [Next]_vars
             PROVE  IndInv' /\ (Exclusive /\ ~Iface => Exclusive')
  OBVIOUS
<1>1. CASE Wait
  BY <1>1, EpollWaitInv DEF Wait
<1>2. CASE Accept
  BY <1>2, QuietStepInv, AcceptOneInv DEF Accept
<1>3. CASE \E x \in pending \cap Ctxs : Master(x)
  BY <1>3, QuietStepInv, MasterCloseInv, MasterThrowInv, MasterStreamInv DEF Master
<1>4. CASE \E x \in pending \cap Ctxs : Client(x)
  BY <1>4, ClientIdleInv, ClientCloseInv, ClientOpenInv DEF Client
<1>5. CASE BatchDone \/ RunTask \/ EndCycle
  BY <1>5, QuietStepInv, RunTaskInv, EndCycleInv
<1>6. CASE UNCHANGED vars
  BY <1>6 DEF vars, IndInv, TypeOK, MapHandlers, SlotHandlers, MapKeys, HoldersMapped,
       Registrations, Batch, Cycle, Queued, Exclusive, SlotFds, BatchRegistered
<1> QED
  BY <1>1, <1>2, <1>3, <1>4, <1>5, <1>6 DEF Next, Run

---------------------------------------------------------------------------
(* Theorems *)

\* The inductive invariant holds in every reachable state of the reactor.
THEOREM Invariance == Spec => []IndInv
<1>1. Init => IndInv
  BY InitInv
<1>2. IndInv /\ [Next]_vars => IndInv'
  BY NextInv
<1> QED
  BY <1>1, <1>2, PTL DEF Spec

\* Without an upstream interface every guard holds a number of its own.
THEOREM GuardsExclusive == ASSUME ~Iface PROVE Spec => []Exclusive
<1>1. Init => Exclusive
  BY InitInv
<1>2. IndInv /\ Exclusive /\ [Next]_vars => Exclusive'
  BY NextInv
<1> QED
  BY <1>1, <1>2, Invariance, PTL DEF Spec

\* Every table of the reactor keeps its type.
THEOREM TypeCorrect == Spec => []TypeOK
<1>1. IndInv => TypeOK
  BY DEF IndInv
<1> QED
  BY <1>1, Invariance, PTL

\* EpollLoop::loop never dereferences a freed SocketCtx, nor calls a handler whose
\* session is gone, whatever earlier handlers of the batch did.
THEOREM EventsSafe == Spec => []EventPointersLive
<1>1. IndInv => EventPointersLive
  <2> SUFFICES ASSUME IndInv, NEW x \in pending \cap Ctxs
               PROVE  x \in Live /\ (IsSession(x) => handler[x].client \in Alive)
    BY DEF EventPointersLive
  <2> USE SentinelAssumption, HandlerFields DEF IndInv
  <2> DEFINE h == handler[x]
  <2>0. h \in Handlers
    BY DEF TypeOK
  <2>1. CASE h.fd \in Fds /\ h = MasterOf(h.fd) /\ (ctx_ptr_map[h.fd] = x \/ x \in deferred)
    BY <2>1 DEF Live, InMap, IsSession
  <2>2. CASE /\ h.client \in Clients /\ slotFd[h.client]["down"] # NoFd
             /\ slotCtx[h.client][h.slot] = x \/ x \in deferred
    <3>1. slotFd[h.client]["down"] \in Fds
      BY <2>2 DEF TypeOK, Slots
    <3>2. h.client \in Alive
      BY <2>2, <3>1 DEF HoldersMapped, Alive, Slots
    <3> QED
      BY <2>0, <2>2, <3>2 DEF Live, InSession
  <2> QED
    BY <2>1, <2>2 DEF Batch
<1> QED
  BY <1>1, Invariance, PTL

\* The kernel's table never names a context that no holder of the descriptor owns,
\* however often numbers are reused and whatever closed numbers guards hold.
THEOREM RegistrationsSafe == Spec => []RegistrationOwned
<1>1. IndInv => RegistrationOwned
  <2> SUFFICES ASSUME IndInv, NEW fd \in Fds, interest[fd] # NoCtx
               PROVE  LET x == interest[fd] IN
                      /\ fd \in open
                      /\ \/ ctx_ptr_map[fd] = x /\ handler[x] = MasterOf(fd)
                         \/ \E c \in Alive, s \in Slots : /\ slotCtx[c][s] = x
                                                          /\ slotFd[c][s] = fd
                                                          /\ handler[x] = SessionOf(c, s)
    BY DEF RegistrationOwned
  <2> USE SentinelAssumption, HandlerFields DEF IndInv
  <2> DEFINE h == handler[interest[fd]]
  <2>1. fd \in open /\ interest[fd] \in Ctxs /\ h \in Handlers
    BY DEF TypeOK, Registrations
  <2>2. CASE interest[fd] = ctx_ptr_map[fd]
    BY <2>1, <2>2 DEF MapHandlers
  <2>3. CASE /\ h.client \in Clients /\ slotFd[h.client][h.slot] = fd
             /\ slotCtx[h.client][h.slot] = interest[fd]
    <3>1. h.slot \in Slots /\ h = SessionOf(h.client, h.slot)
      BY <2>1, <2>3 DEF SlotHandlers
    <3>2. slotFd[h.client]["down"] \in Fds /\ client_ptr_map[slotFd[h.client]["down"]] = h.client
      BY <2>3, <3>1 DEF HoldersMapped, TypeOK, Slots
    <3>3. h.client \in Alive
      BY <2>3, <3>2 DEF Alive
    <3> QED
      BY <2>1, <2>3, <3>1, <3>3
  <2> QED
    BY <2>2, <2>3 DEF Registrations
<1> QED
  BY <1>1, Invariance, PTL

\* Without an upstream interface no two owners ever close the same descriptor.
THEOREM ClosersDistinct == ASSUME ~Iface PROVE Spec => []OneCloser
<1>1. IndInv /\ Exclusive => OneCloser
  <2> SUFFICES ASSUME IndInv, Exclusive PROVE OneCloser
    OBVIOUS
  <2> USE SentinelAssumption, HandlerFields DEF IndInv
  <2>1. \A c, d \in Alive, s, t \in Slots :
          slotFd[c][s] = slotFd[d][t] /\ slotFd[c][s] # NoFd => c = d /\ s = t
    BY DEF Exclusive, SlotFds, Alive
  <2>2. ASSUME NEW fd \in Fds, NEW c \in Alive, NEW s \in Slots,
               interest[fd] # NoCtx, interest[fd] = ctx_ptr_map[fd], slotFd[c][s] = fd
        PROVE  FALSE
    <3>1. c \in Clients /\ slotCtx[c][s] = ctx_ptr_map[fd]
      BY <2>2 DEF Exclusive, SlotFds, Alive
    <3>2. handler[ctx_ptr_map[fd]] = MasterOf(fd) /\ handler[ctx_ptr_map[fd]] = SessionOf(c, s)
      BY <2>2, <3>1 DEF MapHandlers, SlotHandlers
    <3>3. MasterOf(fd).client = NoClient /\ SessionOf(c, s).client = c
      BY <3>1
    <3> QED
      BY <3>1, <3>2, <3>3
  <2> QED
    BY <2>1, <2>2 DEF OneCloser
<1> QED
  BY <1>1, Invariance, GuardsExclusive, PTL

\* A removal task never removes a session other than the one that queued it.
THEOREM TasksSafe == Spec => []TaskRemovesOwn
<1>1. IndInv => TaskRemovesOwn
  BY DEF IndInv, Queued, TaskRemovesOwn
<1> QED
  BY <1>1, Invariance, PTL

\* A session's event only uses its own context and keeps the map of sessions.
LEMMA ClientStep ==
  ASSUME NEW x, Client(x)
  PROVE  Dispatch(x) /\ IsSession(x) /\ client_ptr_map' = client_ptr_map
<1>1. PICK S : \/ ClientIdle(x, S) \/ ClientClose(x, S)
               \/ \E t, fd, y, closes, shut : ClientOpen(x, S, t, fd, y, closes, shut)
  BY DEF Client
<1>2. CASE ClientIdle(x, S) \/ ClientClose(x, S)
  BY <1>2 DEF ClientIdle, ClientClose, loop
<1>3. ASSUME NEW t, NEW fd, NEW y, NEW closes, NEW shut, ClientOpen(x, S, t, fd, y, closes, shut)
      PROVE  Dispatch(x) /\ IsSession(x) /\ client_ptr_map' = client_ptr_map
  BY <1>3 DEF ClientOpen
<1> QED
  BY <1>1, <1>2, <1>3

\* A handler call never frees the context it runs in or the session it runs for.
THEOREM HandlersSafe == Spec => HandlerOutlivesCall
<1> DEFINE Outlives(x) ==
      /\ x \in Live'
      /\ handler'[x] = handler[x]
      /\ IsSession(x) => handler[x].client \in Alive'
<1>1. ASSUME IndInv, NEW x \in Ctxs, Master(x) PROVE Outlives(x)
  <2> USE SentinelAssumption, HandlerFields
  <2>1. /\ IsMaster(x) /\ x \in pending /\ handler[x].fd \in Fds
        /\ ctx_ptr_map[handler[x].fd] = x \/ x \in deferred
    BY <1>1, MasterDispatch
       DEF Master, MasterAgain, MasterClose, MasterThrow, MasterStream, Dispatch
  <2>2. ~IsSession(x)
    BY <2>1 DEF IsMaster, IsSession
  <2>3. CASE MasterAgain(x) \/ MasterClose(x)
    BY <2>1, <2>2, <2>3 DEF MasterAgain, MasterClose, loop, object, Live, InMap
  <2>4. CASE \E leak \in SUBSET FreshFds : MasterThrow(x, leak)
    BY <2>1, <2>2, <2>4 DEF MasterThrow, object, Live, Parked
  <2>5. ASSUME NEW c, NEW k, NEW d, NEW F, NEW X, NEW shut, MasterStream(x, c, k, d, F, X, shut)
        PROVE  Outlives(x)
    <3>1. x \in deferred'
      BY <2>1, <2>5 DEF MasterStream, Parked
    <3>2. x \notin FreshCtxs /\ d \in FreshCtxs
          /\ X["up"] \in FreshCtxs \cup {NoCtx} /\ X["relay"] \in FreshCtxs \cup {NoCtx}
      BY <2>1, <2>5 DEF MasterStream, FreshCtxs
    <3>3. handler'[x] = handler[x]
      BY <3>2, <2>5 DEF MasterStream
    <3> QED
      BY <2>2, <3>1, <3>3 DEF Live
  <2> QED
    BY <1>1, <2>3, <2>4, <2>5 DEF Master
<1>2. ASSUME IndInv, NEW x \in Ctxs, Client(x) PROVE Outlives(x)
  <2> USE SentinelAssumption, HandlerFields
  <2> DEFINE h == handler[x]
  <2>1. x \in pending /\ IsSession(x)
    BY <1>2, ClientStep DEF Dispatch
  <2>2. /\ h.client \in Clients /\ h.slot \in Slots /\ h \in Handlers
        /\ slotFd[h.client]["down"] \in Fds
        /\ client_ptr_map[slotFd[h.client]["down"]] = h.client
        /\ slotCtx[h.client][h.slot] = x \/ x \in deferred
    BY <1>2, <2>1 DEF IndInv, TypeOK, Batch, HoldersMapped, IsSession, Slots
  <2>3. client_ptr_map' = client_ptr_map
    BY <1>2, ClientStep
  <2>4. h.client \in Alive'
    BY <2>2, <2>3 DEF Alive
  <2>5. CASE \E S : ClientIdle(x, S) \/ ClientClose(x, S)
    BY <2>2, <2>4, <2>5 DEF ClientIdle, ClientClose, loop, object, Live, InSession
  <2>6. ASSUME NEW S, NEW t \in Slots, NEW fd, NEW y, NEW closes, NEW shut,
               ClientOpen(x, S, t, fd, y, closes, shut)
        PROVE  Outlives(x)
    <3>1. x # y /\ handler'[x] = h
      BY <2>1, <2>6 DEF ClientOpen, FreshCtxs
    <3>2. deferred' = deferred \cup ({slotCtx[h.client][t]} \ {NoCtx})
      BY <2>6 DEF ClientOpen, Replaced
    <3>3. h.slot # t => slotCtx'[h.client][h.slot] = slotCtx[h.client][h.slot]
      BY <1>2, <2>2, <2>6 DEF IndInv, TypeOK, ClientOpen
    <3>4. x \in deferred' \/ slotCtx'[h.client][h.slot] = x
      BY <2>2, <3>2, <3>3
    <3>5. x \in Live'
      BY <2>2, <3>4 DEF Live, InSession
    <3> QED
      BY <2>4, <3>1, <3>5
  <2> QED
    BY <1>2, <2>5, <2>6 DEF Client
<1>3. ASSUME IndInv, Next, NEW x \in Ctxs, x \in pending, x \notin pending'
      PROVE  Master(x) \/ Client(x)
  <2>1. CASE Wait
    BY <1>3, <2>1 DEF Wait, EpollWait, IndInv, Cycle
  <2>2. CASE Accept
    BY <1>3, <2>2, SentinelAssumption DEF Accept, AcceptBegin, AcceptOne, AcceptDone
  <2>3. CASE BatchDone \/ RunTask \/ EndCycle
    BY <1>3, <2>3 DEF BatchDone, RunTask, EndCycle
  <2>4. ASSUME NEW z \in pending \cap Ctxs, Master(z) \/ Client(z) PROVE z = x
    <3>1. Master(z) => Dispatch(z)
      BY DEF Master, MasterAgain, MasterClose, MasterThrow, MasterStream
    <3>2. Client(z) => Dispatch(z)
      BY ClientStep
    <3> QED
      BY <1>3, <2>4, <3>1, <3>2 DEF Dispatch
  <2> QED
    BY <1>3, <2>1, <2>2, <2>3, <2>4 DEF Next, Run
<1>4. IndInv /\ [Next]_vars =>
        [\A x \in Ctxs : x \in pending /\ x \notin pending' =>
           /\ x \in Live'
           /\ handler'[x] = handler[x]
           /\ IsSession(x) => handler[x].client \in Alive']_vars
  BY <1>1, <1>2, <1>3
<1> QED
  BY <1>4, Invariance, PTL DEF HandlerOutlivesCall, Spec
=============================================================================
