------------------------------ MODULE Watchdog ------------------------------
(***************************************************************************)
(* The watchdog of ProxyServer: a supervisor that forks a worker, waits    *)
(* for it and forks the next one; the signal handlers of both processes;   *)
(* process numbers, which the kernel hands out again once a worker has     *)
(* been reaped; and logMutex, which every signal handler takes through     *)
(* Logger::log.                                                            *)
(*                                                                         *)
(* What a worker serves is not modelled here.  A worker is a process       *)
(* number whose entry in `proc' says how far it is:                        *)
(*   "forked"    fork has returned, worker_pid is still the supervisor's   *)
(*   "booting"   worker_pid = 0, the supervisor's signal handlers          *)
(*   "running"   setup_signals done                                        *)
(*   "logging"   the same, inside Logger::log with logMutex held           *)
(*   "crashing"  in crash_handler                                          *)
(*   "stuck", "hung"  crash_handler, or worker_sig_handler, waits for the  *)
(*               logMutex that its own thread holds                        *)
(*   "ok", "bad" has ended with exit code 0, or otherwise; not reaped yet  *)
(***************************************************************************)
EXTENDS Naturals, FiniteSets

CONSTANTS
  Pids,   \* process numbers (the supervisor's is not among them)
  NoPid   \* a worker_pid that is not above 0: 0, or the -1 of a failed fork

ASSUME PidAssumption == NoPid \notin Pids

VARIABLES
  pc,          \* where start_watchdog is
  child,       \* what fork returned to the supervisor
  worker_pid,  \* the supervisor's copy of the global
  inherited,   \* the copy that a child has until it stores its own 0
  status,      \* what waitpid reported
  proc,        \* the processes
  sigterm,     \* processes with SIGTERM pending
  stray,       \* ghost: SIGTERM was sent to a process that is no worker
  asked        \* ghost: a worker has left on SIGTERM

supervisor == <<pc, child, worker_pid, status>>
workers    == <<inherited, proc>>
signals    == <<sigterm, stray, asked>>
vars       == <<supervisor, workers, signals>>

Alive    == {"forked", "booting", "running", "logging", "crashing", "stuck", "hung"}
Ended    == {"ok", "bad"}
Workers  == {p \in Pids : proc[p] \in Alive}
Starting == \E p \in Pids : proc[p] = "forked"
Stopped  == pc \in {"exited", "failed", "killed"}

TypeOK ==
  /\ pc \in {"fork", "forked", "waiting", "logging", "sleeping", "stuck", "exited", "failed",
            "killed"}
  /\ {child, worker_pid, inherited} \subseteq Pids \cup {NoPid}
  /\ status \in Ended
  /\ proc \in [Pids -> Alive \cup Ended \cup {"free", "stranger"}]
  /\ sigterm \subseteq Pids
  /\ {stray, asked} \subseteq BOOLEAN

Init ==
  /\ pc = "fork" /\ child = NoPid /\ worker_pid = NoPid /\ status = "ok"
  /\ inherited = NoPid
  /\ proc = [p \in Pids |-> "free"]
  /\ sigterm = {}
  /\ stray = FALSE /\ asked = FALSE

\* Mutant: worker_pid > 0 is not asked, and kill(0) or kill(-1) hits everybody.
Terminate_Unguarded(p) ==
  /\ sigterm' = sigterm \cup {p}
  /\ stray' = (stray \/ p = NoPid)

\* kill(p, SIGTERM); nothing happens when there is no such process.
Terminate(p) ==
  /\ sigterm' = sigterm \cup (IF p # NoPid /\ proc[p] # "free" THEN {p} ELSE {})
  /\ stray' = (stray \/ (p # NoPid /\ proc[p] = "stranger"))

---------------------------------------------------------------------------
(* The supervisor *)

Fork(p) ==
  /\ pc = "fork" /\ proc[p] = "free"
  /\ pc' = "forked"
  /\ child' = p
  /\ inherited' = worker_pid
  /\ proc' = [proc EXCEPT ![p] = "forked"]
  /\ UNCHANGED <<worker_pid, status, signals>>

ForkFails ==
  /\ pc = "fork"
  /\ pc' = "failed"
  /\ worker_pid' = NoPid
  /\ UNCHANGED <<child, status, workers, signals>>

\* Mutant: the number of the first worker is kept.
StoreChild_First ==
  /\ pc = "forked"
  /\ worker_pid' = IF worker_pid = NoPid THEN child ELSE worker_pid
  /\ pc' = "waiting"
  /\ UNCHANGED <<child, status, workers, signals>>

\* worker_pid = fork(), the store.
StoreChild ==
  /\ pc = "forked"
  /\ worker_pid' = child
  /\ pc' = "waiting"
  /\ UNCHANGED <<child, status, workers, signals>>

\* Mutant: the supervisor does not wait (WNOHANG).
Reap_NoHang ==
  /\ pc = "waiting"
  /\ pc' = "logging"
  /\ status' = "bad"
  /\ UNCHANGED <<child, worker_pid, workers, signals>>

\* waitpid returns; the number is free from here on, worker_pid keeps it.
Reap ==
  /\ pc = "waiting" /\ proc[worker_pid] \in Ended
  /\ pc' = "logging"
  /\ status' = proc[worker_pid]
  /\ proc' = [proc EXCEPT ![worker_pid] = "free"]
  /\ sigterm' = sigterm \ {worker_pid}
  /\ UNCHANGED <<child, worker_pid, inherited, stray, asked>>

\* Mutant: the exit code is not looked at.
AfterExit_Restart(st) == "sleeping"
\* Mutant: every exit ends the supervisor, death by a signal excepted.
AfterExit_Stop(st) == "exited"

\* Exit code 0 ends the supervisor, anything else is a crash.
AfterExit(st) == IF st = "ok" THEN "exited" ELSE "sleeping"

LogExit ==
  /\ pc = "logging"
  /\ pc' = AfterExit(status)
  /\ UNCHANGED <<child, worker_pid, status, workers, signals>>

\* sleep(2) is over.
Wake ==
  /\ pc = "sleeping"
  /\ pc' = "fork"
  /\ UNCHANGED <<child, worker_pid, status, workers, signals>>

\* supervisor_sig_handler, in the supervisor.
SupervisorSignal ==
  /\ ~Stopped /\ pc # "stuck"
  /\ IF pc = "logging"
       THEN /\ pc' = "stuck"
            /\ UNCHANGED <<sigterm, stray>>
       ELSE /\ pc' = "killed"
            /\ Terminate(worker_pid)
  /\ UNCHANGED <<child, worker_pid, status, workers, asked>>

---------------------------------------------------------------------------
(* A worker *)

Becomes(p, s) == proc' = [proc EXCEPT ![p] = s]

\* The child stores fork's 0 in its copy of worker_pid.
StoreZero(p) ==
  /\ proc[p] = "forked"
  /\ Becomes(p, "booting")
  /\ inherited' = NoPid
  /\ UNCHANGED <<supervisor, signals>>

SetupSignals(p) ==
  /\ proc[p] = "booting"
  /\ Becomes(p, "running")
  /\ UNCHANGED <<supervisor, inherited, signals>>

LogBegin(p) ==
  /\ proc[p] = "running"
  /\ Becomes(p, "logging")
  /\ UNCHANGED <<supervisor, inherited, signals>>

LogEnd(p) ==
  /\ proc[p] = "logging"
  /\ Becomes(p, "running")
  /\ UNCHANGED <<supervisor, inherited, signals>>

\* A signal that crash_handler is installed for.
Crash(p) ==
  /\ \/ proc[p] = "running" /\ Becomes(p, "crashing")
     \/ proc[p] = "logging" /\ Becomes(p, "stuck")
  /\ UNCHANGED <<supervisor, inherited, signals>>

\* crash_handler: _exit(sig).
CrashExit(p) ==
  /\ proc[p] = "crashing"
  /\ Becomes(p, "bad")
  /\ UNCHANGED <<supervisor, inherited, signals>>

\* A signal without a handler (SIGPIPE, SIGKILL), or create_listen_socket failed.
Dies(p) ==
  /\ proc[p] \in Alive
  /\ Becomes(p, "bad")
  /\ UNCHANGED <<supervisor, inherited, signals>>

\* epoll_wait fails, EpollLoop::loop returns, and the worker exits with 0.
LoopReturns(p) ==
  /\ proc[p] = "running"
  /\ Becomes(p, "ok")
  /\ UNCHANGED <<supervisor, inherited, signals>>

\* Mutant: the worker leaves with a failure code.
TermCode_Failure == "bad"

\* _exit(0)
TermCode == "ok"

\* SIGTERM: worker_sig_handler, or supervisor_sig_handler in a child that has not
\* installed its own yet.
WorkerSignal(p) ==
  /\ p \in sigterm
  /\ \/ /\ proc[p] = "forked"
        /\ Becomes(p, "ok")
        /\ Terminate(inherited)
        /\ asked' = TRUE
     \/ /\ proc[p] \in {"booting", "running", "crashing"}
        /\ Becomes(p, TermCode)
        /\ sigterm' = sigterm \ {p}
        /\ asked' = TRUE
        /\ UNCHANGED stray
     \/ /\ proc[p] \in {"logging", "crashing"}   \* crash_handler logs, too
        /\ Becomes(p, "hung")
        /\ sigterm' = sigterm \ {p}
        /\ UNCHANGED <<stray, asked>>
  /\ UNCHANGED <<supervisor, inherited>>

---------------------------------------------------------------------------
(* The environment (external) *)

\* kill_previous_instance, or the operator, picks the worker.
TerminateWorker(p) ==
  /\ p \in Workers
  /\ sigterm' = sigterm \cup {p}
  /\ UNCHANGED <<supervisor, workers, stray, asked>>

\* Another program starts under a free number, and ends.
StrangerStarts(p) ==
  /\ proc[p] = "free"
  /\ Becomes(p, "stranger")
  /\ UNCHANGED <<supervisor, inherited, signals>>

StrangerEnds(p) ==
  /\ proc[p] = "stranger"
  /\ Becomes(p, "free")
  /\ sigterm' = sigterm \ {p}
  /\ UNCHANGED <<supervisor, inherited, stray, asked>>

Supervise == (\E p \in Pids : Fork(p)) \/ ForkFails \/ StoreChild \/ Reap \/ LogExit \/ Wake

\* The steps that a worker takes by itself.
Work(p) == StoreZero(p) \/ SetupSignals(p) \/ LogEnd(p) \/ CrashExit(p) \/ WorkerSignal(p)

Next ==
  \/ Supervise \/ SupervisorSignal
  \/ \E p \in Pids :
       \/ Work(p) \/ LogBegin(p) \/ Crash(p) \/ Dies(p) \/ LoopReturns(p)
       \/ TerminateWorker(p) \/ StrangerStarts(p) \/ StrangerEnds(p)

Spec == Init /\ [][Next]_vars

\* Both processes get to run, and a signal is delivered.
FairSpec ==
  /\ Spec
  /\ WF_vars(Supervise)
  /\ \A p \in Pids : WF_vars(Work(p))

---------------------------------------------------------------------------
(* Properties *)

\* At most one worker exists, and none while the supervisor is about to fork:
\* two would compete for the listening port.
OneWorker ==
  /\ Cardinality(Workers) <= 1
  /\ pc \in {"fork", "logging", "sleeping", "exited"} => Workers = {}

\* While the supervisor waits, worker_pid denotes its child: not a number that has
\* gone to another program, and not one that nobody will ever reap.
WaitsForWorker == pc = "waiting" => proc[worker_pid] \in Alive \cup Ended

\* A worker that ends with a failure or by a signal is replaced ("auto-restart on
\* crash"), unless the supervisor is told to stop, and then leaves or hangs in its
\* signal handler, or cannot fork.
DeathRestarts ==
  (pc = "waiting" /\ proc[worker_pid] = "bad")
    ~> (Starting \/ pc \in {"failed", "killed", "stuck"})

\* Every crash is followed by a restart, whatever the worker was doing ("auto-restart
\* on crash"), unless supervisor or worker is told to stop.
CrashRestarts ==
  \A p \in Pids :
    (proc[p] \in {"crashing", "stuck"})
      ~> (Starting \/ Stopped \/ pc = "stuck" \/ proc[p] = "hung")

\* A worker that left on SIGTERM is the last one: no worker runs after it, whichever
\* signal handler it had at that moment.
TermIsFinal == asked => Workers = {}

\* Terminating the worker stops the instance: the supervisor ends, too, unless it is
\* itself told to stop and hangs in its signal handler.
TermStops == asked ~> (Stopped \/ pc = "stuck")

\* "Killing worker and exiting": a supervisor that was told to stop leaves no worker
\* behind that has not been told to stop, too, and signals no other process.
StopKillsWorker == pc = "killed" => Workers \subseteq sigterm /\ ~stray
=============================================================================
