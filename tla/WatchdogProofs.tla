--------------------------- MODULE WatchdogProofs ---------------------------
(***************************************************************************)
(* The watchdog's safety properties, for every set of process numbers; and *)
(* the watchdog with its log: it implements the watchdog, so that the same *)
(* properties hold of it, and no line is written twice or lost, for every  *)
(* log size.                                                               *)
(***************************************************************************)
EXTENDS LoggedWatchdog, FiniteSetTheorems, TLAPS

Mine  == Alive \cup Ended
State == Mine \cup {"free", "stranger"}

\* A process of ours that the supervisor has not reaped is the one it forked last.
OnlyChild == \A p \in Pids : proc[p] \in Mine => p = child

\* From the return of waitpid to the next fork there is none.
NoneBetween ==
  pc \notin {"forked", "waiting", "killed"} => \A p \in Pids : proc[p] \notin Mine

\* From fork to the return of waitpid there is one, and worker_pid denotes it once it
\* has been stored.
OneBelow ==
  /\ pc \in {"forked", "waiting"} => child \in Pids /\ proc[child] \in Mine
  /\ pc = "waiting" => worker_pid = child

\* Once a worker has left on SIGTERM, its exit code is on its way to the supervisor's
\* decision, and no path leads back to fork.
LastOne ==
  asked =>
    /\ \A p \in Pids : proc[p] \notin Alive
    /\ pc \notin {"fork", "sleeping", "failed"}
    /\ pc \in {"forked", "waiting"} => proc[child] = "ok"
    /\ pc = "logging" => status = "ok"

IndInv ==
  /\ TypeOK
  /\ OnlyChild
  /\ NoneBetween
  /\ OneBelow
  /\ LastOne

---------------------------------------------------------------------------
(* The inductive invariant *)

\* The states of a process, and what the invariant says of them.
USE DEF Alive, Ended, Mine, State

\* The supervisor starts without a worker.
LEMMA InitInv == Init => IndInv
BY PidAssumption DEF Init, IndInv, TypeOK, OnlyChild, NoneBetween, OneBelow, LastOne

\* fork: there is no process of ours before it, and the child is one.
LEMMA ForkInv == ASSUME IndInv, NEW p \in Pids, Fork(p) PROVE IndInv'
BY PidAssumption
   DEF Fork, signals, IndInv, TypeOK, OnlyChild, NoneBetween, OneBelow, LastOne

\* The supervisor's other steps.
LEMMA SupervisorInv ==
  ASSUME IndInv, ForkFails \/ StoreChild \/ Reap \/ LogExit \/ Wake \/ SupervisorSignal
  PROVE  IndInv'
<1> USE DEF IndInv, TypeOK, OnlyChild, NoneBetween, OneBelow, LastOne
<1>1. CASE ForkFails
  BY <1>1 DEF ForkFails, workers, signals
<1>2. CASE StoreChild
  BY <1>2 DEF StoreChild, workers, signals
<1>3. CASE Reap
  BY <1>3, PidAssumption DEF Reap
<1>4. CASE LogExit
  BY <1>4 DEF LogExit, AfterExit, workers, signals
<1>5. CASE Wake
  BY <1>5 DEF Wake, workers, signals
<1>6. CASE SupervisorSignal
  BY <1>6 DEF SupervisorSignal, Terminate, Stopped, workers
<1>7. QED
  BY <1>1, <1>2, <1>3, <1>4, <1>5, <1>6

\* The steps of a worker.
LEMMA WorkerInv ==
  ASSUME IndInv, NEW p \in Pids,
         Work(p) \/ LogBegin(p) \/ Crash(p) \/ Dies(p) \/ LoopReturns(p)
  PROVE  IndInv'
<1> USE DEF IndInv, TypeOK, OnlyChild, NoneBetween, OneBelow, LastOne, Becomes, supervisor,
            signals
<1>1. CASE StoreZero(p)
  BY <1>1 DEF StoreZero
<1>2. CASE SetupSignals(p)
  BY <1>2 DEF SetupSignals
<1>3. CASE LogEnd(p)
  BY <1>3 DEF LogEnd
<1>4. CASE CrashExit(p)
  BY <1>4 DEF CrashExit
<1>5. CASE WorkerSignal(p)
  <2>0. UNCHANGED <<pc, child, worker_pid, status, inherited>> /\ proc \in [Pids -> State]
    BY <1>5 DEF WorkerSignal
  <2>1. CASE proc[p] = "forked" /\ Becomes(p, "ok") /\ Terminate(inherited) /\ asked' = TRUE
    <3>1. sigterm' \subseteq Pids
      BY <2>1 DEF Terminate
    <3>2. stray' \in BOOLEAN
      BY <2>1 DEF Terminate
    <3>3. QED
      BY <2>0, <2>1, <3>1, <3>2
  <2>2. CASE /\ proc[p] \in {"booting", "running", "crashing"} /\ Becomes(p, TermCode)
             /\ sigterm' = sigterm \ {p} /\ asked' = TRUE /\ UNCHANGED stray
    BY <2>0, <2>2 DEF TermCode
  <2>3. CASE /\ proc[p] \in {"logging", "crashing"} /\ Becomes(p, "hung")
             /\ sigterm' = sigterm \ {p} /\ UNCHANGED <<stray, asked>>
    BY <2>0, <2>3
  <2>4. QED
    BY <1>5, <2>1, <2>2, <2>3 DEF WorkerSignal
<1>6. CASE LogBegin(p)
  BY <1>6 DEF LogBegin
<1>7. CASE Crash(p)
  BY <1>7 DEF Crash
<1>8. CASE Dies(p)
  BY <1>8 DEF Dies
<1>9. CASE LoopReturns(p)
  BY <1>9 DEF LoopReturns
<1>10. QED
  BY <1>1, <1>2, <1>3, <1>4, <1>5, <1>6, <1>7, <1>8, <1>9 DEF Work

\* The other processes, and who sends signals.
LEMMA EnvironmentInv ==
  ASSUME IndInv, NEW p \in Pids, TerminateWorker(p) \/ StrangerStarts(p) \/ StrangerEnds(p)
  PROVE  IndInv'
<1> USE DEF IndInv, TypeOK, OnlyChild, NoneBetween, OneBelow, LastOne, Becomes, supervisor,
            signals
<1>1. CASE TerminateWorker(p)
  BY <1>1 DEF TerminateWorker, workers
<1>2. CASE StrangerStarts(p)
  BY <1>2 DEF StrangerStarts
<1>3. CASE StrangerEnds(p)
  BY <1>3 DEF StrangerEnds
<1>4. QED
  BY <1>1, <1>2, <1>3

\* Every step of a process, a signal or the environment keeps the invariant.
LEMMA StepInv == IndInv /\ [Next]_vars => IndInv'
<1> SUFFICES ASSUME IndInv, [Next]_vars
             PROVE  IndInv'
  OBVIOUS
<1>1. CASE Supervise
  BY <1>1, ForkInv, SupervisorInv DEF Supervise
<1>2. CASE SupervisorSignal
  BY <1>2, SupervisorInv
<1>3. CASE \E p \in Pids : Work(p) \/ LogBegin(p) \/ Crash(p) \/ Dies(p) \/ LoopReturns(p)
  BY <1>3, WorkerInv
<1>4. CASE \E p \in Pids : TerminateWorker(p) \/ StrangerStarts(p) \/ StrangerEnds(p)
  BY <1>4, EnvironmentInv
<1>5. CASE UNCHANGED vars
  BY <1>5 DEF vars, supervisor, workers, signals, IndInv, TypeOK, OnlyChild, NoneBetween,
              OneBelow, LastOne
<1>6. QED
  BY <1>1, <1>2, <1>3, <1>4, <1>5 DEF Next

\* The invariant that the others follow from: from fork to the return of waitpid there is
\* exactly one process to wait for, the last one forked, and outside there is none.
THEOREM Invariance == Spec => []IndInv
BY InitInv, StepInv, PTL DEF Spec

---------------------------------------------------------------------------
(* The properties *)

\* Type correctness.
THEOREM TypeCorrect == Spec => []TypeOK
BY Invariance, PTL DEF IndInv

\* A set of at most one element.
LEMMA AtMostOne ==
  ASSUME NEW S, NEW x, S \subseteq {x}
  PROVE  Cardinality(S) <= 1
<1>1. CASE S = {}
  BY <1>1, FS_EmptySet
<1>2. CASE S # {}
  <2>1. S = {x}
    BY <1>2
  <2>2. QED
    BY <2>1, FS_Singleton
<1>3. QED
  BY <1>1, <1>2

\* The supervisor never has two workers, and none when it forks, however the deaths of
\* workers, its own signals and the reuse of process numbers interleave.
THEOREM NeverTwo == Spec => []OneWorker
<1>1. IndInv => OneWorker
  <2> SUFFICES ASSUME IndInv
               PROVE  OneWorker
    OBVIOUS
  <2>1. Cardinality(Workers) <= 1
    <3>1. Workers \subseteq {child}
      BY DEF IndInv, OnlyChild, Workers
    <3>2. QED
      BY <3>1, AtMostOne
  <2>2. pc \in {"fork", "logging", "sleeping", "exited"} => Workers = {}
    BY DEF IndInv, NoneBetween, Workers
  <2>3. QED
    BY <2>1, <2>2 DEF OneWorker
<1>2. QED
  BY <1>1, Invariance, PTL

\* waitpid always waits for the supervisor's own child.
THEOREM WaitsRight == Spec => []WaitsForWorker
<1>1. IndInv => WaitsForWorker
  BY DEF IndInv, OneBelow, WaitsForWorker
<1>2. QED
  BY <1>1, Invariance, PTL

\* No worker follows one that left on SIGTERM.
THEOREM TermSafe == Spec => []TermIsFinal
<1>1. IndInv => TermIsFinal
  BY DEF IndInv, LastOne, TermIsFinal, Workers
<1>2. QED
  BY <1>1, Invariance, PTL

---------------------------------------------------------------------------
(* The log: state *)

Logger == [file : {"path", "old", "gone"}, own : BOOLEAN, lines : Nat, buffered : BOOLEAN]

LogType ==
  /\ log \in [supervisor : Logger, worker : Logger]
  /\ doubled \in BOOLEAN /\ lost \in BOOLEAN

\* The supervisor's buffer is empty whenever it may still fork or be killed by a
\* signal, and a worker's is until it has installed its signal handlers.
Flushed ==
  /\ pc \in {"fork", "forked", "waiting", "logging", "sleeping"} => ~log.supervisor.buffered
  /\ \A p \in Pids : proc[p] \in {"forked", "booting"} => ~log.worker.buffered

LogInv ==
  /\ LogType
  /\ Flushed
  /\ LinesOnce
  /\ LogInPlace

---------------------------------------------------------------------------
(* The watchdog with its log implements the watchdog *)

\* A step with its log is a step.
LEMMA NextImplements == LoggedNext => [Next]_vars
<1> SUFFICES ASSUME LoggedNext
             PROVE  Next
  OBVIOUS
<1>1. CASE ForkFailsLogged \/ LogExitLogged
  BY <1>1 DEF ForkFailsLogged, LogExitLogged, Next, Supervise
<1>2. CASE SupervisorSignalLogged
  BY <1>2 DEF SupervisorSignalLogged, Next
<1>3. CASE StoreChild \/ Reap \/ Wake
  BY <1>3 DEF Next, Supervise
<1>4. ASSUME NEW p \in Pids,
             \/ ForkLogged(p) \/ LogEndLogged(p) \/ CrashExitLogged(p) \/ WorkerSignalLogged(p)
             \/ EndsLogged(p) \/ Silent(p)
      PROVE  Next
  <2>1. CASE ForkLogged(p)
    BY <2>1 DEF ForkLogged, Next, Supervise
  <2>2. CASE LogEndLogged(p) \/ CrashExitLogged(p) \/ WorkerSignalLogged(p)
    <3>1. Work(p)
      BY <2>2 DEF LogEndLogged, CrashExitLogged, WorkerSignalLogged, Work
    <3>2. QED
      BY <3>1 DEF Next
  <2>3. CASE EndsLogged(p)
    BY <2>3 DEF EndsLogged, Next
  <2>4. CASE Silent(p)
    BY <2>4 DEF Silent, Next, Work
  <2>5. QED
    BY <1>4, <2>1, <2>2, <2>3, <2>4
<1>5. QED
  BY <1>1, <1>2, <1>3, <1>4 DEF LoggedNext

\* What the Logger does changes nothing of what the watchdog does: with its log it is an
\* implementation of the watchdog, fairness included, so that what is proved or checked
\* of the one holds of the other.
THEOREM LogImplements == LoggedSpec => FairSpec
<1>1. LoggedInit => Init
  BY DEF LoggedInit
<1>2. [LoggedNext]_loggedVars => [Next]_vars
  BY NextImplements DEF loggedVars
<1>3. QED
  BY <1>1, <1>2, PTL DEF LoggedSpec, FairSpec, Spec

\* The watchdog's invariant, in every state of the watchdog with its log.
LEMMA LoggedInvariance == LoggedSpec => []IndInv
BY LogImplements, Invariance, PTL DEF FairSpec

\* The watchdog's properties, in every state of the watchdog with its log.
THEOREM LoggedSafe == LoggedSpec => [](TypeOK /\ OneWorker /\ WaitsForWorker /\ TermIsFinal)
BY LogImplements, TypeCorrect, NeverTwo, WaitsRight, TermSafe, PTL DEF FairSpec

---------------------------------------------------------------------------
(* The log *)

\* The log file has just been opened.
LEMMA LogInitInv == LoggedInit => LogInv
<1> SUFFICES ASSUME LoggedInit
             PROVE  LogInv
  OBVIOUS
<1>1. PICK n \in 0..MaxLines :
        log = [supervisor |-> [Opened EXCEPT !.lines = n], worker |-> Opened]
  BY DEF LoggedInit
<1>2. n \in Nat
  BY MaxLinesAssumption
<1>3. log.supervisor = [file |-> "path", own |-> FALSE, lines |-> n, buffered |-> FALSE]
  BY <1>1 DEF Opened
<1>4. log.worker = [file |-> "path", own |-> FALSE, lines |-> 0, buffered |-> FALSE]
  BY <1>1 DEF Opened
<1>5. LogType
  <2>1. log.supervisor \in Logger /\ log.worker \in Logger
    BY <1>2, <1>3, <1>4 DEF Logger
  <2>2. log \in [supervisor : Logger, worker : Logger]
    BY <1>1, <2>1
  <2>3. doubled \in BOOLEAN /\ lost \in BOOLEAN
    BY DEF LoggedInit
  <2>4. QED
    BY <2>2, <2>3 DEF LogType
<1>6. Flushed
  BY <1>3, <1>4 DEF Flushed
<1>7. LinesOnce /\ LogInPlace
  BY <1>4 DEF LoggedInit, LinesOnce, LogInPlace
<1>8. QED
  BY <1>5, <1>6, <1>7 DEF LogInv

\* What Logger::log leaves is a Logger, and its buffer is empty after an ERROR.
LEMMA LoggedFacts ==
  ASSUME NEW l \in Logger, NEW level
  PROVE  /\ Logged(l, level) \in Logger
         /\ level = "ERROR" => ~Logged(l, level).buffered
         /\ l.file = "path" => Logged(l, level).file = "path"
         /\ Logged(l, level).own /\ ~l.own => Logged(l, level).file = "path"
<1> DEFINE b == ~Flushes(level)
<1>0. b \in BOOLEAN /\ (level = "ERROR" => b = FALSE)
  BY DEF Flushes
<1>1. CASE Rotates(l)
  <2>1. Logged(l, level) = [file |-> "path", own |-> TRUE, lines |-> 1, buffered |-> b]
    BY <1>1 DEF Logged
  <2> HIDE DEF b
  <2>2. QED
    BY <1>0, <2>1 DEF Logger
<1>2. CASE ~Rotates(l)
  <2>1. Logged(l, level) = [l EXCEPT !.lines = l.lines + 1, !.buffered = b]
    BY <1>2 DEF Logged
  <2> HIDE DEF b
  <2>2. Logged(l, level)
          = [file |-> l.file, own |-> l.own, lines |-> l.lines + 1, buffered |-> b]
    BY <2>1 DEF Logger
  <2>3. QED
    BY <1>0, <2>2 DEF Logger
<1>3. QED
  BY <1>1, <1>2

\* Both processes after one of them has logged.
LEMMA LogsFacts ==
  ASSUME LogType, NEW level, NEW by \in {"supervisor", "worker"},
         NEW other \in {"supervisor", "worker"}, by # other, Logs(by, other, level)
  PROVE  /\ log' \in [supervisor : Logger, worker : Logger]
         /\ log'[by] = Logged(log[by], level)
         /\ log'[other].buffered = log[other].buffered
         /\ log'[other].own = log[other].own
BY LoggedFacts DEF LogType, Logs, Renamed, Logger

\* The supervisor's lines: when it logs there is no worker, or it is being told to stop.
LEMMA SupervisorLogInv ==
  ASSUME LogInv, IndInv, ForkFailsLogged \/ LogExitLogged \/ SupervisorSignalLogged
  PROVE  LogInv'
<1> USE DEF LogInv, LogType, Flushed, LinesOnce, LogInPlace, Workers, Alive, Ended, Mine
<1>0. log.supervisor \in Logger /\ log.worker \in Logger
  OBVIOUS
<1>1. CASE ForkFailsLogged
  <2>1. pc = "fork" /\ pc' = "failed" /\ UNCHANGED <<proc, doubled, lost>>
    BY <1>1 DEF ForkFailsLogged, ForkFails, workers
  <2>2. log' \in [supervisor : Logger, worker : Logger]
    BY <1>1, LogsFacts DEF ForkFailsLogged
  <2>3. \A p \in Pids : proc[p] \notin Mine
    BY <2>1 DEF IndInv, NoneBetween
  <2>4. QED
    BY <2>1, <2>2, <2>3
<1>2. CASE LogExitLogged
  <2> DEFINE level == IF status = "ok" THEN "INFO" ELSE "ERROR"
  <2>1. pc = "logging" /\ pc' = AfterExit(status) /\ UNCHANGED <<proc, doubled, lost>>
    BY <1>2 DEF LogExitLogged, LogExit, workers
  <2>2. Logs("supervisor", "worker", level)
    BY <1>2 DEF LogExitLogged
  <2>3. /\ log' \in [supervisor : Logger, worker : Logger]
        /\ log'.supervisor = Logged(log.supervisor, level)
    BY <2>2, LogsFacts
  <2>4. status # "ok" => ~log'.supervisor.buffered
    BY <1>0, <2>3, LoggedFacts
  <2>5. \A p \in Pids : proc[p] \notin Mine
    BY <2>1 DEF IndInv, NoneBetween
  <2>6. QED
    BY <2>1, <2>3, <2>4, <2>5 DEF AfterExit
<1>3. CASE SupervisorSignalLogged
  <2>0. ~Stopped /\ pc # "stuck" /\ UNCHANGED proc
    BY <1>3 DEF SupervisorSignalLogged, SupervisorSignal, workers
  <2>1. CASE pc = "logging"
    <3>1. pc' = "stuck" /\ UNCHANGED <<log, doubled, lost>>
      BY <1>3, <2>1 DEF SupervisorSignalLogged, SupervisorSignal, logs
    <3>2. \A p \in Pids : proc[p] \notin Mine
      BY <2>1 DEF IndInv, NoneBetween
    <3>3. QED
      BY <2>0, <3>1, <3>2
  <2>2. CASE pc # "logging"
    <3>1. /\ pc' = "killed" /\ UNCHANGED doubled
          /\ Logs("supervisor", "worker", "INFO")
          /\ lost' = (lost \/ (log.supervisor.buffered /\ ~Rotates(log.supervisor)))
      BY <1>3, <2>2 DEF SupervisorSignalLogged, SupervisorSignal
    <3>2. /\ log' \in [supervisor : Logger, worker : Logger]
          /\ log'.worker.buffered = log.worker.buffered
      BY <3>1, LogsFacts
    <3>3. ~log.supervisor.buffered
      BY <2>0, <2>2 DEF Stopped, IndInv, TypeOK
    <3>4. lost' = FALSE
      BY <3>1, <3>3
    <3>5. QED
      BY <2>0, <3>1, <3>2, <3>4
  <2>3. QED
    BY <2>1, <2>2
<1>4. QED
  BY <1>1, <1>2, <1>3

\* A worker's lines.
LEMMA WorkerLogInv ==
  ASSUME LogInv, IndInv, NEW p \in Pids,
         \/ ForkLogged(p) \/ LogEndLogged(p) \/ CrashExitLogged(p) \/ WorkerSignalLogged(p)
         \/ EndsLogged(p)
  PROVE  LogInv'
<1> USE DEF LogInv, LogType, Flushed, LinesOnce, LogInPlace, Workers, Alive, Ended, Mine
<1>0. log.supervisor \in Logger /\ log.worker \in Logger /\ Opened \in Logger
  BY DEF Opened, Logger
<1>1. CASE ForkLogged(p)
  <2>1. /\ pc = "fork" /\ pc' = "forked" /\ proc' = [proc EXCEPT ![p] = "forked"]
        /\ UNCHANGED lost
    BY <1>1 DEF ForkLogged, Fork
  <2>2. ~log.supervisor.buffered
    BY <2>1
  <2>3. log' = [log EXCEPT !.worker = [log.supervisor EXCEPT !.own = FALSE]]
    BY <1>1 DEF ForkLogged
  <2>4. /\ log'.supervisor = log.supervisor
        /\ log'.worker = [log.supervisor EXCEPT !.own = FALSE]
    BY <2>3
  <2>5. ~log'.worker.own /\ ~log'.worker.buffered
    BY <1>0, <2>2, <2>4 DEF Logger
  <2>6. log' \in [supervisor : Logger, worker : Logger]
    BY <1>0, <2>3 DEF Logger
  <2>7. doubled' = FALSE
    BY <1>1, <2>2 DEF ForkLogged
  <2>8. QED
    BY <2>1, <2>2, <2>4, <2>5, <2>6, <2>7
<1>2. CASE LogEndLogged(p)
  <2>1. /\ proc[p] = "logging" /\ proc' = [proc EXCEPT ![p] = "running"]
        /\ UNCHANGED <<pc, doubled, lost>>
    BY <1>2 DEF LogEndLogged, LogEnd, Becomes, supervisor
  <2>2. PICK level \in {"INFO", "ERROR"} : Logs("worker", "supervisor", level)
    BY <1>2 DEF LogEndLogged
  <2>3. /\ log' \in [supervisor : Logger, worker : Logger]
        /\ log'.worker = Logged(log.worker, level)
        /\ log'.supervisor.buffered = log.supervisor.buffered
    BY <2>2, LogsFacts
  <2>4. /\ log.worker.file = "path" => log'.worker.file = "path"
        /\ log'.worker.own /\ ~log.worker.own => log'.worker.file = "path"
    BY <1>0, <2>3, LoggedFacts
  <2>5. \A q \in Pids : proc'[q] \in {"forked", "booting"} => FALSE
    BY <2>1 DEF IndInv, TypeOK, OnlyChild
  <2>6. QED
    BY <2>1, <2>3, <2>4, <2>5
<1>3. CASE \/ CrashExitLogged(p) \/ EndsLogged(p)
           \/ WorkerSignalLogged(p) /\ proc'[p] # "hung"
  <2>1. proc[p] \in Alive /\ UNCHANGED <<pc, doubled>>
    BY <1>3 DEF CrashExitLogged, CrashExit, WorkerSignalLogged, WorkerSignal, EndsLogged, Dies,
                LoopReturns, supervisor
  <2>2. \A q \in Pids : proc'[q] \notin Alive
    <3>1. \E s \in Ended : proc' = [proc EXCEPT ![p] = s]
      BY <1>3 DEF CrashExitLogged, CrashExit, WorkerSignalLogged, WorkerSignal, EndsLogged, Dies,
                  LoopReturns, Becomes, TermCode
    <3>2. QED
      BY <2>1, <3>1 DEF IndInv, TypeOK, OnlyChild
  <2>3. /\ log' \in [supervisor : Logger, worker : Logger]
        /\ log'.supervisor.buffered = log.supervisor.buffered
    <3>1. CASE LastLine
      BY <1>0, <3>1 DEF LastLine, Renamed, Logger
    <3>2. CASE log' = [log EXCEPT !.worker = Opened]
      BY <1>0, <3>2
    <3>3. QED
      BY <1>3, <3>1, <3>2 DEF CrashExitLogged, WorkerSignalLogged, EndsLogged
  <2>4. lost' = FALSE
    <3>1. CASE WorkerSignalLogged(p) /\ proc'[p] # "hung"
      BY <3>1 DEF WorkerSignalLogged
    <3>2. CASE UNCHANGED lost
      BY <3>2
    <3>3. QED
      BY <1>3, <3>1, <3>2 DEF CrashExitLogged, EndsLogged
  <2>5. QED
    BY <2>1, <2>2, <2>3, <2>4
<1>4. CASE WorkerSignalLogged(p) /\ proc'[p] = "hung"
  <2>1. UNCHANGED <<pc, log, doubled, lost>>
    BY <1>4 DEF WorkerSignalLogged, WorkerSignal, supervisor
  <2>2. proc' = [proc EXCEPT ![p] = "hung"] /\ proc[p] \in {"logging", "crashing"}
    BY <1>4 DEF WorkerSignalLogged, WorkerSignal, Becomes, TermCode, IndInv, TypeOK
  <2>3. QED
    BY <2>1, <2>2 DEF IndInv, TypeOK
<1>5. QED
  BY <1>1, <1>2, <1>3, <1>4

\* The steps that log nothing.
LEMMA SilentInv ==
  ASSUME LogInv, IndInv, UNCHANGED logs,
         \/ StoreChild \/ Reap \/ Wake \/ UNCHANGED vars
         \/ \E p \in Pids : Silent(p)
  PROVE  LogInv'
<1> USE DEF LogInv, LogType, Flushed, LinesOnce, LogInPlace, Workers, Alive, Ended, Mine, logs,
            IndInv, TypeOK
<1>1. CASE StoreChild \/ Reap \/ Wake
  BY <1>1, PidAssumption DEF StoreChild, Reap, Wake, workers, OneBelow
<1>2. CASE UNCHANGED vars
  BY <1>2 DEF vars, supervisor, workers
<1>3. ASSUME NEW p \in Pids, Silent(p)
      PROVE  LogInv'
  <2>1. CASE StoreZero(p) \/ SetupSignals(p) \/ LogBegin(p) \/ Crash(p)
    BY <2>1 DEF StoreZero, SetupSignals, LogBegin, Crash, Becomes, supervisor
  <2>2. CASE TerminateWorker(p) \/ StrangerStarts(p) \/ StrangerEnds(p)
    BY <2>2 DEF TerminateWorker, StrangerStarts, StrangerEnds, Becomes, supervisor, workers
  <2>3. QED
    BY <1>3, <2>1, <2>2 DEF Silent
<1>4. QED
  BY <1>1, <1>2, <1>3

\* Every step that logs, forks or ends keeps the log in order.
LEMMA LogStepInv == LogInv /\ IndInv /\ [LoggedNext]_loggedVars => LogInv'
BY SupervisorLogInv, WorkerLogInv, SilentInv DEF LoggedNext, loggedVars

\* The invariant of the log, which rests on the watchdog's.
THEOREM LogInvariance == LoggedSpec => []LogInv
BY LogInitInv, LogStepInv, LoggedInvariance, PTL DEF LoggedSpec

\* No line is written by two processes, and no handler loses one that was logged before
\* it, over any number of restarts.
THEOREM NoLineTwice == LoggedSpec => []LinesOnce
BY LogInvariance, PTL DEF LogInv

\* The supervisor never renames the file that a worker has opened, unless it is told to
\* stop.
THEOREM NeverRenamed == LoggedSpec => []LogInPlace
BY LogInvariance, PTL DEF LogInv
=============================================================================
