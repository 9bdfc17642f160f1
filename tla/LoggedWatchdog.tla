--------------------------- MODULE LoggedWatchdog ---------------------------
(***************************************************************************)
(* The Watchdog with what its processes write to the log file.  The file   *)
(* is opened before the first fork, so that every worker starts with a     *)
(* copy of the supervisor's stream: its descriptor, what is left in its    *)
(* buffer, and its line counter.  Each process then counts its own lines   *)
(* and rotates by itself, by renaming whatever is at logFilePath to        *)
(* logFilePath.1; the other process keeps the file it has open.            *)
(*                                                                         *)
(* A line below currentLevel is as if it was not logged.  INFO stands for  *)
(* DEBUG too, and ERROR for WARN.                                          *)
(***************************************************************************)
EXTENDS Watchdog

CONSTANT MaxLines   \* maxLogLines

ASSUME MaxLinesAssumption == MaxLines \in Nat

VARIABLES
  log,      \* the Logger of the supervisor and of the worker
  doubled,  \* ghost: a line was in the supervisor's buffer when it forked
  lost      \* ghost: a handler left a line of earlier in the buffer

logs       == <<log, doubled, lost>>
loggedVars == <<vars, logs>>

\* file: the open file is at logFilePath, at logFilePath.1, or was replaced there;
\* own: the process has opened it itself; lines: currentLogLines; buffered: the stream
\* holds lines that have not been written.
Opened == [file |-> "path", own |-> FALSE, lines |-> 0, buffered |-> FALSE]

\* Mutant: only WARN is flushed.
Flushes_Warn(level) == level = "WARN"

Flushes(level) == level = "ERROR"

\* Logger::log in a process whose Logger is l.
Rotates(l) == l.lines >= MaxLines

Logged(l, level) ==
  IF Rotates(l)
    THEN [file |-> "path", own |-> TRUE, lines |-> 1, buffered |-> ~Flushes(level)]
    ELSE [l EXCEPT !.lines = @ + 1, !.buffered = ~Flushes(level)]

Renamed(file) == IF file = "path" THEN "old" ELSE "gone"

\* Process `by' logs; `other' finds the file at logFilePath renamed.
Logs(by, other, level) ==
  log' = [log EXCEPT ![by] = Logged(@, level),
                     ![other].file = IF Rotates(log[by]) THEN Renamed(@) ELSE @]

\* The worker logs a last line and ends.
LastLine ==
  log' = [log EXCEPT !.worker = Opened,
                     !.supervisor.file = IF Rotates(log.worker) THEN Renamed(@) ELSE @]

\* Lines of the start have been logged, and flushed.
LoggedInit ==
  /\ Init
  /\ \E n \in 0..MaxLines :
       log = [supervisor |-> [Opened EXCEPT !.lines = n], worker |-> Opened]
  /\ doubled = FALSE /\ lost = FALSE

---------------------------------------------------------------------------
\* The child gets a copy of the stream.
ForkLogged(p) ==
  /\ Fork(p)
  /\ log' = [log EXCEPT !.worker = [log.supervisor EXCEPT !.own = FALSE]]
  /\ doubled' = (doubled \/ log.supervisor.buffered)
  /\ UNCHANGED lost

ForkFailsLogged ==
  /\ ForkFails
  /\ Logs("supervisor", "worker", "ERROR")
  /\ UNCHANGED <<doubled, lost>>

\* Before the return the line is INFO, and is written when the process exits; before
\* a restart it is ERROR.
LogExitLogged ==
  /\ LogExit
  /\ Logs("supervisor", "worker", IF status = "ok" THEN "INFO" ELSE "ERROR")
  /\ UNCHANGED <<doubled, lost>>

\* supervisor_sig_handler logs, and _exit leaves the buffer unwritten.
SupervisorSignalLogged ==
  /\ SupervisorSignal
  /\ \/ /\ pc = "logging"
        /\ UNCHANGED logs
     \/ /\ pc # "logging"
        /\ Logs("supervisor", "worker", "INFO")
        /\ lost' = (lost \/ (log.supervisor.buffered /\ ~Rotates(log.supervisor)))
        /\ UNCHANGED doubled

LogEndLogged(p) ==
  /\ LogEnd(p)
  /\ \E level \in {"INFO", "ERROR"} : Logs("worker", "supervisor", level)
  /\ UNCHANGED <<doubled, lost>>

CrashExitLogged(p) ==
  /\ CrashExit(p)
  /\ LastLine
  /\ UNCHANGED <<doubled, lost>>

\* worker_sig_handler flushes; the handler of a child that has not installed its own
\* does not.
WorkerSignalLogged(p) ==
  /\ WorkerSignal(p)
  /\ IF proc'[p] = "hung" THEN UNCHANGED <<log, lost>>
     ELSE /\ LastLine
          /\ lost' = (lost \/ (/\ proc[p] \in {"forked", "booting"}
                               /\ log.worker.buffered /\ ~Rotates(log.worker)))
  /\ UNCHANGED doubled

\* Without a line: exit writes the buffer, and a signal without a handler does not.
EndsLogged(p) ==
  /\ Dies(p) \/ LoopReturns(p)
  /\ log' = [log EXCEPT !.worker = Opened]
  /\ UNCHANGED <<doubled, lost>>

Silent(p) ==
  \/ StoreZero(p) \/ SetupSignals(p) \/ LogBegin(p) \/ Crash(p)
  \/ TerminateWorker(p) \/ StrangerStarts(p) \/ StrangerEnds(p)

LoggedNext ==
  \/ ForkFailsLogged \/ LogExitLogged \/ SupervisorSignalLogged
  \/ (StoreChild \/ Reap \/ Wake) /\ UNCHANGED logs
  \/ \E p \in Pids :
       \/ ForkLogged(p) \/ LogEndLogged(p) \/ CrashExitLogged(p) \/ WorkerSignalLogged(p)
       \/ EndsLogged(p)
       \/ Silent(p) /\ UNCHANGED logs

LoggedSpec ==
  /\ LoggedInit /\ [][LoggedNext]_loggedVars
  /\ WF_vars(Supervise)
  /\ \A p \in Pids : WF_vars(Work(p))

---------------------------------------------------------------------------
(* Properties *)

\* Every line is written once: nothing is in the supervisor's buffer when it forks, which
\* parent and child would both write, however often it has logged and restarted; and the
\* handlers that leave with _exit lose no line that was logged before.
LinesOnce == ~doubled /\ ~lost

\* The supervisor, which counts and rotates by itself, never renames the log under a
\* worker that has opened it; when it is told to stop, its last line may.
LogInPlace == Workers # {} /\ log.worker.own /\ pc # "killed" => log.worker.file = "path"
=============================================================================
