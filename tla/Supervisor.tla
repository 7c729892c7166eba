----------------------------- MODULE Supervisor -----------------------------
(***************************************************************************)
(* The threads of one storage_consumer process: Supervisor.run on the main  *)
(* thread, one thread per pipeline, and the SIGTERM/SIGINT handler, which    *)
(* Python runs on the main thread between two of its instructions.           *)
(*                                                                          *)
(* They meet at one threading.Event, the stop event.  Its wait and set take  *)
(* the lock of the event's condition variable, and that lock is not          *)
(* reentrant; the model keeps it.  The failed event is only ever set by the  *)
(* pipelines and read without its lock, so it is a flag here.                *)
(***************************************************************************)
EXTENDS Naturals

CONSTANTS Pipelines,   \* number of pipelines the process runs
          MaxSignals   \* bound: signals delivered to the process

ASSUME CountsAssumption == Pipelines \in Nat \ {0} /\ MaxSignals \in Nat

VARIABLES
  main,     \* where the main thread is in Supervisor.run
  next,     \* index of its loop over the threads
  handler,  \* the signal handler's frame on top of the main thread
  signals,  \* signals delivered so far
  thread,   \* where each pipeline's thread is in _run_pipeline
  stop,     \* the stop event's flag
  lock,     \* the holder of its lock: "free", "main" or a "pipeline"
  failed,   \* the failed event
  broken,   \* history: pipelines whose body ended in an exception
  late,     \* pipelines whose join timed out
  code      \* what run() returned

processVars == <<main, next, handler, signals, thread, stop, lock, failed, broken, late, code>>

Pipeline == 1 .. Pipelines

ProcessInit ==
  /\ main = "start"
  /\ next = 1
  /\ handler = "none"
  /\ signals = 0
  /\ thread = [p \in Pipeline |-> "new"]
  /\ stop = FALSE
  /\ lock = "free"
  /\ failed = FALSE
  /\ broken = {}
  /\ late = {}
  /\ code = 0

-----------------------------------------------------------------------------
(* Supervisor.run.  The main thread runs only when no handler is on top.     *)

\* for thread in threads: thread.start()
StartThread ==
  /\ main = "start" /\ handler = "none"
  /\ next <= Pipelines
  /\ thread' = [thread EXCEPT ![next] = "build"]
  /\ next' = next + 1
  /\ UNCHANGED <<main, handler, signals, stop, lock, failed, broken, late, code>>

\* The operating system refuses a thread: RuntimeError leaves run() and main().
StartFails ==
  /\ main = "start" /\ handler = "none"
  /\ next <= Pipelines
  /\ main' = "raised"
  /\ UNCHANGED <<next, handler, signals, thread, stop, lock, failed, broken, late, code>>

\* self._stop.wait() takes the event's lock ...
EnterWait ==
  /\ main = "start" /\ handler = "none"
  /\ next > Pipelines
  /\ lock = "free"
  /\ lock' = "main"
  /\ main' = "checking"
  /\ UNCHANGED <<next, handler, signals, thread, stop, failed, broken, late, code>>

\* ... reads the flag, and gives the lock back to wait for it.
CheckFlag ==
  /\ main = "checking" /\ handler = "none"
  /\ lock' = "free"
  /\ main' = IF stop THEN "join" ELSE "waiting"
  /\ next' = 1
  /\ UNCHANGED <<handler, signals, thread, stop, failed, broken, late, code>>

\* Notified by set(): the lock is taken again and given back.
Wake ==
  /\ main = "waiting" /\ handler = "none"
  /\ stop
  /\ lock = "free"
  /\ lock' = "main"
  /\ main' = "leaving"
  /\ UNCHANGED <<next, handler, signals, thread, stop, failed, broken, late, code>>

LeaveWait ==
  /\ main = "leaving" /\ handler = "none"
  /\ lock' = "free"
  /\ main' = "join"
  /\ UNCHANGED <<next, handler, signals, thread, stop, failed, broken, late, code>>

\* A mutant: only the first thread is joined.
JoinFirstOnly ==
  /\ main = "join" /\ handler = "none"
  /\ next <= Pipelines
  /\ next > 1 \/ thread[next] = "ended"
  /\ next' = next + 1
  /\ UNCHANGED <<main, handler, signals, thread, stop, lock, failed, broken, late, code>>

\* thread.join(timeout): the thread ended in time ...
Join ==
  /\ main = "join" /\ handler = "none"
  /\ next <= Pipelines
  /\ thread[next] = "ended"
  /\ next' = next + 1
  /\ UNCHANGED <<main, handler, signals, thread, stop, lock, failed, broken, late, code>>

\* ... or did not, and is left alive.
JoinTimesOut ==
  /\ main = "join" /\ handler = "none"
  /\ next <= Pipelines
  /\ thread[next] # "ended"
  /\ late' = late \cup {next}
  /\ next' = next + 1
  /\ UNCHANGED <<main, handler, signals, thread, stop, lock, failed, broken, code>>

\* return self._exit_code()
Return ==
  /\ main = "join" /\ handler = "none"
  /\ next > Pipelines
  /\ code' = IF failed THEN 1 ELSE 0
  /\ main' = "done"
  /\ UNCHANGED <<next, handler, signals, thread, stop, lock, failed, broken, late>>

-----------------------------------------------------------------------------
(* main._shutdown, the signal handler: request_stop, and in it Event.set.    *)

\* The interpreter runs the handler on whatever the main thread is doing, a
\* handler included.
Deliver ==
  /\ signals < MaxSignals
  /\ signals' = signals + 1
  /\ handler' = "setting"
  /\ UNCHANGED <<main, next, thread, stop, lock, failed, broken, late, code>>

HandlerLocks ==
  /\ handler = "setting"
  /\ lock = "free"
  /\ lock' = "main"
  /\ handler' = "holding"
  /\ UNCHANGED <<main, next, signals, thread, stop, failed, broken, late, code>>

HandlerSets ==
  /\ handler = "holding"
  /\ stop' = TRUE
  /\ lock' = "free"
  /\ handler' = "none"
  /\ UNCHANGED <<main, next, signals, thread, failed, broken, late, code>>

-----------------------------------------------------------------------------
(* _run_pipeline on the thread of pipeline p.                                *)

Moves(p, from, to) ==
  /\ thread[p] = from
  /\ thread' = [thread EXCEPT ![p] = to]
  /\ UNCHANGED <<main, next, handler, signals, late, code>>

\* worker_factory(spec, self._stop)
Build(p) == Moves(p, "build", "poll") /\ UNCHANGED <<stop, lock, failed, broken>>

\* It raised, so there is no worker to close.
BuildFails(p) ==
  /\ Moves(p, "build", "notify")
  /\ failed' = TRUE
  /\ broken' = broken \cup {p}
  /\ UNCHANGED <<stop, lock>>

\* A mutant: the loop does not look at the flag.
PollAlways(p) == Moves(p, "poll", "write") /\ UNCHANGED <<stop, lock, failed, broken>>

\* worker.run(): poll, write, commit.
Poll(p) == ~stop /\ Moves(p, "poll", "write") /\ UNCHANGED <<stop, lock, failed, broken>>

CommitBatch(p) == Moves(p, "write", "poll") /\ UNCHANGED <<stop, lock, failed, broken>>

\* The loop saw the flag; run() returned, and the flag is still set.
WorkerStops(p) == stop /\ Moves(p, "poll", "close") /\ UNCHANGED <<stop, lock, failed, broken>>

WorkerFails(p) ==
  /\ Moves(p, "poll", "close") \/ Moves(p, "write", "close")
  /\ failed' = TRUE
  /\ broken' = broken \cup {p}
  /\ UNCHANGED <<stop, lock>>

\* worker.close(); whatever it raises is logged.
CloseWorker(p) == Moves(p, "close", "notify") /\ UNCHANGED <<stop, lock, failed, broken>>

\* A mutant: a thread that ends tells nobody.
EndQuietly(p) == Moves(p, "notify", "ended") /\ UNCHANGED <<stop, lock, failed, broken>>

\* request_stop in the finally clause: Event.set from this thread.
Notify(p) ==
  /\ lock = "free"
  /\ Moves(p, "notify", "setting")
  /\ lock' = "pipeline"
  /\ UNCHANGED <<stop, failed, broken>>

SetStop(p) ==
  /\ Moves(p, "setting", "ended")
  /\ stop' = TRUE
  /\ lock' = "free"
  /\ UNCHANGED <<failed, broken>>

-----------------------------------------------------------------------------
MainStep ==
  \/ StartThread \/ EnterWait \/ CheckFlag \/ Wake \/ LeaveWait \/ Join \/ Return
  \/ HandlerLocks \/ HandlerSets

ThreadStep(p) ==
  \/ Build(p) \/ CommitBatch(p) \/ WorkerStops(p) \/ CloseWorker(p)
  \/ Notify(p) \/ SetStop(p)

ProcessNext ==
  \/ MainStep
  \/ StartFails \/ JoinTimesOut \/ Deliver
  \/ \E p \in Pipeline : ThreadStep(p) \/ Poll(p) \/ BuildFails(p) \/ WorkerFails(p)

ProcessSpec == ProcessInit /\ [][ProcessNext]_processVars

\* Threads are scheduled, a lock that keeps being freed is obtained, and a
\* batch ends: its retries and its statements have time limits.
ProcessFairness == /\ WF_processVars(MainStep)
            /\ SF_processVars(EnterWait) /\ SF_processVars(Wake) /\ SF_processVars(HandlerLocks)
            /\ \A p \in Pipeline : WF_processVars(ThreadStep(p)) /\ SF_processVars(Notify(p))

ProcessLiveSpec == ProcessSpec /\ ProcessFairness

-----------------------------------------------------------------------------
(* Properties.                                                              *)

\* Every variable has its type; the lock is held by whoever is inside the event.
ProcessTypeOK ==
  /\ main \in {"start", "checking", "waiting", "leaving", "join", "done", "raised"}
  /\ next \in 1 .. Pipelines + 1
  /\ handler \in {"none", "setting", "holding"}
  /\ signals \in 0 .. MaxSignals
  /\ thread \in [Pipeline -> {"new", "build", "poll", "write", "close", "notify", "setting",
                           "ended"}]
  /\ stop \in BOOLEAN
  /\ lock \in {"free", "main", "pipeline"}
  /\ failed \in BOOLEAN
  /\ broken \subseteq Pipeline
  /\ late \subseteq Pipeline
  /\ code \in {0, 1}

Started == {p \in Pipeline : thread[p] # "new"}

\* The interpreter outlives main() until the last non-daemon thread has ended.
Exited == main \in {"done", "raised"} /\ \A p \in Started : thread[p] = "ended"

\* The handler waits for a lock that its own thread holds beneath it.
SelfDeadlocked == handler = "setting" /\ lock = "main"

\* run() returns, if no join timed out, only when every pipeline has ended, and
\* its code then tells whether one of them failed: the failing thread sets the
\* failed event before the stop event that the main thread waits for.
CleanReturn ==
  main = "done" /\ late = {} =>
    /\ \A p \in Pipeline : thread[p] = "ended"
    /\ broken # {} <=> code = 1

\* "Zero for a clean shutdown, one if any pipeline ended in an error"
\* (supervisor.py:66-67), of all pipelines that ran.  It does not hold
\* (LateFailureClaim.cfg): one that is joined too late may still fail, and run() has
\* returned zero by then.
FailureTold == Exited /\ main = "done" => (broken # {} <=> code = 1)

\* "Safe to call from a signal handler: setting an Event is all it does"
\* (supervisor.py:55-56).  It does not hold (SignalClaim.cfg): set() takes the lock that
\* wait(), beneath the handler on the same thread, may hold.
SafeInHandler == ~SelfDeadlocked

\* The inductive invariant behind CleanReturn: a pipeline's failure is on record before it
\* can ask for the stop, and the main thread is past a pipeline only if it has
\* ended or was given up.
ProcessInv ==
  /\ ProcessTypeOK
  /\ failed <=> broken # {}
  /\ main \in {"waiting", "leaving"} => next = 1
  /\ main \in {"join", "done"} => \A p \in Pipeline : p < next => thread[p] = "ended" \/ p \in late
  /\ main = "done" => next = Pipelines + 1
  /\ main = "done" /\ late = {} => (broken # {} <=> code = 1)

\* "The process is alive only while all of its pipelines are": once a pipeline
\* has ended, for whatever reason, the whole process exits, unless its main
\* thread is deadlocked inside the stop event.
OneEndsAllEnd ==
  (\E p \in Pipeline : thread[p] = "ended") ~> Exited \/ SelfDeadlocked

\* A signal ends the process as well, each pipeline finishing its batch, at
\* whatever point of start-up, waiting or shutdown it arrives.
SignalEndsProcess == signals > 0 ~> Exited \/ SelfDeadlocked
=============================================================================
