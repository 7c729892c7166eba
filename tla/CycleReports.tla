--------------------------- MODULE CycleReports ---------------------------
(***************************************************************************)
(* The report of a crawl cycle, from the crawler's pending file to the     *)
(* line in cycles.jsonl and the file in done/                              *)
(* (crawler/cycle_report.py, scripts/reports/finalize_cycle_reports.py).   *)
(*                                                                         *)
(* A cycle is reduced to one application: one message to each topic.  The  *)
(* storage consumer is reduced to what Ingestion promises, which           *)
(* StoragePipeline implements: records are settled, as a row or as a dead  *)
(* letter, and offsets follow; StoreKeepsPromise says so, and is proved.   *)
(* The reporters are the compose service, which loops and is restarted,    *)
(* and one-shot runs on the host.                                          *)
(***************************************************************************)
EXTENDS Integers, Sequences, FiniteSets

CONSTANTS
  Topic,           \* of GROUP_TOPICS: "app-stats" and "reviews"
  Reporter,
  OneShot,         \* reporters started without --loop: they run once
  Impatient,       \* those with a lag timeout of zero
  MaxCycles,       \* bound: cycles crawled
  MaxFaults        \* bound: unconfirmed sends, dead letters, failed queries, deaths

ASSUME ReportsAssumption ==
  /\ OneShot \subseteq Reporter /\ Impatient \subseteq Reporter
  /\ MaxCycles \in Nat /\ MaxFaults \in Nat

Cycle == 1..MaxCycles
NoCycle == 0
Unknown == -1        \* a dead-letter count that could not be read

VARIABLES
  log,             \* per topic, the cycle of each record
  settled,         \* per topic, how many records are stored or dead-lettered
  dead,            \* dead letters: [topic, offset, since], in cycle `since'
  committed,       \* offsets of the two groups
  crawl,           \* "idle" or "crawling"
  started,         \* cycles started so far
  tosend,          \* topics the cycle has not sent to yet
  ok,              \* per cycle, the topics whose send was confirmed
  pending, done,   \* files, by cycle
  lines,           \* what cycles.jsonl says: a set of [cycle, verdict, dead]; history: unseen
  step,            \* of each reporter
  todo,            \* files it listed
  current,         \* file it finalizes
  topics,          \* topics whose lag it still has to read in this poll
  ends,            \* end offset read, committed offset not yet
  lagZero,         \* all lags read in this poll are zero
  unseen,          \* history: topics whose lag in this poll was given, not read
  written,         \* history: reports the crawler wrote
  faults

store == <<log, settled, dead, committed>>
crawler == <<crawl, started, tosend, ok, written>>
files == <<pending, done, lines>>
poll == <<topics, ends, lagZero, unseen>>
reporter == <<step, todo, current, poll>>
vars == <<store, crawler, files, reporter, faults>>

Init ==
  /\ log = [t \in Topic |-> <<>>]
  /\ settled = [t \in Topic |-> 0]
  /\ dead = {}
  /\ committed = [t \in Topic |-> 0]
  /\ crawl = "idle"
  /\ started = 0
  /\ tosend = {}
  /\ ok = [c \in Cycle |-> {}]
  /\ pending = {} /\ done = {} /\ lines = {}
  /\ step = [r \in Reporter |-> "idle"]
  /\ todo = [r \in Reporter |-> {}]
  /\ current = [r \in Reporter |-> NoCycle]
  /\ topics = [r \in Reporter |-> {}]
  /\ ends = [r \in Reporter |-> 0]
  /\ lagZero = [r \in Reporter |-> FALSE]
  /\ unseen = [r \in Reporter |-> {}]
  /\ written = {}
  /\ faults = 0

Fault == faults < MaxFaults /\ faults' = faults + 1

-----------------------------------------------------------------------------
(* The crawler *)

\* max_instances=1: one cycle at a time.  Reports of earlier ones may be pending.
StartCycle ==
  /\ crawl = "idle" /\ started < MaxCycles
  /\ crawl' = "crawling"
  /\ started' = started + 1
  /\ tosend' = Topic
  /\ UNCHANGED <<store, ok, written, files, reporter, faults>>

\* A confirmed send is in the topic; an unconfirmed one may be.
Send(t, confirmed) ==
  /\ crawl = "crawling" /\ t \in tosend
  /\ tosend' = tosend \ {t}
  /\ log' \in {[log EXCEPT ![t] = Append(@, started)]} \cup (IF confirmed THEN {} ELSE {log})
  /\ ok' = IF confirmed THEN [ok EXCEPT ![started] = @ \cup {t}] ELSE ok
  /\ IF confirmed THEN UNCHANGED faults ELSE Fault
  /\ UNCHANGED <<settled, dead, committed, crawl, started, written, files, reporter>>

\* After the flush: written to a temporary name and renamed, so a reporter sees
\* all of the report or none.
WritePending ==
  /\ crawl = "crawling" /\ tosend = {}
  /\ crawl' = "idle"
  /\ pending' = pending \cup {started}
  /\ written' = written \cup {started}
  /\ UNCHANGED <<store, started, tosend, ok, done, lines, reporter, faults>>

\* The crawler dies, the flush raises, or the file cannot be written: the cycle
\* has no report.
CycleUnreported ==
  /\ crawl = "crawling"
  /\ crawl' = "idle"
  /\ tosend' = {}
  /\ Fault
  /\ UNCHANGED <<store, started, ok, written, files, reporter>>

-----------------------------------------------------------------------------
(* The storage consumer, as Ingestion promises it *)

Settle(t) ==
  /\ settled[t] < Len(log[t])
  /\ settled' = [settled EXCEPT ![t] = @ + 1]
  /\ \/ UNCHANGED <<dead, faults>>
     \/ /\ dead' = dead \cup {[topic |-> t, offset |-> settled[t], since |-> started]}
        /\ Fault
  /\ UNCHANGED <<log, committed, crawler, files, reporter>>

Commit(t) ==
  /\ committed[t] < settled[t]
  /\ committed' = [committed EXCEPT ![t] = @ + 1]
  /\ UNCHANGED <<log, settled, dead, crawler, files, reporter, faults>>

-----------------------------------------------------------------------------
(* A reporter *)

Goto(r, s) == step' = [step EXCEPT ![r] = s]

\* The end of run_once, or of the process: the service goes on.
Return(r) == Goto(r, IF r \in OneShot THEN "ended" ELSE "idle")

\* run_once: the files that are there now, in the order of their names.
List(r) ==
  /\ step[r] = "idle" /\ pending # {}
  /\ todo' = [todo EXCEPT ![r] = pending]
  /\ Goto(r, "next")
  /\ UNCHANGED <<store, crawler, files, current, poll, faults>>

Listed(r) ==
  /\ step[r] = "next" /\ todo[r] = {}
  /\ Return(r)
  /\ UNCHANGED <<store, crawler, files, todo, current, poll, faults>>

\* wait_for_lag_zero: one poll reads the groups one after the other.
StartPoll(r) ==
  /\ topics' = [topics EXCEPT ![r] = Topic]
  /\ lagZero' = [lagZero EXCEPT ![r] = TRUE]
  /\ unseen' = [unseen EXCEPT ![r] = {}]
  /\ Goto(r, "end")

\* The deadline is over before the first poll.
NoPoll(r) == Goto(r, "append") /\ UNCHANGED <<topics, lagZero, unseen>>

\* A file that another reporter has moved is counted as failed and passed over.
ReadPending(r) ==
  LET c == CHOOSE x \in todo[r] : \A y \in todo[r] : x <= y IN
  /\ step[r] = "next" /\ todo[r] # {}
  /\ todo' = [todo EXCEPT ![r] = @ \ {c}]
  /\ IF c \in pending
     THEN /\ current' = [current EXCEPT ![r] = c]
          /\ IF r \in Impatient THEN NoPoll(r) ELSE StartPoll(r)
     ELSE UNCHANGED <<current, step, topics, lagZero, unseen>>
  /\ UNCHANGED <<store, crawler, files, ends, faults>>

\* GROUP_TOPICS lists the groups in a fixed order.
NextTopic(r) == CHOOSE t \in topics[r] : TRUE

ReadEnd(r) ==
  /\ step[r] = "end" /\ topics[r] # {}
  /\ ends' = [ends EXCEPT ![r] = Len(log[NextTopic(r)])]
  /\ Goto(r, "committed")
  /\ UNCHANGED <<store, crawler, files, todo, current, topics, lagZero, unseen, faults>>

\* A mutant: only the group read last counts.
ReadCommittedLast(r) ==
  /\ step[r] = "committed"
  /\ lagZero' = [lagZero EXCEPT ![r] = committed[NextTopic(r)] >= ends[r]]
  /\ topics' = [topics EXCEPT ![r] = @ \ {NextTopic(r)}]
  /\ ends' = [ends EXCEPT ![r] = 0]
  /\ Goto(r, "end")
  /\ UNCHANGED <<store, crawler, files, todo, current, unseen, faults>>

ReadCommitted(r) ==
  /\ step[r] = "committed"
  /\ lagZero' = [lagZero EXCEPT ![r] = @ /\ committed[NextTopic(r)] >= ends[r]]
  /\ topics' = [topics EXCEPT ![r] = @ \ {NextTopic(r)}]
  /\ ends' = [ends EXCEPT ![r] = 0]
  /\ Goto(r, "end")
  /\ UNCHANGED <<store, crawler, files, todo, current, unseen, faults>>

\* partitions_for_topic gives nothing: the topic is not there, or no broker told of
\* it in time.  The lag is then zero, and no offset was read.
NoPartitions(r) ==
  /\ step[r] = "end" /\ topics[r] # {}
  /\ topics' = [topics EXCEPT ![r] = @ \ {NextTopic(r)}]
  /\ unseen' = [unseen EXCEPT ![r] = @ \cup {NextTopic(r)}]
  /\ Fault
  /\ UNCHANGED <<store, crawler, files, step, todo, current, ends, lagZero>>

\* A request for offsets raises: the lag is None, which is not zero.
LagUnknown(r) ==
  /\ step[r] = "committed"
  /\ lagZero' = [lagZero EXCEPT ![r] = FALSE]
  /\ topics' = [topics EXCEPT ![r] = @ \ {NextTopic(r)}]
  /\ ends' = [ends EXCEPT ![r] = 0]
  /\ Goto(r, "end")
  /\ UNCHANGED <<store, crawler, files, todo, current, unseen, faults>>

\* A mutant: a wait that runs out of time leaves the line out.
EndPollNoLine(r) ==
  /\ step[r] = "end" /\ topics[r] = {}
  /\ \/ Goto(r, IF lagZero[r] THEN "append" ELSE "move") /\ UNCHANGED <<topics, lagZero, unseen>>
     \/ ~lagZero[r] /\ StartPoll(r)
  /\ UNCHANGED <<store, crawler, files, todo, current, ends, faults>>

\* Lag zero ends the wait; otherwise it is polled again, or the time is up.
EndPoll(r) ==
  /\ step[r] = "end" /\ topics[r] = {}
  /\ \/ Goto(r, "append") /\ UNCHANGED <<topics, lagZero, unseen>>
     \/ ~lagZero[r] /\ StartPoll(r)
  /\ UNCHANGED <<store, crawler, files, todo, current, ends, faults>>

DeadSince(c) == Cardinality({d \in dead : d.since >= c})

VerdictFor(c, lagOk, count) ==
  IF ~lagOk THEN "persist_lagging"
  ELSE IF count > 0 THEN "partial"
  ELSE IF ok[c] = Topic THEN "ok"
  ELSE IF ok[c] = {} THEN "failed"
  ELSE "partial"

\* The dead letters since the cycle's start are counted, unless the query fails,
\* and the line is appended with the verdict: one step, because what comes in
\* between is as what comes after.
AppendLine(r) ==
  LET c == current[r] IN
  /\ step[r] = "append"
  /\ \E count \in {DeadSince(c), Unknown} :
       /\ lines' = lines \cup {[cycle |-> c, dead |-> count, unseen |-> unseen[r],
                                verdict |-> VerdictFor(c, lagZero[r], count)]}
       /\ IF count = Unknown THEN Fault ELSE UNCHANGED faults
  /\ Goto(r, "move")
  /\ UNCHANGED <<store, crawler, pending, done, todo, current, poll>>

\* What a reporter forgets between two files, and when it dies.
Reset(r) ==
  /\ current' = [current EXCEPT ![r] = NoCycle]
  /\ topics' = [topics EXCEPT ![r] = {}]
  /\ ends' = [ends EXCEPT ![r] = 0]
  /\ lagZero' = [lagZero EXCEPT ![r] = FALSE]
  /\ unseen' = [unseen EXCEPT ![r] = {}]

\* path.replace(done_dir / path.name)
MoveToDone(r) ==
  /\ step[r] = "move" /\ current[r] \in pending
  /\ pending' = pending \ {current[r]}
  /\ done' = done \cup {current[r]}
  /\ Goto(r, "next")
  /\ Reset(r)
  /\ UNCHANGED <<store, crawler, lines, todo, faults>>

\* A mutant: the service is not started again.
MoveRaisesForGood(r) ==
  /\ step[r] = "move" /\ current[r] \notin pending
  /\ Goto(r, "ended")
  /\ todo' = [todo EXCEPT ![r] = {}]
  /\ Reset(r)
  /\ UNCHANGED <<store, crawler, files, faults>>

\* The file is gone: FileNotFoundError, which nothing catches.
MoveRaises(r) ==
  /\ step[r] = "move" /\ current[r] \notin pending
  /\ Return(r)
  /\ todo' = [todo EXCEPT ![r] = {}]
  /\ Reset(r)
  /\ UNCHANGED <<store, crawler, files, faults>>

\* The service is killed, and started again.  (A one-shot run that is killed
\* takes no more steps, which needs no action.)
Crash(r) ==
  /\ r \notin OneShot /\ step[r] # "idle"
  /\ Fault
  /\ Return(r)
  /\ todo' = [todo EXCEPT ![r] = {}]
  /\ Reset(r)
  /\ UNCHANGED <<store, crawler, files>>

ReporterStep(r) ==
  \/ List(r) \/ ReadPending(r) \/ Listed(r)
  \/ ReadEnd(r) \/ ReadCommitted(r) \/ EndPoll(r)
  \/ AppendLine(r) \/ MoveToDone(r) \/ MoveRaises(r)

Next ==
  \/ StartCycle \/ WritePending \/ CycleUnreported
  \/ \E t \in Topic, confirmed \in BOOLEAN : Send(t, confirmed)
  \/ \E t \in Topic : Settle(t) \/ Commit(t)
  \/ \E r \in Reporter : ReporterStep(r) \/ NoPartitions(r) \/ LagUnknown(r) \/ Crash(r)

Spec == Init /\ [][Next]_vars

\* The service goes on; the choice of EndPoll to wait once more is not taken for
\* ever, because the wait has a deadline.  Nothing is assumed of one-shot runs,
\* of the crawler, or of the storage consumer.
Fairness ==
  \A r \in Reporter \ OneShot :
    /\ WF_vars(ReporterStep(r))
    /\ SF_vars(EndPoll(r) /\ step'[r] = "append")

FairSpec == Spec /\ Fairness

-----------------------------------------------------------------------------
(* Properties *)

TypeOK ==
  /\ log \in [Topic -> Seq(Cycle)]
  /\ settled \in [Topic -> Nat]
  /\ dead \subseteq [topic : Topic, offset : Nat, since : Cycle]
  /\ committed \in [Topic -> Nat]
  /\ crawl \in {"idle", "crawling"}
  /\ started \in 0..MaxCycles
  /\ tosend \subseteq Topic
  /\ ok \in [Cycle -> SUBSET Topic]
  /\ pending \subseteq Cycle /\ done \subseteq Cycle /\ written \subseteq Cycle
  /\ lines \subseteq [cycle : Cycle, dead : Nat \cup {Unknown}, unseen : SUBSET Topic,
                       verdict : {"persist_lagging", "partial", "ok", "failed"}]
  /\ step \in [Reporter -> {"idle", "ended", "next", "end", "committed",
                            "append", "move"}]
  /\ todo \in [Reporter -> SUBSET Cycle]
  /\ current \in [Reporter -> Cycle \cup {NoCycle}]
  /\ topics \in [Reporter -> SUBSET Topic]
  /\ ends \in [Reporter -> Nat]
  /\ lagZero \in [Reporter -> BOOLEAN]
  /\ unseen \in [Reporter -> SUBSET Topic]
  /\ faults \in 0..MaxFaults

HasLine(c) == \E l \in lines : l.cycle = c

\* The way of a report across crashes and two reporters: what the crawler wrote
\* is pending or done, never neither; and what is done has its line, because
\* the line is appended before the move (finalize_cycle_reports.py:175-177).
ReportKept ==
  /\ written = pending \cup done
  /\ \A c \in done : HasLine(c)

\* "Mid-cycle lag=0 cannot finalize early" (finalize_cycle_reports.py:4-6): the
\* verdict "ok" means that both messages of that cycle were sent; and that each one
\* whose offsets the last poll could read is settled, though lags are read one topic
\* after the other while the next cycle produces, and, where dead letters could be
\* counted, is not one.  Of a topic without partitions (line 63) it says no more
\* than that the message was sent.
OkMeansStored ==
  \A l \in lines : l.verdict = "ok" =>
    \A t \in Topic : \E n \in 1..Len(log[t]) :
      /\ log[t][n] = l.cycle
      /\ t \notin l.unseen =>
           /\ n <= settled[t]
           /\ l.dead = 0 => \A d \in dead : d.topic = t => d.offset # n - 1

\* What the script says of itself, "finalizes those files once lag is 0" (lines 3-6):
\* a cycle that is "ok" has its messages settled in every topic.  It does not hold:
\* a topic without partitions counts as lag 0 (lines 62-64; LagClaim.cfg).
OkMeansCaughtUp ==
  \A l \in lines : l.verdict = "ok" =>
    \A t \in Topic : \E n \in 1..settled[t] : log[t][n] = l.cycle

\* Every pending report is filed in the end, whatever the storage consumer does:
\* the wait for lag zero has a deadline, and a reporter that dies on a file another
\* one has moved starts again.
EventuallyFiled == \A c \in Cycle : c \in pending ~> c \in done

Promise == INSTANCE Ingestion WITH Partition <- Topic, Message <- Cycle,
             settled <- UNION {{t} \X (0..(settled[t] - 1)) : t \in Topic}
StoreKeepsPromise == Promise!Spec
=============================================================================
