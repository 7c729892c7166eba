------------------------- MODULE CycleReportsProofs -------------------------
(***************************************************************************)
(* Theorems about CycleReports, for any topics, reporters and number of    *)
(* cycles and faults.                                                      *)
(***************************************************************************)
EXTENDS CycleReports, FiniteSetTheorems, TLAPS

USE ReportsAssumption DEF vars, store, crawler, files, reporter, poll, Cycle, NoCycle, Unknown

Filing == {"end", "committed", "append", "move"}

(* Records follow the cycles, and dead letters their records: one of a     *)
(* cycle is not dated before that cycle.                                   *)
StoreInv ==
  /\ \A t \in Topic :
       /\ committed[t] <= settled[t] /\ settled[t] <= Len(log[t])
       /\ \A n \in 1..Len(log[t]) : log[t][n] <= started
  /\ IsFiniteSet(dead)
  /\ \A d \in dead :
       d.offset + 1 <= settled[d.topic] /\ log[d.topic][d.offset + 1] <= d.since

(* The cycle that is being crawled has no report yet; a confirmed send is  *)
(* in the topic.                                                           *)
CrawlInv ==
  /\ crawl = "crawling" => started \in Cycle
  /\ \A c \in written : c <= started /\ (crawl = "crawling" => c # started)
  /\ \A c \in Cycle : \A t \in ok[c] : \E n \in 1..Len(log[t]) : log[t][n] = c

(* A reporter that finalizes a report has one the crawler wrote, and moves *)
(* it with its line.                                                       *)
FilesInv ==
  /\ written = pending \cup done
  /\ \A c \in done : HasLine(c)
  /\ \A r \in Reporter :
       /\ step[r] \in Filing => current[r] \in written
       /\ step[r] = "move" => HasLine(current[r])

(* All records of a cycle in a topic are settled.  Once the report is      *)
(* written there will be no others.                                        *)
AllSettled(t, c) == \A n \in 1..Len(log[t]) : log[t][n] = c => n <= settled[t]

AStepOf(r) == ReporterStep(r) \/ NoPartitions(r) \/ LagUnknown(r) \/ Crash(r)

(* What a reporter may conclude from the lags it has read so far.          *)
LagInv ==
  \A r \in Reporter :
    /\ step[r] \notin Filing => lagZero[r] = FALSE
    /\ lagZero[r] = TRUE =>
         \A t \in Topic \ (topics[r] \cup unseen[r]) : AllSettled(t, current[r])
    /\ step[r] = "append" /\ lagZero[r] = TRUE => topics[r] = {}
    /\ step[r] = "committed" =>
         /\ topics[r] # {}
         /\ \A n \in 1..Len(log[NextTopic(r)]) :
              log[NextTopic(r)][n] = current[r] => n <= ends[r]

IInv == TypeOK /\ StoreInv /\ CrawlInv /\ FilesInv /\ LagInv /\ OkMeansStored

-----------------------------------------------------------------------------
LEMMA InitIInv == Init => IInv
  <1> SUFFICES ASSUME Init PROVE IInv
    OBVIOUS
  <1> USE DEF Init
  <1>1. TypeOK
    BY DEF TypeOK
  <1>2. StoreInv
    BY FS_EmptySet DEF StoreInv
  <1>3. CrawlInv /\ FilesInv /\ LagInv /\ OkMeansStored
    BY DEF CrawlInv, FilesInv, Filing, LagInv, OkMeansStored
  <1> QED BY <1>1, <1>2, <1>3 DEF IInv

-----------------------------------------------------------------------------
(* Types *)

LEMMA CrawlerTypes ==
  ASSUME IInv,
         \/ StartCycle \/ WritePending \/ CycleUnreported
         \/ \E t \in Topic, confirmed \in BOOLEAN : Send(t, confirmed)
         \/ \E t \in Topic : Settle(t) \/ Commit(t)
  PROVE  TypeOK'
  <1> USE DEF IInv, TypeOK, Fault
  <1>1. CASE StartCycle
    BY <1>1 DEF StartCycle
  <1>2. CASE WritePending
    BY <1>2 DEF WritePending, CrawlInv
  <1>3. CASE CycleUnreported
    BY <1>3 DEF CycleUnreported
  <1>4. ASSUME NEW t \in Topic, NEW confirmed \in BOOLEAN, Send(t, confirmed) PROVE TypeOK'
    <2>1. crawl = "crawling" /\ started \in Cycle
      BY <1>4 DEF Send, CrawlInv
    <2>2. log' \in [Topic -> Seq(Cycle)]
      <3>1. Append(log[t], started) \in Seq(Cycle)
        BY <2>1
      <3> QED BY <1>4, <3>1 DEF Send
    <2>3. ok' \in [Cycle -> SUBSET Topic]
      BY <1>4, <2>1 DEF Send
    <2>4. faults' \in 0..MaxFaults
      BY <1>4 DEF Send
    <2> QED BY <1>4, <2>2, <2>3, <2>4 DEF Send
  <1>5. ASSUME NEW t \in Topic, Settle(t) PROVE TypeOK'
    <2>1. settled' \in [Topic -> Nat]
      BY <1>5 DEF Settle
    <2>2. started \in Cycle
      <3>1. Len(log[t]) \in Nat /\ settled[t] \in Nat /\ settled[t] < Len(log[t])
        BY <1>5 DEF Settle
      <3>2. log[t][1] \in Cycle /\ log[t][1] <= started
        BY <3>1 DEF StoreInv
      <3> QED BY <3>2
    <2>3. dead' \subseteq [topic : Topic, offset : Nat, since : Cycle] /\ faults' \in 0..MaxFaults
      BY <1>5, <2>2, SMTT(30) DEF Settle
    <2> QED BY <1>5, <2>1, <2>3 DEF Settle
  <1>6. ASSUME NEW t \in Topic, Commit(t) PROVE TypeOK'
    BY <1>6 DEF Commit
  <1> QED BY <1>1, <1>2, <1>3, <1>4, <1>5, <1>6

LEMMA VerdictTypes ==
  ASSUME NEW c, NEW lagOk, NEW count
  PROVE  VerdictFor(c, lagOk, count) \in {"persist_lagging", "partial", "ok", "failed"}
  BY DEF VerdictFor

\* Dead letters are finitely many, so they can be counted.
LEMMA DeadCounted ==
  ASSUME IsFiniteSet(dead), NEW c
  PROVE  DeadSince(c) \in Nat /\ (DeadSince(c) = 0 => \A d \in dead : ~(d.since >= c))
  <1> DEFINE D == {d \in dead : d.since >= c}
  <1>1. IsFiniteSet(D)
    BY FS_Subset
  <1>2. Cardinality(D) \in Nat /\ (Cardinality(D) = 0 => D = {})
    BY <1>1, FS_CardinalityType, FS_EmptySet
  <1> QED BY <1>2 DEF DeadSince

LEMMA ReporterTypes ==
  ASSUME IInv, NEW r \in Reporter, AStepOf(r)
  PROVE  TypeOK'
  <1> USE DEF IInv, TypeOK, Goto, Return, Reset
  <1>1. CASE List(r)
    BY <1>1 DEF List
  <1>2. CASE ReadPending(r)
    <2> DEFINE c == CHOOSE x \in todo[r] : \A y \in todo[r] : x <= y
    <2>1. /\ todo' = [todo EXCEPT ![r] = @ \ {c}]
          /\ UNCHANGED <<store, crawler, files, ends, faults>>
      BY <1>2 DEF ReadPending
    <2>2. CASE c \in pending
      <3>1. current' = [current EXCEPT ![r] = c] /\ (NoPoll(r) \/ StartPoll(r))
        BY <1>2, <2>2 DEF ReadPending
      <3> HIDE DEF c
      <3>2. /\ step' \in [Reporter -> {"idle", "ended", "next", "end", "committed",
                                       "append", "move"}]
            /\ topics' \in [Reporter -> SUBSET Topic] /\ lagZero' \in [Reporter -> BOOLEAN]
            /\ unseen' \in [Reporter -> SUBSET Topic]
        <4>1. CASE NoPoll(r)
          BY <4>1 DEF NoPoll
        <4>2. CASE StartPoll(r)
          BY <4>2 DEF StartPoll
        <4> QED BY <3>1, <4>1, <4>2
      <3>3. current' \in [Reporter -> Cycle \cup {NoCycle}]
        BY <2>2, <3>1
      <3> QED BY <2>1, <3>2, <3>3
    <2>3. CASE c \notin pending
      <3>1. UNCHANGED <<current, step, topics, lagZero, unseen>>
        BY <1>2, <2>3 DEF ReadPending
      <3> HIDE DEF c
      <3> QED BY <2>1, <3>1
    <2> QED BY <2>2, <2>3
  <1>3. CASE Listed(r)
    BY <1>3 DEF Listed
  <1>4. CASE ReadEnd(r)
    <2>1. NextTopic(r) \in Topic
      BY <1>4 DEF ReadEnd, NextTopic
    <2> QED BY <1>4, <2>1 DEF ReadEnd
  <1>5. CASE ReadCommitted(r)
    BY <1>5 DEF ReadCommitted
  <1>6. CASE EndPoll(r)
    <2>1. CASE Goto(r, "append") /\ UNCHANGED <<topics, lagZero, unseen>>
      BY <1>6, <2>1 DEF EndPoll
    <2>2. CASE StartPoll(r)
      BY <1>6, <2>2 DEF EndPoll, StartPoll
    <2> QED BY <1>6, <2>1, <2>2 DEF EndPoll
  <1>7. CASE AppendLine(r)
    <2>1. current[r] \in Cycle
      BY <1>7 DEF AppendLine, FilesInv, Filing
    <2>2. DeadSince(current[r]) \in Nat
      BY DeadCounted DEF StoreInv
    <2>3. lines' \subseteq [cycle : Cycle, dead : Nat \cup {Unknown}, unseen : SUBSET Topic,
                            verdict : {"persist_lagging", "partial", "ok", "failed"}]
      BY <1>7, <2>1, <2>2, VerdictTypes DEF AppendLine
    <2>4. faults' \in 0..MaxFaults
      BY <1>7 DEF AppendLine, Fault
    <2> QED BY <1>7, <2>3, <2>4 DEF AppendLine
  <1>8. CASE MoveToDone(r)
    BY <1>8 DEF MoveToDone
  <1>9. CASE MoveRaises(r)
    BY <1>9 DEF MoveRaises
  <1>10. CASE LagUnknown(r)
    BY <1>10 DEF LagUnknown
  <1>11. CASE Crash(r)
    BY <1>11 DEF Crash, Fault
  <1>12. CASE NoPartitions(r)
    <2>1. NextTopic(r) \in Topic
      BY <1>12 DEF NoPartitions, NextTopic
    <2> QED BY <1>12, <2>1 DEF NoPartitions, Fault
  <1> QED BY <1>1, <1>2, <1>3, <1>4, <1>5, <1>6, <1>7, <1>8, <1>9, <1>10, <1>11, <1>12
          DEF AStepOf, ReporterStep

-----------------------------------------------------------------------------
(* The crawler and the storage consumer *)

StoreStep ==
  \/ StartCycle \/ WritePending \/ CycleUnreported
  \/ \E t \in Topic, confirmed \in BOOLEAN : Send(t, confirmed)
  \/ \E t \in Topic : Settle(t) \/ Commit(t)

\* Topics only grow, by records of the cycle that is being crawled; what is settled
\* stays so; reports are written, not taken back.
LEMMA StoreGrows ==
  ASSUME IInv, StoreStep
  PROVE  /\ \A t \in Topic :
              /\ Len(log[t]) \in Nat /\ Len(log'[t]) \in Nat /\ Len(log[t]) <= Len(log'[t])
              /\ \A n \in 1..Len(log[t]) : log'[t][n] = log[t][n]
              /\ \A n \in 1..Len(log'[t]) :
                   n \in 1..Len(log[t]) \/ (log'[t][n] = started /\ crawl = "crawling")
              /\ settled[t] \in Nat /\ settled'[t] \in Nat /\ settled[t] <= settled'[t]
         /\ started <= started' /\ written \subseteq written'
         /\ UNCHANGED <<reporter, done, lines>>
  <1>1. TypeOK /\ CrawlInv
    BY DEF IInv
  <1>2. \A t \in Topic : Len(log[t]) \in Nat /\ settled[t] \in Nat
    BY <1>1 DEF TypeOK
  <1>3. CASE StartCycle \/ WritePending \/ CycleUnreported
    BY <1>1, <1>2, <1>3 DEF TypeOK, StartCycle, WritePending, CycleUnreported
  <1>4. ASSUME NEW t \in Topic, NEW confirmed \in BOOLEAN, Send(t, confirmed)
        PROVE  /\ \A u \in Topic :
                    /\ Len(log'[u]) \in Nat /\ Len(log[u]) <= Len(log'[u])
                    /\ \A n \in 1..Len(log[u]) : log'[u][n] = log[u][n]
                    /\ \A n \in 1..Len(log'[u]) :
                         n \in 1..Len(log[u]) \/ (log'[u][n] = started /\ crawl = "crawling")
               /\ UNCHANGED <<settled, started, files, written, reporter>>
    <2>1. /\ crawl = "crawling" /\ started \in Cycle
          /\ log' = log \/ log' = [log EXCEPT ![t] = Append(@, started)]
          /\ UNCHANGED <<settled, started, files, written, reporter>>
      BY <1>1, <1>4 DEF Send, CrawlInv
    <2>2. CASE log' = log
      BY <1>2, <2>1, <2>2
    <2>3. CASE log' = [log EXCEPT ![t] = Append(@, started)]
      <3>1. \A u \in Topic \ {t} : log'[u] = log[u]
        BY <1>1, <2>3 DEF TypeOK
      <3>2. log'[t] = Append(log[t], started) /\ log[t] \in Seq(Cycle)
        BY <1>1, <2>3 DEF TypeOK
      <3>3. /\ Len(log'[t]) = Len(log[t]) + 1 /\ log'[t][Len(log[t]) + 1] = started
            /\ \A n \in 1..Len(log[t]) : log'[t][n] = log[t][n]
        BY <2>1, <3>2
      <3>4. ASSUME NEW u \in Topic
            PROVE  /\ Len(log'[u]) \in Nat /\ Len(log[u]) <= Len(log'[u])
                   /\ \A n \in 1..Len(log[u]) : log'[u][n] = log[u][n]
                   /\ \A n \in 1..Len(log'[u]) :
                        n \in 1..Len(log[u]) \/ (log'[u][n] = started /\ crawl = "crawling")
        <4>1. CASE u = t
          BY <1>2, <2>1, <3>3, <4>1
        <4>2. CASE u # t
          BY <1>2, <3>1, <4>2
        <4> QED BY <4>1, <4>2
      <3> QED BY <2>1, <3>4
    <2> QED BY <2>1, <2>2, <2>3
  <1>5. ASSUME NEW t \in Topic, Settle(t) \/ Commit(t)
        PROVE  /\ UNCHANGED <<log, started, files, written, reporter>>
               /\ \A u \in Topic : settled'[u] \in Nat /\ settled[u] <= settled'[u]
    <2>1. CASE Settle(t)
      <3>1. settled' = [settled EXCEPT ![t] = settled[t] + 1]
        BY <2>1 DEF Settle
      <3>2. \A u \in Topic : settled'[u] \in {settled[u], settled[u] + 1}
        BY <1>1, <3>1 DEF TypeOK
      <3> QED BY <1>2, <2>1, <3>2 DEF Settle
    <2>2. CASE Commit(t)
      BY <1>2, <2>2 DEF Commit
    <2> QED BY <1>5, <2>1, <2>2
  <1> QED BY <1>1, <1>2, <1>3, <1>4, <1>5 DEF StoreStep, TypeOK

LEMMA SendIs ==
  ASSUME IInv, NEW t \in Topic, NEW confirmed \in BOOLEAN, Send(t, confirmed)
  PROVE  /\ StoreStep /\ crawl = "crawling" /\ started \in Cycle
         /\ UNCHANGED <<settled, committed, dead, crawl, started, written>>
         /\ \/ ok' = ok
            \/ /\ ok' = [ok EXCEPT ![started] = @ \cup {t}]
               /\ log' = [log EXCEPT ![t] = Append(@, started)]
  BY DEF Send, StoreStep, IInv, CrawlInv

LEMMA StoreKeepsStoreInv ==
  ASSUME IInv, StoreStep
  PROVE  StoreInv'
  <1>1. TypeOK /\ StoreInv
    BY DEF IInv
  <1>2. CASE StartCycle \/ WritePending \/ CycleUnreported
    BY <1>1, <1>2, SMTT(30) DEF TypeOK, StoreInv, StartCycle, WritePending, CycleUnreported
  <1>3. ASSUME NEW t \in Topic, NEW confirmed \in BOOLEAN, Send(t, confirmed) PROVE StoreInv'
    <2>1. UNCHANGED <<settled, committed, dead, started>>
      BY <1>3, SendIs
    <2>2. \A u \in Topic : \A n \in 1..Len(log'[u]) : log'[u][n] <= started
      <3> SUFFICES ASSUME NEW u \in Topic, NEW n \in 1..Len(log'[u])
                   PROVE  log'[u][n] <= started
        OBVIOUS
      <3>1. started \in Nat
        BY <1>1 DEF TypeOK
      <3>2. (n \in 1..Len(log[u]) /\ log'[u][n] = log[u][n]) \/ log'[u][n] = started
        BY StoreGrows
      <3> QED BY <1>1, <3>1, <3>2 DEF StoreInv
    <2>3. \A d \in dead : log'[d.topic][d.offset + 1] = log[d.topic][d.offset + 1]
      <3> SUFFICES ASSUME NEW d \in dead
                   PROVE  d.topic \in Topic /\ d.offset + 1 \in 1..Len(log[d.topic])
        BY StoreGrows
      <3>1. /\ d.topic \in Topic /\ d.offset \in Nat /\ settled[d.topic] \in Nat
            /\ Len(log[d.topic]) \in Nat
        BY <1>1 DEF TypeOK
      <3> QED BY <1>1, <3>1 DEF StoreInv
    <2>4. \A u \in Topic : settled[u] <= Len(log'[u])
      BY <1>1, StoreGrows DEF StoreInv
    <2> QED BY <1>1, <2>1, <2>2, <2>3, <2>4 DEF StoreInv
  <1>4. ASSUME NEW t \in Topic, Settle(t) PROVE StoreInv'
    <2>1. /\ settled' = [settled EXCEPT ![t] = @ + 1] /\ settled[t] < Len(log[t])
          /\ UNCHANGED <<log, committed, started>>
          /\ \/ UNCHANGED dead
             \/ dead' = dead \cup {[topic |-> t, offset |-> settled[t], since |-> started]}
      BY <1>4 DEF Settle
    <2>2. \A u \in Topic :
            settled[u] \in Nat /\ Len(log[u]) \in Nat /\ committed[u] \in Nat
      BY <1>1 DEF TypeOK
    <2>3. settled[t] + 1 \in 1..Len(log[t])
      BY <2>1, <2>2
    <2>4. \A u \in Topic :
            settled'[u] \in Nat /\ settled[u] <= settled'[u] /\ settled'[u] <= Len(log[u])
      BY <1>1, <2>1, <2>2 DEF TypeOK, StoreInv
    <2>5. IsFiniteSet(dead')
      BY <1>1, <2>1, FS_AddElement DEF StoreInv
    <2>6. ASSUME NEW d \in dead'
          PROVE  d.offset + 1 <= settled'[d.topic] /\ log[d.topic][d.offset + 1] <= d.since
      <3>1. CASE d \in dead
        <4>1. d.topic \in Topic /\ d.offset \in Nat
          BY <1>1, <3>1 DEF TypeOK
        <4>2. d.offset + 1 <= settled[d.topic] /\ log[d.topic][d.offset + 1] <= d.since
          BY <1>1, <3>1 DEF StoreInv
        <4> QED BY <2>2, <2>4, <4>1, <4>2
      <3>2. CASE d = [topic |-> t, offset |-> settled[t], since |-> started]
        <4>1. settled'[t] = settled[t] + 1
          BY <1>1, <2>1 DEF TypeOK
        <4>2. log[t][settled[t] + 1] <= started
          BY <1>1, <2>3 DEF StoreInv
        <4> QED BY <2>2, <3>2, <4>1, <4>2
      <3> QED BY <2>1, <2>6, <3>1, <3>2
    <2>7. \A u \in Topic : committed[u] <= settled'[u]
      BY <1>1, <2>2, <2>4 DEF StoreInv
    <2> QED BY <1>1, <2>1, <2>4, <2>5, <2>6, <2>7 DEF StoreInv
  <1>5. ASSUME NEW t \in Topic, Commit(t) PROVE StoreInv'
    BY <1>1, <1>5 DEF TypeOK, StoreInv, Commit
  <1> QED BY <1>2, <1>3, <1>4, <1>5 DEF StoreStep

LEMMA StoreKeepsCrawlInv ==
  ASSUME IInv, StoreStep
  PROVE  CrawlInv'
  <1>1. TypeOK /\ CrawlInv
    BY DEF IInv
  <1>2. CASE StartCycle
    BY <1>1, <1>2 DEF TypeOK, CrawlInv, StartCycle
  <1>3. CASE WritePending
    BY <1>1, <1>3 DEF TypeOK, CrawlInv, WritePending
  <1>4. CASE CycleUnreported
    BY <1>1, <1>4 DEF TypeOK, CrawlInv, CycleUnreported
  <1>5. ASSUME NEW t \in Topic, NEW confirmed \in BOOLEAN, Send(t, confirmed) PROVE CrawlInv'
    <2>1. UNCHANGED <<crawl, started, written>> /\ started \in Cycle
      BY <1>5, SendIs
    <2>2. ASSUME NEW c \in Cycle, NEW u \in ok'[c]
          PROVE  \E n \in 1..Len(log'[u]) : log'[u][n] = c
      <3>1. CASE u \in ok[c]
        <4>1. PICK n \in 1..Len(log[u]) : log[u][n] = c
          BY <1>1, <3>1 DEF CrawlInv
        <4>2. u \in Topic
          BY <1>1, <3>1 DEF TypeOK
        <4>3. n \in 1..Len(log'[u]) /\ log'[u][n] = c
          BY <4>1, <4>2, StoreGrows
        <4> QED BY <4>3
      <3>2. CASE u \notin ok[c]
        <4>1. c = started /\ u = t /\ log' = [log EXCEPT ![t] = Append(@, started)]
          BY <1>1, <1>5, <2>1, <2>2, <3>2, SendIs DEF TypeOK
        <4>2. log'[t] = Append(log[t], c) /\ log[t] \in Seq(Cycle)
          BY <1>1, <4>1 DEF TypeOK
        <4>3. Len(log'[t]) \in 1..Len(log'[t]) /\ log'[t][Len(log'[t])] = c
          BY <4>2
        <4> QED BY <4>1, <4>3
      <3> QED BY <3>1, <3>2
    <2> QED BY <1>1, <2>1, <2>2 DEF CrawlInv
  <1>6. ASSUME NEW t \in Topic, Settle(t) PROVE CrawlInv'
    BY <1>1, <1>6 DEF CrawlInv, Settle
  <1>7. ASSUME NEW t \in Topic, Commit(t) PROVE CrawlInv'
    BY <1>1, <1>7 DEF CrawlInv, Commit
  <1> QED BY <1>2, <1>3, <1>4, <1>5, <1>6, <1>7 DEF StoreStep

\* No record of a cycle comes after its report.
LEMMA AllSettledStays ==
  ASSUME IInv, StoreStep, NEW t \in Topic, NEW c \in written, AllSettled(t, c)
  PROVE  AllSettled(t, c)'
  <1>1. crawl = "crawling" => c # started
    BY DEF IInv, CrawlInv
  <1> QED BY <1>1, StoreGrows DEF AllSettled

LEMMA StoreKeepsFilesInv ==
  ASSUME IInv, StoreStep
  PROVE  FilesInv'
  <1>1. UNCHANGED <<done, lines, step, current>> /\ written \subseteq written'
    BY StoreGrows
  <1>2. written' = pending' \cup done'
    <2>1. CASE WritePending
      BY <2>1 DEF WritePending, IInv, FilesInv
    <2>2. CASE ~WritePending
      BY <2>2 DEF StoreStep, StartCycle, CycleUnreported, Send, Settle, Commit, IInv, FilesInv
    <2> QED BY <2>1, <2>2
  <1> QED BY <1>1, <1>2 DEF IInv, FilesInv, HasLine

LEMMA StoreKeepsLagInv ==
  ASSUME IInv, StoreStep
  PROVE  LagInv'
  <1>1. UNCHANGED <<step, current, topics, ends, lagZero, unseen>>
    BY StoreGrows
  <1>2. ASSUME NEW r \in Reporter, lagZero[r] = TRUE, NEW t \in Topic \ (topics[r] \cup unseen[r])
        PROVE  AllSettled(t, current[r])'
    <2>1. PICK c \in written : c = current[r] /\ AllSettled(t, c)
      BY <1>2 DEF IInv, LagInv, FilesInv
    <2>2. AllSettled(t, c)'
      BY <2>1, AllSettledStays
    <2> QED BY <1>1, <2>1, <2>2 DEF AllSettled
  <1>3. ASSUME NEW r \in Reporter, step[r] = "committed"
        PROVE  \A n \in 1..Len(log'[NextTopic(r)]) :
                 log'[NextTopic(r)][n] = current[r] => n <= ends[r]
    <2>1. topics[r] # {} /\ NextTopic(r) \in Topic /\ current[r] \in written
      BY <1>3 DEF IInv, TypeOK, LagInv, FilesInv, Filing, NextTopic
    <2>2. crawl = "crawling" => current[r] # started
      BY <2>1 DEF IInv, CrawlInv
    <2> QED BY <1>3, <2>1, <2>2, StoreGrows DEF IInv, LagInv
  <1> QED BY <1>1, <1>2, <1>3 DEF IInv, LagInv, NextTopic, AllSettled

-----------------------------------------------------------------------------
(* A reporter *)

AReporterStep ==
  \E r \in Reporter : AStepOf(r)

\* A reporter changes nothing of the crawler and the consumer, and no other reporter; it
\* appends lines and moves one report.
LEMMA ReporterActs ==
  ASSUME IInv, NEW r \in Reporter, AStepOf(r)
  PROVE  /\ UNCHANGED <<store, crawler>> /\ lines \subseteq lines'
         /\ \A q \in Reporter \ {r} :
              /\ step'[q] = step[q] /\ current'[q] = current[q] /\ topics'[q] = topics[q]
              /\ ends'[q] = ends[q] /\ lagZero'[q] = lagZero[q] /\ unseen'[q] = unseen[q]
  <1> USE DEF IInv, TypeOK, Goto, Return, Reset
  <1>1. CASE List(r) \/ Listed(r)
    BY <1>1 DEF List, Listed
  <1>2. CASE ReadPending(r)
    BY <1>2 DEF ReadPending, StartPoll, NoPoll
  <1>3. CASE ReadEnd(r)
    BY <1>3 DEF ReadEnd
  <1>4. CASE ReadCommitted(r)
    BY <1>4 DEF ReadCommitted
  <1>5. CASE LagUnknown(r) \/ NoPartitions(r)
    BY <1>5 DEF LagUnknown, NoPartitions
  <1>6. CASE EndPoll(r)
    BY <1>6 DEF EndPoll, StartPoll
  <1>7. CASE AppendLine(r)
    BY <1>7 DEF AppendLine
  <1>8. CASE MoveToDone(r) \/ MoveRaises(r) \/ Crash(r)
    BY <1>8 DEF MoveToDone, MoveRaises, Crash
  <1> QED BY <1>1, <1>2, <1>3, <1>4, <1>5, <1>6, <1>7, <1>8
          DEF AStepOf, ReporterStep

LEMMA ReporterKeepsStore ==
  ASSUME IInv, AReporterStep
  PROVE  StoreInv' /\ CrawlInv'
  <1>1. UNCHANGED <<store, crawler>>
    BY ReporterActs DEF AReporterStep
  <1> QED BY <1>1 DEF IInv, StoreInv, CrawlInv

\* The line comes before the move, and a report is left pending until it is moved.
LEMMA ReporterKeepsFiles ==
  ASSUME IInv, NEW r \in Reporter, AStepOf(r)
  PROVE  FilesInv'
  <1>1. TypeOK /\ FilesInv
    BY DEF IInv
  <1>2. written' = written /\ \A c : HasLine(c) => HasLine(c)'
    BY ReporterActs DEF HasLine
  <1>3. /\ step'[r] \in Filing => current'[r] \in written
        /\ step'[r] = "move" => \E l \in lines' : l.cycle = current'[r]
        /\ \/ UNCHANGED <<pending, done>>
           \/ /\ pending' = pending \ {current[r]} /\ done' = done \cup {current[r]}
              /\ current[r] \in pending /\ HasLine(current[r])
    <2> USE DEF TypeOK, Goto, Return, Reset, Filing
    <2>1. CASE List(r) \/ Listed(r)
      BY <1>1, <2>1 DEF List, Listed
    <2>2. CASE ReadPending(r)
      BY <1>1, <2>2 DEF ReadPending, StartPoll, NoPoll, FilesInv
    <2>3. CASE ReadEnd(r) \/ ReadCommitted(r) \/ NoPartitions(r) \/ LagUnknown(r)
      BY <1>1, <2>3 DEF ReadEnd, ReadCommitted, NoPartitions, LagUnknown, FilesInv
    <2>4. CASE EndPoll(r)
      BY <1>1, <2>4 DEF EndPoll, StartPoll, FilesInv
    <2>5. CASE AppendLine(r)
      <3>1. \E l \in lines' : l.cycle = current[r]
        <4> DEFINE line(n) == [cycle |-> current[r], dead |-> n, unseen |-> unseen[r],
                               verdict |-> VerdictFor(current[r], lagZero[r], n)]
        <4>1. PICK n \in {DeadSince(current[r]), Unknown} : lines' = lines \cup {line(n)}
          BY <2>5 DEF AppendLine
        <4>2. line(n) \in lines' /\ line(n).cycle = current[r]
          BY <4>1
        <4> QED BY <4>2
      <3> QED BY <1>1, <2>5, <3>1 DEF AppendLine, HasLine, FilesInv
    <2>6. CASE MoveToDone(r)
      BY <1>1, <2>6 DEF MoveToDone, FilesInv
    <2>7. CASE MoveRaises(r) \/ Crash(r)
      BY <1>1, <2>7 DEF MoveRaises, Crash
    <2> QED BY <2>1, <2>2, <2>3, <2>4, <2>5, <2>6, <2>7 DEF AStepOf, ReporterStep
  <1>4. written' = pending' \cup done' /\ \A c \in done' : HasLine(c)'
    BY <1>1, <1>2, <1>3 DEF FilesInv
  <1>5. ASSUME NEW q \in Reporter \ {r}
        PROVE  /\ step'[q] \in Filing => current'[q] \in written
               /\ step'[q] = "move" => \E l \in lines' : l.cycle = current'[q]
    BY <1>1, <1>2, ReporterActs DEF FilesInv, HasLine
  <1> QED BY <1>2, <1>3, <1>4, <1>5 DEF FilesInv, HasLine

\* One reading more: both offsets, in their order.
LEMMA ReporterKeepsLag ==
  ASSUME IInv, NEW r \in Reporter, AStepOf(r)
  PROVE  LagInv'
  <1>1. TypeOK /\ LagInv /\ StoreInv
    BY DEF IInv
  <1>2. UNCHANGED <<log, settled, committed>>
    BY ReporterActs
  <1> DEFINE Concluded(q) ==
        /\ step[q] \notin Filing => lagZero[q] = FALSE
        /\ lagZero[q] = TRUE =>
             \A t \in Topic \ (topics[q] \cup unseen[q]) : AllSettled(t, current[q])
        /\ step[q] = "append" /\ lagZero[q] = TRUE => topics[q] = {}
        /\ step[q] = "committed" =>
             /\ topics[q] # {}
             /\ \A n \in 1..Len(log[NextTopic(q)]) :
                  log[NextTopic(q)][n] = current[q] => n <= ends[q]
  <1>3. Concluded(r)'
    <2> USE DEF TypeOK, Goto, Return, Reset, Filing
    <2>1. CASE List(r) \/ Listed(r)
      BY <1>1, <2>1 DEF List, Listed, LagInv
    <2>2. CASE ReadPending(r)
      BY <1>1, <2>2 DEF ReadPending, StartPoll, NoPoll, LagInv
    <2>3. CASE ReadEnd(r)
      <3>1. /\ step'[r] = "committed" /\ topics'[r] = topics[r] /\ topics[r] # {}
            /\ ends'[r] = Len(log[NextTopic(r)]) /\ current'[r] = current[r]
            /\ lagZero'[r] = lagZero[r] /\ unseen'[r] = unseen[r]
            /\ NextTopic(r)' = NextTopic(r)
        BY <1>1, <2>3 DEF ReadEnd, NextTopic
      <3> QED BY <1>1, <1>2, <2>3, <3>1 DEF LagInv, AllSettled, ReadEnd
    <2>4. CASE ReadCommitted(r)
      <3>1. /\ step[r] = "committed" /\ step'[r] = "end" /\ current'[r] = current[r]
            /\ topics'[r] = topics[r] \ {NextTopic(r)} /\ unseen'[r] = unseen[r]
            /\ lagZero'[r] = (lagZero[r] /\ committed[NextTopic(r)] >= ends[r])
        BY <1>1, <2>4 DEF ReadCommitted
      <3>2. NextTopic(r) \in Topic
        BY <1>1, <3>1 DEF NextTopic, LagInv
      <3>3. committed[NextTopic(r)] >= ends[r] => AllSettled(NextTopic(r), current[r])
        <4>1. /\ Len(log[NextTopic(r)]) \in Nat /\ ends[r] \in Nat
              /\ committed[NextTopic(r)] \in Nat /\ settled[NextTopic(r)] \in Nat
              /\ committed[NextTopic(r)] <= settled[NextTopic(r)]
          BY <1>1, <3>2 DEF StoreInv
        <4> QED BY <1>1, <3>1, <4>1 DEF LagInv, AllSettled
      <3>4. lagZero'[r] = TRUE =>
              \A t \in Topic \ (topics'[r] \cup unseen'[r]) : AllSettled(t, current[r])
        BY <1>1, <3>1, <3>3 DEF LagInv
      <3> QED BY <1>2, <3>1, <3>4 DEF AllSettled
    <2>5. CASE LagUnknown(r)
      BY <1>1, <2>5 DEF LagUnknown
    <2>6. CASE EndPoll(r)
      <3>1. CASE Goto(r, "append") /\ UNCHANGED <<topics, lagZero, unseen>>
        BY <1>1, <1>2, <2>6, <3>1 DEF EndPoll, LagInv, AllSettled
      <3>2. CASE StartPoll(r)
        BY <1>1, <2>6, <3>2 DEF EndPoll, StartPoll
      <3> QED BY <2>6, <3>1, <3>2 DEF EndPoll
    <2>7. CASE AppendLine(r)
      BY <1>1, <1>2, <2>7 DEF AppendLine, LagInv, AllSettled
    <2>8. CASE MoveToDone(r)
      BY <1>1, <2>8 DEF MoveToDone
    <2>9. CASE MoveRaises(r) \/ Crash(r)
      BY <1>1, <2>9 DEF MoveRaises, Crash
    <2>10. CASE NoPartitions(r)
      <3>1. /\ step[r] = "end" /\ step'[r] = "end" /\ lagZero'[r] = lagZero[r]
            /\ current'[r] = current[r]
            /\ topics'[r] \cup unseen'[r] = topics[r] \cup unseen[r]
        BY <1>1, <2>10 DEF NoPartitions, NextTopic
      <3> QED BY <1>1, <1>2, <3>1 DEF LagInv, AllSettled
    <2> QED BY <2>1, <2>2, <2>3, <2>4, <2>5, <2>6, <2>7, <2>8, <2>9, <2>10
            DEF AStepOf, ReporterStep
  <1>4. ASSUME NEW q \in Reporter \ {r} PROVE Concluded(q)'
    <2>1. /\ step'[q] = step[q] /\ current'[q] = current[q] /\ topics'[q] = topics[q]
          /\ ends'[q] = ends[q] /\ lagZero'[q] = lagZero[q] /\ unseen'[q] = unseen[q]
      BY ReporterActs
    <2> QED BY <1>1, <1>2, <2>1 DEF LagInv, AllSettled, NextTopic
  <1> QED BY <1>3, <1>4 DEF LagInv

-----------------------------------------------------------------------------
(* What "ok" means *)

\* The verdict is right when the line is appended.
LEMMA AppendedOk ==
  ASSUME IInv, NEW r \in Reporter, AppendLine(r), NEW l \in lines', l \notin lines,
         l.verdict = "ok", NEW t \in Topic
  PROVE  \E n \in 1..Len(log[t]) :
           /\ log[t][n] = l.cycle
           /\ t \notin l.unseen =>
                /\ n <= settled[t]
                /\ l.dead = 0 => \A d \in dead : d.topic = t => d.offset # n - 1
  <1>1. TypeOK /\ StoreInv /\ LagInv /\ CrawlInv /\ FilesInv
    BY DEF IInv
  <1>2. step[r] = "append" /\ current[r] \in Cycle
    BY <1>1 DEF AppendLine, FilesInv, Filing, TypeOK
  <1> DEFINE c == current[r]
  <1>3. PICK count \in {DeadSince(c), Unknown} :
          lines' = lines \cup {[cycle |-> c, dead |-> count, unseen |-> unseen[r],
                                verdict |-> VerdictFor(c, lagZero[r], count)]}
    BY DEF AppendLine
  <1>4. /\ l.cycle = c /\ l.dead = count /\ l.unseen = unseen[r]
        /\ VerdictFor(c, lagZero[r], count) = "ok"
    BY <1>3
  <1>5. lagZero[r] = TRUE /\ ok[c] = Topic
    BY <1>1, <1>2, <1>4 DEF VerdictFor, TypeOK
  <1>6. PICK n \in 1..Len(log[t]) : log[t][n] = c
    BY <1>1, <1>2, <1>5 DEF CrawlInv
  <1>7. t \notin l.unseen => n <= settled[t]
    BY <1>1, <1>2, <1>4, <1>5, <1>6 DEF LagInv, AllSettled
  <1>8. ASSUME l.dead = 0, NEW d \in dead, d.topic = t, d.offset = n - 1
        PROVE  FALSE
    <2>1. DeadSince(c) = 0
      BY <1>3, <1>4, <1>8
    <2>2. ~(d.since >= c)
      BY <1>1, <2>1, DeadCounted DEF StoreInv
    <2>3. log[t][n] <= d.since
      <3>1. d.offset + 1 = n
        BY <1>8
      <3> QED BY <1>1, <1>8, <3>1 DEF StoreInv
    <2>4. d.since \in Cycle
      BY <1>1, <1>8 DEF TypeOK
    <2> QED BY <1>2, <1>6, <2>2, <2>3, <2>4
  <1> QED BY <1>4, <1>6, <1>7, <1>8

\* And it stays right: topics grow, and what dies later was not settled then.
LEMMA StoreKeepsOk ==
  ASSUME IInv, StoreStep
  PROVE  OkMeansStored'
  <1>1. UNCHANGED lines
    BY StoreGrows
  <1> SUFFICES ASSUME NEW l \in lines, l.verdict = "ok", NEW t \in Topic
               PROVE  \E n \in 1..Len(log'[t]) :
                        /\ log'[t][n] = l.cycle
                        /\ t \notin l.unseen =>
                             /\ n <= settled'[t]
                             /\ l.dead = 0 => \A d \in dead' : d.topic = t => d.offset # n - 1
    BY <1>1 DEF OkMeansStored
  <1>2. PICK n \in 1..Len(log[t]) :
          /\ log[t][n] = l.cycle
          /\ t \notin l.unseen =>
               /\ n <= settled[t]
               /\ l.dead = 0 => \A d \in dead : d.topic = t => d.offset # n - 1
    BY DEF IInv, OkMeansStored
  <1>3. /\ n \in 1..Len(log'[t]) /\ log'[t][n] = l.cycle
        /\ t \notin l.unseen => n <= settled'[t]
    BY <1>2, StoreGrows
  <1>4. \A d \in dead' : d \in dead \/ (d.topic \in Topic /\ d.offset = settled[d.topic])
    <2>1. ASSUME NEW u \in Topic, Settle(u)
          PROVE  dead' = dead \/
                 dead' = dead \cup {[topic |-> u, offset |-> settled[u], since |-> started]}
      BY <2>1 DEF Settle
    <2>2. CASE \E u \in Topic : Settle(u)
      BY <2>1, <2>2
    <2>3. CASE StartCycle \/ WritePending \/ CycleUnreported
      BY <2>3 DEF StartCycle, WritePending, CycleUnreported
    <2>4. CASE \/ \E u \in Topic, confirmed \in BOOLEAN : Send(u, confirmed)
               \/ \E u \in Topic : Commit(u)
      BY <2>4 DEF Send, Commit
    <2> QED BY <2>2, <2>3, <2>4 DEF StoreStep
  <1>5. t \notin l.unseen => settled[t] # n - 1
    BY <1>2, StoreGrows
  <1> QED BY <1>2, <1>3, <1>4, <1>5

LEMMA ReporterKeepsOk ==
  ASSUME IInv, NEW r \in Reporter, AStepOf(r)
  PROVE  OkMeansStored'
  <1>1. UNCHANGED <<log, settled, dead>>
    BY ReporterActs
  <1>2. AppendLine(r) \/ lines' = lines
    BY DEF ReporterStep, List, Listed, ReadPending, ReadEnd, ReadCommitted, EndPoll,
           MoveToDone, MoveRaises, NoPartitions, LagUnknown, Crash, AStepOf
  <1> SUFFICES ASSUME NEW l \in lines', l.verdict = "ok", NEW t \in Topic
               PROVE  \E n \in 1..Len(log[t]) :
                        /\ log[t][n] = l.cycle
                        /\ t \notin l.unseen =>
                             /\ n <= settled[t]
                             /\ l.dead = 0 => \A d \in dead : d.topic = t => d.offset # n - 1
    BY <1>1 DEF OkMeansStored
  <1>3. CASE l \in lines
    BY <1>3 DEF IInv, OkMeansStored
  <1>4. CASE l \notin lines
    BY <1>2, <1>4, AppendedOk
  <1> QED BY <1>3, <1>4

-----------------------------------------------------------------------------
LEMMA StepKeepsIInv == IInv /\ [Next]_vars => IInv'
  <1> SUFFICES ASSUME IInv, [Next]_vars PROVE IInv'
    OBVIOUS
  <1>1. CASE StoreStep
    BY <1>1, CrawlerTypes, StoreKeepsStoreInv, StoreKeepsCrawlInv, StoreKeepsFilesInv,
       StoreKeepsLagInv, StoreKeepsOk DEF IInv, StoreStep
  <1>2. CASE AReporterStep
    BY <1>2, ReporterTypes, ReporterKeepsStore, ReporterKeepsFiles, ReporterKeepsLag,
       ReporterKeepsOk DEF IInv, AReporterStep
  <1>3. CASE UNCHANGED vars
    BY <1>3 DEF IInv, TypeOK, StoreInv, CrawlInv, FilesInv, HasLine, LagInv, AllSettled,
                NextTopic, OkMeansStored
  <1> QED BY <1>1, <1>2, <1>3 DEF Next, StoreStep, AReporterStep, AStepOf

\* The inductive invariant: what the log, the consumer, the two files and each reporter's
\* reading of the lag have to do with each other, across crashes.
THEOREM Invariance == Spec => []IInv
  BY InitIInv, StepKeepsIInv, PTL DEF Spec

\* The state is of the declared types, for any number of cycles and reporters.
THEOREM TypeCorrect == Spec => []TypeOK
  BY Invariance, PTL DEF IInv

\* Across any crashes and any reporters at once, what the crawler wrote is pending or done,
\* and what is done has its line (finalize_cycle_reports.py:175-177).
THEOREM NoReportLost == Spec => []ReportKept
  <1>1. IInv => ReportKept
    BY DEF IInv, FilesInv, ReportKept
  <1> QED BY <1>1, Invariance, PTL

\* For any number of cycles and whatever order offsets are read in: "ok" means sent and, in
\* every topic whose offsets the last poll could read, stored and, where that could be
\* counted, not dead (finalize_cycle_reports.py:48-77, 80-90, 127-139).
THEOREM OkIsStored == Spec => []OkMeansStored
  BY Invariance, PTL DEF IInv

-----------------------------------------------------------------------------
(* The reduction of the storage consumer *)

SettledRecords == UNION {{t} \X (0..(settled[t] - 1)) : t \in Topic}

LEMMA SendRefines ==
  ASSUME IInv, NEW t \in Topic, NEW confirmed \in BOOLEAN, Send(t, confirmed)
  PROVE  Promise!Produce \/ UNCHANGED <<log, settled, committed>>
  <1>1. /\ started \in Cycle /\ UNCHANGED <<settled, committed>>
        /\ log' = log \/ log' = [log EXCEPT ![t] = Append(@, started)]
    BY SendIs DEF Send
  <1>2. TypeOK /\ StoreInv /\ StoreInv' /\ TypeOK'
    BY SendIs, StoreKeepsStoreInv, CrawlerTypes DEF IInv, StoreStep
  <1>3. SettledRecords' = SettledRecords /\ SettledRecords' \subseteq Promise!Produced(log')
    <2>1. SettledRecords' \subseteq Promise!Produced(log')
      <3> SUFFICES ASSUME NEW u \in Topic, NEW n \in 0..(settled'[u] - 1)
                   PROVE  n \in 0..(Len(log'[u]) - 1)
        BY DEF SettledRecords, Promise!Produced
      <3>1. log'[u] \in Seq(Cycle) /\ settled'[u] \in Nat
        BY <1>2 DEF TypeOK
      <3>2. settled'[u] <= Len(log'[u])
        BY <1>2 DEF StoreInv
      <3> QED BY <3>1, <3>2
    <2> QED BY <1>1, <2>1 DEF SettledRecords, Promise!Produced
  <1> QED BY <1>1, <1>3 DEF Promise!Produce, SettledRecords

LEMMA SettleRefines ==
  ASSUME IInv, NEW t \in Topic, Settle(t)
  PROVE  Promise!Settle
  <1>1. TypeOK /\ StoreInv
    BY DEF IInv
  <1>2. /\ UNCHANGED <<log, committed>> /\ settled[t] < Len(log[t])
        /\ settled' = [settled EXCEPT ![t] = settled[t] + 1]
    BY DEF Settle
  <1>3. \A u \in Topic : /\ settled[u] \in Nat /\ Len(log[u]) \in Nat /\ settled'[u] \in Nat
                         /\ settled[u] <= settled'[u] /\ settled'[u] <= Len(log[u])
    BY <1>1, <1>2 DEF TypeOK, StoreInv
  <1>4. SettledRecords \subseteq SettledRecords'
    <2> SUFFICES ASSUME NEW u \in Topic, NEW n \in 0..(settled[u] - 1)
                 PROVE  n \in 0..(settled'[u] - 1)
      BY DEF SettledRecords
    <2> QED BY <1>3
  <1>5. SettledRecords' \subseteq Promise!Produced(log)
    <2> SUFFICES ASSUME NEW u \in Topic, NEW n \in 0..(settled'[u] - 1)
                 PROVE  n \in 0..(Len(log[u]) - 1)
      BY DEF SettledRecords, Promise!Produced
    <2> QED BY <1>3
  <1> QED BY <1>2, <1>4, <1>5 DEF Promise!Settle, SettledRecords

LEMMA CommitRefines ==
  ASSUME IInv, NEW t \in Topic, Commit(t)
  PROVE  Promise!Advance
  <1>1. TypeOK /\ StoreInv
    BY DEF IInv
  <1>2. /\ UNCHANGED <<log, settled>> /\ committed[t] < settled[t]
        /\ committed' = [committed EXCEPT ![t] = committed[t] + 1]
    BY DEF Commit
  <1>3. committed' \in [Topic -> Nat]
    BY <1>1, <1>2 DEF TypeOK
  <1>4. ASSUME NEW u \in Topic
        PROVE  /\ committed'[u] >= committed[u] /\ committed'[u] <= settled[u]
               /\ settled[u] \in Nat
    BY <1>1, <1>2 DEF TypeOK, StoreInv
  <1>5. ASSUME NEW u \in Topic
        PROVE  {u} \X (0..(committed'[u] - 1)) \subseteq SettledRecords
    <2> SUFFICES ASSUME NEW n \in 0..(committed'[u] - 1)
                 PROVE  n \in 0..(settled[u] - 1)
      BY DEF SettledRecords
    <2> QED BY <1>3, <1>4
  <1>6. UNCHANGED SettledRecords
    BY <1>2 DEF SettledRecords
  <1> QED BY <1>2, <1>3, <1>4, <1>5, <1>6 DEF Promise!Advance, SettledRecords

\* The storage consumer as this module reduces it, one offset at a time and without the
\* rows, is one that Ingestion allows; Ingestion is what the pipeline is proved to implement.
THEOREM StoreRefines == Spec => StoreKeepsPromise
  <1>1. Init => Promise!Init
    <2> SUFFICES ASSUME Init PROVE Promise!Init
      OBVIOUS
    <2>1. SettledRecords = {}
      BY DEF Init, SettledRecords
    <2> QED BY <2>1 DEF Init, Promise!Init, SettledRecords
  <1>2. IInv /\ [Next]_vars => [Promise!Next]_(Promise!vars)
    <2> SUFFICES ASSUME IInv, [Next]_vars PROVE Promise!Next \/ UNCHANGED <<log, settled, committed>>
      BY DEF Promise!vars
    <2>1. CASE UNCHANGED vars \/ StartCycle \/ WritePending \/ CycleUnreported
      BY <2>1 DEF StartCycle, WritePending, CycleUnreported
    <2>2. CASE AReporterStep
      BY <2>2, ReporterActs DEF AReporterStep
    <2>3. CASE \E t \in Topic, confirmed \in BOOLEAN : Send(t, confirmed)
      BY <2>3, SendRefines DEF Promise!Next
    <2>4. CASE \E t \in Topic : Settle(t) \/ Commit(t)
      BY <2>4, SettleRefines, CommitRefines DEF Promise!Next
    <2> QED BY <2>1, <2>2, <2>3, <2>4 DEF Next, AReporterStep, AStepOf
  <1> QED BY <1>1, <1>2, Invariance, PTL DEF Spec, StoreKeepsPromise, Promise!Spec
=============================================================================
