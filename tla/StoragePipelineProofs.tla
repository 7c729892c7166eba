------------------------ MODULE StoragePipelineProofs ------------------------
(***************************************************************************)
(* Theorems about StoragePipeline for any number of replicas, partitions,   *)
(* messages and retries.  IInv is inductive; the safety properties follow   *)
(* from it and from what one step may do to the log, the table and the      *)
(* dead letters.                                                            *)
(***************************************************************************)
EXTENDS StoragePipeline, FiniteSetTheorems, WellFoundedInduction, TLAPS

USE ConstantsAssumption

\* What every step does to the evidence that a record is settled.
EvidenceGrows ==
  /\ \A p \in Partition :
        /\ Len(log[p]) <= Len(log'[p])
        /\ \A i \in 1 .. Len(log[p]) : log'[p][i] = log[p][i]
  /\ deadLetters \subseteq deadLetters'
  /\ \A k \in Key : rows'[k] # rows[k] =>
        /\ rows'[k] \in Message
        /\ rows[k] = NoRow \/ ObservedAt[rows'[k]] > ObservedAt[rows[k]]

-----------------------------------------------------------------------------
(* The batch operators.                                                     *)

\* A produced record is a message.
LEMMA RecordType ==
  ASSUME TypeOK, NEW c \in Produced
  PROVE  c \in Coordinate /\ c[1] \in Partition /\ c[2] \in Nat /\ Record(c) \in Message
  BY DEF TypeOK, Produced, Coordinate, Offset, Record

\* The upsert keeps a row or replaces it by a newer message of the batch.
LEMMA UpsertStep ==
  ASSUME TypeOK, NEW M \in SUBSET Message, NEW k \in Key
  PROVE  \/ Upsert(M)[k] = rows[k]
         \/ /\ Upsert(M)[k] \in M
            /\ KeyOf[Upsert(M)[k]] = k
            /\ rows[k] = NoRow \/ ObservedAt[Upsert(M)[k]] > ObservedAt[rows[k]]
  <1>1. CASE \E m \in M : KeyOf[m] = k /\ Supersedes(m, rows[k])
    BY <1>1 DEF Upsert, Supersedes
  <1>2. CASE ~ \E m \in M : KeyOf[m] = k /\ Supersedes(m, rows[k])
    BY <1>2 DEF Upsert
  <1> QED BY <1>1, <1>2

\* A settled record stays settled.
LEMMA SettledStable ==
  ASSUME TypeOK, EvidenceGrows, NEW c \in Produced
  PROVE  /\ c \in Produced'
         /\ Record(c)' = Record(c)
         /\ Settled(c) => Settled(c)'
  <1>1. c \in Coordinate /\ c[1] \in Partition /\ c[2] \in Nat /\ Record(c) \in Message
    BY RecordType
  <1>2. c \in Produced'
    BY <1>1 DEF EvidenceGrows, Produced, TypeOK
  <1>3. Record(c)' = Record(c)
    <2>1. c[2] < Len(log[c[1]]) /\ Len(log[c[1]]) \in Nat
      BY <1>1 DEF Produced, TypeOK
    <2>2. c[2] + 1 \in 1 .. Len(log[c[1]])
      BY <1>1, <2>1
    <2> QED BY <1>1, <2>2 DEF EvidenceGrows, Record
  <1>4. Settled(c) => Settled(c)'
    BY <1>1, <1>3 DEF EvidenceGrows, TypeOK, Settled, Stored
  <1> QED BY <1>2, <1>3, <1>4

\* What a batch writes is made of messages, what it rejects of its records.
LEMMA BatchTypes ==
  ASSUME TypeOK, NEW w \in Worker, batch[w] \subseteq Produced
  PROVE  /\ Rows(w) \in SUBSET Message
         /\ Rejected(w) \subseteq Produced
         /\ PackagesOf(w) \subseteq Package
  BY RecordType DEF Rows, Dedupe, Rejected, PackagesOf, Decoded, Bound

-----------------------------------------------------------------------------
(* Type correctness, and the growth of the evidence, one action at a time.  *)

LEMMA TypeInit == Init => TypeOK
  BY SMT DEF Init, TypeOK

LEMMA TransactStep ==
  ASSUME TypeOK, NEW w \in Worker, WorkerInv(w), Transact(w), UNCHANGED log
  PROVE  /\ EvidenceGrows
         /\ rows' \in [Key -> Message \cup {NoRow}]
         /\ deadLetters' \subseteq Produced \cup deadLetters
         /\ deadLetters' \subseteq Coordinate
  <1>1. Rows(w) \in SUBSET Message /\ Rejected(w) \subseteq Produced
    BY BatchTypes DEF WorkerInv
  <1>2. rows' = Upsert(Rows(w)) /\ deadLetters' = deadLetters \cup Rejected(w)
    BY DEF Transact
  <1>3. ASSUME NEW k \in Key
        PROVE  \/ rows'[k] = rows[k]
               \/ /\ rows'[k] \in Message
                  /\ rows[k] = NoRow \/ ObservedAt[rows'[k]] > ObservedAt[rows[k]]
    BY <1>1, <1>2, UpsertStep
  <1>4. rows' \in [Key -> Message \cup {NoRow}]
    <2>1. rows' = [k \in Key |-> rows'[k]]
      BY <1>2 DEF Upsert
    <2>2. \A k \in Key : rows'[k] \in Message \cup {NoRow}
      BY <1>3 DEF TypeOK
    <2> QED BY <2>1, <2>2
  <1>5. EvidenceGrows
    BY <1>2, <1>3 DEF EvidenceGrows, TypeOK
  <1>6. Produced \subseteq Coordinate
    BY DEF Produced
  <1> QED BY <1>1, <1>2, <1>4, <1>5, <1>6 DEF TypeOK

LEMMA StableStep ==
  ASSUME TypeOK, UNCHANGED <<log, deadLetters, rows>>
  PROVE  EvidenceGrows
  BY DEF EvidenceGrows, TypeOK

LEMMA ProduceStep ==
  ASSUME TypeOK, NEW p \in Partition, NEW m \in Message, Produce(p, m)
  PROVE  TypeOK' /\ EvidenceGrows
  <1>1. /\ log' \in [Partition -> Seq(Message)]
        /\ \A q \in Partition : Len(log'[q]) <= MaxLog
        /\ \A q \in Partition : Len(log[q]) <= Len(log'[q])
        /\ \A q \in Partition : \A i \in 1 .. Len(log[q]) : log'[q][i] = log[q][i]
    BY DEF Produce, TypeOK
  <1>2. premature' \subseteq Coordinate
    BY DEF Produce, TypeOK, Coordinate, Offset
  <1>3. UNCHANGED <<committed, owner, registered, rows, deadLetters, pc, stop, current,
                    assigned, position, batch, resolved, attempt, failures>>
    BY DEF Produce, database, client, batchVars
  <1> QED BY <1>1, <1>2, <1>3 DEF TypeOK, EvidenceGrows, Coordinate, Offset

LEMMA ForgetTypes ==
  ASSUME TypeOK, NEW w \in Worker, Forget(w)
  PROVE  /\ pc' \in [Worker -> {"down", "poll", "write", "bound", "commit", "closing"}]
         /\ stop' \in [Worker -> BOOLEAN] /\ current' \in [Worker -> BOOLEAN]
         /\ assigned' \in [Worker -> SUBSET Partition]
         /\ position' \in [Worker -> [Partition -> Nat]]
         /\ batch' \in [Worker -> SUBSET Coordinate]
         /\ resolved' \in [Worker -> SUBSET Package]
         /\ attempt' \in [Worker -> 0 .. MaxRetries]
         /\ failures' \in [Worker -> 0 .. MaxCommitFailures]
         /\ \A v \in Worker : pc'[v] # "closing" => failures'[v] < MaxCommitFailures
  BY DEF TypeOK, Forget, EndBatch

LEMMA RetryTypes ==
  ASSUME TypeOK, NEW w \in Worker, Retry(w)
  PROVE  /\ pc' \in [Worker -> {"down", "poll", "write", "bound", "commit", "closing"}]
         /\ batch' \in [Worker -> SUBSET Coordinate]
         /\ resolved' \in [Worker -> SUBSET Package]
         /\ attempt' \in [Worker -> 0 .. MaxRetries]
         /\ \A v \in Worker : pc[v] = "closing" => v = w \/ pc'[v] = "closing"
  <1>1. CASE attempt[w] < MaxRetries /\ attempt' = [attempt EXCEPT ![w] = @ + 1] /\ UNCHANGED batch
                /\ resolved' = [resolved EXCEPT ![w] = {}] /\ pc' = [pc EXCEPT ![w] = "write"]
    BY <1>1 DEF TypeOK
  <1>2. CASE EndBatch(w) /\ pc' = [pc EXCEPT ![w] = "closing"]
    BY <1>2 DEF TypeOK, EndBatch
  <1> QED BY <1>1, <1>2 DEF Retry

LEMMA CountFailureTypes ==
  ASSUME TypeOK, NEW w \in Worker, pc[w] = "commit", CountFailure(w)
  PROVE  /\ pc' \in [Worker -> {"down", "poll", "write", "bound", "commit", "closing"}]
         /\ failures' \in [Worker -> 0 .. MaxCommitFailures]
         /\ \A v \in Worker : pc'[v] # "closing" => failures'[v] < MaxCommitFailures
  <1>1. failures[w] \in Nat /\ failures[w] < MaxCommitFailures
    BY DEF TypeOK
  <1>2. CASE failures[w] + 1 >= MaxCommitFailures
    BY <1>1, <1>2 DEF TypeOK, CountFailure
  <1>3. CASE ~ (failures[w] + 1 >= MaxCommitFailures)
    BY <1>1, <1>3 DEF TypeOK, CountFailure
  <1> QED BY <1>2, <1>3

LEMMA TypeStep ==
  ASSUME TypeOK, \A w \in Worker : WorkerInv(w), [Next]_vars
  PROVE  TypeOK' /\ EvidenceGrows
  <1> USE DEF vars, broker, database, client, batchVars
  <1>1. CASE UNCHANGED vars
    <2>1. EvidenceGrows
      BY <1>1, StableStep DEF TypeOK
    <2>2. TypeOK'
      BY <1>1 DEF TypeOK, Coordinate, Offset
    <2> QED BY <2>1, <2>2
  <1>2. ASSUME NEW p \in Partition, NEW m \in Message, Produce(p, m)
        PROVE  TypeOK' /\ EvidenceGrows
    BY <1>2, ProduceStep
  <1>3. ASSUME NEW a \in Package, Register(a)
        PROVE  TypeOK' /\ EvidenceGrows
    <2>1. EvidenceGrows
      BY <1>3, StableStep DEF Register
    <2>2. TypeOK'
      BY <1>3 DEF Register, TypeOK, Coordinate, Offset
    <2> QED BY <2>1, <2>2
  <1>4. ASSUME NEW g \in [Partition -> Live], Rebalance(g)
        PROVE  TypeOK' /\ EvidenceGrows
    <2>1. EvidenceGrows
      BY <1>4, StableStep DEF Rebalance
    <2>2. TypeOK'
      BY <1>4 DEF Rebalance, Live, TypeOK, Coordinate, Offset
    <2> QED BY <2>1, <2>2
  <1>5. ASSUME NEW w \in Worker, NEW next \in [Partition -> 0 .. MaxLog], Poll(w, next)
        PROVE  TypeOK' /\ EvidenceGrows
    <2>1. EvidenceGrows
      BY <1>5, StableStep DEF Poll
    <2>2. TypeOK'
      <3>1. Between(position[w], next) \in SUBSET Coordinate
        BY DEF Between
      <3>2. next \in [Partition -> Nat]
        OBVIOUS
      <3>3. /\ batch' \in [Worker -> SUBSET Coordinate]
            /\ position' \in [Worker -> [Partition -> Nat]]
            /\ pc' \in [Worker -> {"down", "poll", "write", "bound", "commit", "closing"}]
            /\ \A v \in Worker : pc[v] = "closing" => pc'[v] = "closing"
        BY <1>5, <3>1, <3>2 DEF Poll, TypeOK
      <3> QED BY <1>5, <3>3 DEF Poll, TypeOK, Coordinate, Offset
    <2> QED BY <2>1, <2>2
  <1>6. ASSUME NEW w \in Worker, RequestStop(w)
        PROVE  TypeOK' /\ EvidenceGrows
    <2>1. EvidenceGrows
      BY <1>6, StableStep DEF RequestStop
    <2>2. TypeOK'
      BY <1>6 DEF RequestStop, TypeOK, Coordinate, Offset
    <2> QED BY <2>1, <2>2
  <1>7. ASSUME NEW w \in Worker, Start(w)
        PROVE  TypeOK' /\ EvidenceGrows
    <2>1. EvidenceGrows
      BY <1>7, StableStep DEF Start
    <2>2. TypeOK'
      BY <1>7 DEF Start, TypeOK, Coordinate, Offset
    <2> QED BY <2>1, <2>2
  <1>8. ASSUME NEW w \in Worker, Crash(w)
        PROVE  TypeOK' /\ EvidenceGrows
    <2>1. EvidenceGrows
      BY <1>8, StableStep DEF Crash
    <2>2. TypeOK'
      BY <1>8, ForgetTypes DEF Crash, TypeOK, Coordinate, Offset
    <2> QED BY <2>1, <2>2
  <1>9. ASSUME NEW w \in Worker, Close(w)
        PROVE  TypeOK' /\ EvidenceGrows
    <2>1. EvidenceGrows
      BY <1>9, StableStep DEF Close
    <2>2. TypeOK'
      BY <1>9, ForgetTypes DEF Close, TypeOK, Coordinate, Offset
    <2> QED BY <2>1, <2>2
  <1>10. ASSUME NEW w \in Worker, LoopExit(w)
        PROVE  TypeOK' /\ EvidenceGrows
    <2>1. EvidenceGrows
      BY <1>10, StableStep DEF LoopExit
    <2>2. TypeOK'
      BY <1>10 DEF LoopExit, TypeOK, Coordinate, Offset
    <2> QED BY <2>1, <2>2
  <1>11. ASSUME NEW w \in Worker, Rejoin(w)
        PROVE  TypeOK' /\ EvidenceGrows
    <2>1. EvidenceGrows
      BY <1>11, StableStep DEF Rejoin
    <2>2. TypeOK'
      BY <1>11 DEF Rejoin, TypeOK, Coordinate, Offset
    <2> QED BY <2>1, <2>2
  <1>12. ASSUME NEW w \in Worker, Resolve(w)
        PROVE  TypeOK' /\ EvidenceGrows
    BY <1>12, StableStep, BatchTypes DEF Resolve, WorkerInv, TypeOK, Coordinate, Offset
  <1>13. ASSUME NEW w \in Worker, WriteFault(w)
        PROVE  TypeOK' /\ EvidenceGrows
    <2>1. EvidenceGrows
      BY <1>13, StableStep DEF WriteFault
    <2>2. TypeOK'
      BY <1>13, RetryTypes DEF WriteFault, TypeOK, Coordinate, Offset
    <2> QED BY <2>1, <2>2
  <1>14. ASSUME NEW w \in Worker, WriteFatal(w)
        PROVE  TypeOK' /\ EvidenceGrows
    <2>1. EvidenceGrows
      BY <1>14, StableStep DEF WriteFatal
    <2>2. TypeOK'
      BY <1>14 DEF WriteFatal, EndBatch, TypeOK, Coordinate, Offset
    <2> QED BY <2>1, <2>2
  <1>15. ASSUME NEW w \in Worker, CommitOffsets(w)
        PROVE  TypeOK' /\ EvidenceGrows
    <2>1. EvidenceGrows
      BY <1>15, StableStep DEF CommitOffsets
    <2>2. TypeOK'
      <3>1. committed' \in [Partition -> Nat]
        BY <1>15 DEF CommitOffsets, Advance, TypeOK
      <3>2. /\ pc' \in [Worker -> {"down", "poll", "write", "bound", "commit", "closing"}]
            /\ failures' \in [Worker -> 0 .. MaxCommitFailures]
            /\ \A v \in Worker : pc'[v] # "closing" => failures'[v] < MaxCommitFailures
        BY <1>15, ConstantsAssumption DEF CommitOffsets, TypeOK
      <3> QED BY <1>15, <3>1, <3>2 DEF CommitOffsets, TypeOK, Coordinate, Offset
    <2> QED BY <2>1, <2>2
  <1>16. ASSUME NEW w \in Worker, CommitRejected(w)
        PROVE  TypeOK' /\ EvidenceGrows
    <2>1. EvidenceGrows
      BY <1>16, StableStep DEF CommitRejected
    <2>2. TypeOK'
      BY <1>16, CountFailureTypes DEF CommitRejected, TypeOK, Coordinate, Offset
    <2> QED BY <2>1, <2>2
  <1>17. ASSUME NEW w \in Worker, CommitError(w)
        PROVE  TypeOK' /\ EvidenceGrows
    <2>1. EvidenceGrows
      BY <1>17, StableStep DEF CommitError
    <2>2. TypeOK'
      <3>1. committed' \in [Partition -> Nat]
        <4>1. CASE UNCHANGED committed
          BY <4>1 DEF TypeOK
        <4>2. CASE Advance(w)
          BY <4>2 DEF Advance, TypeOK
        <4> QED BY <1>17, <4>1, <4>2 DEF CommitError
      <3>2. /\ pc' \in [Worker -> {"down", "poll", "write", "bound", "commit", "closing"}]
            /\ failures' \in [Worker -> 0 .. MaxCommitFailures]
            /\ \A v \in Worker : pc'[v] # "closing" => failures'[v] < MaxCommitFailures
        BY <1>17, CountFailureTypes DEF CommitError
      <3> QED BY <1>17, <3>1, <3>2 DEF CommitError, TypeOK, Coordinate, Offset
    <2> QED BY <2>1, <2>2
  <1>18. ASSUME NEW w \in Worker, WriteBatch(w)
        PROVE  TypeOK' /\ EvidenceGrows
    <2>1. /\ EvidenceGrows
          /\ rows' \in [Key -> Message \cup {NoRow}]
          /\ deadLetters' \subseteq Coordinate
      BY <1>18, TransactStep DEF WriteBatch
    <2> QED BY <1>18, <2>1 DEF WriteBatch, EndBatch, TypeOK, Coordinate, Offset
  <1>19. ASSUME NEW w \in Worker, WriteUnacknowledged(w)
        PROVE  TypeOK' /\ EvidenceGrows
    <2>1. /\ EvidenceGrows
          /\ rows' \in [Key -> Message \cup {NoRow}]
          /\ deadLetters' \subseteq Coordinate
      BY <1>19, TransactStep DEF WriteUnacknowledged
    <2> QED BY <1>19, <2>1, RetryTypes DEF WriteUnacknowledged, TypeOK, Coordinate, Offset
  <1> QED
    BY <1>1, <1>2, <1>3, <1>4, <1>5, <1>6, <1>7, <1>8, <1>9, <1>10, <1>11, <1>12, <1>13, <1>14, <1>15, <1>16, <1>17, <1>18, <1>19 DEF Next, Progress, Evict, Fault

-----------------------------------------------------------------------------
(* The invariant, conjunct by conjunct.                                     *)

\* A worker whose client and batch a step leaves alone keeps its invariant, as
\* long as the step does not take its partitions or commit past its position
\* while its generation lasts.
LEMMA BystanderInv ==
  ASSUME TypeOK, TypeOK', EvidenceGrows, NEW w \in Worker, WorkerInv(w),
         premature \subseteq premature',
         pc'[w] = pc[w] \/ (pc[w] # "write" /\ pc[w] # "bound"
                            /\ pc'[w] # "write" /\ pc'[w] # "bound" /\ pc[w] # "closing"),
         batch'[w] = batch[w], position'[w] = position[w],
         assigned'[w] = assigned[w], resolved'[w] = resolved[w],
         \A p \in assigned[w] :
            current'[w] => current[w] /\ owner'[p] = w /\ position[w][p] >= committed'[p]
  PROVE  WorkerInv(w)'
  <1>1. \A c \in Produced : c \in Produced' /\ Record(c)' = Record(c) /\ (Settled(c) => Settled(c)')
    BY SettledStable
  <1>2. \A c \in batch[w] : c \in Produced' /\ Record(c)' = Record(c)
    BY <1>1 DEF WorkerInv
  <1>3. (pc[w] \notin {"write", "bound"} => batch[w] = {})'
    BY DEF WorkerInv
  <1>4. (batch[w] \subseteq Produced)'
    BY <1>2
  <1>5. (\A p \in Partition : position[w][p] <= Len(log[p]))'
    BY DEF WorkerInv, EvidenceGrows, TypeOK
  <1>6. (\A p \in assigned[w] : current[w] => owner[p] = w /\ position[w][p] >= committed[p])'
    OBVIOUS
  <1>7. (\A c \in Coordinate :
            pc[w] # "closing" /\ c[1] \in assigned[w] /\ c[2] < position[w][c[1]]
              => Settled(c) \/ c \in batch[w])'
    <2> SUFFICES ASSUME NEW c \in Coordinate, pc'[w] # "closing",
                        c[1] \in assigned[w], c[2] < position[w][c[1]]
                 PROVE  Settled(c)' \/ c \in batch[w]
      BY DEF Coordinate, Offset
    <2>1. c[1] \in Partition /\ c[2] \in Nat
      BY DEF Coordinate, Offset
    <2>2. c \in Produced
      <3>1. position[w][c[1]] \in Nat /\ Len(log[c[1]]) \in Nat
        BY <2>1 DEF TypeOK
      <3>2. position[w][c[1]] <= Len(log[c[1]])
        BY <2>1 DEF WorkerInv
      <3> QED BY <2>1, <3>1, <3>2 DEF Produced
    <2>3. Settled(c) \/ c \in batch[w]
      BY DEF WorkerInv
    <2> QED BY <2>2, <2>3, <1>1
  <1>8. (\A c \in batch[w] :
            pc[w] = "bound" /\ Record(c) \in Decodable /\ PackageOf[Record(c)] \notin resolved[w]
              => c \in premature)'
    BY <1>2 DEF WorkerInv
  <1> QED BY <1>3, <1>4, <1>5, <1>6, <1>7, <1>8 DEF WorkerInv

LEMMA WorkerInit == Init => \A w \in Worker : WorkerInv(w)
  BY SMT DEF Init, WorkerInv, Produced, Coordinate, Offset

\* The steps that leave every client and batch alone.
LEMMA EnvironmentWorkerInv ==
  ASSUME TypeOK, TypeOK', EvidenceGrows, NEW w \in Worker, WorkerInv(w),
         \/ UNCHANGED vars
         \/ \E p \in Partition, m \in Message : Produce(p, m)
         \/ \E a \in Package : Register(a)
         \/ \E g \in [Partition -> Live] : Rebalance(g)
         \/ \E v \in Worker : RequestStop(v) \/ Start(v) \/ LoopExit(v)
  PROVE  WorkerInv(w)'
  <1> USE DEF vars, broker, database, client, batchVars
  <1>1. CASE UNCHANGED vars
    BY <1>1, BystanderInv DEF WorkerInv
  <1>2. ASSUME NEW p \in Partition, NEW m \in Message, Produce(p, m) PROVE WorkerInv(w)'
    BY <1>2, BystanderInv DEF WorkerInv, Produce
  <1>3. ASSUME NEW a \in Package, Register(a) PROVE WorkerInv(w)'
    BY <1>3, BystanderInv DEF WorkerInv, Register
  <1>4. ASSUME NEW g \in [Partition -> Live], Rebalance(g) PROVE WorkerInv(w)'
    BY <1>4, BystanderInv DEF WorkerInv, Rebalance
  <1>5. ASSUME NEW v \in Worker, RequestStop(v) PROVE WorkerInv(w)'
    BY <1>5, BystanderInv DEF WorkerInv, RequestStop
  <1>6. ASSUME NEW v \in Worker, Start(v) PROVE WorkerInv(w)'
    <2>1. /\ UNCHANGED <<broker, database, premature, client, batchVars>>
          /\ w # v => pc'[w] = pc[w]
          /\ pc[v] \in {"down", "poll"} /\ pc'[v] \in {"poll", "closing"}
      BY <1>6 DEF Start, TypeOK
    <2> QED BY <2>1, BystanderInv DEF WorkerInv
  <1>7. ASSUME NEW v \in Worker, LoopExit(v) PROVE WorkerInv(w)'
    <2>1. /\ UNCHANGED <<broker, database, premature, client, batchVars>>
          /\ w # v => pc'[w] = pc[w]
          /\ pc[v] \in {"down", "poll"} /\ pc'[v] \in {"poll", "closing"}
      BY <1>7 DEF LoopExit, TypeOK
    <2> QED BY <2>1, BystanderInv DEF WorkerInv
  <1> QED BY <1>1, <1>2, <1>3, <1>4, <1>5, <1>6, <1>7

\* The offset commits: a commit moves only offsets its worker owns.
LEMMA CommitWorkerInv ==
  ASSUME TypeOK, TypeOK', EvidenceGrows, \A u \in Worker : WorkerInv(u),
         NEW v \in Worker, CommitOffsets(v) \/ CommitRejected(v) \/ CommitError(v),
         NEW w \in Worker
  PROVE  WorkerInv(w)'
  <1> USE DEF broker, database, client, batchVars
  <1>1. /\ UNCHANGED <<log, owner, premature, client, batchVars>>
        /\ pc[v] = "commit" /\ pc'[v] \in {"poll", "closing"}
        /\ w # v => pc'[w] = pc[w]
    BY DEF CommitOffsets, CommitRejected, CommitError, CountFailure, TypeOK
  <1>2. UNCHANGED committed \/ (current[v] /\ Advance(v))
    BY DEF CommitOffsets, CommitRejected, CommitError
  <1>3. ASSUME NEW p \in assigned[w], current[w]
        PROVE  owner[p] = w /\ position[w][p] >= committed'[p]
    <2>1. p \in Partition /\ owner[p] = w /\ position[w][p] >= committed[p]
      BY <1>3 DEF WorkerInv, TypeOK
    <2>2. current[v] /\ p \in assigned[v] => v = w
      BY <2>1 DEF WorkerInv
    <2>3. position[w][p] \in Nat
      BY <2>1 DEF TypeOK
    <2> QED BY <1>2, <2>1, <2>2, <2>3 DEF Advance
  <1> QED BY <1>1, <1>3, BystanderInv DEF WorkerInv

\* The steps that end a process, and the ones in the middle of a batch, seen
\* by another worker.
LEMMA OtherWorkerInv ==
  ASSUME TypeOK, TypeOK', EvidenceGrows, NEW v \in Worker, NEW w \in Worker, w # v,
         WorkerInv(w),
         \/ Crash(v) \/ Close(v) \/ Rejoin(v) \/ Resolve(v)
         \/ WriteBatch(v) \/ WriteUnacknowledged(v) \/ WriteFault(v) \/ WriteFatal(v)
         \/ \E next \in [Partition -> 0 .. MaxLog] : Poll(v, next)
  PROVE  WorkerInv(w)'
  <1> USE DEF broker, database, client, batchVars
  <1>1. /\ UNCHANGED <<premature, committed>>
        /\ pc'[w] = pc[w] /\ batch'[w] = batch[w] /\ position'[w] = position[w]
        /\ assigned'[w] = assigned[w] /\ resolved'[w] = resolved[w] /\ current'[w] = current[w]
    <2>0. /\ pc = [u \in Worker |-> pc[u]] /\ batch = [u \in Worker |-> batch[u]]
          /\ position = [u \in Worker |-> position[u]]
          /\ assigned = [u \in Worker |-> assigned[u]]
          /\ resolved = [u \in Worker |-> resolved[u]]
          /\ current = [u \in Worker |-> current[u]]
      BY DEF TypeOK
    <2>1. CASE Crash(v) \/ Close(v)
      <3>1. Forget(v) /\ UNCHANGED <<premature, committed>>
        BY <2>1 DEF Crash, Close
      <3> QED BY <2>0, <3>1 DEF Forget, EndBatch
    <2>2. CASE Rejoin(v) \/ Resolve(v) \/ \E next \in [Partition -> 0 .. MaxLog] : Poll(v, next)
      BY <2>0, <2>2 DEF Rejoin, Resolve, Poll
    <2>3. CASE WriteUnacknowledged(v) \/ WriteFault(v)
      <3>1. Retry(v) /\ UNCHANGED <<premature, committed, client>>
        BY <2>3 DEF WriteUnacknowledged, WriteFault
      <3> QED BY <2>0, <3>1 DEF Retry, EndBatch
    <2>4. CASE WriteBatch(v) \/ WriteFatal(v)
      BY <2>0, <2>4 DEF WriteBatch, WriteFatal, EndBatch
    <2> QED BY <2>1, <2>2, <2>3, <2>4
  <1>2. \A p \in Partition : owner[p] = w => owner'[p] = w
    <2>1. CASE Close(v)
      BY <2>1 DEF Close
    <2>2. CASE UNCHANGED owner
      BY <2>2
    <2>3. Close(v) \/ UNCHANGED owner
      BY DEF Crash, Rejoin, Resolve, WriteBatch, WriteUnacknowledged, WriteFault, WriteFatal, Poll
    <2> QED BY <2>1, <2>2, <2>3
  <1>3. \A p \in assigned[w] : p \in Partition
    BY DEF TypeOK
  <1> QED BY <1>1, <1>2, <1>3, BystanderInv DEF WorkerInv

\* A process that ended remembers nothing.
LEMMA ForgetWorkerInv ==
  ASSUME TypeOK, TypeOK', NEW w \in Worker, Forget(w)
  PROVE  WorkerInv(w)'
  <1>1. /\ pc'[w] = "down" /\ batch'[w] = {} /\ assigned'[w] = {}
        /\ position'[w] = [p \in Partition |-> 0]
    BY DEF Forget, EndBatch, TypeOK
  <1>2. \A p \in Partition : Len(log'[p]) >= 0
    BY DEF TypeOK
  <1> QED BY <1>1, <1>2 DEF WorkerInv

\* A worker on its way out has no batch, and its position no longer counts.
LEMMA ClosingWorkerInv ==
  ASSUME TypeOK, TypeOK', EvidenceGrows, NEW w \in Worker, WorkerInv(w),
         pc'[w] = "closing", batch'[w] = {},
         UNCHANGED <<broker, client>>
  PROVE  WorkerInv(w)'
  BY DEF WorkerInv, broker, client

\* A rejoined client starts at the committed offset, below which all is settled.
LEMMA RejoinWorkerInv ==
  ASSUME TypeOK, TypeOK', EvidenceGrows, NEW w \in Worker, WorkerInv(w), NothingLost,
         \A p \in Partition : committed[p] <= Len(log[p]),
         Rejoin(w)
  PROVE  WorkerInv(w)'
  <1> USE DEF broker, database, client, batchVars
  <1>1. /\ pc'[w] = "poll" /\ batch'[w] = {}
        /\ assigned'[w] = {p \in Partition : owner[p] = w}
        /\ \A p \in Partition : position'[w][p] = IF owner[p] = w THEN committed[p] ELSE 0
        /\ UNCHANGED <<log, committed, owner, deadLetters, rows, premature, batch>>
    BY DEF Rejoin, WorkerInv, TypeOK
  <1>2. (\A p \in Partition : position[w][p] <= Len(log[p]))'
    <2>1. \A p \in Partition : Len(log[p]) >= 0 /\ Len(log'[p]) = Len(log[p])
      BY <1>1 DEF TypeOK
    <2> QED BY <1>1, <2>1
  <1>3. (\A p \in assigned[w] : current[w] => owner[p] = w /\ position[w][p] >= committed[p])'
    BY <1>1 DEF TypeOK
  <1>4. (\A c \in Coordinate :
            pc[w] # "closing" /\ c[1] \in assigned[w] /\ c[2] < position[w][c[1]]
              => Settled(c) \/ c \in batch[w])'
    <2> SUFFICES ASSUME NEW c \in Coordinate, c[1] \in assigned'[w], c[2] < position'[w][c[1]]
                 PROVE  Settled(c)'
      BY DEF Coordinate, Offset
    <2>1. c[1] \in Partition /\ owner[c[1]] = w
      BY <1>1
    <2>2. c[2] < committed[c[1]]
      BY <1>1, <2>1
    <2>3. c \in Produced /\ Settled(c)
      BY <2>2 DEF NothingLost
    <2> QED BY <2>3, SettledStable
  <1> QED BY <1>1, <1>2, <1>3, <1>4 DEF WorkerInv

\* Polling adds to the batch exactly what the position moves over.
LEMMA PollWorkerInv ==
  ASSUME TypeOK, TypeOK', NEW w \in Worker, WorkerInv(w),
         NEW next \in [Partition -> 0 .. MaxLog], Poll(w, next)
  PROVE  WorkerInv(w)'
  <1> USE DEF broker, database, client, batchVars
  <1>1. /\ pc[w] = "poll" /\ pc'[w] = "write"
        /\ batch'[w] = Between(position[w], next) /\ position'[w] = next
        /\ UNCHANGED <<log, committed, owner, deadLetters, rows, premature, current, assigned>>
        /\ \A p \in Partition :
              /\ position[w][p] <= next[p]
              /\ next[p] # position[w][p] => p \in assigned[w] /\ next[p] <= Len(log[p])
    BY DEF Poll, TypeOK
  <1>2. \A p \in Partition : next[p] <= Len(log[p])
    BY <1>1 DEF WorkerInv
  <1>3. \A p \in Partition : next[p] \in Nat /\ position[w][p] \in Nat /\ Len(log[p]) \in Nat
    BY DEF TypeOK
  <1>4. (batch[w] \subseteq Produced)'
    <2> SUFFICES ASSUME NEW c \in Between(position[w], next)
                 PROVE  c \in Coordinate /\ c[2] < Len(log[c[1]])
      BY <1>1 DEF Produced, Coordinate, Offset
    <2>1. c \in Coordinate /\ c[1] \in Partition /\ c[2] \in Nat /\ c[2] < next[c[1]]
      BY DEF Between, Coordinate, Offset
    <2> QED BY <2>1, <1>2, <1>3
  <1>5. (\A p \in assigned[w] : current[w] => owner[p] = w /\ position[w][p] >= committed[p])'
    <2> SUFFICES ASSUME NEW p \in assigned[w], current[w]
                 PROVE  owner[p] = w /\ next[p] >= committed[p]
      BY <1>1
    <2>1. p \in Partition /\ owner[p] = w /\ position[w][p] >= committed[p]
      BY DEF WorkerInv, TypeOK
    <2>2. committed[p] \in Nat
      BY <2>1 DEF TypeOK
    <2> QED BY <1>1, <1>3, <2>1, <2>2
  <1>6. (\A c \in Coordinate :
            pc[w] # "closing" /\ c[1] \in assigned[w] /\ c[2] < position[w][c[1]]
              => Settled(c) \/ c \in batch[w])'
    <2> SUFFICES ASSUME NEW c \in Coordinate, c[1] \in assigned[w], c[2] < next[c[1]]
                 PROVE  Settled(c)' \/ c \in Between(position[w], next)
      BY <1>1 DEF Coordinate, Offset
    <2>1. c[1] \in Partition /\ c[2] \in Nat
      BY DEF Coordinate, Offset
    <2>2. CASE position[w][c[1]] <= c[2]
      BY <2>2 DEF Between
    <2>3. CASE c[2] < position[w][c[1]]
      <3>1. Settled(c)
        BY <1>1, <2>3 DEF WorkerInv
      <3> QED BY <1>1, <3>1 DEF Settled, Stored, Record
    <2> QED BY <1>3, <2>1, <2>2, <2>3
  <1> QED BY <1>1, <1>2, <1>4, <1>5, <1>6 DEF WorkerInv

\* What the resolver does not find was not registered when it was produced.
LEMMA ResolveWorkerInv ==
  ASSUME TypeOK, TypeOK', NEW w \in Worker, WorkerInv(w), RegistryInv, Resolve(w)
  PROVE  WorkerInv(w)'
  <1> USE DEF broker, database, client, batchVars
  <1>1. /\ pc[w] = "write" /\ pc'[w] = "bound"
        /\ resolved'[w] = PackagesOf(w) \cap registered
        /\ UNCHANGED <<log, committed, owner, deadLetters, rows, premature, client, batch>>
    BY DEF Resolve, TypeOK
  <1>2. ASSUME NEW c \in batch[w], Record(c) \in Decodable,
               PackageOf[Record(c)] \notin resolved'[w]
        PROVE  c \in premature
    <2>1. PackageOf[Record(c)] \in PackagesOf(w)
      BY <1>2 DEF PackagesOf, Decoded
    <2>2. PackageOf[Record(c)] \notin registered
      BY <1>1, <1>2, <2>1
    <2> QED BY <1>2, <2>2 DEF RegistryInv, WorkerInv
  <1>3. \A c \in Coordinate : Settled(c)' = Settled(c) /\ Record(c)' = Record(c)
    BY <1>1 DEF Settled, Stored, Record
  <1> QED BY <1>1, <1>2, <1>3 DEF WorkerInv, Produced, Coordinate, Offset

-----------------------------------------------------------------------------
(* Writing a batch settles it.                                              *)

\* A function into the naturals takes a greatest value on a finite set: no
\* chain of elements with ever greater values.
LEMMA MaximalExists ==
  ASSUME NEW S, IsFiniteSet(S), S # {}, NEW f \in [S -> Nat]
  PROVE  \E m \in S : \A n \in S : f[n] <= f[m]
  <1> DEFINE Above(m) == {n \in S : f[n] > f[m]}
             Family == {Above(m) : m \in S}
  <1>1. Family \subseteq SUBSET S
    <2> HIDE DEF Above
    <2>1. \A m \in S : Above(m) \subseteq S
      BY DEF Above
    <2> QED BY <2>1
  <1>2. Family # {}
    <2> HIDE DEF Above
    <2> QED OBVIOUS
  <1>3. Family \in SUBSET FiniteSubsetsOf(S)
    BY <1>1, FS_Subset DEF FiniteSubsetsOf
  <1>4. PICK X \in Family : \A Y \in Family : <<Y, X>> \notin StrictSubsetOrdering(S)
    <2> HIDE DEF Family
    <2> QED BY <1>2, <1>3, FS_StrictSubsetOrderingWellFounded, WFMin
  <1>5. PICK m \in S : X = Above(m)
    OBVIOUS
  <1>6. ASSUME NEW n \in S, f[n] > f[m]
        PROVE  FALSE
    <2>1. Above(n) \subseteq Above(m) /\ n \in Above(m) /\ n \notin Above(n)
      BY <1>6
    <2>2. <<Above(n), Above(m)>> \in StrictSubsetOrdering(S)
      BY <2>1, <1>1 DEF StrictSubsetOrdering
    <2> QED BY <2>2, <1>4, <1>5
  <1> QED BY <1>6

LEMMA CoordinatesFinite == IsFiniteSet(Coordinate)
  <1>1. IsFiniteSet(Offset)
    BY FS_Interval DEF Offset
  <1> QED BY <1>1, FS_Product DEF Coordinate

\* dedupe_by_key keeps, of each key it is given, a record as new as any.
LEMMA DedupeKeepsNewest ==
  ASSUME TypeOK, NEW w \in Worker, batch[w] \subseteq Produced, NEW c \in Bound(w)
  PROVE  \E m \in Rows(w) : /\ KeyOf[m] = KeyOf[Record(c)]
                            /\ ObservedAt[m] >= ObservedAt[Record(c)]
  <1> DEFINE Rivals == {d \in Bound(w) : KeyOf[Record(d)] = KeyOf[Record(c)]}
             age == [d \in Rivals |-> ObservedAt[Record(d)]]
  <1>1. \A d \in Bound(w) : d \in Coordinate /\ Record(d) \in Message
    BY RecordType DEF Bound, Decoded
  <1>2. IsFiniteSet(Rivals)
    BY <1>1, CoordinatesFinite, FS_Subset
  <1>3. age \in [Rivals -> Nat] /\ c \in Rivals
    BY <1>1
  <1>4. PICK d \in Rivals : \A e \in Rivals : age[e] <= age[d]
    <2> HIDE DEF Rivals, age
    <2> QED BY <1>2, <1>3, MaximalExists
  <1>5. \A e \in Rivals : ObservedAt[Record(e)] <= ObservedAt[Record(d)]
    BY <1>4
  <1>6. Record(d) \in Rows(w)
    BY <1>4, <1>5 DEF Rows, Dedupe
  <1>7. ObservedAt[Record(d)] \in Nat /\ ObservedAt[Record(c)] \in Nat
    BY <1>1
  <1> QED BY <1>3, <1>4, <1>5, <1>6, <1>7

\* The upsert leaves in the table a row at least as new as each of its own.
LEMMA UpsertStores ==
  ASSUME TypeOK, NEW S \in SUBSET Message, NEW m \in S,
         \A n, o \in S : KeyOf[n] = KeyOf[o] => ObservedAt[n] = ObservedAt[o]
  PROVE  /\ Upsert(S)[KeyOf[m]] # NoRow
         /\ ObservedAt[Upsert(S)[KeyOf[m]]] >= ObservedAt[m]
  <1>1. KeyOf[m] \in Key /\ ObservedAt[m] \in Nat
    OBVIOUS
  <1>2. CASE \E n \in S : KeyOf[n] = KeyOf[m] /\ Supersedes(n, rows[KeyOf[m]])
    <2> DEFINE new == CHOOSE n \in S : KeyOf[n] = KeyOf[m] /\ Supersedes(n, rows[KeyOf[m]])
    <2>1. new \in S /\ KeyOf[new] = KeyOf[m]
      BY <1>2
    <2>2. Upsert(S)[KeyOf[m]] = new
      BY <1>1, <1>2 DEF Upsert
    <2> HIDE DEF new
    <2>3. ObservedAt[new] = ObservedAt[m]
      BY <2>1
    <2> QED BY <1>1, <2>1, <2>2, <2>3
  <1>3. CASE ~ \E n \in S : KeyOf[n] = KeyOf[m] /\ Supersedes(n, rows[KeyOf[m]])
    <2>1. Upsert(S)[KeyOf[m]] = rows[KeyOf[m]]
      BY <1>1, <1>3 DEF Upsert
    <2>2. ~ Supersedes(m, rows[KeyOf[m]])
      BY <1>3
    <2> QED BY <1>1, <2>1, <2>2 DEF Supersedes, TypeOK
  <1> QED BY <1>2, <1>3

LEMMA TransactSettles ==
  ASSUME TypeOK, NEW w \in Worker, WorkerInv(w), Transact(w), UNCHANGED log,
         NEW c \in batch[w]
  PROVE  Settled(c)'
  <1>1. c \in Produced /\ Record(c) \in Message /\ Record(c)' = Record(c)
    BY RecordType DEF WorkerInv, Record
  <1>2. CASE c \in Rejected(w)
    BY <1>2 DEF Transact, Settled
  <1>3. CASE c \notin Rejected(w)
    <2>1. c \in Bound(w) /\ Record(c) \in Decodable
      BY <1>3 DEF Rejected, Bound, Decoded
    <2>2. PICK m \in Rows(w) : KeyOf[m] = KeyOf[Record(c)] /\ ObservedAt[m] >= ObservedAt[Record(c)]
      BY <2>1, DedupeKeepsNewest DEF WorkerInv
    <2>3. Rows(w) \in SUBSET Message
      BY BatchTypes DEF WorkerInv
    <2>4. \A n, o \in Rows(w) : KeyOf[n] = KeyOf[o] => ObservedAt[n] = ObservedAt[o]
      BY <2>3 DEF Rows, Dedupe
    <2>5. /\ rows'[KeyOf[m]] # NoRow
          /\ ObservedAt[rows'[KeyOf[m]]] >= ObservedAt[m]
      BY <2>2, <2>3, <2>4, UpsertStores DEF Transact
    <2>6. rows'[KeyOf[m]] \in Message
      BY <2>2, <2>3, <2>5, TransactStep
    <2> QED BY <1>1, <2>1, <2>2, <2>3, <2>5, <2>6 DEF Settled, Stored
  <1> QED BY <1>2, <1>3

\* A batch that was written: all of it is settled, and so is all below the position.
LEMMA WriteWorkerInv ==
  ASSUME TypeOK, TypeOK', NEW w \in Worker, WorkerInv(w),
         WriteBatch(w) \/ WriteUnacknowledged(w)
  PROVE  WorkerInv(w)'
  <1> USE DEF broker, database, client, batchVars
  <1>1. /\ pc[w] = "bound" /\ Transact(w)
        /\ UNCHANGED <<log, committed, owner, premature, client>>
    BY DEF WriteBatch, WriteUnacknowledged
  <1>2. \/ pc'[w] \in {"commit", "closing"} /\ batch'[w] = {}
        \/ pc'[w] = "write" /\ batch'[w] = batch[w]
    BY DEF WriteBatch, WriteUnacknowledged, Retry, EndBatch, TypeOK
  <1>3. EvidenceGrows
    BY <1>1, TransactStep
  <1>4. (\A c \in Coordinate :
            pc[w] # "closing" /\ c[1] \in assigned[w] /\ c[2] < position[w][c[1]]
              => Settled(c) \/ c \in batch[w])'
    <2> SUFFICES ASSUME NEW c \in Coordinate, c[1] \in assigned[w], c[2] < position[w][c[1]]
                 PROVE  Settled(c)'
      BY <1>1 DEF Coordinate, Offset
    <2>1. c[1] \in Partition /\ c[2] \in Nat
      BY DEF Coordinate, Offset
    <2>2. c \in Produced
      <3>1. position[w][c[1]] \in Nat /\ Len(log[c[1]]) \in Nat
        BY <2>1 DEF TypeOK
      <3>2. position[w][c[1]] <= Len(log[c[1]])
        BY <2>1 DEF WorkerInv
      <3> QED BY <2>1, <3>1, <3>2 DEF Produced
    <2>3. CASE c \in batch[w]
      BY <1>1, <2>3, TransactSettles
    <2>4. CASE c \notin batch[w]
      BY <1>1, <1>3, <2>2, <2>4, SettledStable DEF WorkerInv
    <2> QED BY <2>3, <2>4
  <1>5. (batch[w] \subseteq Produced)'
    BY <1>1, <1>2 DEF WorkerInv, Produced, Coordinate, Offset
  <1> QED BY <1>1, <1>2, <1>4, <1>5 DEF WorkerInv

\* A batch that was not written: it is tried again, or given up with the process.
LEMMA FaultWorkerInv ==
  ASSUME TypeOK, TypeOK', EvidenceGrows, NEW w \in Worker, WorkerInv(w),
         WriteFault(w) \/ WriteFatal(w)
  PROVE  WorkerInv(w)'
  <1> USE DEF broker, database, client, batchVars
  <1>1. UNCHANGED <<broker, rows, deadLetters, premature, client>>
    BY DEF WriteFault, WriteFatal
  <1>2. \/ pc'[w] = "closing" /\ batch'[w] = {}
        \/ pc'[w] = "write" /\ batch'[w] = batch[w]
    BY DEF WriteFault, WriteFatal, Retry, EndBatch, TypeOK
  <1>3. CASE pc'[w] = "closing" /\ batch'[w] = {}
    BY <1>1, <1>3, ClosingWorkerInv
  <1>4. CASE pc'[w] = "write" /\ batch'[w] = batch[w]
    <2>1. pc[w] \in {"write", "bound"}
      BY <1>4 DEF WriteFault, WriteFatal, EndBatch, TypeOK
    <2>2. \A c \in Coordinate : Settled(c)' = Settled(c)
      BY <1>1 DEF Settled, Stored, Record
    <2> QED BY <1>1, <1>4, <2>1, <2>2 DEF WorkerInv, Produced, Coordinate, Offset
  <1> QED BY <1>2, <1>3, <1>4

LEMMA WorkerStep ==
  ASSUME IInv, [Next]_vars, NEW w \in Worker
  PROVE  WorkerInv(w)'
  <1>1. /\ TypeOK /\ TypeOK' /\ EvidenceGrows
        /\ \A u \in Worker : WorkerInv(u)
        /\ NothingLost /\ RegistryInv
        /\ \A p \in Partition : committed[p] <= Len(log[p])
    BY TypeStep DEF IInv
  <1>2. CASE \/ UNCHANGED vars
             \/ \E p \in Partition, m \in Message : Produce(p, m)
             \/ \E a \in Package : Register(a)
             \/ \E g \in [Partition -> Live] : Rebalance(g)
             \/ \E v \in Worker : RequestStop(v) \/ Start(v) \/ LoopExit(v)
    BY <1>1, <1>2, EnvironmentWorkerInv
  <1>3. CASE \E v \in Worker : CommitOffsets(v) \/ CommitRejected(v) \/ CommitError(v)
    BY <1>1, <1>3, CommitWorkerInv
  <1>4. ASSUME NEW v \in Worker,
               \/ Crash(v) \/ Close(v) \/ Rejoin(v) \/ Resolve(v)
               \/ WriteBatch(v) \/ WriteUnacknowledged(v) \/ WriteFault(v) \/ WriteFatal(v)
               \/ \E next \in [Partition -> 0 .. MaxLog] : Poll(v, next)
        PROVE  WorkerInv(w)'
    <2>1. CASE w # v
      BY <1>1, <1>4, <2>1, OtherWorkerInv
    <2>2. CASE w = v /\ (Crash(v) \/ Close(v))
      BY <1>1, <2>2, ForgetWorkerInv DEF Crash, Close
    <2>3. CASE w = v /\ Rejoin(v)
      BY <1>1, <2>3, RejoinWorkerInv
    <2>4. CASE w = v /\ Resolve(v)
      BY <1>1, <2>4, ResolveWorkerInv
    <2>5. CASE w = v /\ (WriteBatch(v) \/ WriteUnacknowledged(v))
      BY <1>1, <2>5, WriteWorkerInv
    <2>6. CASE w = v /\ (WriteFault(v) \/ WriteFatal(v))
      BY <1>1, <2>6, FaultWorkerInv
    <2>7. CASE w = v /\ \E next \in [Partition -> 0 .. MaxLog] : Poll(v, next)
      BY <1>1, <2>7, PollWorkerInv
    <2> QED BY <1>4, <2>1, <2>2, <2>3, <2>4, <2>5, <2>6, <2>7
  <1> QED BY <1>2, <1>3, <1>4 DEF Next, Progress, Evict, Fault

-----------------------------------------------------------------------------
(* The conjuncts about the broker and the database.                         *)

\* A step moves the committed offsets only by a commit of a current worker.
LEMMA CommittedStep ==
  ASSUME TypeOK, [Next]_vars
  PROVE  \/ UNCHANGED committed
         \/ /\ UNCHANGED <<log, rows, deadLetters>>
            /\ \E w \in Worker : pc[w] = "commit" /\ current[w] /\ Advance(w)
  <1> USE DEF vars, broker, database, client, batchVars
  <1>1. CASE \E w \in Worker : CommitOffsets(w) \/ CommitError(w)
    BY <1>1 DEF CommitOffsets, CommitError
  <1>2. CASE \/ UNCHANGED vars
             \/ \E p \in Partition, m \in Message : Produce(p, m)
             \/ \E a \in Package : Register(a)
             \/ \E g \in [Partition -> Live] : Rebalance(g)
    BY <1>2 DEF Produce, Register, Rebalance
  <1>3. CASE \E w \in Worker :
                \/ RequestStop(w) \/ Start(w) \/ LoopExit(w) \/ CommitRejected(w)
                \/ Crash(w) \/ Close(w) \/ Rejoin(w) \/ Resolve(w)
                \/ WriteBatch(w) \/ WriteUnacknowledged(w) \/ WriteFault(w) \/ WriteFatal(w)
                \/ \E next \in [Partition -> 0 .. MaxLog] : Poll(w, next)
    BY <1>3 DEF RequestStop, Start, LoopExit, CommitRejected, Crash, Close, Rejoin, Resolve,
                WriteBatch, WriteUnacknowledged, WriteFault, WriteFatal, Poll
  <1> QED BY <1>1, <1>2, <1>3 DEF Next, Progress, Evict, Fault

LEMMA CommitStep ==
  ASSUME IInv, NEW w \in Worker, pc[w] = "commit", current[w], Advance(w),
         NEW p \in Partition
  PROVE  /\ committed'[p] >= committed[p]
         /\ committed'[p] <= Len(log[p])
         /\ \A c \in Coordinate : c[1] = p /\ c[2] < committed'[p] => c \in Produced /\ Settled(c)
  <1> USE DEF IInv
  <1>1. WorkerInv(w) /\ batch[w] = {}
    BY DEF WorkerInv
  <1>2. CASE p \in assigned[w]
    <2>1. committed'[p] = position[w][p]
      BY <1>2 DEF Advance
    <2>2. position[w][p] >= committed[p] /\ position[w][p] <= Len(log[p])
      BY <1>1, <1>2 DEF WorkerInv
    <2>3. ASSUME NEW c \in Coordinate, c[1] = p, c[2] < position[w][p]
          PROVE  c \in Produced /\ Settled(c)
      <3>1. c[2] \in Nat /\ position[w][p] \in Nat /\ Len(log[p]) \in Nat
        BY DEF Coordinate, Offset, TypeOK
      <3>2. c \in Produced
        BY <2>2, <2>3, <3>1 DEF Produced
      <3>3. Settled(c)
        BY <1>1, <1>2, <2>3 DEF WorkerInv
      <3> QED BY <3>2, <3>3
    <2> QED BY <2>1, <2>2, <2>3
  <1>3. CASE p \notin assigned[w]
    <2>1. committed'[p] = committed[p] /\ committed[p] \in Nat
      BY <1>3 DEF Advance, TypeOK
    <2> QED BY <2>1 DEF NothingLost
  <1> QED BY <1>2, <1>3

LEMMA OffsetStep ==
  ASSUME IInv, [Next]_vars
  PROVE  (\A p \in Partition : committed[p] <= Len(log[p]))' /\ NothingLost'
  <1>1. TypeOK /\ TypeOK' /\ EvidenceGrows
    BY TypeStep DEF IInv
  <1>2. CASE UNCHANGED committed
    <2>1. ASSUME NEW p \in Partition
          PROVE  committed'[p] <= Len(log'[p])
      <3>1. committed[p] <= Len(log[p]) /\ Len(log[p]) <= Len(log'[p])
        BY <1>1 DEF IInv, EvidenceGrows
      <3>2. committed[p] \in Nat /\ Len(log[p]) \in Nat /\ Len(log'[p]) \in Nat
        BY <1>1 DEF TypeOK
      <3> QED BY <1>2, <3>1, <3>2
    <2>2. NothingLost'
      <3> SUFFICES ASSUME NEW c \in Coordinate, c[2] < committed[c[1]]
                   PROVE  (c \in Produced /\ Settled(c))'
        BY <1>2 DEF NothingLost, Coordinate, Offset
      <3>1. c \in Produced /\ Settled(c)
        BY DEF IInv, NothingLost
      <3> QED BY <1>1, <3>1, SettledStable
    <2> QED BY <2>1, <2>2
  <1>3. ASSUME UNCHANGED <<log, rows, deadLetters>>,
               NEW w \in Worker, pc[w] = "commit", current[w], Advance(w)
        PROVE  (\A p \in Partition : committed[p] <= Len(log[p]))' /\ NothingLost'
    <2>1. (\A p \in Partition : committed[p] <= Len(log[p]))'
      BY <1>3, CommitStep
    <2>2. NothingLost'
      <3> SUFFICES ASSUME NEW c \in Coordinate, c[2] < committed'[c[1]]
                   PROVE  (c \in Produced /\ Settled(c))'
        BY DEF NothingLost, Coordinate, Offset
      <3>1. c[1] \in Partition
        BY DEF Coordinate
      <3>2. c \in Produced /\ Settled(c)
        BY <1>3, <3>1, CommitStep
      <3> QED BY <1>1, <3>2, SettledStable
    <2> QED BY <2>1, <2>2
  <1> QED BY <1>1, <1>2, <1>3, CommittedStep

\* The registry only grows, and a record of an unknown package is remembered.
LEMMA RegistryStep ==
  ASSUME IInv, [Next]_vars
  PROVE  /\ premature \subseteq premature'
         /\ premature' \subseteq Produced'
         /\ (\A c \in Produced : Record(c) \in Decodable /\ PackageOf[Record(c)] \notin registered
                                   => c \in premature)'
  <1> USE DEF vars, broker, database, client, batchVars
  <1>1. TypeOK /\ TypeOK' /\ EvidenceGrows /\ RegistryInv
    BY TypeStep DEF IInv
  <1>2. ASSUME NEW p \in Partition, NEW m \in Message, Produce(p, m)
        PROVE  /\ premature \subseteq premature'
               /\ premature' \subseteq Produced'
               /\ (\A c \in Produced : /\ Record(c) \in Decodable
                                       /\ PackageOf[Record(c)] \notin registered
                                      => c \in premature)'
    <2>1. /\ registered' = registered
          /\ log' = [log EXCEPT ![p] = Append(@, m)]
          /\ premature' = premature \/ premature' = premature \cup {<<p, Len(log[p])>>}
          /\ m \in Decodable /\ PackageOf[m] \notin registered => <<p, Len(log[p])>> \in premature'
          /\ Len(log[p]) < MaxLog
      BY <1>2 DEF Produce
    <2>2. Len(log[p]) \in Nat /\ log[p] \in Seq(Message)
      BY <1>1 DEF TypeOK
    <2>3. log'[p] = Append(log[p], m) /\ \A q \in Partition : q # p => log'[q] = log[q]
      BY <1>1, <2>1 DEF TypeOK
    <2>4. <<p, Len(log[p])>> \in Produced'
      BY <2>1, <2>2, <2>3 DEF Produced, Coordinate, Offset
    <2>5. premature' \subseteq Produced'
      BY <1>1, <2>1, <2>4, SettledStable DEF RegistryInv
    <2>6. ASSUME NEW c \in Produced', c \notin Produced
          PROVE  c = <<p, Len(log[p])>> /\ Record(c)' = m
      <3>1. c \in Coordinate /\ c[1] \in Partition /\ c[2] \in Nat /\ c[2] < Len(log'[c[1]])
        BY DEF Produced, Coordinate, Offset
      <3>2. c[1] = p
        BY <2>3, <2>6, <3>1 DEF Produced
      <3>3. c[2] = Len(log[p])
        <4>1. ~ (c[2] < Len(log[p]))
          BY <2>6, <3>1, <3>2 DEF Produced
        <4>2. Len(log'[p]) = Len(log[p]) + 1
          BY <2>2, <2>3
        <4> QED BY <2>2, <3>1, <3>2, <4>1, <4>2
      <3>4. c = <<p, Len(log[p])>>
        BY <3>1, <3>2, <3>3 DEF Coordinate
      <3> QED BY <2>2, <2>3, <3>2, <3>3, <3>4 DEF Record
    <2>7. ASSUME NEW c \in Produced', Record(c)' \in Decodable,
                 PackageOf[Record(c)'] \notin registered
          PROVE  c \in premature'
      BY <1>1, <2>1, <2>6, <2>7, SettledStable DEF RegistryInv
    <2> QED BY <2>1, <2>5, <2>7
  <1>3. CASE UNCHANGED <<log, premature>> /\ registered \subseteq registered'
    BY <1>1, <1>3 DEF RegistryInv, Produced, Record, Coordinate, Offset
  <1>4. CASE \/ UNCHANGED vars
             \/ \E a \in Package : Register(a)
             \/ \E g \in [Partition -> Live] : Rebalance(g)
             \/ \E w \in Worker : \/ CommitOffsets(w) \/ CommitError(w) \/ CommitRejected(w)
                                  \/ RequestStop(w) \/ Start(w) \/ LoopExit(w)
    BY <1>3, <1>4 DEF Register, Rebalance, CommitOffsets, CommitError, CommitRejected,
                      RequestStop, Start, LoopExit
  <1>5. CASE \E w \in Worker :
                \/ Crash(w) \/ Close(w) \/ Rejoin(w) \/ Resolve(w)
                \/ WriteBatch(w) \/ WriteUnacknowledged(w) \/ WriteFault(w) \/ WriteFatal(w)
                \/ \E next \in [Partition -> 0 .. MaxLog] : Poll(w, next)
    BY <1>3, <1>5 DEF Crash, Close, Rejoin, Resolve, WriteBatch, WriteUnacknowledged,
                      WriteFault, WriteFatal, Poll
  <1> QED BY <1>2, <1>4, <1>5 DEF Next, Progress, Evict, Fault

\* Only a transaction adds dead letters, and those its batch rejected.
LEMMA DeadLetterStep ==
  ASSUME IInv, [Next]_vars
  PROVE  (deadLetters \subseteq Produced)' /\ OnlyUnknownDeadLettered'
  <1> USE DEF vars, broker, database, client, batchVars
  <1>1. /\ TypeOK /\ EvidenceGrows /\ RegistryInv /\ OnlyUnknownDeadLettered
        /\ \A w \in Worker : WorkerInv(w)
    BY TypeStep DEF IInv
  <1>2. premature \subseteq premature'
    BY RegistryStep
  <1>3. ASSUME NEW c \in deadLetters
        PROVE  c \in Produced' /\ (Record(c)' \in Decodable => c \in premature')
    BY <1>1, <1>2, <1>3, SettledStable DEF RegistryInv, OnlyUnknownDeadLettered
  <1>4. CASE UNCHANGED deadLetters
    BY <1>3, <1>4 DEF OnlyUnknownDeadLettered
  <1>5. ASSUME NEW w \in Worker, pc[w] = "bound", Transact(w), UNCHANGED log
        PROVE  (deadLetters \subseteq Produced)' /\ OnlyUnknownDeadLettered'
    <2>1. deadLetters' = deadLetters \cup Rejected(w)
      BY <1>5 DEF Transact
    <2>2. ASSUME NEW c \in Rejected(w)
          PROVE  c \in Produced' /\ (Record(c)' \in Decodable => c \in premature')
      <3>1. c \in batch[w] /\ c \in Produced
        BY <1>1 DEF Rejected, WorkerInv
      <3>2. c \in Produced' /\ Record(c)' = Record(c)
        BY <1>1, <3>1, SettledStable
      <3>3. Record(c) \in Decodable => PackageOf[Record(c)] \notin resolved[w]
        BY <3>1 DEF Rejected, Bound, Decoded
      <3> QED BY <1>1, <1>2, <1>5, <3>1, <3>2, <3>3 DEF WorkerInv
    <2> QED BY <1>3, <2>1, <2>2 DEF OnlyUnknownDeadLettered
  <1>6. CASE \E w \in Worker : WriteBatch(w) \/ WriteUnacknowledged(w)
    BY <1>5, <1>6 DEF WriteBatch, WriteUnacknowledged
  <1>7. CASE \/ UNCHANGED vars
             \/ \E p \in Partition, m \in Message : Produce(p, m)
             \/ \E a \in Package : Register(a)
             \/ \E g \in [Partition -> Live] : Rebalance(g)
    BY <1>4, <1>7 DEF Produce, Register, Rebalance
  <1>8. CASE \E w \in Worker :
                \/ RequestStop(w) \/ Start(w) \/ LoopExit(w)
                \/ CommitOffsets(w) \/ CommitRejected(w) \/ CommitError(w)
                \/ Crash(w) \/ Close(w) \/ Rejoin(w) \/ Resolve(w)
                \/ WriteFault(w) \/ WriteFatal(w)
                \/ \E next \in [Partition -> 0 .. MaxLog] : Poll(w, next)
    BY <1>4, <1>8 DEF RequestStop, Start, LoopExit, CommitOffsets, CommitRejected, CommitError,
                      Crash, Close, Rejoin, Resolve, WriteFault, WriteFatal, Poll
  <1> QED BY <1>6, <1>7, <1>8 DEF Next, Progress, Evict, Fault

-----------------------------------------------------------------------------
(* The theorems.                                                            *)

LEMMA InitIInv == Init => IInv
  <1> SUFFICES ASSUME Init PROVE IInv
    OBVIOUS
  <1>1. TypeOK
    BY TypeInit
  <1>2. \A w \in Worker : WorkerInv(w)
    BY WorkerInit
  <1>3. Produced = {} /\ deadLetters = {} /\ premature = {}
    BY DEF Init, Produced, Coordinate, Offset
  <1>4. \A p \in Partition : committed[p] = 0 /\ Len(log[p]) = 0
    BY DEF Init
  <1>5. NothingLost
    BY <1>4 DEF NothingLost, Coordinate, Offset
  <1> QED BY <1>1, <1>2, <1>3, <1>4, <1>5 DEF IInv, OnlyUnknownDeadLettered, RegistryInv

LEMMA StepIInv == IInv /\ [Next]_vars => IInv'
  <1> SUFFICES ASSUME IInv, [Next]_vars PROVE IInv'
    OBVIOUS
  <1>1. TypeOK'
    BY TypeStep DEF IInv
  <1>2. (\A p \in Partition : committed[p] <= Len(log[p]))' /\ NothingLost'
    BY OffsetStep
  <1>3. OnlyUnknownDeadLettered' /\ RegistryInv'
    BY DeadLetterStep, RegistryStep DEF RegistryInv
  <1>4. (\A w \in Worker : WorkerInv(w))'
    BY WorkerStep
  <1> QED BY <1>1, <1>2, <1>3, <1>4 DEF IInv

\* The strengthening IInv holds in every reachable state: it holds at first and
\* every action of the pipeline, crash, rebalance and retry keeps it.
THEOREM Invariance == Spec => []IInv
  BY InitIInv, StepIInv, PTL DEF Spec

\* Every variable of the pipeline keeps its type; the retry budget and the count
\* of failed commits stay within the limits Worker and with_retry are given.
THEOREM TypeCorrect == Spec => []TypeOK
  <1>1. IInv => TypeOK
    BY DEF IInv
  <1> QED BY <1>1, Invariance, PTL

\* No record below a committed offset is lost, for any number of replicas,
\* partitions and retries, whatever crashed or was rebalanced.
THEOREM NoRecordLost == Spec => []NothingLost
  <1>1. IInv => NothingLost
    BY DEF IInv
  <1> QED BY <1>1, Invariance, PTL

\* A decodable record is dead-lettered only if its application was registered
\* after it was produced, or never.
THEOREM DeadLettersJustified == Spec => []OnlyUnknownDeadLettered
  <1>1. IInv => OnlyUnknownDeadLettered
    BY DEF IInv
  <1> QED BY <1>1, Invariance, PTL

\* The upsert never replaces a row by an older version, in whatever order
\* replicas, retries and redeliveries bring the versions.
THEOREM RowsOnlyImprove == Spec => RowsNeverRegress
  <1>1. IInv /\ [Next]_vars =>
          [\A k \in Key : rows'[k] # rows[k] =>
             /\ rows'[k] \in Message
             /\ rows[k] = NoRow \/ ObservedAt[rows'[k]] > ObservedAt[rows[k]]]_vars
    BY TypeStep DEF IInv, EvidenceGrows
  <1> QED BY <1>1, Invariance, PTL DEF Spec, RowsNeverRegress

\* A committed offset never moves back, whichever replica commits.
THEOREM OffsetsOnlyAdvance == Spec => CommittedNeverRewinds
  <1>1. IInv /\ [Next]_vars => [\A p \in Partition : committed'[p] >= committed[p]]_vars
    <2> SUFFICES ASSUME IInv, [Next]_vars, NEW p \in Partition
                 PROVE  committed'[p] >= committed[p]
      OBVIOUS
    <2>1. CASE UNCHANGED committed
      BY <2>1 DEF IInv, TypeOK
    <2>2. CASE \E w \in Worker : pc[w] = "commit" /\ current[w] /\ Advance(w)
      BY <2>2, CommitStep
    <2> QED BY <2>1, <2>2, CommittedStep DEF IInv
  <1> QED BY <1>1, Invariance, PTL DEF Spec, CommittedNeverRewinds

-----------------------------------------------------------------------------
(* The pipeline implements Ingestion.                                       *)

SettledRecords == {c \in Produced : Settled(c)}

LEMMA ProducedIsAbstract == TypeOK => Produced = Promise!Produced(log)
  <1> SUFFICES ASSUME TypeOK PROVE Produced = Promise!Produced(log)
    OBVIOUS
  <1>1. ASSUME NEW c \in Produced
        PROVE  c \in Promise!Produced(log)
    <2>1. c[1] \in Partition /\ c[2] \in 0 .. Len(log[c[1]]) - 1 /\ c = <<c[1], c[2]>>
      BY DEF TypeOK, Produced, Coordinate, Offset
    <2> QED BY <2>1 DEF Promise!Produced
  <1>2. ASSUME NEW p \in Partition, NEW o \in 0 .. Len(log[p]) - 1
        PROVE  <<p, o>> \in Produced
    BY DEF TypeOK, Produced, Coordinate, Offset
  <1>3. Promise!Produced(log) \subseteq Produced
    BY <1>2 DEF Promise!Produced
  <1> QED BY <1>1, <1>3

LEMMA LogStep ==
  ASSUME [Next]_vars
  PROVE  \/ UNCHANGED log
         \/ \E p \in Partition, m \in Message : Produce(p, m)
  <1> USE DEF vars, broker, database, client, batchVars
  <1>1. CASE \/ UNCHANGED vars
             \/ \E a \in Package : Register(a)
             \/ \E g \in [Partition -> Live] : Rebalance(g)
    BY <1>1 DEF Register, Rebalance
  <1>2. CASE \E w \in Worker :
                \/ RequestStop(w) \/ Start(w) \/ LoopExit(w)
                \/ CommitOffsets(w) \/ CommitRejected(w) \/ CommitError(w)
                \/ Crash(w) \/ Close(w) \/ Rejoin(w) \/ Resolve(w)
                \/ WriteBatch(w) \/ WriteUnacknowledged(w) \/ WriteFault(w) \/ WriteFatal(w)
                \/ \E next \in [Partition -> 0 .. MaxLog] : Poll(w, next)
    BY <1>2 DEF RequestStop, Start, LoopExit, CommitOffsets, CommitRejected, CommitError,
                Crash, Close, Rejoin, Resolve, WriteBatch, WriteUnacknowledged,
                WriteFault, WriteFatal, Poll
  <1> QED BY <1>1, <1>2 DEF Next, Progress, Evict, Fault

\* A commit of a current worker is an Advance of the promise.
LEMMA CommitRefines ==
  ASSUME IInv, UNCHANGED <<log, rows, deadLetters>>,
         NEW w \in Worker, pc[w] = "commit", current[w], Advance(w)
  PROVE  Promise!Advance
  <1>1. committed' \in [Partition -> Nat]
    BY DEF IInv, TypeOK, Advance
  <1>2. ASSUME NEW p \in Partition
        PROVE  committed'[p] >= committed[p]
    BY CommitStep
  <1>3. ASSUME NEW p \in Partition, NEW o \in 0 .. committed'[p] - 1
        PROVE  <<p, o>> \in SettledRecords
    <2>1. committed'[p] <= Len(log[p]) /\ Len(log[p]) <= MaxLog
      BY CommitStep DEF IInv, TypeOK
    <2>2. <<p, o>> \in Coordinate /\ o < committed'[p]
      BY <1>1, <2>1 DEF Coordinate, Offset, IInv, TypeOK
    <2> QED BY <2>2, CommitStep DEF SettledRecords
  <1>4. SettledRecords' = SettledRecords
    BY DEF SettledRecords, Produced, Settled, Stored, Record, Coordinate, Offset
  <1> QED BY <1>1, <1>2, <1>3, <1>4 DEF Promise!Advance, SettledRecords

\* Any other step that leaves the log alone at most settles records.
LEMMA StepRefines ==
  ASSUME IInv, [Next]_vars
  PROVE  Promise!Next
  <1>1. TypeOK /\ TypeOK' /\ EvidenceGrows
    BY TypeStep DEF IInv
  <1>2. SettledRecords \subseteq SettledRecords'
    BY <1>1, SettledStable DEF SettledRecords
  <1>3. SettledRecords' \subseteq Promise!Produced(log')
    <2>1. (Produced = Promise!Produced(log))'
      BY <1>1, ProducedIsAbstract, PTL
    <2> QED BY <2>1 DEF SettledRecords, Promise!Produced
  <1>4. CASE UNCHANGED log /\ UNCHANGED committed
    BY <1>2, <1>3, <1>4 DEF Promise!Next, Promise!Settle, SettledRecords
  <1>5. CASE \E w \in Worker :
               /\ pc[w] = "commit" /\ current[w] /\ Advance(w)
               /\ UNCHANGED <<log, rows, deadLetters>>
    BY <1>5, CommitRefines DEF Promise!Next
  <1>6. CASE \E p \in Partition, m \in Message : Produce(p, m)
    <2>1. UNCHANGED committed /\ \E p \in Partition, m \in Message :
                                    log' = [log EXCEPT ![p] = Append(@, m)]
      BY <1>6 DEF Produce
    <2> QED BY <1>2, <1>3, <2>1 DEF Promise!Next, Promise!Produce, SettledRecords
  <1> QED BY <1>1, <1>4, <1>5, <1>6, LogStep, CommittedStep

\* The pipeline, of any size, implements Ingestion: offsets move forward only
\* and only over records that Postgres holds.
THEOREM Refinement == Spec => IngestionSpec
  <1>1. Init => Promise!Init
    <2> SUFFICES ASSUME Init PROVE Promise!Init
      OBVIOUS
    <2>1. Produced = {}
      BY DEF Init, Produced, Coordinate, Offset
    <2> QED BY <2>1 DEF Init, Promise!Init
  <1>2. IInv /\ [Next]_vars => [Promise!Next]_(Promise!vars)
    BY StepRefines
  <1> QED BY <1>1, <1>2, Invariance, PTL DEF Spec, IngestionSpec, Promise!Spec
=============================================================================
