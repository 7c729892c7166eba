--------------------------- MODULE StoragePipeline ---------------------------
(***************************************************************************)
(* One pipeline of storage_consumer: the workers (one per container         *)
(* replica) of one consumer group reading one topic into Postgres.          *)
(*                                                                          *)
(* A worker's pc follows Worker.run: "poll" is the top of the loop,         *)
(* "write" and "bound" are inside _write_batch before and after the         *)
(* resolver's query, "commit" is between the database commit and the        *)
(* offset commit, "closing" is the way to Worker.close, "down" is no        *)
(* process.  A message is an abstract value; the constants say what the     *)
(* code would learn by decoding it.  Crash may strike between any two       *)
(* steps; the group may rebalance at any time.                              *)
(*                                                                          *)
(* The resolver's cache is left to AppRegistry.tla: an application is never *)
(* deleted here, and then a cached id is the registry's.                    *)
(***************************************************************************)
EXTENDS Naturals, Sequences, FiniteSets

CONSTANTS Worker,             \* replicas of the pipeline
          Partition,          \* partitions of the topic
          Message,            \* message contents
          Decodable,          \* the messages the pipeline's decoder accepts
          Unwritable,         \* accepted ones psycopg2 or Postgres refuses
          Package, PackageOf, \* package_name of a decoded message
          Key, KeyOf,         \* its conflict_key
          ObservedAt,         \* its observed_at
          InitiallyRegistered,\* packages app_api knows from the start
          MaxPollRecords,     \* spec.max_poll_records
          MaxRetries,         \* settings.db_retry_max_attempts
          MaxCommitFailures,  \* MAX_CONSECUTIVE_COMMIT_FAILURES
          MaxLog,             \* bound: records produced per partition
          NoWorker, NoRow

ASSUME ConstantsAssumption ==
  /\ IsFiniteSet(Partition)
  /\ Decodable \subseteq Message
  /\ Unwritable \subseteq Decodable
  /\ PackageOf \in [Message -> Package]
  /\ KeyOf \in [Message -> Key]
  /\ ObservedAt \in [Message -> Nat]
  /\ InitiallyRegistered \subseteq Package
  /\ MaxRetries \in Nat
  /\ MaxCommitFailures \in Nat \ {0}
  /\ MaxLog \in Nat
  /\ MaxPollRecords \in Nat \ {0}
  /\ NoWorker \notin Worker
  /\ NoRow \notin Message

\* Two versions of one key carry different timestamps: the producers stamp
\* each message with the microsecond it was made.
ASSUME VersionAssumption ==
  \A m, n \in Decodable :
     KeyOf[m] = KeyOf[n] /\ ObservedAt[m] = ObservedAt[n] => m = n

VARIABLES
  log,         \* [Partition -> Seq(Message)]: the topic; offset o is log[p][o + 1]
  committed,   \* [Partition -> Nat]: the group's committed offsets
  owner,       \* [Partition -> Worker or NoWorker]: the coordinator's assignment
  registered,  \* packages with a row in apps_registry_application
  rows,        \* [Key -> Message or NoRow]: the pipeline's table
  deadLetters, \* coordinates of the rows of dead_letter_events
  premature,   \* history: records produced before their package was registered
  pc, stop,    \* per worker: where it is, and its process's stop event
  current,     \* is its generation the coordinator's
  assigned,    \* the partitions its client believes it owns
  position,    \* the client's next offset per partition
  batch,       \* coordinates of the records of the batch being written
  resolved,    \* packages the resolver found for the batch
  attempt,     \* index of the attempt of _write_batch_with_retry
  failures     \* _consecutive_commit_failures

broker == <<log, committed, owner>>
database == <<registered, rows, deadLetters>>
batchVars == <<batch, resolved, attempt>>
client == <<current, assigned, position>>
vars == <<broker, database, premature, pc, stop, client, batchVars, failures>>

Offset == 0 .. MaxLog - 1
Coordinate == Partition \X Offset
Record(c) == log[c[1]][c[2] + 1]
Live == {w \in Worker : pc[w] # "down"}

-----------------------------------------------------------------------------
(* The pure steps of a batch: decode_batch, bind_application_ids,           *)
(* dedupe_by_key, and the two INSERT ... ON CONFLICT statements.            *)

\* The records between two positions of a client.
Between(from, to) == {c \in Coordinate : from[c[1]] <= c[2] /\ c[2] < to[c[1]]}

\* decode_batch: the records it accepts; the rest are rejected.
Decoded(w) == {c \in batch[w] : Record(c) \in Decodable}

\* A mutant: the lookup asks for one name only.
PackagesOfOne(w) ==
  IF Decoded(w) = {} THEN {} ELSE {PackageOf[Record(CHOOSE c \in Decoded(w) : TRUE)]}

PackagesOf(w) == {PackageOf[Record(c)] : c \in Decoded(w)}

\* bind_application_ids: the records whose package the resolver found.
Bound(w) == {c \in Decoded(w) : PackageOf[Record(c)] \in resolved[w]}

Rejected(w) == batch[w] \ Bound(w)

\* dedupe_by_key: of the messages with one key, the latest observed_at.
Dedupe(M) == {m \in M : \A n \in M : KeyOf[n] = KeyOf[m] => ObservedAt[n] <= ObservedAt[m]}

Rows(w) == Dedupe({Record(c) : c \in Bound(w)})

\* A row psycopg2 or Postgres refuses aborts the whole transaction.
Refused(w) == Rows(w) \cap Unwritable # {}

\* A mutant: no WHERE on the conflict clause.
SupersedesAlways(m, row) == TRUE

\* The ON CONFLICT clause.  DO UPDATE replaces a row only by a newer one; DO
\* NOTHING meets only rows of the same version, and leaves them.
Supersedes(m, row) == row = NoRow \/ ObservedAt[m] > ObservedAt[row]

Upsert(M) ==
  [k \in Key |->
     IF \E m \in M : KeyOf[m] = k /\ Supersedes(m, rows[k])
       THEN CHOOSE m \in M : KeyOf[m] = k /\ Supersedes(m, rows[k])
       ELSE rows[k]]

-----------------------------------------------------------------------------
Init ==
  /\ log = [p \in Partition |-> <<>>]
  /\ committed = [p \in Partition |-> 0]
  /\ owner = [p \in Partition |-> NoWorker]
  /\ registered = InitiallyRegistered
  /\ rows = [k \in Key |-> NoRow]
  /\ deadLetters = {}
  /\ premature = {}
  /\ pc = [w \in Worker |-> "down"]
  /\ stop = [w \in Worker |-> FALSE]
  /\ current = [w \in Worker |-> FALSE]
  /\ assigned = [w \in Worker |-> {}]
  /\ position = [w \in Worker |-> [p \in Partition |-> 0]]
  /\ batch = [w \in Worker |-> {}]
  /\ resolved = [w \in Worker |-> {}]
  /\ attempt = [w \in Worker |-> 0]
  /\ failures = [w \in Worker |-> 0]

-----------------------------------------------------------------------------
(* The rest of the system.                                                  *)

\* A producer (crawler or network_analyzer) appends a record.
Produce(p, m) ==
  /\ Len(log[p]) < MaxLog
  /\ log' = [log EXCEPT ![p] = Append(@, m)]
  /\ premature' = IF m \in Decodable /\ PackageOf[m] \notin registered
                    THEN premature \cup {<<p, Len(log[p])>>}
                    ELSE premature
  /\ UNCHANGED <<committed, owner, database, pc, stop, client, batchVars, failures>>

\* app_api registers an application.
Register(a) ==
  /\ registered' = registered \cup {a}
  /\ UNCHANGED <<broker, rows, deadLetters, premature, pc, stop, client, batchVars, failures>>

\* The coordinator starts a new generation.  It hands the partitions to live
\* members; one that is busy writing may keep or lose them, and either way
\* learns of it only when it next talks to the coordinator.
Rebalance(f) ==
  /\ owner' = f
  /\ current' = [w \in Worker |-> FALSE]
  /\ UNCHANGED <<log, committed, database, premature, pc, stop, assigned, position,
                 batchVars, failures>>

\* SIGTERM, or a sibling pipeline of the same process that ended.
RequestStop(w) ==
  /\ pc[w] \notin {"down", "closing"}
  /\ ~stop[w]
  /\ stop' = [stop EXCEPT ![w] = TRUE]
  /\ UNCHANGED <<broker, database, premature, pc, client, batchVars, failures>>

-----------------------------------------------------------------------------
(* A worker's process.                                                      *)

\* The container (re)starts; every field of Worker takes its initial value.
Start(w) ==
  /\ pc[w] = "down"
  /\ pc' = [pc EXCEPT ![w] = "poll"]
  /\ UNCHANGED <<broker, database, premature, stop, client, batchVars, failures>>

\* The locals of one iteration of the loop go out of scope.
EndBatch(w) ==
  /\ batch' = [batch EXCEPT ![w] = {}]
  /\ resolved' = [resolved EXCEPT ![w] = {}]
  /\ attempt' = [attempt EXCEPT ![w] = 0]

\* Everything in the process's memory goes with it.
Forget(w) ==
  /\ pc' = [pc EXCEPT ![w] = "down"]
  /\ stop' = [stop EXCEPT ![w] = FALSE]
  /\ current' = [current EXCEPT ![w] = FALSE]
  /\ assigned' = [assigned EXCEPT ![w] = {}]
  /\ position' = [position EXCEPT ![w] = [p \in Partition |-> 0]]
  /\ EndBatch(w)
  /\ failures' = [failures EXCEPT ![w] = 0]

\* The process dies.  Postgres rolls the open transaction back; the group
\* keeps the dead member until its session times out.
Crash(w) ==
  /\ pc[w] # "down"
  /\ Forget(w)
  /\ UNCHANGED <<broker, database, premature>>

\* Worker.close: LeaveGroup gives the partitions back at once.
Close(w) ==
  /\ pc[w] = "closing"
  /\ Forget(w)
  /\ owner' = [p \in Partition |-> IF owner[p] = w THEN NoWorker ELSE owner[p]]
  /\ UNCHANGED <<log, committed, database, premature>>

-----------------------------------------------------------------------------
(* Worker.run.                                                              *)

\* The while condition, seen only at a poll boundary.
LoopExit(w) ==
  /\ pc[w] = "poll"
  /\ stop[w]
  /\ pc' = [pc EXCEPT ![w] = "closing"]
  /\ UNCHANGED <<broker, database, premature, stop, client, batchVars, failures>>

\* A mutant: auto_offset_reset = latest.
RejoinLatest(w) ==
  /\ pc[w] = "poll"
  /\ ~stop[w]
  /\ ~current[w]
  /\ current' = [current EXCEPT ![w] = TRUE]
  /\ assigned' = [assigned EXCEPT ![w] = {p \in Partition : owner[p] = w}]
  /\ position' = [position EXCEPT ![w] =
                    [p \in Partition |-> IF owner[p] # w THEN 0
                                         ELSE IF committed[p] = 0 THEN Len(log[p])
                                         ELSE committed[p]]]
  /\ UNCHANGED <<broker, database, premature, pc, stop, batchVars, failures>>

\* Inside poll() the client rejoins the group: it adopts the assignment and
\* reads from the committed offsets, or from the beginning when there are none.
Rejoin(w) ==
  /\ pc[w] = "poll"
  /\ ~stop[w]
  /\ ~current[w]
  /\ current' = [current EXCEPT ![w] = TRUE]
  /\ assigned' = [assigned EXCEPT ![w] = {p \in Partition : owner[p] = w}]
  /\ position' = [position EXCEPT ![w] =
                    [p \in Partition |-> IF owner[p] = w THEN committed[p] ELSE 0]]
  /\ UNCHANGED <<broker, database, premature, pc, stop, batchVars, failures>>

\* poll() returns records and moves the client's position past them.  A member
\* that was evicted and has not noticed still polls what it used to own.
Poll(w, next) ==
  /\ pc[w] = "poll"
  /\ ~stop[w]
  /\ \A p \in Partition :
        /\ position[w][p] <= next[p]
        /\ next[p] # position[w][p] => p \in assigned[w] /\ next[p] <= Len(log[p])
  /\ next # position[w]
  /\ batch' = [batch EXCEPT ![w] = Between(position[w], next)]
  /\ Cardinality(batch'[w]) <= MaxPollRecords
  /\ position' = [position EXCEPT ![w] = next]
  /\ pc' = [pc EXCEPT ![w] = "write"]
  /\ UNCHANGED <<broker, database, premature, stop, current, assigned, resolved, attempt,
                 failures>>

\* ApplicationResolver.resolve, the first statement of the transaction.
Resolve(w) ==
  /\ pc[w] = "write"
  /\ resolved' = [resolved EXCEPT ![w] = PackagesOf(w) \cap registered]
  /\ pc' = [pc EXCEPT ![w] = "bound"]
  /\ UNCHANGED <<broker, database, premature, stop, client, batch, attempt, failures>>

\* A mutant: a batch with no row to upsert returns early.
TransactRowsOnly(w) ==
  /\ ~Refused(w)
  /\ rows' = Upsert(Rows(w))
  /\ deadLetters' = IF Rows(w) = {} THEN deadLetters ELSE deadLetters \cup Rejected(w)

\* The rest of the transaction, up to and including its commit.
Transact(w) ==
  /\ ~Refused(w)
  /\ rows' = Upsert(Rows(w))
  /\ deadLetters' = deadLetters \cup Rejected(w)

\* A mutant: a spent budget drops the batch and polls on.
RetryGivesUp(w) ==
  \/ /\ attempt[w] < MaxRetries
     /\ attempt' = [attempt EXCEPT ![w] = @ + 1]
     /\ resolved' = [resolved EXCEPT ![w] = {}]
     /\ pc' = [pc EXCEPT ![w] = "write"]
     /\ UNCHANGED batch
  \/ /\ attempt[w] >= MaxRetries
     /\ EndBatch(w)
     /\ pc' = [pc EXCEPT ![w] = "poll"]

\* An OperationalError or InterfaceError: reconnect, sleep and try again, or
\* give up once the budget is spent.
Retry(w) ==
  \/ /\ attempt[w] < MaxRetries
     /\ attempt' = [attempt EXCEPT ![w] = @ + 1]
     /\ resolved' = [resolved EXCEPT ![w] = {}]
     /\ pc' = [pc EXCEPT ![w] = "write"]
     /\ UNCHANGED batch
  \/ /\ attempt[w] >= MaxRetries
     /\ EndBatch(w)
     /\ pc' = [pc EXCEPT ![w] = "closing"]

WriteBatch(w) ==
  /\ pc[w] = "bound"
  /\ Transact(w)
  /\ EndBatch(w)
  /\ pc' = [pc EXCEPT ![w] = "commit"]
  /\ UNCHANGED <<broker, registered, premature, stop, client, failures>>

\* The connection drops after the server committed and before the client heard.
WriteUnacknowledged(w) ==
  /\ pc[w] = "bound"
  /\ Transact(w)
  /\ Retry(w)
  /\ UNCHANGED <<broker, registered, premature, stop, client, failures>>

\* A transient fault before the commit: the transaction is rolled back.
WriteFault(w) ==
  /\ pc[w] \in {"write", "bound"}
  /\ Retry(w)
  /\ UNCHANGED <<broker, database, premature, stop, client, failures>>

\* Any other exception is not retried: it ends run() and the process.
WriteFatal(w) ==
  /\ pc[w] = "bound"
  /\ Refused(w)
  /\ EndBatch(w)
  /\ pc' = [pc EXCEPT ![w] = "closing"]
  /\ UNCHANGED <<broker, database, premature, stop, client, failures>>

\* A mutant: one past the position is committed.
AdvanceBeyond(w) ==
  committed' = [p \in Partition |-> IF p \in assigned[w] THEN position[w][p] + 1 ELSE committed[p]]

\* consumer.commit() with no arguments commits the client's positions.
Advance(w) ==
  committed' = [p \in Partition |-> IF p \in assigned[w] THEN position[w][p] ELSE committed[p]]

\* A mutant: the broker does not check the generation.
CommitOffsetsStale(w) ==
  /\ pc[w] = "commit"
  /\ Advance(w)
  /\ failures' = [failures EXCEPT ![w] = 0]
  /\ pc' = [pc EXCEPT ![w] = "poll"]
  /\ UNCHANGED <<log, owner, database, premature, stop, client, batchVars>>

CommitOffsets(w) ==
  /\ pc[w] = "commit"
  /\ current[w]
  /\ Advance(w)
  /\ failures' = [failures EXCEPT ![w] = 0]
  /\ pc' = [pc EXCEPT ![w] = "poll"]
  /\ UNCHANGED <<log, owner, database, premature, stop, client, batchVars>>

\* Counts a failed commit.  The position stays: the next poll reads on from it.
CountFailure(w) ==
  /\ failures' = [failures EXCEPT ![w] = @ + 1]
  /\ pc' = [pc EXCEPT ![w] = IF failures[w] + 1 >= MaxCommitFailures THEN "closing" ELSE "poll"]

\* CommitFailedError: the generation is over and the broker refuses.
CommitRejected(w) ==
  /\ pc[w] = "commit"
  /\ ~current[w]
  /\ CountFailure(w)
  /\ UNCHANGED <<broker, database, premature, stop, client, batchVars>>

\* Any other KafkaError; the broker may have applied the commit all the same.
CommitError(w) ==
  /\ pc[w] = "commit"
  /\ CountFailure(w)
  /\ \/ UNCHANGED committed
     \/ current[w] /\ Advance(w)
  /\ UNCHANGED <<log, owner, database, premature, stop, client, batchVars>>

-----------------------------------------------------------------------------
\* The steps the code takes when nothing goes wrong.
Progress(w) ==
  \/ Start(w) \/ Close(w) \/ LoopExit(w) \/ Rejoin(w)
  \/ \E next \in [Partition -> 0 .. MaxLog] : Poll(w, next)
  \/ Resolve(w) \/ WriteBatch(w) \/ WriteFatal(w)
  \/ CommitOffsets(w) \/ CommitRejected(w)

\* The session of a dead member times out, or a partition without an owner is
\* assigned.
Orphaned == \E p \in Partition : owner[p] \notin Live

Evict == Orphaned /\ \E f \in [Partition -> Live] : Rebalance(f)

\* What the environment does to it.
Fault ==
  \/ \E w \in Worker : \/ RequestStop(w) \/ Crash(w)
                       \/ WriteUnacknowledged(w) \/ WriteFault(w) \/ CommitError(w)
  \/ ~Orphaned /\ \E f \in [Partition -> Live] : Rebalance(f)

Next ==
  \/ \E p \in Partition, m \in Message : Produce(p, m)
  \/ \E a \in Package : Register(a)
  \/ \E w \in Worker : Progress(w)
  \/ Evict
  \/ Fault

Spec == Init /\ [][Next]_vars

\* Threads are scheduled, containers are restarted (restart: unless-stopped)
\* and the coordinator does not leave a partition with a dead member.
Fairness == WF_vars(Evict) /\ \A w \in Worker : WF_vars(Progress(w))

LiveSpec == Spec /\ Fairness
-----------------------------------------------------------------------------
(* Properties.                                                              *)

\* The row stored for m's key is m's version or a newer one.
Stored(m) ==
  m \in Decodable /\ rows[KeyOf[m]] # NoRow /\ ObservedAt[rows[KeyOf[m]]] >= ObservedAt[m]

\* A produced record that Postgres holds in one of the two ways it can.
Settled(c) == c \in deadLetters \/ Stored(Record(c))

Produced == {c \in Coordinate : c[2] < Len(log[c[1]])}

\* Every variable has its type: what Worker.__init__, the broker and the
\* tables can hold, retry budget and commit failures within their limits.
TypeOK ==
  /\ log \in [Partition -> Seq(Message)]
  /\ \A p \in Partition : Len(log[p]) <= MaxLog
  /\ committed \in [Partition -> Nat]
  /\ owner \in [Partition -> Worker \cup {NoWorker}]
  /\ registered \subseteq Package
  /\ rows \in [Key -> Message \cup {NoRow}]
  /\ deadLetters \subseteq Coordinate
  /\ premature \subseteq Coordinate
  /\ pc \in [Worker -> {"down", "poll", "write", "bound", "commit", "closing"}]
  /\ stop \in [Worker -> BOOLEAN]
  /\ current \in [Worker -> BOOLEAN]
  /\ assigned \in [Worker -> SUBSET Partition]
  /\ position \in [Worker -> [Partition -> Nat]]
  /\ batch \in [Worker -> SUBSET Coordinate]
  /\ resolved \in [Worker -> SUBSET Package]
  /\ attempt \in [Worker -> 0 .. MaxRetries]
  /\ failures \in [Worker -> 0 .. MaxCommitFailures]
  /\ \A w \in Worker : pc[w] # "closing" => failures[w] < MaxCommitFailures

\* Nothing is lost: every record below a committed offset is in its table, at
\* its version or a newer one, or is recorded in dead_letter_events, whatever
\* crashed, rebalanced, failed or was retried (worker.py: "Offsets advance
\* only after Postgres has durably committed, so nothing is ever lost").
NothingLost ==
  \A c \in Coordinate : c[2] < committed[c[1]] => c \in Produced /\ Settled(c)

\* A record whose application was registered before it was produced is never
\* dead-lettered for its package: a replica's view of the registry is never
\* older than the records it binds (bind_application_ids with resolve).
OnlyUnknownDeadLettered ==
  \A c \in deadLetters : Record(c) \in Decodable => c \in premature

\* The inductive invariant behind both.  A client's position stays inside the
\* log, ahead of the committed offset while its generation lasts, and ahead of
\* nothing that is neither settled nor in the batch it is writing; the registry
\* is never behind the record a resolver is asked about.
WorkerInv(w) ==
  /\ pc[w] \notin {"write", "bound"} => batch[w] = {}
  /\ batch[w] \subseteq Produced
  /\ \A p \in Partition : position[w][p] <= Len(log[p])
  /\ \A p \in assigned[w] :
        current[w] => owner[p] = w /\ position[w][p] >= committed[p]
  /\ \A c \in Coordinate :
        pc[w] # "closing" /\ c[1] \in assigned[w] /\ c[2] < position[w][c[1]]
          => Settled(c) \/ c \in batch[w]
  /\ \A c \in batch[w] :
        pc[w] = "bound" /\ Record(c) \in Decodable /\ PackageOf[Record(c)] \notin resolved[w]
          => c \in premature

RegistryInv ==
  /\ deadLetters \subseteq Produced
  /\ premature \subseteq Produced
  /\ \A c \in Produced :
        Record(c) \in Decodable /\ PackageOf[Record(c)] \notin registered => c \in premature

IInv == /\ TypeOK
        /\ \A p \in Partition : committed[p] <= Len(log[p])
        /\ NothingLost
        /\ OnlyUnknownDeadLettered
        /\ RegistryInv
        /\ \A w \in Worker : WorkerInv(w)

\* A stored row is only ever replaced by a newer version of the same key, even
\* when an evicted worker writes its batch after its successor wrote a later
\* one (the WHERE of ReviewRepository.conflict_clause).
RowsNeverRegress ==
  [][\A k \in Key : rows'[k] # rows[k] =>
        /\ rows'[k] \in Message
        /\ rows[k] = NoRow \/ ObservedAt[rows'[k]] > ObservedAt[rows[k]]]_vars

\* A committed offset never moves back: a worker the group has evicted cannot
\* undo its successor's commits (the CommitFailedError branch of _commit).
CommittedNeverRewinds ==
  [][\A p \in Partition : committed'[p] >= committed[p]]_vars

\* The pipeline implements Ingestion.
Promise == INSTANCE Ingestion WITH settled <- {c \in Produced : Settled(c)}
IngestionSpec == Promise!Spec

\* Eventually the environment stops interfering: every later step is one the
\* code takes by itself (a fault may look like such a step, and is then none).
Calm == <>[][Fault => \E w \in Worker : Progress(w)]_vars

\* Settled, and committed past unless a commit failed after it.
Handled(c) == /\ c \in Produced
              /\ Settled(c)
              /\ c[2] < committed[c[1]] \/ \E w \in Worker : failures[w] > 0

\* If faults cease, every record is settled and its offset committed: neither
\* an undecodable record nor an unregistered package stalls the partition
\* behind it (decode_batch, bind_application_ids).  The offset, though, may
\* wait for a later batch after a commit that failed: _commit does not retry.
EveryRecordHandled == Calm => \A c \in Coordinate : c \in Produced ~> Handled(c)

-----------------------------------------------------------------------------
(* What the comments say and the code does not do.                          *)

\* README.md: "poison messages are recorded and skipped without stalling a
\* topic".  So, faults aside, the record of a message that cannot be stored
\* would be dead-lettered and its offset passed.
Skipped(c) == c \in deadLetters /\ c[2] < committed[c[1]]

PoisonRecordedAndSkipped ==
  Calm => \A c \in Coordinate :
    c \in Produced /\ Record(c) \in Unwritable ~> Skipped(c)
=============================================================================
