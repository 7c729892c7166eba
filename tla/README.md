# PlayPulse, verified

TLA+ models of PlayPulse, checked with TLC and proved with TLAPS. PlayPulse
crawls Play Store statistics and reviews, analyses packet captures, sends both
through Kafka, and stores them in Postgres. Paths below are relative to the
repository.

## The system

| part | state it keeps | operations | talks to | correct when |
|---|---|---|---|---|
| `app_api` | the registry of applications (Postgres, Django) | create, update, deactivate, reactivate, list; delete and rename on the admin site | REST for the crawler and the analyzer; its table is read by the storage consumer | one of several creates wins, an update changes only what it names |
| `crawler` | tokens of a rate limiter; futures of a cycle; a pending report file | a cycle every few hours: fetch each active application on a thread pool, publish statistics and reviews, report | registry, Play Store, topics `app-stats` and `reviews`, `data/reports/pending` | success means published, only failures are retried, a cycle ends and its report comes after its records |
| `network_analyzer` | per-direction TCP state of one capture | read a capture, compute metrics, publish | registry, topic `network-metrics` | the counters are what the bytes, SYNs and answers of the capture say |
| `scripts/network/analyze_pcaps.sh` | files in inbox, processed, failed | run the analyzer over the inbox, file each capture | the analyzer's exit code | a capture is filed by what became of it |
| `storage_consumer` | Kafka positions and offsets; four tables; a cache of ids; heartbeat files | migrate; poll, write, commit; stop and restart | Kafka, Postgres | nothing is lost, rows only get newer |
| `sentiment` | `reviews.sentiment`; the last id of its page | fetch a page, classify, update | Postgres | a label is that of a text of its review, no review is skipped |
| `scripts/reports/finalize_cycle_reports.py` | pending and done reports, `cycles.jsonl` | wait for lag zero, judge, append, move | Kafka offsets, Postgres, report files | no report is lost, "ok" means stored, as far as offsets could be read |

The storage consumer is where the system's guarantees are made: everything
upstream may repeat or reorder a message, and everything downstream reads the
tables it writes. Its parts:

- **Worker** (`runtime/worker.py`): one per pipeline and replica. Polls a batch,
  writes it in one transaction, commits the offsets. Correct when nothing below
  a committed offset is missing from Postgres, rows only get newer, offsets only
  advance, and every record is dealt with in the end.
- **Batch** (`core/batching.py`, `core/decoders.py`,
  `persistence/*repository.py`): decode, bind to an application, keep the newest
  version per key, upsert, record dead letters.
- **Resolver** (`persistence/application_resolver.py`): ids of applications by
  name, cached for a while. Correct when a stale id is bounded in time and never
  files data under another application.
- **Supervisor** (`runtime/supervisor.py`, `main.py`): a thread per pipeline,
  one stop event, signal handlers. Correct when one ended pipeline ends the
  process and the exit code tells why.
- **Migrator** (`persistence/migrator.py`, `main.py`): several replicas bring
  one schema up to date. Correct when each version is applied once, in order,
  all or nothing, and no worker starts before the schema is complete.

What is hard here: group rebalances and crashes between two commits to two
systems that share no transaction; commits and sends whose outcome is unknown;
zombies that still hold a database connection; confirmations that are waited for
a shorter time than the producer keeps trying; locks taken from a signal
handler; rows and files that another process changes between a read and a write;
sequence numbers that wrap. `PROJECT.json` lists each hazard at its line with
the properties that would catch it.

The parts interact through five shared things, and each is in a module: topics
with their offsets (`StoragePipeline`, `CrawlCycle`, `CycleReports`), the tables
(`StoragePipeline`, `SentimentJob`, `AppRegistry`), the registry (`AppRegistry`,
`CaptureBatch`, and `StoragePipeline` for its growth), the report files
(`CycleReports`) and the capture directories (`CaptureBatch`). Where a module
needs a neighbour it has that neighbour reduced to its promise: the consumer in
`CycleReports` is what `Ingestion` allows (proved), which `StoragePipeline`
implements (proved).

## Modules

| module | models | extends / uses |
|---|---|---|
| `Ingestion` | the promise: a log, a set of settled records, offsets that advance over settled records only | |
| `StoragePipeline` | the workers of one consumer group on one topic, Postgres, the coordinator | `INSTANCE Ingestion` |
| `Supervisor` | the threads and the signal handler of one process | |
| `Migrator` | the start of several replicas against one database | |
| `AppRegistry` | the registry's requests, the admin site, the resolver with its cache, the batch that uses it | |
| `CrawlCycle` | scheduler, pool, both paths of an application, retries, producer and broker, report | |
| `TokenBucket` | the promise: a bucket that the clock fills | |
| `RateLimiter` | the bucket that nothing fills but those who ask | `INSTANCE TokenBucket` |
| `CycleReports` | reports and reporters, beside a crawler and a reduced consumer | `INSTANCE Ingestion` |
| `SentimentJob` | labelling jobs, beside the consumer's upserts | |
| `TcpAnalyzer` | the accumulator of one TCP connection, and its metrics restated over the history | |
| `PacketSizes` | the byte arithmetic of one packet | |
| `CaptureAnalysis` | one capture, from records to metrics | `TcpAnalyzer`, `PacketSizes` |
| `CaptureBatch` | runs of the script, the analyzer process and its exit codes, publishing and filing | |
| `SortedSets` | a finite set of numbers as its ascending list: ORDER BY, or a loop over pending items in order | used by `CrawlCycle`, `SentimentJob`, `TcpAnalyzer` |
| `MCStoragePipeline`, `MCCaptureAnalysis`, `MCCaptureBatch` | the messages, packets and options of TLC's instances | the module named |
| `StoragePipelineProofs`, `AppRegistryProofs`, `CycleReportsProofs`, `SentimentJobProofs` | theorems | the module named |
| `ConsumerProcessProofs` | theorems about a consumer's start and end | `Migrator`, `Supervisor` |
| `CrawlerProofs` | theorems about the crawler | `RateLimiter`, `CrawlCycle` |
| `NetworkAnalyzerProofs` | theorems about the analyzer | `CaptureAnalysis`, `CaptureBatch` |
| `SortedSetsProofs` | lemmas about ascending lists, least elements and functions defined by recursion | `SortedSets` |

Modules that one proof module extends together name their parts apart:
`Supervisor` has `ProcessInit`, `ProcessNext`, `ProcessSpec`, `RateLimiter` has
`LimiterSpec`, `CaptureAnalysis` has `CaptureSpec`; the others have `Spec`.

### StoragePipeline

A worker's `pc` follows `Worker.run` and stops wherever another actor can come
between two effects: at the poll, before and after the resolver's query, between
the database's commit and the offset's, and on the way to `close`.

| code | model |
|---|---|
| `_build_worker`, `Worker.__init__` | `Start`, and the values `Forget` gives back |
| the `while` of `Worker.run` | `LoopExit`, `Poll` |
| rejoining the group inside `poll()`, with `auto_offset_reset` | `Rejoin` |
| `resolver.resolve` in the transaction | `Resolve` |
| the rest of `_write_batch` and its `COMMIT` | `Transact`, in `WriteBatch` |
| a connection lost during `COMMIT` | `WriteUnacknowledged`: written, and retried |
| `OperationalError`, `InterfaceError` | `WriteFault`, with `Retry` for `with_retry` and `_recover_connection` |
| any other exception of the write | `WriteFatal` |
| `_commit` | `CommitOffsets`, `CommitRejected`, `CommitError` |
| `Worker.close` | `Close` |
| the coordinator, the OS, producers, `app_api` | `Rebalance`, `Evict`, `Crash`, `Produce`, `Register` |

Data is abstract: a message is a model value, and the constants say what
decoding it would give (`Decodable`, `PackageOf`, `KeyOf`, `ObservedAt`) and
whether Postgres would refuse it (`Unwritable`). `committed` is the group's,
`position` a worker's; `current` says whether its generation is the
coordinator's. A rebalance reaches a worker only through the client: it goes on
with what it has until it polls again (`Rejoin`) or its commit is refused.
`premature` is history: which records were produced before their package was
registered.

`Supersedes` covers the three repositories: `DO UPDATE ... WHERE` of reviews,
and the `DO NOTHING` of the other two, where a conflict can only be with the
same version. That rests on `VersionAssumption`: two versions of one key carry
different timestamps (`crawler/data_mapper.py` stamps each message).

Deliberate limits: applications are never deleted here, so the resolver's cache
never disagrees with the registry (`AppRegistry` has the deletes, the renames
and the cache); and an offset reset by an operator is not modelled.

### Supervisor

One action per statement of `run` and `_run_pipeline` that other threads can
see. `threading.Event` is modelled by what `wait` and `set` do: both take the
lock of the event's condition variable, which is not reentrant, and `wait`
releases it while it waits. The handler runs on top of the main thread wherever
that stands (`Deliver` has no guard but its bound), and while it runs the main
thread does not. A pipeline's body is reduced to what decides how it ends:
building, polling, writing. `late` remembers the joins that timed out, `broken`
the pipelines whose body raised.

### Migrator

A replica's `pc` stops between transactions and, inside one, where it can wait
for another: at the advisory lock, and at the catalogue's unique index when two
sessions create the bookkeeping table. `tables` stands for the DDL of each
version; it changes only in `CommitVersion`, together with `recorded` and with
the lock's release, as the transaction does. `Fail` is a database error or the
death of the process, anywhere.

### AppRegistry

Django serves requests in threads without a transaction around them, so a create
is `CheckName` and `Insert`, and an update, a deactivation or a reactivation is
a read (`UpdateApplication`, `Deactivate`, `Reactivate`) and a `Save`. `save()`
writes every column of the copy it holds, and inserts the row again if it was
deleted meanwhile: an application the admin site deletes can come back. The
admin site deletes and renames (`AdminDelete`, `AdminRename`); a form request
gives every field, a JSON one those it names (`Update`: the fields as the
serializer validated them). On the other side, `PollBatch`, `Resolve` and
`WriteBatch` are the consumer with its cache: an entry lives `Ttl` ticks, the
absence of a name is not remembered, and a foreign key that fails ends the
worker, whose cache starts empty. `invalidate()` is left out: only tests call
it.

### CrawlCycle

An application's `stage` follows its future: fetch, send, await, for the
statistics and then for the reviews. `Work` is a worker's step, `MaxWorkers` of
them at a time; pages are fetched one by one, and an attempt that fails starts
again with an empty list. The producer's buffers are per application and topic
because the key of a message is its application, and a key's records stay in
order. A worker waits for a confirmation for 5 s while the producer keeps trying
for 15 s, so `NotConfirmed` may give up what lands later: `Deliver` takes
records from the buffers whatever became of their senders. `Terminate` and
`CloseProducer` are the signal handler, `Kill` and `StartAgain` the container.
Four history variables say what a path wanted and confirmed, how many faults it
met and which of them no retry could help.

The listing of the registry either fails, which the scheduler survives
(`ListingFails`), or gives a set of applications; the empty set does nothing and
is left out. A page with a continuation token is assumed to hold a review
(`FetchPage`): the loop would otherwise not end by itself (see the hazards).

### RateLimiter

The clock is relative: ticks since the last refill, and what is left of each
sleep. A token is `TokenTicks` ticks, so fractions are kept as the code keeps
them. `Acquire` is one turn under the lock: refill, take or compute the wait.
`TokenBucket` has a bucket that the clock fills, a tick at a time.

### CycleReports

A cycle is one application with one message per topic. The crawler writes its
report with what was confirmed (`WritePending`); a send that was not confirmed
may have landed. A reporter lists the pending files, then reads end offsets and
committed offsets, topic by topic (`ReadEnd`, `ReadCommitted`), until both lags
are zero or its deadline passes, counts the dead letters since the cycle began
(with no upper limit, so a later cycle's count too), appends the line and moves
the file. Each is a step of its own: another reporter, the next cycle or a crash
can come between any two. A topic for which the metadata names no partitions has
lag zero without any offset being read (`NoPartitions`); a request that raises
leaves the lag unknown, which is not zero (`LagUnknown`). `unseen` is history:
the topics of the first kind in a reporter's last poll, kept with the line it
writes, because "ok" says nothing of what is stored of them. A `KafkaConsumer` whose constructor raises does so outside the `try` and
ends the process: that is `Crash`. `Impatient` reporters run with `--lag-timeout
0`.

### SentimentJob

`FetchPage`, `Classify` and `Write` are the three parts of one turn: read in one
transaction, classify in none, write in another. Nothing keeps two jobs apart.
Beside them the consumer inserts reviews (ids come from a sequence, so a smaller
id may become visible later), replaces their text, which keeps the label, and
rows are removed. What the model says of a text is named by that text, so that a
label on the wrong row is seen; a white-space text gets NEUTRAL from the service
without the model, and a NULL or empty one is never selected.

### TcpAnalyzer, PacketSizes, CaptureAnalysis

One action, `Observe`, makes the calls of `TcpAnalyzer.observe` in the code's
order; each helper is an operator on the direction's state. Sequence numbers are
modulo `SeqSpace`, which is 2^32 in the code. The properties restate each metric
over the history of segments with sets of bytes, where the code merges intervals
and stops early. The loops over an interval list are recursive functions
(`Reach`, `MergeInterval`), one list element a step, so that they can be
reasoned about. `PacketSizes` says which lengths a packet counts with when its
headers contradict each other, as offloading makes them do. `SkipRecord` stands
for a record that does not decode; a truncated file ends at its last whole
record (`EndOfCapture`).

### CaptureBatch

A run lists the inbox once, then launches an analyzer for each capture that is
still there. The analyzer's process is `RegistryAnswers` or
`RegistryUnreachable` with retries, `Analyze`, `Publish` or
`PublishUnconfirmed`, `Close`; `Route` is the `case` of the script, which files
the capture by the exit code. Exit code 1 quarantines a capture that may be
good, if the analyzer failed for a reason of its own: `blamed` records whoever
failed so. Kills may come anywhere, a move may fail, the registry may change.
`topic` is a set per capture and run, since an analysis is keyed by its
`analysis_id`.

## Runs

All bounds are constants of the instances, named in each module's CONSTANTS
("bound: ...") and used in guards only.

| run | instance | shows |
|---|---|---|
| `StoragePipeline` | 2 workers, 1 partition, 2 versions of a review, an orphan and a message Postgres refuses, log of 2, polls of 2, 1 retry, the first failed commit final | `NothingLost`, `OnlyUnknownDeadLettered`, the inductive invariant, `RowsNeverRegress`, `CommittedNeverRewinds`, refinement of `Ingestion` |
| `StorageHandover` | 2 workers, a malformed and a good message, log of 2, no retry, the first failed commit final | `EveryRecordHandled` across rebalances and crashes |
| `PoisonClaim` | a good message and one that Postgres refuses, log of 1, the second failed commit final | that a sentence of the README does not hold (below) |
| `Supervisor` | 2 pipelines, 2 signals | `CleanReturn`, `OneEndsAllEnd`, `SignalEndsProcess` |
| `Migrator` | 2 migrating replicas, 1 that skips, 2 versions | `RecordedIsApplied`, `RunningHasSchema`, `AppliedOnce`, `EveryReplicaRuns` |
| `CrawlCycle` | 2 applications, 2 workers, 2 reviews in pages of 1, 1 retry, 2 cycles, 2 faults | `OkMeansLanded`, `ConfirmedNotResent`, `FailedForItsOwnReason`, `ReportAfterLastRecord`, `CycleEnds` |
| `RateLimiter` | 3 workers that ask 3 times each, a burst of 3, a token every 3 ticks, jitter of 2 | refinement of `TokenBucket` (`NeverAboveRate`), `AllServed` |
| `CycleReports` | 2 topics, a looping reporter and an impatient one-shot one, 2 cycles, 1 fault | `ReportKept`, `OkMeansStored`, `EventuallyFiled` |
| `SentimentJob` | 2 jobs, pages of 2, 3 ids, a text, a white-space text and none, 1 change, 1 fault | `LabelOfSomeText`, `QuietRunFresh`, `WalkMissesNothing`, `JobEnds` |
| `AppRegistry` | 2 threads with 3 requests, 2 names, 3 ids, a lifetime of 2 ticks, 1 act of an administrator | `OneCreateWins`, `UndisturbedSaveKeepsRest`, `IdNotOlderThanTtl`, `NeverMisfiled`, `BatchSettled` |
| `CaptureAnalysis` | every capture of up to 6 records out of 18 packets, sequence numbers modulo 16 | `CoverageIsBytesSeen`, `CountersAgree`, `HandshakesAgree`, `ReadableGivesMetrics` |
| `CaptureBatch` | 2 runs over a good, a misnamed and an unreadable capture, 1 retry, 3 pairs of options | `ProcessedIsPublished`, `GoodNotQuarantined`, `AnalyzedOnceIfUndisturbed` |

Eight more configurations are kept beside these runs, to be started by hand
(`tlc -config LagClaim.cfg CycleReports`), a minute each at most:

| configuration | module | instance | outcome |
|---|---|---|---|
| `StorageCommits` | `MCStoragePipeline` | 1 worker, a malformed message, one of an unregistered package and a good one, log of 3, polls of 2, no retry, the second failed commit in a row final | `EveryRecordHandled` holds when a failed commit is followed by another poll |
| `LagClaim` | `CycleReports` | 2 topics, 1 reporter, 1 cycle, 1 fault | `OkMeansCaughtUp` violated |
| `LateFailureClaim`, `SignalClaim` | `Supervisor` | as `Supervisor` | `FailureTold`, `SafeInHandler` violated |
| `OverlapClaim`, `RepeatedSynClaim` | `MCCaptureAnalysis` | as `CaptureAnalysis` | `AckedNotRetransmitted`, `OneSamplePerHandshake` violated |
| `MidCaptureClaim` | `MCCaptureAnalysis` | and captures that begin in mid-connection | `SpuriousWereAcknowledged` violated |
| `CaptureRerunClaim` | `MCCaptureBatch` | as `CaptureBatch`, over the good capture | `SuccessLeavesInbox` violated |

Why the bounds are enough.

- Storage: two workers give a zombie and its successor; two records give an old
  and a new version, in one batch or in two, in either order; a batch of two
  holds a good and a bad record. A third worker adds no relation between two
  workers that the two lack. One retry separates the first attempt, the last and
  the giving up. The second of two partitions adds batches and commits over
  several partitions; that case is covered by the proofs, which are for any
  number. Workers are interchangeable, so the safety run uses their symmetry. A
  worker that survives a failed commit needs a limit of two, which is too much
  beside two workers: `StorageCommits.cfg` has one worker.
- Supervisor, Migrator: two pipelines give one that ends and one that must
  follow; two signals give a handler on top of a handler. Two migrating replicas
  race, two versions give an order, and a third replica looks on with
  `--skip-migrate`.
- CrawlCycle: two applications share the pool and finish in either order; with
  two reviews part of an attempt may fail and the rest not; two faults exceed
  one retry; the second cycle meets the late records of the first.
- RateLimiter: three workers let two overtake one; nine requests empty the
  bucket and wait; jitter can let a sleeper miss a token another takes.
- CycleReports: the second cycle produces while the first is being judged; two
  reporters meet on one file; one fault is a death between the line and the
  move, or an unconfirmed send, or a dead letter, or a topic without partitions.
- SentimentJob: three ids in pages of two give a full page and a short one, and
  a row that appears behind the walk or ahead of it; one change and one fault
  are enough to make a label stale or a page fail beside a second job.
- AppRegistry: two threads race for a name or a row; three ids allow a name to
  be deleted and registered again while the consumer holds the old id.
- CaptureAnalysis: six records hold a handshake and four segments, enough for a
  gap, its filling and a resend; 16 sequence numbers wrap in the first data of
  "out". Captures begin with the connection (`FromStart`), but for
  `MidCaptureClaim`. The packets are of one
  short connection (`ShortConnection`), which `MCCaptureAnalysis` asserts: that
  and `FromStart` are the two hypotheses of the theorem about `CountersAgree`.
- CaptureBatch: two runs meet on one file at every step.

The type invariants are not part of the runs, which are kept for what could be
wrong; they are proved (in `Supervisor` and `Migrator` as a conjunct of the
inductive invariant).

Deadlock: the runs of `MCStoragePipeline`, of `Migrator` and of
`MCCaptureAnalysis` check for it. The other systems may stop: their bounded cycles, requests or runs
end.

### Fairness

- `StoragePipeline`: weak fairness of each worker's own steps (threads are
  scheduled, and compose's `restart: unless-stopped` starts a dead container)
  and of `Evict` (the coordinator takes partitions from a dead member once its
  session times out). No fairness of producers, of registrations or of any
  fault. `EveryRecordHandled` assumes `Calm`: from some point on, every step
  that looks like a fault is also one the code takes by itself. Without it
  crashes alone could keep a batch from ever being finished.
- `Supervisor`: weak fairness of the main thread and of each pipeline's steps
  except `Poll`, which an idle pipeline need not take, and of no failure; strong
  fairness of the steps that take the event's lock, which other threads take and
  release in between (a lock that keeps being released is obtained).
  `OneEndsAllEnd` and `SignalEndsProcess` except the one state from which
  neither can hold, `SelfDeadlocked` (see below). That a batch ends is an
  assumption: statements have a timeout and retries a budget.
- `Migrator`: weak fairness of each replica's steps, restarts included, and of
  app_api's own migrations; `EveryReplicaRuns` assumes that outside failures
  cease.
- `CrawlCycle`: weak fairness of each worker's steps, of the producer's sender
  thread, of the main thread, and of a signal handler that has begun to close
  the producer. None of signals, kills, refusals or time-outs, so `CycleEnds`
  holds whichever of them come, within their bound, and when none does.
- `RateLimiter`: weak fairness of the clock and of each worker's turn. Nothing
  stronger: a worker that is due stays due until it has its turn.
- `CycleReports`: weak fairness of the looping reporter (compose restarts it)
  and strong fairness of its giving up the wait for lag zero, which a deadline
  bounds. None of the crawler, the consumer or one-shot runs.
- `SentimentJob`: weak fairness of each started job's steps.
- `AppRegistry`: weak fairness of the clock and of the consumer; none of
  requests.

### What the code does and its comments do not say

Eight configurations end in a violation, the run `PoisonClaim` and the seven
`...Claim` kept beside the runs: each checks one sentence of the repository as it
stands, and the trace shows what the code does instead.

| configuration | sentence | what happens |
|---|---|---|
| `PoisonClaim` | poison messages are recorded and skipped without stalling a topic (README.md:50) | a message that decodes and that psycopg2 or Postgres refuses (a NUL character in a string, say) restarts the container for ever |
| `LateFailureClaim` | `run()` returns one if any pipeline ended in an error (supervisor.py:66) | a pipeline that is joined too late fails after the zero was returned; `CleanReturn` is about returns without a timed-out join |
| `SignalClaim` | `request_stop` is safe in a signal handler (supervisor.py:55) | `set()` waits for the event's lock which its own thread holds: `SelfDeadlocked` |
| `LagClaim` | reports are finalized once lag is 0 (finalize_cycle_reports.py:3) | a topic without partitions in the metadata counts as lag 0, and "ok" is given with records unsettled; `OkMeansStored` is about the topics whose offsets were read |
| `OverlapClaim` | an overlap counts as a retransmission without a peer ACK past its end (tcp_analyzer.py:185; network_analyzer/README.md:134 counts only what is fully covered) | a partial overlap counts, whatever was acknowledged |
| `MidCaptureClaim` | spurious are bytes the peer has already acknowledged (tcp_analyzer.py:187) | in a capture that begins in mid-connection an acknowledgement below the first byte seen is huge relative to it, and resends count as spurious |
| `RepeatedSynClaim` | the first SYN wins, over every handshake (tcp_analyzer.py:110, network_analyzer/README.md:117) | the answer forgets the SYN; one repeated after it, and answered again, is a second sample |
| `CaptureRerunClaim` | a successful capture has already left the inbox (network_analyzer/README.md:327) | one that could not be moved stays, the run ends with 0, and the next analyzes it again under a new `analysis_id`; `AnalyzedOnceIfUndisturbed` is what holds |

Other sentences that do not hold, each met while modelling the line:

- A failed offset commit is neither redelivered nor retried (worker.py:242 says
  redelivery). A later batch makes it good (`StorageCommits`); on an idle topic
  the offset stays behind, which `finalize_cycle_reports.py` reads as lag.
- A batch that outlives its join is committed all the same (supervisor.py:98):
  the thread is no daemon.
- Alive only while all pipelines are (supervisor.py:8): not if `thread.start()`
  raises.
- Racing migrations are safe (docker-entrypoint.sh:14): one replica may exit
  with an error on the bookkeeping table (migrator.py:185); a restart cures it.
- An evicted worker does write its in-flight batch (worker.py:14 and
  consumer_factory.py:26 say it is abandoned unwritten); idempotence makes that
  harmless, which is what `RowsNeverRegress` is about.
- A crash between the two commits does leave a dead letter recorded but
  unadvanced (worker.py:10, database.py:95); writing it again changes nothing.
- Empty content does not become NEUTRAL (sentiment/README.md:79): it is not
  selected and keeps the label it has; only white space does.

## Proofs

TLAPS proves, for all values of the constants under the named assumptions:

| theorem | statement |
|---|---|
| `StoragePipelineProofs!Invariance` | `Spec => []IInv` |
| `TypeCorrect`, `NoRecordLost`, `DeadLettersJustified` | `Spec => []TypeOK`, `[]NothingLost`, `[]OnlyUnknownDeadLettered` |
| `RowsOnlyImprove`, `OffsetsOnlyAdvance` | `Spec => RowsNeverRegress`, `Spec => CommittedNeverRewinds` |
| `Refinement` | `Spec => IngestionSpec` |
| `ConsumerProcessProofs!ProcessInvariance`, `ReturnsClean` | `ProcessSpec => []ProcessInv`, `[]CleanReturn` |
| `ConsumerProcessProofs!Invariance`, `RecordedCorrect`, `SchemaBeforeWorkers`, `NeverAppliedTwice` | `Spec => []IInv`, `[]RecordedIsApplied`, `[]RunningHasSchema`, `AppliedOnce` |
| `CrawlerProofs!LimiterTypeCorrect`, `KeepsRate` | `LimiterSpec => []LimiterTypeOK`, `LimiterSpec => NeverAboveRate` (refinement of `TokenBucket`) |
| `CrawlerProofs!Invariance`, `CrawlTypeCorrect` | `Spec => []IInv`, `[]TypeOK` |
| `SuccessHasLanded`, `ResidualOnly`, `OwnReason`, `NothingAfterReport` | `Spec => []OkMeansLanded`, `[]ConfirmedNotResent`, `[]FailedForItsOwnReason`, `[]ReportAfterLastRecord` |
| `CycleReportsProofs!Invariance`, `TypeCorrect`, `NoReportLost`, `OkIsStored` | `Spec => []IInv`, `[]TypeOK`, `[]ReportKept`, `[]OkMeansStored` |
| `StoreRefines` | `Spec => StoreKeepsPromise`: the reduced consumer implements `Ingestion` |
| `SentimentJobProofs!Invariance`, `TypeCorrect` | `Spec => []IInv`, `[]TypeOK` |
| `LabelsAreOfTheirReview`, `WalkComplete`, `QuietRunLeavesFresh` | `Spec => []LabelOfSomeText`, `[]WalkMissesNothing`, `[]QuietRunFresh` |
| `AppRegistryProofs!Invariance`, `TypeCorrect`, `CreatesOnce` | `Spec => []IInv`, `[]TypeOK`, `[]OneCreateWins` |
| `CacheBounded`, `RegisteredResolves`, `FiledUnderItsName`, `SaveKeepsRest` | `Spec => IdNotOlderThanTtl`, `RegisteredIsResolved`, `NeverMisfiled`, `UndisturbedSaveKeepsRest` |
| `NetworkAnalyzerProofs!CaptureInvariance`, `CaptureTypeCorrect`, `NeverRejected` | `CaptureSpec => []CaptureIInv`, `[]CaptureTypeOK`, `[]ReadableGivesMetrics` |
| `CoverageTrue`, `HandshakesTrue`, `ClassesCounted` | `CaptureSpec => []CoverageIsBytesSeen`, `[]HandshakesAgree`, `[]SegmentsCounted` |
| `CountersTrue` | `FromStart /\ ShortConnection => (CaptureSpec => []CountersAgree)` |
| `NetworkAnalyzerProofs!Invariance`, `TypeCorrect` | `Spec => []IInv`, `[]TypeOK` |
| `FiledOnlyIfPublished`, `OnlyBlamedQuarantined`, `ZeroMeansPublished`, `UndisturbedOnce` | `Spec => []ProcessedIsPublished`, `[]GoodNotQuarantined`, `[]CleanExit`, `[]AnalyzedOnceIfUndisturbed` |

The assumptions are the named `ASSUME`s of each module: that constants which
count are numbers, that retries and burst are what a configuration can hold, and
`VersionAssumption` of `StoragePipeline` explained above.

**StoragePipeline.** From `ConstantsAssumption` (typing, positive limits) and
`VersionAssumption`. `NothingLost` is not inductive: a commit copies the
worker's position, so the invariant must say what lies below a position.
`WorkerInv` does: below the position of an assigned partition everything is
settled or in the batch now being written; a worker that is not writing has no
batch; and while its generation is current its partitions are its own and its
position is at least the committed offset. The exception is a worker that is
closing, whose batch was given up; it has no way back to a commit. Settled
records stay settled because rows only improve (`RowsOnlyImprove` from
`Supersedes`) and dead letters are never removed. `OffsetsOnlyAdvance` follows
since only a worker whose generation is current can move an offset.
`OnlyUnknownDeadLettered` needs that the registry is never behind a record a
resolver is asked about (`RegistryInv`). The refinement maps `settled` to the
records that are dead-lettered or stored at their version or a newer one.

**Supervisor.** From `CountsAssumption`. A failure is on record before the
pipeline can ask for the stop, and the main thread's index is past a pipeline
only if that has ended or was given up; so a return without a late pipeline
reads the final value of the failed event.

**Migrator.** From `MigratorAssumption`. The advisory lock is held exactly by
the replica inside `_apply_one`; what it found pending is still pending when it
commits, because nobody else can be inside; and a replica's loop is past
recorded versions only, which gives the order of versions and the complete
schema.

**CrawlCycle.** From `CrawlAssumption`. `OkMeansLanded` needs to know what a
worker still owes: `Progress` says that what a path wanted is what it has
confirmed together with what its attempt has pending, awaiting or failed, so a
path that ends with nothing left has confirmed everything, and `Evidence` that
what is confirmed has landed. `Excused` relates failures to faults: a path has
had at least as many mishaps as failed tries. `Phase` says that applications are
worked on only in a cycle that crawls, and `Reported` that the buffers hold no
record of a reported cycle, because the flush before the report ends with an
empty buffer or with no report. Steps are grouped by effect (which part of the
state they can change), and each group is shown to keep each part. `TypeOK`
needs `Bounds` beside it: the limits of tries, pages, cycles and faults.

**RateLimiter.** From `LimiterAssumption`. The level of the abstract bucket is
the code's tokens plus what has flowed in since the last refill, up to the
capacity; a tick of the clock fills it, an acquire takes one token from it, and
a refill that grants nothing changes nothing.

**CycleReports.** From `ReportsAssumption`. A verdict of "ok" rests on a chain:
the report lists the topic as confirmed, so a record of the cycle is in the log
(`CrawlInv`); a reporter that read lag zero for a topic has seen an end offset
at or above that record, and a committed offset that reached it (`LagInv`, which
leaves out the topics that are `unseen` in the reporter's poll: their lag of
zero was given for want of partitions and vouches for nothing);
offsets stay behind settled records (`StoreInv`). A dead letter of the cycle is
not dated before the cycle, so a count of zero rules it out. `FilesInv` keeps a
report in pending until it is in done, with its line.

**SentimentJob.** From `SentimentAssumption`. `OwnTexts` says that what a job
has read, and what it will write, is of a text that row has had, position by
position; that needs what a page is, the next rows in ascending order without a
gap (`PageIsNext`), and that labelling keeps positions (`LabelsAreOwn`). `Walk`
says that what a job owes is ahead of its cursor or in its hand, `Quiet` that
beside a quiet job the table is as it was read and what is behind the cursor is
labelled for the text it has. A row that appears behind the cursor was not there
when the job started, so it is not owed.

**CaptureAnalysis.** From `CaptureAssumption` (header fields are unsigned
numbers, a TCP packet holds a segment) and `SizesAssumption`, for segments in
any order and with any numbers. `CaptureIInv` has four parts per direction.
`Coverage`: the interval list is sorted, with gaps, and holds the bytes brought;
`_merge_interval` keeps it so because what it has put down lies before the
interval it still holds, and that before the rest (`Placing`). `Frontiers`: the
contiguous frontier is the first byte missing after the start of the first data,
which is what `Reach` finds in a sorted list. `Pending`: a SYN is pending if and
only if it is the oldest with its number since the last answer to it, so
`rttSamples` is the list of elapsed times of the segments that answer one, and
grows by the last of them. `Controls`: the markers are the SYNs and FINs seen. With these,
what the code asks of its lists is what `Class` asks of the bytes, and the class
of a segment never changes once it is observed (`PastKept`), so each counter is
the size of a set that grows by at most the last segment (`Counts`).

Which acknowledgements came first can only be told of numbers that are near each
other. `CountersTrue` therefore has two hypotheses: `FromStart` (the capture
shows the SYN of a direction before anything else of it) and `ShortConnection`
(bytes and acknowledgements of a direction lie within half of the sequence space
of its SYN, 2^31 bytes). Then the acknowledgement kept is the furthest one
(`Furthest`) and `_peer_has_acked_through` says what was acknowledged. Without
`FromStart` the counter of spurious retransmissions is another one
(`MidCaptureClaim`), and only what `ClassesCounted` states holds: retransmissions and
spurious ones together count every segment that resends a byte, a SYN or a FIN
once, and the other counters are what they name.

**Recursion without induction.** The provers cannot use the induction theorems of
the library, which take an operator. `SortedSetsProofs` does with least elements:
`Recursion` builds the function a recursive definition describes from a set of
functions that agree with it up to n, and a fact about every n is shown by the
least n for which it fails. From that it has what an ascending list is
(`AscendingLists`), that there is one only (`AscendingUnique`), and what a larger
element does to it (`AscendingAppend`).

**AppRegistry.** From `RegistryAssumption` and `RowAssumption`. `AgeInv` relates
a cached id to history: the time for which it has not been its name's, plus the
time it may still be used, is within the lifetime. `MentionInv` says that an id
which the admin site has not renamed is used for one name by everyone, the
table, the copies of requests, the cache and the batch; ids come from a
sequence, so that survives deletes and resurrections. `CopyInv` says that a copy
nobody has outdated is the row but for the fields given, and `WinsInv` counts
creates against the times a name was free.

**CaptureBatch.** From `BatchAssumption`. `VerdictHolds` carries the truth of an
exit code from the analyzer to the script that acts on it later; `DealtWith`
says what became of the captures a run is past; `Unconfirmed` that an unanswered
send has marked its capture as disturbed; `Alone` that a capture nobody
disturbed is in the hands of one run, with at most its one metric.

Every invariant and every action property of the passing runs is a theorem. Only
model-checked is what needs fairness (`EveryRecordHandled`, `OneEndsAllEnd`,
`SignalEndsProcess`, `EveryReplicaRuns`, `CycleEnds`, `AllServed`,
`EventuallyFiled`, `JobEnds`, `BatchSettled`), which the prover does not handle.

## Not modelled

- Heartbeat and healthcheck (`runtime/heartbeat.py`, `healthcheck.sh`): a file
  touched between batches and an age read by a script. What it says about a busy
  worker depends on sums of retry delays and poll timeouts against 120 s, and no
  module counts time that way.
- Configuration and the table of pipelines: validation without state. The limits
  enter the modules as constants.
- Field-level decoding and mapping (`core/decoders.py`,
  `crawler/data_mapper.py`): pure conversions; which messages decode is an input
  (`Decodable`).
- Play Store scraping, packet decoding (dpkt), the sentiment model: libraries,
  modelled by what the code does with their answers.
- REST presentation, lists and filters of `app_api`: they only read.
- Compose, Ansible, infrastructure scripts and docs; the restart policy enters
  the fairness.

If the project is extended: a clock for the heartbeat against the retry window,
and a bound on the ages that the delays of retries and polls add up to.
