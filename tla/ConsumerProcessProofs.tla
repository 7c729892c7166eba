----------------------- MODULE ConsumerProcessProofs -----------------------
(***************************************************************************)
(* Theorems about a storage_consumer process before and around its          *)
(* pipelines: Migrator, for any number of replicas and migration files, and *)
(* Supervisor, for any number of pipelines and signals.                     *)
(***************************************************************************)
EXTENDS Migrator, Supervisor, TLAPS

-----------------------------------------------------------------------------
(* Migrator *)

USE MigratorAssumption DEF schema, vars, Version

LEMMA InitIInv == Init => IInv
  <1> SUFFICES ASSUME Init PROVE IInv
    OBVIOUS
  <1>1. TypeOK
    <2>1. 1 \in 1 .. Versions + 1
      OBVIOUS
    <2>2. version \in [Replica -> 1 .. Versions + 1]
      BY <2>1 DEF Init
    <2>3. pc \in [Replica -> {"down", "preflight", "prerequisites", "ledger", "creating", "created",
                             "next", "locked", "applied", "running"}]
      BY DEF Init
    <2> QED BY <2>2, <2>3 DEF Init, TypeOK
  <1>2. RecordedIsApplied
    BY DEF Init, RecordedIsApplied
  <1>3. RunningHasSchema
    BY DEF Init, RunningHasSchema
  <1>4. ASSUME NEW r \in Replica PROVE ReplicaInv(r)
    BY DEF Init, ReplicaInv
  <1> QED BY <1>1, <1>2, <1>3, <1>4 DEF IInv

LEMMA TypeStep ==
  ASSUME IInv, [Next]_vars
  PROVE  TypeOK'
  <1> USE DEF IInv, TypeOK, Go
  <1>1. CASE UNCHANGED vars \/ DjangoMigrates
    BY <1>1 DEF DjangoMigrates
  <1>2. ASSUME NEW r \in Replica, Step(r) \/ Fail(r)
        PROVE  TypeOK'
    <2>0. CASE Start(r)
      <3>1. pc' \in [Replica -> {"down", "preflight", "prerequisites", "ledger", "creating",
                                 "created", "next", "locked", "applied", "running"}]
        BY <2>0 DEF Start
      <3>2. 1 \in 1 .. Versions + 1
        OBVIOUS
      <3>3. version' \in [Replica -> 1 .. Versions + 1]
        BY <2>0, <3>2 DEF Start
      <3> QED BY <2>0, <3>1, <3>3 DEF Start
    <2>1. CASE \/ Preflight(r) \/ CheckPrerequisites(r) \/ LookForLedger(r)
               \/ CreateLedger(r) \/ LedgerConflict(r) \/ CommitLedger(r)
      BY <2>1 DEF Preflight, CheckPrerequisites, LookForLedger, CreateLedger,
                  LedgerConflict, CommitLedger
    <2>2. CASE TakeLock(r) \/ RunStatements(r) \/ Run(r) \/ Fail(r)
      BY <2>2 DEF TakeLock, RunStatements, Run, Fail
    <2>3. CASE SkipVersion(r) \/ CommitVersion(r)
      <3>1. version[r] <= Versions
        BY <2>3 DEF SkipVersion, CommitVersion, ReplicaInv
      <3>2. version[r] + 1 \in 1 .. Versions + 1 /\ version[r] \in 1 .. Versions
        BY <3>1
      <3>3. version' \in [Replica -> 1 .. Versions + 1]
        BY <2>3, <3>2 DEF SkipVersion, CommitVersion
      <3>4. pc' \in [Replica -> {"down", "preflight", "prerequisites", "ledger", "creating",
                                 "created", "next", "locked", "applied", "running"}]
        BY <2>3 DEF SkipVersion, CommitVersion
      <3> QED BY <2>3, <3>2, <3>3, <3>4 DEF SkipVersion, CommitVersion
    <2> QED BY <1>2, <2>0, <2>1, <2>2, <2>3 DEF Step
  <1> QED BY <1>1, <1>2 DEF Next

\* What a step may do to the schema: it stays, the registry or the ledger is
\* created, or the holder of the lock adds the next version.
LEMMA SchemaStep ==
  ASSUME IInv, [Next]_vars
  PROVE  \/ /\ UNCHANGED <<recorded, tables>>
            /\ registry => registry'
            /\ ledger => ledger'
         \/ \E r \in Replica : CommitVersion(r)
  <1>1. CASE UNCHANGED vars \/ DjangoMigrates
    BY <1>1 DEF DjangoMigrates
  <1>2. CASE \E r \in Replica : Fail(r)
    BY <1>2 DEF Fail
  <1>3. CASE \E r \in Replica : \/ Start(r) \/ Preflight(r) \/ CheckPrerequisites(r)
                                \/ LookForLedger(r) \/ CreateLedger(r) \/ LedgerConflict(r)
                                \/ CommitLedger(r) \/ TakeLock(r) \/ SkipVersion(r)
                                \/ RunStatements(r) \/ Run(r)
    BY <1>3 DEF Start, Preflight, CheckPrerequisites, LookForLedger, CreateLedger,
                LedgerConflict, CommitLedger, TakeLock, SkipVersion, RunStatements, Run
  <1> QED BY <1>1, <1>2, <1>3 DEF Next, Step

\* The committed version is the next one.
LEMMA CommitStep ==
  ASSUME IInv, NEW r \in Replica, CommitVersion(r)
  PROVE  /\ version[r] \in Version /\ version[r] \notin recorded
         /\ recorded' = recorded \cup {version[r]} /\ tables' = tables \cup {version[r]}
         /\ \A v \in Version : v < version[r] => v \in recorded
         /\ registry /\ ledger /\ UNCHANGED <<registry, ledger>>
  BY DEF IInv, TypeOK, ReplicaInv, CommitVersion, Go

LEMMA RecordedStep ==
  ASSUME IInv, [Next]_vars
  PROVE  RecordedIsApplied'
  <1>1. RecordedIsApplied /\ TypeOK
    BY DEF IInv
  <1>2. CASE UNCHANGED <<recorded, tables>> /\ (registry => registry') /\ (ledger => ledger')
    BY <1>1, <1>2 DEF RecordedIsApplied
  <1>3. ASSUME NEW r \in Replica, CommitVersion(r)
        PROVE  RecordedIsApplied'
    <2>1. ASSUME NEW v \in recorded', NEW u \in 1 .. v
          PROVE  u \in recorded'
      <3>1. CASE v \in recorded
        BY <1>1, <1>3, <3>1, <2>1, CommitStep DEF RecordedIsApplied
      <3>2. CASE v = version[r]
        BY <1>3, <3>2, <2>1, CommitStep
      <3> QED BY <1>3, <2>1, <3>1, <3>2, CommitStep
    <2> QED BY <1>1, <1>3, <2>1, CommitStep DEF RecordedIsApplied
  <1> QED BY <1>2, <1>3, SchemaStep

LEMMA RunningStep ==
  ASSUME IInv, [Next]_vars
  PROVE  RunningHasSchema'
  <1>1. RecordedIsApplied /\ RunningHasSchema /\ TypeOK /\ TypeOK'
    BY TypeStep DEF IInv
  <1>2. SUFFICES ASSUME NEW r \in Replica, pc'[r] = "running"
                 PROVE  tables' = Version
    BY DEF RunningHasSchema
  <1>3. tables \subseteq tables'
    BY SchemaStep, CommitStep
  <1>4. CASE pc[r] = "running"
    BY <1>1, <1>3, <1>4 DEF RunningHasSchema, TypeOK
  <1>5. CASE pc[r] # "running"
    <2>1. Preflight(r) \/ Run(r)
      BY <1>1, <1>2, <1>5
      DEF Next, Step, TypeOK, Go, DjangoMigrates, Start, Preflight, CheckPrerequisites,
          LookForLedger, CreateLedger, LedgerConflict, CommitLedger, TakeLock, SkipVersion,
          RunStatements, CommitVersion, Run, Fail
    <2>2. CASE Preflight(r)
      BY <1>1, <1>2, <2>2 DEF Preflight, Go, TypeOK
    <2>3. CASE Run(r)
      <3>1. \A v \in Version : v < version[r] => v \in recorded
        BY <2>3 DEF Run, Go, IInv, ReplicaInv
      <3>2. \A v \in Version : v < version[r]
        BY <1>1, <2>3 DEF Run, TypeOK
      <3>3. recorded = Version
        BY <1>1, <3>1, <3>2 DEF TypeOK
      <3> QED BY <1>1, <2>3, <3>3 DEF Run, RecordedIsApplied
    <2> QED BY <2>1, <2>2, <2>3
  <1> QED BY <1>4, <1>5

LEMMA ReplicaStep ==
  ASSUME IInv, [Next]_vars, NEW r \in Replica
  PROVE  ReplicaInv(r)'
  <1> USE DEF IInv, TypeOK, Go
  <1>1. ReplicaInv(r) /\ recorded \subseteq recorded' /\ (registry => registry') /\ (ledger => ledger')
    BY SchemaStep, CommitStep
  <1>2. CASE UNCHANGED vars \/ DjangoMigrates
    BY <1>1, <1>2 DEF ReplicaInv, DjangoMigrates
  <1>3. ASSUME NEW s \in Replica, Step(s) \/ Fail(s)
        PROVE  ReplicaInv(r)'
    <2>1. CASE s # r
      <3>1. pc'[r] = pc[r] /\ version'[r] = version[r]
        BY <1>3, <2>1
        DEF Step, Start, Preflight, CheckPrerequisites, LookForLedger, CreateLedger,
            LedgerConflict, CommitLedger, TakeLock, SkipVersion, RunStatements,
            CommitVersion, Run, Fail
      <3>2. advisory' = r <=> advisory = r
        BY <1>3, <2>1
        DEF Step, Start, Preflight, CheckPrerequisites, LookForLedger, CreateLedger,
            LedgerConflict, CommitLedger, TakeLock, SkipVersion, RunStatements,
            CommitVersion, Run, Fail, ReplicaInv
      <3>3. CASE UNCHANGED recorded
        BY <1>1, <3>1, <3>2, <3>3 DEF ReplicaInv
      <3>4. CASE CommitVersion(s)
        <4>1. pc[r] # "applied"
          BY <2>1, <3>4 DEF CommitVersion, ReplicaInv
        <4> QED BY <1>1, <3>1, <3>2, <4>1 DEF ReplicaInv
      <3> QED BY <1>3, <3>3, <3>4
              DEF Step, Start, Preflight, CheckPrerequisites, LookForLedger, CreateLedger,
                  LedgerConflict, CommitLedger, TakeLock, SkipVersion, RunStatements, Run, Fail
    <2>2. CASE s = r /\ (Start(r) \/ Preflight(r) \/ CheckPrerequisites(r) \/ Run(r) \/ Fail(r))
      BY <1>1, <2>2 DEF ReplicaInv, Start, Preflight, CheckPrerequisites, Run, Fail
    <2>3. CASE s = r /\ (LookForLedger(r) \/ CreateLedger(r) \/ LedgerConflict(r) \/ CommitLedger(r))
      <3>1. CASE (LookForLedger(r) /\ pc'[r] = "next") \/ CommitLedger(r)
        <4>1. registry' /\ ledger' /\ pc'[r] = "next" /\ UNCHANGED <<version, recorded, advisory>>
          BY <3>1 DEF LookForLedger, CommitLedger, ReplicaInv
        <4>2. advisory # r
          BY <1>1, <3>1 DEF LookForLedger, CommitLedger, ReplicaInv
        <4>3. \A v \in Version : v < version[r] => v \in recorded
          BY <3>1 DEF LookForLedger, CommitLedger, ReplicaInv
        <4> QED BY <4>1, <4>2, <4>3 DEF ReplicaInv
      <3>2. CASE \/ LookForLedger(r) /\ pc'[r] # "next"
                 \/ CreateLedger(r) \/ LedgerConflict(r)
        BY <1>1, <3>2 DEF ReplicaInv, LookForLedger, CreateLedger, LedgerConflict
      <3> QED BY <2>3, <3>1, <3>2
    <2>4. CASE s = r /\ (TakeLock(r) \/ RunStatements(r))
      BY <1>1, <2>4 DEF ReplicaInv, TakeLock, RunStatements
    <2>5. CASE s = r /\ (SkipVersion(r) \/ CommitVersion(r))
      BY <1>1, <2>5 DEF ReplicaInv, SkipVersion, CommitVersion
    <2> QED BY <1>3, <2>1, <2>2, <2>3, <2>4, <2>5 DEF Step
  <1> QED BY <1>2, <1>3 DEF Next

\* IInv holds in every reachable state, however many replicas start, fail and
\* restart at once.
THEOREM Invariance == Spec => []IInv
  <1>1. IInv /\ [Next]_vars => IInv'
    BY TypeStep, RecordedStep, RunningStep, ReplicaStep DEF IInv
  <1> QED BY InitIInv, <1>1, PTL DEF Spec

\* A version is recorded exactly when its tables exist, and in order.
THEOREM RecordedCorrect == Spec => []RecordedIsApplied
  <1>1. IInv => RecordedIsApplied
    BY DEF IInv
  <1> QED BY <1>1, Invariance, PTL

\* No worker runs on an incomplete schema.
THEOREM SchemaBeforeWorkers == Spec => []RunningHasSchema
  <1>1. IInv => RunningHasSchema
    BY DEF IInv
  <1> QED BY <1>1, Invariance, PTL

\* The advisory lock keeps two replicas from applying one version.
THEOREM NeverAppliedTwice == Spec => AppliedOnce
  <1>1. IInv /\ [Next]_vars =>
          [\A r \in Replica : pc[r] = "applied" /\ pc'[r] = "next" => version[r] \notin recorded]_vars
    BY DEF IInv, ReplicaInv
  <1> QED BY <1>1, Invariance, PTL DEF Spec, AppliedOnce

-----------------------------------------------------------------------------
(* Supervisor *)

HIDE MigratorAssumption DEF schema, vars, Version
USE CountsAssumption DEF processVars, Pipeline

PlaceOfThread ==
  {"new", "build", "poll", "write", "close", "notify", "setting", "ended"}

LEMMA ProcessInitially == ProcessInit => ProcessInv
  <1> SUFFICES ASSUME ProcessInit PROVE ProcessInv
    OBVIOUS
  <1>1. thread \in [Pipeline -> PlaceOfThread]
    BY DEF ProcessInit, PlaceOfThread
  <1>2. 1 \in 1 .. Pipelines + 1 /\ 0 \in 0 .. MaxSignals
    OBVIOUS
  <1>3. ProcessTypeOK
    BY <1>1, <1>2 DEF ProcessInit, ProcessTypeOK, PlaceOfThread
  <1> QED BY <1>3 DEF ProcessInit, ProcessInv

\* The main thread and the handler frames on top of it.
LEMMA MainKeepsInv ==
  ASSUME ProcessInv, MainStep \/ StartFails \/ JoinTimesOut \/ Deliver
  PROVE  ProcessInv'
  <1> USE DEF ProcessInv, ProcessTypeOK
  <1>1. CASE StartThread
    <2>1. next + 1 \in 1 .. Pipelines + 1 /\ main' = "start"
      BY <1>1 DEF StartThread
    <2>2. thread' \in [Pipeline -> PlaceOfThread]
      BY <1>1 DEF StartThread, PlaceOfThread
    <2> QED BY <1>1, <2>1, <2>2 DEF StartThread, PlaceOfThread
  <1>2. CASE StartFails
    BY <1>2 DEF StartFails
  <1>3. CASE EnterWait
    BY <1>3 DEF EnterWait
  <1>4. CASE CheckFlag
    <2>1. next' = 1 /\ 1 \in 1 .. Pipelines + 1 /\ main' \in {"join", "waiting"}
      BY <1>4 DEF CheckFlag
    <2> QED BY <1>4, <2>1 DEF CheckFlag
  <1>5. CASE Wake
    BY <1>5 DEF Wake
  <1>6. CASE LeaveWait
    <2>1. \A p \in Pipeline : p < next => FALSE
      BY <1>6 DEF LeaveWait
    <2> QED BY <1>6, <2>1 DEF LeaveWait
  <1>7. CASE Join
    BY <1>7 DEF Join
  <1>8. CASE JoinTimesOut
    BY <1>8 DEF JoinTimesOut
  <1>9. CASE Return
    <2>1. next = Pipelines + 1 /\ code' \in {0, 1} /\ (broken # {} <=> code' = 1)
      BY <1>9 DEF Return
    <2> QED BY <1>9, <2>1 DEF Return
  <1>10. CASE Deliver
    BY <1>10 DEF Deliver
  <1>11. CASE HandlerLocks
    BY <1>11 DEF HandlerLocks
  <1>12. CASE HandlerSets
    BY <1>12 DEF HandlerSets
  <1> QED BY <1>1, <1>2, <1>3, <1>4, <1>5, <1>6, <1>7, <1>8, <1>9, <1>10, <1>11, <1>12
          DEF MainStep

\* A pipeline's thread, which has not ended and never un-ends another.
LEMMA ThreadKeepsInv ==
  ASSUME ProcessInv, NEW p \in Pipeline,
         ThreadStep(p) \/ Poll(p) \/ BuildFails(p) \/ WorkerFails(p)
  PROVE  ProcessInv'
  <1> USE DEF ProcessInv, ProcessTypeOK, Moves
  <1>1. /\ thread[p] # "ended"
        /\ UNCHANGED <<main, next, handler, signals, late, code>>
        /\ thread' \in [Pipeline -> PlaceOfThread]
        /\ \A q \in Pipeline : q # p => thread'[q] = thread[q]
        /\ stop' \in BOOLEAN /\ lock' \in {"free", "main", "pipeline"}
        /\ \/ failed' = failed /\ broken' = broken
           \/ failed' = TRUE /\ broken' = broken \cup {p}
    <2> USE DEF PlaceOfThread
    <2>1. CASE Build(p) \/ CommitBatch(p)
      BY <2>1 DEF Build, CommitBatch
    <2>2. CASE WorkerStops(p) \/ CloseWorker(p) \/ Poll(p)
      BY <2>2 DEF WorkerStops, CloseWorker, Poll
    <2>3. CASE Notify(p)
      BY <2>3 DEF Notify
    <2>4. CASE SetStop(p)
      BY <2>4 DEF SetStop
    <2>5. CASE BuildFails(p) \/ WorkerFails(p)
      BY <2>5 DEF BuildFails, WorkerFails
    <2> QED BY <2>1, <2>2, <2>3, <2>4, <2>5 DEF ThreadStep
  <1>2. \A q \in Pipeline : thread[q] = "ended" => thread'[q] = "ended"
    BY <1>1
  <1>3. broken' \subseteq Pipeline /\ failed' \in BOOLEAN
    BY <1>1
  <1>4. failed' <=> broken' # {}
    BY <1>1
  <1>5. ~ (main = "done" /\ late = {})
    <2> SUFFICES ASSUME main = "done", late = {} PROVE FALSE
      OBVIOUS
    <2>1. p < next
      OBVIOUS
    <2> QED BY <1>1, <2>1
  <1> QED BY <1>1, <1>2, <1>3, <1>4, <1>5 DEF PlaceOfThread

\* ProcessInv holds in every reachable state, for any number of pipelines and signals.
THEOREM ProcessInvariance == ProcessSpec => []ProcessInv
  <1>1. ProcessInv /\ [ProcessNext]_processVars => ProcessInv'
    <2>1. CASE UNCHANGED processVars
      BY <2>1 DEF ProcessInv, ProcessTypeOK
    <2> QED BY <2>1, MainKeepsInv, ThreadKeepsInv DEF ProcessNext
  <1> QED BY ProcessInitially, <1>1, PTL DEF ProcessSpec

\* A return without a join timeout is a clean one: every pipeline has ended and
\* the exit code tells whether one failed.
THEOREM ReturnsClean == ProcessSpec => []CleanReturn
  <1>1. ProcessInv => CleanReturn
    BY DEF ProcessInv, CleanReturn, ProcessTypeOK
  <1> QED BY <1>1, ProcessInvariance, PTL
=============================================================================
