------------------------------ MODULE Migrator ------------------------------
(***************************************************************************)
(* The start of several storage_consumer replicas against one database:     *)
(* Migrator.apply_pending, or with --skip-migrate the check of main.py, and  *)
(* then the workers.  Every statement block of the code is one transaction,  *)
(* at READ COMMITTED; a version is applied under a transaction-scoped        *)
(* advisory lock, the bookkeeping table is created without it.               *)
(***************************************************************************)
EXTENDS Naturals

CONSTANTS Replica,
          Skipping,    \* the replicas started with --skip-migrate
          Versions,    \* number of migration files, 0001 .. Versions
          Nobody

ASSUME MigratorAssumption ==
  /\ Skipping \subseteq Replica
  /\ Versions \in Nat \ {0}
  /\ Nobody \notin Replica

VARIABLES
  registry,  \* does apps_registry_application exist
  ledger,    \* does storage_consumer_migrations exist
  recorded,  \* the versions it records
  tables,    \* the versions whose tables exist
  advisory,  \* the replica holding the advisory lock
  pc,        \* per replica: where it is
  version    \* the migration its loop is at

schema == <<registry, ledger, recorded, tables>>
vars == <<schema, advisory, pc, version>>

Version == 1 .. Versions

Init ==
  /\ registry = FALSE
  /\ ledger = FALSE
  /\ recorded = {}
  /\ tables = {}
  /\ advisory = Nobody
  /\ pc = [r \in Replica |-> "down"]
  /\ version = [r \in Replica |-> 1]

Go(r, from, to) == pc[r] = from /\ pc' = [pc EXCEPT ![r] = to]

\* app_api runs Django's migrations.
DjangoMigrates ==
  /\ ~registry
  /\ registry' = TRUE
  /\ UNCHANGED <<ledger, recorded, tables, advisory, pc, version>>

-----------------------------------------------------------------------------
Start(r) ==
  /\ Go(r, "down", IF r \in Skipping THEN "preflight" ELSE "prerequisites")
  /\ version' = [version EXCEPT ![r] = 1]
  /\ UNCHANGED <<schema, advisory>>

\* A mutant: the preflight asks for the bookkeeping table only.
PreflightLedgerOnly(r) ==
  /\ Go(r, "preflight", IF ledger THEN "running" ELSE "down")
  /\ UNCHANGED <<schema, advisory, version>>

\* _check_schema: a missing table is fatal.
Preflight(r) ==
  /\ Go(r, "preflight", IF tables = Version THEN "running" ELSE "down")
  /\ UNCHANGED <<schema, advisory, version>>

\* _check_prerequisites: without the registry's table, MigrationError.
CheckPrerequisites(r) ==
  /\ Go(r, "prerequisites", IF registry THEN "ledger" ELSE "down")
  /\ UNCHANGED <<schema, advisory, version>>

\* _ensure_migrations_table: CREATE TABLE IF NOT EXISTS looks for the table ...
LookForLedger(r) ==
  /\ Go(r, "ledger", IF ledger THEN "next" ELSE "creating")
  /\ UNCHANGED <<schema, advisory, version>>

\* ... enters it in the catalogue, waiting for whoever has just done the same ...
CreateLedger(r) ==
  /\ ~ledger
  /\ \A s \in Replica : pc[s] # "created"
  /\ Go(r, "creating", "created")
  /\ UNCHANGED <<schema, advisory, version>>

\* ... and failing with a unique violation of the catalogue if they committed.
LedgerConflict(r) ==
  /\ ledger
  /\ Go(r, "creating", "down")
  /\ UNCHANGED <<schema, advisory, version>>

CommitLedger(r) ==
  /\ Go(r, "created", "next")
  /\ ledger' = TRUE
  /\ UNCHANGED <<registry, recorded, tables, advisory, version>>

-----------------------------------------------------------------------------
(* _apply_one, for each version in turn.                                     *)

\* A mutant: no advisory lock.
TakeLockUnlocked(r) ==
  /\ version[r] <= Versions
  /\ Go(r, "next", "locked")
  /\ advisory' = r
  /\ UNCHANGED <<schema, version>>

\* pg_advisory_xact_lock
TakeLock(r) ==
  /\ version[r] <= Versions
  /\ advisory = Nobody
  /\ Go(r, "next", "locked")
  /\ advisory' = r
  /\ UNCHANGED <<schema, version>>

\* A mutant: a session-level lock that the early return keeps.
SkipVersionKeepsLock(r) ==
  /\ version[r] \in recorded
  /\ Go(r, "locked", "next")
  /\ version' = [version EXCEPT ![r] = @ + 1]
  /\ UNCHANGED <<schema, advisory>>

\* The version is recorded already: the transaction ends, and with it the lock.
SkipVersion(r) ==
  /\ version[r] \in recorded
  /\ Go(r, "locked", "next")
  /\ version' = [version EXCEPT ![r] = @ + 1]
  /\ advisory' = Nobody
  /\ UNCHANGED schema

\* It is not: the file's statements, and the row that records it.
RunStatements(r) ==
  /\ version[r] \notin recorded
  /\ Go(r, "locked", "applied")
  /\ UNCHANGED <<schema, advisory, version>>

\* A mutant: the row is committed, the statements are not.
CommitRowOnly(r) ==
  /\ Go(r, "applied", "next")
  /\ recorded' = recorded \cup {version[r]}
  /\ version' = [version EXCEPT ![r] = @ + 1]
  /\ advisory' = Nobody
  /\ UNCHANGED <<registry, ledger, tables>>

CommitVersion(r) ==
  /\ Go(r, "applied", "next")
  /\ tables' = tables \cup {version[r]}
  /\ recorded' = recorded \cup {version[r]}
  /\ version' = [version EXCEPT ![r] = @ + 1]
  /\ advisory' = Nobody
  /\ UNCHANGED <<registry, ledger>>

\* Every migration is in; the workers start.
Run(r) ==
  /\ version[r] > Versions
  /\ Go(r, "next", "running")
  /\ UNCHANGED <<schema, advisory, version>>

\* A database error or the death of the process: the transaction is rolled
\* back and its lock released, and the container restarts.
Fail(r) ==
  /\ pc[r] # "down"
  /\ pc' = [pc EXCEPT ![r] = "down"]
  /\ advisory' = IF advisory = r THEN Nobody ELSE advisory
  /\ UNCHANGED <<schema, version>>

-----------------------------------------------------------------------------
Step(r) ==
  \/ Start(r) \/ Preflight(r) \/ CheckPrerequisites(r)
  \/ LookForLedger(r) \/ CreateLedger(r) \/ LedgerConflict(r) \/ CommitLedger(r)
  \/ TakeLock(r) \/ SkipVersion(r) \/ RunStatements(r) \/ CommitVersion(r)
  \/ Run(r)

Next == DjangoMigrates \/ \E r \in Replica : Step(r) \/ Fail(r)

Spec == Init /\ [][Next]_vars

\* Processes are scheduled, containers restarted, and app_api comes up.
Fairness == WF_vars(DjangoMigrates) /\ \A r \in Replica : WF_vars(Step(r))

LiveSpec == Spec /\ Fairness

-----------------------------------------------------------------------------
(* Properties.                                                              *)

\* Every variable has its type.
TypeOK ==
  /\ registry \in BOOLEAN
  /\ ledger \in BOOLEAN
  /\ recorded \subseteq Version
  /\ tables \subseteq Version
  /\ advisory \in Replica \cup {Nobody}
  /\ pc \in [Replica -> {"down", "preflight", "prerequisites", "ledger", "creating", "created",
                         "next", "locked", "applied", "running"}]
  /\ version \in [Replica -> 1 .. Versions + 1]

\* A version is recorded exactly when its tables exist, and never before the
\* versions it builds on, wherever a replica failed ("either the DDL and its
\* bookkeeping are both committed, or neither is").
RecordedIsApplied ==
  /\ recorded = tables
  /\ \A v \in recorded : 1 .. v \subseteq recorded
  /\ recorded # {} => registry /\ ledger

\* Workers run only on the complete schema, whether their replica migrated or
\* skipped it while another was still migrating.
RunningHasSchema == \A r \in Replica : pc[r] = "running" => tables = Version

\* Two replicas never both apply a version: no transaction commits one that was
\* recorded since it looked ("cannot both decide a migration is pending").
AppliedOnce ==
  [][\A r \in Replica : pc[r] = "applied" /\ pc'[r] = "next" => version[r] \notin recorded]_vars

\* Eventually nothing fails from outside: a replica that goes down does so in a
\* step of the code.
Calm == <>[][\A r \in Replica : Fail(r) => Step(r)]_vars

\* If failures cease, every replica ends up running: the advisory lock is
\* always given back, and a lost race for the bookkeeping table, a schema not
\* there yet or a registry not there yet cost no more than restarts.
EveryReplicaRuns == Calm => <>[](\A r \in Replica : pc[r] = "running")

\* The inductive invariant behind the safety properties: the lock is held by the
\* one replica inside _apply_one, what it found pending still is, and a replica's
\* loop is never past a version that is not recorded.
ReplicaInv(r) ==
  /\ pc[r] \in {"locked", "applied"} <=> advisory = r
  /\ pc[r] = "applied" => version[r] \notin recorded
  /\ pc[r] \in {"locked", "applied"} => version[r] <= Versions
  /\ pc[r] \in {"ledger", "creating", "created"} => registry
  /\ pc[r] \in {"prerequisites", "ledger", "creating", "created"} => version[r] = 1
  /\ pc[r] \in {"next", "locked", "applied"} =>
        registry /\ ledger /\ \A v \in Version : v < version[r] => v \in recorded

IInv == TypeOK /\ RecordedIsApplied /\ RunningHasSchema /\ \A r \in Replica : ReplicaInv(r)
=============================================================================
