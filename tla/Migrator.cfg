\* Two replicas that migrate and one that skips it, two migration files.
SPECIFICATION LiveSpec
CONSTANTS
  Replica = {r1, r2, r3}
  Skipping = {r3}
  Versions = 2
  Nobody = nobody
INVARIANTS
  RecordedIsApplied
  RunningHasSchema
PROPERTIES
  AppliedOnce
  EveryReplicaRuns
