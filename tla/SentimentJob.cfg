SPECIFICATION FairSpec
CONSTANTS
  Job = {first, second}
  Text = {praise, spaces}
  Blank = {spaces}
  LastId = 3
  BatchSize = 2
  MaxChanges = 1
  MaxFaults = 1
INVARIANTS
  LabelOfSomeText
  QuietRunFresh
  WalkMissesNothing
PROPERTIES
  JobEnds
CHECK_DEADLOCK FALSE
