\* A pipeline that is joined too late.
SPECIFICATION ProcessSpec
CONSTANTS
  Pipelines = 2
  MaxSignals = 2
INVARIANTS
  FailureTold
CHECK_DEADLOCK FALSE
