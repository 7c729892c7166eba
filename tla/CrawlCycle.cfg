SPECIFICATION FairSpec
CONSTANTS
  App = {messenger, maps}
  MaxWorkers = 2
  ReviewCount = 2
  PageSize = 1
  MaxRetries = 1
  MaxCycles = 2
  MaxFaults = 2
INVARIANTS
  OkMeansLanded
  ConfirmedNotResent
  FailedForItsOwnReason
  ReportAfterLastRecord
PROPERTIES
  CycleEnds
CHECK_DEADLOCK FALSE
