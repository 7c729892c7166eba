\* A loop and a one-shot run on the host, two topics, two cycles.
SPECIFICATION FairSpec
CONSTANTS
  Topic = {stats, reviews}
  Reporter = {loop, host}
  OneShot = {host}
  Impatient = {host}
  MaxCycles = 2
  MaxFaults = 1
INVARIANTS
  ReportKept
  OkMeansStored
PROPERTIES
  EventuallyFiled
CHECK_DEADLOCK FALSE
