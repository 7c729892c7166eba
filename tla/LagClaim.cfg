\* One reporter and one cycle: a topic whose partitions are not known.
SPECIFICATION Spec
CONSTANTS
  Topic = {stats, reviews}
  Reporter = {loop}
  OneShot = {}
  Impatient = {}
  MaxCycles = 1
  MaxFaults = 1
INVARIANTS
  OkMeansCaughtUp
CHECK_DEADLOCK FALSE
