CONSTANTS
  Runs = {r1, r2}
  Captures = {good, noise, misnamed}
  BadName = {misnamed}
  Unreadable = {noise}
  MaxRetries = 1
  r1 = r1
  r2 = r2
  Volatile = {good}
  NoCapture = none
  Options <- MCOptions
SPECIFICATION Spec
INVARIANTS
  ProcessedIsPublished
  GoodNotQuarantined
  AnalyzedOnceIfUndisturbed
CHECK_DEADLOCK FALSE
