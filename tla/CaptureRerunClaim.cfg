\* One capture that is in order.
CONSTANTS
  Runs = {r1, r2}
  Captures = {good}
  BadName = {}
  Unreadable = {}
  MaxRetries = 1
  r1 = r1
  r2 = r2
  Volatile = {good}
  NoCapture = none
  Options <- MCOptions
SPECIFICATION Spec
INVARIANTS
  SuccessLeavesInbox
CHECK_DEADLOCK FALSE
