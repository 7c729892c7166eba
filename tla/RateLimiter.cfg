SPECIFICATION LimiterFairSpec
CONSTANTS
  Worker = {w1, w2, w3}
  Burst = 3
  TokenTicks = 3
  MaxJitter = 2
  Requests = 3
PROPERTIES
  NeverAboveRate
  AllServed
CHECK_DEADLOCK FALSE
