SPECIFICATION FairSpec
CONSTANTS
  Request = {r1, r2}
  Package = {chat, maps}
  NoRow = NoRow
  Ttl = 2
  LastId = 3
  MaxRequests = 3
  MaxAdmin = 1
INVARIANTS
  OneCreateWins
PROPERTIES
  UndisturbedSaveKeepsRest
  IdNotOlderThanTtl
  NeverMisfiled
  BatchSettled
CHECK_DEADLOCK FALSE
