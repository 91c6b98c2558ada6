SPECIFICATION Spec
CONSTANTS
  r1 = r1
  r2 = r2
  Requests = {r1, r2}
  NoRequest = NoRequest
  MaxQueueSize = 1
  MaxActive = 1
  MaxTokens = 1
  InputLen = 1
  Timeouts = {"request"}
  Spread = {r2}
  MaxSize = 1
INVARIANTS
  TypeOK
  HeldOnce
  StateMatchesPlace
  KVOwnership
  KVWithinAllocation
  ActiveBound
  RegistryExact
  StreamWellFormed
  CountersExact
PROPERTIES
  ServesInOrder
  AcceptedEnds
  StopReturns
  FinishedReleases
