SPECIFICATION HSpec
CONSTANTS
  s1 = s1
  n1 = n1
  Requests = {s1, n1}
  Streaming = {s1}
  NoRequest = NoRequest
  MaxQueueSize = 1
  MaxActive = 2
  MaxTokens = 2
  InputLen = 0
  Timeouts = {}
  Spread = {s1}
  HandlerTimeouts = TRUE
  MaxSize = 1
INVARIANTS
  StreamAccounts
  ResponseFaithful
  NoOrphan
PROPERTIES
  Safety
  HandlerEnds
CHECK_DEADLOCK FALSE
