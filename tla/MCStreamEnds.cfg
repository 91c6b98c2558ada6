SPECIFICATION HSafety
CONSTANTS
  s1 = s1
  n1 = n1
  Requests = {s1, n1}
  Streaming = {s1}
  NoRequest = NoRequest
  MaxQueueSize = 1
  MaxActive = 1
  MaxTokens = 1
  InputLen = 0
  Timeouts = {}
  Spread = {}
  HandlerTimeouts = FALSE
  MaxSize = 3
INVARIANT
  StreamEndsWithDone
CHECK_DEADLOCK FALSE
