SPECIFICATION Safety
CONSTANTS
  r1 = r1
  r2 = r2
  Requests = {r1, r2}
  NoRequest = NoRequest
  MaxQueueSize = 1
  MaxActive = 1
  MaxTokens = 1
  InputLen = 1
  Timeouts = {"queue", "decode"}
  Spread = {}
  MaxSize = 1
SYMMETRY Symmetry
INVARIANT
  ActiveGaugeExact
