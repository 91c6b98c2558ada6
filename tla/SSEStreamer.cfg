SPECIFICATION SSpec
CONSTANTS
  MaxEvents = 2
  Backpressure = TRUE
  MaxCalls = 4
INVARIANTS
  InOrder
  TerminalLast
PROPERTIES
  CancelEnds
  CompletedEnds
  DisconnectCancels
CHECK_DEADLOCK FALSE
