SPECIFICATION PSpec
CONSTANTS
  s1 = s1
  s2 = s2
  Signals = {s1, s2}
  MaxHandlers = 2
INVARIANTS
  PartsOutliveUsers
  ExitFaithful
PROPERTY
  ShutdownCompletes
CHECK_DEADLOCK FALSE
