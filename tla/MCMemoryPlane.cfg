SPECIFICATION MSpec
CONSTANTS
  d1 = d1
  d2 = d2
  r1 = r1
  r2 = r2
  r3 = r3
  r4 = r4
  NoRequest = NoRequest
  Requests = {r1, r2, r3, r4}
  DeviceList <- MCDevices
  SeqLen <- MCSeqLen
  KVHeads = 2
  Budget = 6
  TPThreshold = 2
  Word = 32
  FailAt = {1, 2}
SYMMETRY Symmetry
CHECK_DEADLOCK FALSE
INVARIANTS
  BudgetExact
  UsedWithinTotal
  EndedSettled
