SPECIFICATION ASpec
CONSTANTS
  h1 = h1
  h2 = h2
  d1 = d1
  d2 = d2
  Handles = {h1, h2}
  DeviceList <- MCDevices
  Total = 8
  Lengths = {1, 2}
  KVHeads = 2
  NumSlots = 2
  SlotTokens = 1
  TensorParallel = TRUE
  FailAt = {1, 2}
SYMMETRY Symmetry
INVARIANT
  FreedEverywhere
