SPECIFICATION ASpec
CONSTANTS
  h1 = h1
  h2 = h2
  h3 = h3
  h4 = h4
  d1 = d1
  d2 = d2
  Handles = {h1, h2, h3, h4}
  DeviceList <- MCDevices
  Total = 8
  Lengths = {1, 2}
  KVHeads = 2
  NumSlots = 2
  SlotTokens = 1
  TensorParallel = TRUE
  FailAt = {1, 2}
SYMMETRY Symmetry
INVARIANTS
  Conservation
  NoCacheLeak
  NoOvercommit
  SlotsConsistent
  SlotsExclusive
