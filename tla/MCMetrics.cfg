SPECIFICATION MSpec
CONSTANTS
  h1 = h1
  h3 = h3
  h2 = h2
  Submitters = {h1, h2, h3}
  Bounds <- MCBounds
  Values = {2, 3}
INVARIANTS
  ScrapeConsistent
  QueueDepthDrift
CHECK_DEADLOCK FALSE
SYMMETRY Symmetry
