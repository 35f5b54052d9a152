SPECIFICATION FairSpec
CONSTANTS
  a1 = a1  b1 = b1  b2 = b2
  Builds = {a1, b1}
  Service <- ServiceOf
  Commit <- OneCommit
  Scope <- OneBranch
  Age <- Order
  Gated = {a1, b1}
  Scanned = {b1}
  CIGated = {b1}
  Cancellable = {a1}
  Fragile = {a1, b1}
  MaxFaults = 1
PROPERTIES GreenBuildsEnd GreenWaveGoesOut
CHECK_DEADLOCK FALSE
