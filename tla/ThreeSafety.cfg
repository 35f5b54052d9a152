SPECIFICATION SumSpec
CONSTANTS
  a1 = a1  b1 = b1  b2 = b2
  Builds = {a1, b1, b2}
  Service <- ServiceOf
  Commit <- OneCommit
  Scope <- OneBranch
  Age <- Order
  Gated = {a1, b1, b2}
  Scanned = {b1}
  CIGated = {b1}
  Cancellable = {b1}
  Fragile = {b1}
  MaxFaults = 1
  i1 = i1  i2 = i2  t1 = t1  t2 = t2  s1 = s1
  Ids = {i1, i2}  Targets = {t1, t2}  NoTarget = NoTarget  Managers = {s1}
  MaxConcurrent = 1  InvestigateTimeout = 0  IdleTTL = 0  MaxApprovals = 1
  v1 = v1  v2 = v2  v3 = v3
  Images = {v1, v2, v3}  NoImage = NoImage  Sweepers = {s1}
  Digest <- OneAndTwoShare
  BuiltAs <- OneThenTwo
  Keep = 1  MaxPushes = 1  MaxMisses = 1
INVARIANTS TypeOK OneOpenPerTarget InvestigationsKeepTheCap ImageTypeOK
PROPERTIES AtomicWave SteadyImagesStay
CHECK_DEADLOCK FALSE
