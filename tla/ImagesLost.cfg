SPECIFICATION ImageSpec
CONSTANTS
  v1 = v1  v2 = v2  v3 = v3
  Images = {v1, v2, v3}  NoImage = NoImage  Sweepers = {s1}
  Digest <- OneAndTwoShare
  BuiltAs <- OneThenTwo
  Keep = 1  MaxPushes = 1  MaxMisses = 0
INVARIANT RollbackDepth
CHECK_DEADLOCK FALSE
