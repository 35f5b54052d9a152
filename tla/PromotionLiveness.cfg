SPECIFICATION FairSpec
CONSTANTS
  b1 = b1  b2 = b2  p1 = p1  p2 = p2
  Builds = {b1, b2}
  SourceEnvs = {prod}
  Workers = {}
  Production = prod
  Hooked = {prod}
  NoBuild = NoBuild
  Trigger <- OldThenNew
  Horizon = 3
  Runs <- OneBuildTwoPollers
  MaxAttempts = 2
  MaxFaults = 1
  Cancellable = {b1}
  Retriable = {}
  Requests = {}
PROPERTIES EveryBuildEnds
CHECK_DEADLOCK FALSE
