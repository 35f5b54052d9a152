SPECIFICATION Spec
CONSTANTS
  b1 = b1  b2 = b2  p1 = p1  p2 = p2
  Builds = {b1}
  SourceEnvs = {prod, staging}
  Workers = {worker}
  Production = prod
  Hooked = {prod, staging}
  NoBuild = NoBuild
  Trigger <- JustOne
  Horizon = 2
  Runs <- OneBuildOnePoller
  MaxAttempts = 2
  MaxFaults = 1
  Cancellable = {b1}
  Retriable = {b1}
  Requests = {k1}
INVARIANTS HookedRunsReleased WorkerRunsReleased
CHECK_DEADLOCK FALSE
