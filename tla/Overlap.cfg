SPECIFICATION SumSpec
CONSTANTS
  b1 = b1  b2 = b2  p1 = p1  p2 = p2
  Builds = {b1, b2}
  SourceEnvs = {prod}
  Workers = {}
  Production = prod
  Hooked = {}
  NoBuild = NoBuild
  Trigger <- Triggers13
  Horizon = 4
  Runs <- OnePoller
  MaxAttempts = 2
  MaxFaults = 1
  Cancellable = {}
  Retriable = {}
  Requests = {k1}
  a1 = a1  a2 = a2  a3 = a3
  QueueBuilds = {a1, a2, a3}
  Service <- OneService
  Age <- InTurn
  Cap = 2
  CIGated = {a2}
  QueueCancellable = {a1}
  ReadsFail = TRUE
INVARIANTS TypeOK SameDoorExcludes FirstClickRunsFirst
PROPERTIES LastTriggerWins SucceededIsDeployed
CHECK_DEADLOCK FALSE
