SPECIFICATION SumFairSpec
CONSTANTS
  r1 = r1 l1 = l1 i1 = i1 t1 = t1 s1 = s1
  Runners <- OneRunner
  MaxJobs = 3  MaxCancels = 2  MaxFaults = 2
  Ids = {i1}  Targets = {t1}  NoTarget = NoTarget  Managers = {s1}
  MaxConcurrent = 1  InvestigateTimeout = 1  IdleTTL = 1  MaxApprovals = 2
  Full = 2  Leaders = {l1}  Activator = Activator  MaxFlips = 1
INVARIANTS TypeOK RunnerDeletesOnlyFailed ScaleTypeOK
PROPERTIES HookIsHonest EveryRunReturns AgentPhasesEnd RequestsAreServed OptedOutWakes
CHECK_DEADLOCK FALSE
