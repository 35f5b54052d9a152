SPECIFICATION SumFairSpec
CONSTANTS
  JobTTL = 4  MaxOutage = 1  LostAfter = 1  MaxExecutions = 2
  Repos = {r1}
  MaxEvents = 3  MaxHeads = 2  MaxMishaps = 1
INVARIANTS CommandRunsOnce RunOutcomeIsTheJobs PreviewTypeOK
PROPERTIES EveryRunEnds ClosedPreviewsGo OpenPreviewShowsHead LateDeliveryDoesNotRebuild
CHECK_DEADLOCK FALSE
