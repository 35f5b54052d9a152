SPECIFICATION OutboxFairSpec
CONSTANTS
  m1 = m1  m2 = m2  w1 = w1  w2 = w2  p1 = p1  p2 = p2
  Rows = {m1, m2}
  NoRow = NoRow
  Corrupt = {m2}
  OutboxWorkers = {w1, w2}
  Replicas = {p1, p2}
  Home <- WorkerHome
  MaxSends = 2
  Lease = 2
  CallBound = 1
  CacheTTL = 1
  BackoffBase = 1
  BackoffMax = 2
  MaxOutboxFaults = 1
INVARIANTS OutboxTypeOK OneWorkerPerRow DuplicatesNeedAFault
PROPERTIES DeliversAtLeastOnce EveryRowSettles
CHECK_DEADLOCK FALSE
