SPECIFICATION QueueSpec
CONSTANTS
  a1 = a1  a2 = a2  b1 = b1
  QueueBuilds = {a1, a2}
  Service <- ServiceOf
  Age <- Order
  Cap = 2
  CIGated = {a1, a2}
  QueueCancellable = {}
  ReadsFail = FALSE
INVARIANTS OneBuildPerService
CHECK_DEADLOCK FALSE
