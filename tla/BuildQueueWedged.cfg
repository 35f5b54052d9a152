SPECIFICATION QueueFairSpec
CONSTANTS
  a1 = a1  a2 = a2  b1 = b1
  QueueBuilds = {a1, a2, b1}
  Service <- ServiceOf
  Age <- Order
  Cap = 1
  CIGated = {}
  QueueCancellable = {a2}
  ReadsFail = FALSE
PROPERTIES ActiveBuildsEnd
CHECK_DEADLOCK FALSE
