SPECIFICATION Spec
CONSTANTS
  u1 = u1
  k1 = k1
  c1 = c1
  NoKey = NoKey
  NoJob = NoJob
  User = {u1}
  OpKey = {k1}
  OwnerOf <- MCOwnerOf
  Job = {j1}
  ClientKeyOf <- NoClientKey
  Prices = {1}
  Amounts = {1}
  MaxManual = 0
  Kinds = {"song"}
  Outcomes = {"media", "failed"}
  MaxRequests = 2
  Deliveries <- BothDeliveries
  PollLimit = 50
  ResultErrors = FALSE
  WrappedStems = TRUE
  Refusals = FALSE
  MaxCrashes = 0
INVARIANT
  CompletedNotRefunded
CHECK_DEADLOCK FALSE
