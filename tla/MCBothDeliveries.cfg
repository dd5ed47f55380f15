SPECIFICATION FairSpec
CONSTANTS
  u1 = u1
  k1 = k1
  c1 = c1
  NoKey = NoKey
  NoJob = NoJob
  User = {u1}
  OpKey = {k1}
  OwnerOf <- MCOwnerOf
  Job = {j1}
  ClientKeyOf <- NoClientKey
  Prices = {1}
  Amounts = {1}
  MaxManual = 0
  Kinds = {"song", "cover", "avatar"}
  Outcomes = {"media", "failed"}
  MaxRequests = 2
  Deliveries <- BothDeliveries
  PollLimit = 50
  ResultErrors = TRUE
  WrappedStems = TRUE
  Refusals = TRUE
  MaxCrashes = 1
INVARIANTS
  TableTypeOK
  PipelineTypeOK
  CompletedIsCaptured
  FailedIsReleased
PROPERTIES
  RequestedJobEnds
  CaptureBuysProduct
CHECK_DEADLOCK FALSE
