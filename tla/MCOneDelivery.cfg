SPECIFICATION FairSpec
CONSTANTS
  u1 = u1
  k1 = k1
  c1 = c1
  NoKey = NoKey
  NoJob = NoJob
  User = {u1}
  OpKey = {k1}
  OwnerOf <- MCOwnerOf
  Job = {j1}
  ClientKeyOf <- NoClientKey
  Prices = {0, 1}
  Amounts = {1}
  MaxManual = 0
  Kinds = {"song", "voiced_song", "cover", "avatar", "visual_clip", "lyrics_video"}
  Outcomes = {"media", "empty", "failed", "canceled"}
  MaxRequests = 3
  Deliveries <- OneDelivery
  PollLimit = 50
  ResultErrors = TRUE
  WrappedStems = TRUE
  Refusals = TRUE
  MaxCrashes = 2
INVARIANTS
  SettledOnceUnlessCrashed
  OneProduct
PROPERTIES
  TerminalIsFinal
  RequestedJobEnds
  StartedJobEnds
  CaptureBuysProduct
CHECK_DEADLOCK FALSE
