SPECIFICATION Spec
CONSTANTS
  u1 = u1
  k1 = k1
  c1 = c1
  NoKey = NoKey
  NoJob = NoJob
  User = {u1}
  OpKey = {k1}
  OwnerOf <- MCOwnerOf
  Job = {j1, j2, j3}
  ClientKeyOf <- SharedClientKey
  Prices = {1}
  Amounts = {2}
  MaxManual = 0
  Kinds = {"voice_clone", "lyrics_video"}
  Outcomes = {"media", "empty", "failed", "canceled"}
  MaxRequests = 2
  Deliveries <- PollerOnly
  PollLimit = 1
  ResultErrors = FALSE
  WrappedStems = TRUE
  Refusals = TRUE
  MaxCrashes = 1
INVARIANTS
  OneJobPerKey
PROPERTY
  WalletSpec
CHECK_DEADLOCK FALSE
