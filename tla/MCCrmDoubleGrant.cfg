SPECIFICATION Spec
CONSTANTS
  ua = ua
  ub = ub
  c1 = c1
  r1 = r1
  r2 = r2
  r3 = r3
  r4 = r4
  e1 = e1
  e2 = e2
  e3 = e3
  e4 = e4
  e5 = e5
  g1 = g1
  NoUser = NoUser
  None = None
  User = {ua, ub}
  Job = {}
  OwnerOf <- NoJobs
  OpKey <- BillingKey
  Prices = {0}
  Amounts = {1}
  MaxManual = 9
  Handler = {1, 2}
  Ref = {c1, r1, r2, r3, r4, e1, e2, e3, e4, e5, g1}
  StoreTx <- Receipts
  AdaptyEvent <- Events
  CrmGrant <- CrmGrants1
  TrustXcodeCerts = FALSE
  FallbackCoins = 1
  Now = 1
  ManualCoins = 1
  OverlapCrm = TRUE
  Notes = {"DID_RENEW", "REFUND", "EXPIRED"}
  Workloads <- CrmLoads
  MaxAborts = 0
PROPERTY
  RepeatedGrantIsHarmless
CHECK_DEADLOCK FALSE
