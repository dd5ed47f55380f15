SPECIFICATION Spec
CONSTANTS
  None = None
  d1 = d1
  s1 = s1
  s2 = s2
  o1 = o1
  j1 = j1
  p1 = p1
  p2 = p2
  User = {1, 2, 3, 4}
  Token = {1, 2, 3, 4}
  Device = {d1}
  AppleId = {s1, s2}
  Op = {o1}
  Job = {j1}
  Purchase = {p1, p2}
  Handler = {1, 2}
  Price = 1
  Workloads <- MergeLoads
INVARIANT
  MergeKeepsCoins
CHECK_DEADLOCK FALSE
