SPECIFICATION Spec
CONSTANTS
  Key = {"a"}
  PerMinute = 50
  Burst = 2
  TicksPerSecond = 2
  MaxNow = 9
INVARIANTS
  LimiterTypeOK
  BurstBound
  PromiseKept
CHECK_DEADLOCK FALSE
