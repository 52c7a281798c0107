SPECIFICATION Spec
CONSTANTS
  WaitFirst = 1
  WaitMax = 2
  Verify = 2
  VerifyStale = 1
  Hold = 2
  PumpMin = 1
  PumpMax = 3
  Settle = 1
  Latch = 2
  Budget <- MCBudget
PROPERTIES
  JudgedWhenRead
CHECK_DEADLOCK TRUE
