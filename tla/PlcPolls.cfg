SPECIFICATION FairSpec
CONSTANTS
  WaitFirst = 1
  WaitMax = 2
  Verify = 2
  VerifyStale = 1
  Hold = 2
  PumpMin = 1
  PumpMax = 3
  Settle = 1
  Latch = 2
  Budget <- MCBudget
INVARIANTS
  TypeOK
  AnswersMatch
PROPERTIES
  ClearVerdictEarned
  FlowFaultEarned
  Reconnects
CHECK_DEADLOCK TRUE
