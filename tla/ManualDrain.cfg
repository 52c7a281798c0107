SPECIFICATION FairSpec
CONSTANTS
  VerifyTicks = 1
  PumpMaxTicks = 4
  Budget <- MCBudget
INVARIANTS
  TypeOK
  PumpGuarded
  DeadHeadBounded
PROPERTIES
  NeverSealed
  PumpStops
CHECK_DEADLOCK TRUE
