SPECIFICATION Spec
CONSTANTS
  VerifyTicks = 1
  PumpMaxTicks = 3
  Budget <- MCQuietBudget
INVARIANT AlwaysGuarded
