SPECIFICATION Spec
CONSTANTS
  StaggerTicks = 3
  SettleTicks = 3
  StateEveryTicks = 3
  Budget <- MCQuietBudget
INVARIANT OpeningGated
