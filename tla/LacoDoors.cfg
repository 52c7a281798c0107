SPECIFICATION FairSpec
CONSTANTS
  StaggerTicks = 2
  SettleTicks = 3
  StateEveryTicks = 3
  Budget <- MCBudget
INVARIANTS
  TypeOK
  StaggerKept
  SidesPaired
  OpeningSeesCycle
  JobsOnFreshPoll
PROPERTY
  JobsEnd
CHECK_DEADLOCK TRUE
