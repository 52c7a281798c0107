SPECIFICATION FairSpec
CONSTANT Cap = 3
INVARIANTS
  TypeOK
  OnlyOperatorsReachPlc
  NotHeldForReconnect
  DisarmStops
PROPERTY
  MakesRoom
CHECK_DEADLOCK TRUE
