SPECIFICATION FairSpec
CONSTANTS
  RP_MAX = 3
  RP_PER_POST = 1
  RP_CHUNK_RECS = 2
  MaxRecords = 4
  Short = 1
  Long = 3
  HwTicks = 1
  MayWedge = {"plc", "cloud"}
  Nets = {A, B}
  Budgets <- MCBudgets
INVARIANTS
  TypeOK
  NamedTruly
  CleanResetKeeps
PROPERTIES
  PairKept
  LogRefined
  WedgeEndsInReset
CHECK_DEADLOCK TRUE
