SPECIFICATION FairSpec
CONSTANTS
  NegCache = 1
  AddrTtl = 4
  Reresolve = 2
  OpenAfter = 2
  OpenEvery = 1
  Settle = 3
  Reassoc1 = 3
  Reassoc2 = 4
  Evidence = 5
  Ceiling = 7
  Window = 2
  Grace = 1
  NoSync = 2
  RescueEvery = 1
  Budget <- MCBudget
INVARIANTS
  TypeOK
  CeilingHolds
  GateOpens
PROPERTIES
  DeadApNoReset
  KickNotEarly
  LinkRecovers
CHECK_DEADLOCK TRUE
