SPECIFICATION Spec
CONSTANTS
  WrapL = 3
  MaxSaneL = 4
  Litres <- MCLitres
  DownloadTotals <- MCDownloadTotals
  Budget <- MCBudget
INVARIANTS
  TypeOK
  BooksBalance
  CountedOnce
  AckAfterWholeReset
PROPERTY
  MeterRefined
CHECK_DEADLOCK TRUE
