SPECIFICATION FairSpec
CONSTANTS
  WrapL = 3
  MaxSaneL = 4
  Litres <- MCLitres
  DownloadTotals <- MCDownloadTotals
  Budget <- MCLiveBudget
PROPERTIES
  DownloadRepaired
  CommitsEventually
CHECK_DEADLOCK TRUE
