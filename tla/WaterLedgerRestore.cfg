SPECIFICATION Spec
CONSTANTS
  WrapL = 9
  MaxSaneL = 9
  Litres <- MCLitres
  DownloadTotals <- MCDownloadTotals
  Budget <- MCQuietBudget
INVARIANT
  RestoreOnlyAfterDownload
