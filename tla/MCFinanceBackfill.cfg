\* The archive with every kind of fault: what the cursor passes, and that it ends.
SPECIFICATION FairArchive
CONSTANTS
  Through <- MCThrough
  MonthLen = 2
  HasSales <- MCHasSales
  HasAds <- MCHasAds
  MaxArchiveFaults = 2
  MaxKicks = 1
INVARIANTS ArchiveTypeOK PassedDaysWereServed PassedDaysReachPnl
PROPERTY ArchiveCompletes
CHECK_DEADLOCK FALSE
