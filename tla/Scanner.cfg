SPECIFICATION FairSpec
CONSTANTS
  CoinbaseMaturity = 2
  HeightCap = 100
  FutureLimit = 5
  MaxMoney = 100
  SmallLimit = 1
  DataOutputs = {}
  Owned = {1, 2, 3, 4, 5, 6, 7}
  PageSize = 2
  Word = 16
  RecentBlocks = {1, 2, 3, 4, 9, 18}
  Ranges <- SomeRanges
  ScanAll = TRUE
  FirstBests = {0, 3, 4, 6}
  MaxBest = 7
  Stale = {2, 3, 5}
  Unreliable = TRUE
INVARIANT TypeOK
INVARIANT StaysInRange
INVARIANT QuietScanCovers
PROPERTY ScanEnds
CHECK_DEADLOCK FALSE
