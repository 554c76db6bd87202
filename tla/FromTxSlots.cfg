SPECIFICATION FairSpec
CONSTANTS
  Word = 262144
  MaxTxSize = 310
  Funds = {309, 310, 856, 1402, 1948}
  Asked = {0, 4}
  MaxBatch = 4
  MaxLost = 2
  MaxCrash = 1
INVARIANT TypeOK
INVARIANT RowsFollowSplit
INVARIANT OneSlotPerRefusal
INVARIANT NeverAhead
INVARIANT SplitIsPaidFor
PROPERTY OnlySplitOutputsStrand
PROPERTY CatchesUp
CHECK_DEADLOCK FALSE
