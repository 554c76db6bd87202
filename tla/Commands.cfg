SPECIFICATION CommandsFairSpec
CONSTANTS
  t1 = t1
  t2 = t2
  t3 = t3
  t4 = t4
  Txs <- FourTxs
  Parents <- ParentsInLadder
  Spends <- Ladder
  Utxos <- LadderOutputs
  Ours <- LadderPayments
  Recent <- TheCoinbase
  Height <- Heights
  Which <- AllCommands
  Networks <- SomeNetworks
  Stores <- SomeStores
  MaxDepth = 2
  MaxOthers = 1
  MaxRows = 2
  Word = 262144
  MaxTxSize = 250
  Funds <- SplitFunds
  Asked = {1, 2}
CHECK_DEADLOCK FALSE
INVARIANT CommandsTypeOK
INVARIANT ChainIsComplete
INVARIANT OrphansCannotBeHelped
INVARIANT ReportedIsOnNetwork
INVARIANT UnspentIsOnNetwork
INVARIANT VerifyAgrees
INVARIANT LeavesOnlyUnsorted
INVARIANT FailsOnlyIf
INVARIANT SplitIsRecorded
INVARIANT SplitPays
PROPERTY OffersOnlyExisting
PROPERTY Finishes
