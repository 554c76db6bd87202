SPECIFICATION CommandsSpec
CONSTANTS
  t1 = t1
  t2 = t2
  t3 = t3
  t4 = t4
  Txs <- FourTxs
  Parents <- ParentsInLadder
  Spends <- Ladder
  Utxos <- LadderOutputs
  Ours <- LadderPayments
  Recent <- TheCoinbase
  Height <- Heights
  Which = {"verify"}
  Networks <- SomeNetworks
  Stores <- SomeStores
  MaxDepth = 2
  MaxOthers = 0
  MaxRows = 0
  Word = 262144
  MaxTxSize = 250
  Funds <- SplitFunds
  Asked = {1, 2}
CHECK_DEADLOCK FALSE
INVARIANT VerifyEnsures
