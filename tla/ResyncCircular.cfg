SPECIFICATION CommandsSpec
CONSTANTS
  t1 = t1
  t2 = t2
  t3 = t3
  t4 = t4
  Txs <- TwoTxs
  Parents <- ParentsInPair
  Spends <- Pair
  Utxos <- PairOutputs
  Ours <- PairOutputs
  Recent <- TheCoinbase
  Height <- PairHeights
  Which = {"resync"}
  Networks <- AnyOfPair
  Stores <- AnyOfPair
  MaxDepth = 100
  MaxOthers = 0
  MaxRows = 2
  Word = 262144
  MaxTxSize = 250
  Funds = {0}
  Asked = {1}
CHECK_DEADLOCK FALSE
INVARIANT NeverCircular
