SPECIFICATION Spec
CONSTANTS
  c1 = c1
  c2 = c2
  s1 = s1
  s2 = s2
  d1 = d1
  NoUTXO = NoUTXO
  NoRoot = NoRoot
  CoinbaseMaturity = 2
  HeightCap = 100000
  FutureLimit = 10000
  MaxMoney = 21000000
  SmallLimit = 100
  DataOutputs = {}
  Owned <- OneCoinbase
  OwnedAmount <- OneLongChain
  OwnedHeight <- OneHeight
  OwnedCoinbase <- OneIsCoinbase
  Merged = {m1}
  TxPerBatch = 3
  MaxIterations = 3
  UseProp = TRUE
  Rebroadcast = FALSE
  FromTx = FALSE
  Faults = {}
  Word = 65536
  FirstHeight = 9
  MaxHeight = 9
  MaxSync = 1
  MaxCrash = 0
INVARIANT NoSpentOffered
