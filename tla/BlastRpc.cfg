SPECIFICATION FairSpec
CONSTANTS
  c1 = c1
  c2 = c2
  s1 = s1
  s2 = s2
  d1 = d1
  NoUTXO = NoUTXO
  NoRoot = NoRoot
  CoinbaseMaturity = 2
  HeightCap = 100000
  FutureLimit = 10000
  MaxMoney = 21000000
  SmallLimit = 100
  DataOutputs = {}
  Owned <- TwoAndOne
  OwnedAmount <- LongChain
  OwnedHeight <- HeightsOfTwoAndOne
  OwnedCoinbase <- CoinbasesOfTwoAndOne
  Merged = {m1, m2}
  TxPerBatch = 3
  MaxIterations = 3
  UseProp = FALSE
  Rebroadcast = TRUE
  FromTx = FALSE
  Faults = {"refuse", "partial", "orphan", "lost", "unverified", "busy", "chain", "vanish"}
  Word = 65536
  FirstHeight = 9
  MaxHeight = 10
  MaxSync = 1
  MaxCrash = 0
PROPERTY AlwaysReturns
PROPERTY StopsOrStarves
