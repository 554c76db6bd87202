SPECIFICATION Spec
CONSTANTS
  c1 = c1
  c2 = c2
  s1 = s1
  s2 = s2
  d1 = d1
  NoUTXO = NoUTXO
  NoRoot = NoRoot
  CoinbaseMaturity = 2
  HeightCap = 11
  FutureLimit = 10000
  MaxMoney = 21000000
  SmallLimit = 100
  DataOutputs = {}
  Owned <- TwoAndOne
  OwnedAmount <- MergeWithOldest
  OwnedHeight <- HeightsAroundTen
  OwnedCoinbase <- CoinbasesOfTwoAndOne
  Merged = {m1, m2}
  TxPerBatch = 10
  MaxIterations = 5
  UseProp = TRUE
  Rebroadcast = FALSE
  FromTx = FALSE
  Faults = {"refuse"}
  Word = 65536
  FirstHeight = 9
  MaxHeight = 10
  MaxSync = 1
  MaxCrash = 0
INVARIANT NothingLost
PROPERTY ImmatureOnlyAsLastResort
