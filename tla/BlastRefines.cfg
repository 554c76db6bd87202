SPECIFICATION Spec
CONSTANTS
  c1 = c1
  c2 = c2
  s1 = s1
  s2 = s2
  d1 = d1
  NoUTXO = NoUTXO
  NoRoot = NoRoot
  CoinbaseMaturity = 2
  HeightCap = 100000
  FutureLimit = 10000
  MaxMoney = 21000000
  SmallLimit = 100
  DataOutputs <- TheDataOutput
  Owned <- WithData
  OwnedAmount <- AmountsWithData
  OwnedHeight <- HeightsWithData
  OwnedCoinbase <- CoinbasesWithData
  Merged = {m1, m2}
  TxPerBatch = 3
  MaxIterations = 6
  UseProp = TRUE
  Rebroadcast = FALSE
  FromTx = FALSE
  Faults = {"partial", "refuse", "orphan", "unverified"}
  Word = 65536
  FirstHeight = 3
  MaxHeight = 5
  MaxSync = 0
  MaxCrash = 1
INVARIANT TakenIsMarked
PROPERTY ImplementsOutputLife
