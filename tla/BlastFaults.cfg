SPECIFICATION Spec
CONSTANTS
  c1 = c1
  c2 = c2
  s1 = s1
  s2 = s2
  d1 = d1
  NoUTXO = NoUTXO
  NoRoot = NoRoot
  CoinbaseMaturity = 2
  HeightCap = 100000
  FutureLimit = 10000
  MaxMoney = 21000000
  SmallLimit = 100
  DataOutputs = {}
  Owned <- SmallAndLarge
  OwnedAmount <- BatchThenMerge
  OwnedHeight <- SmallAndLargeHeights
  OwnedCoinbase <- SmallAndLargeCoinbases
  Merged = {m1, m2, m3}
  TxPerBatch = 10
  MaxIterations = 2
  UseProp = TRUE
  Rebroadcast = TRUE
  FromTx = TRUE
  Faults = {"refuse", "partial", "orphan", "lost", "unverified", "busy", "chain", "vanish"}
  Word = 65536
  FirstHeight = 5
  MaxHeight = 5
  MaxSync = 0
  MaxCrash = 1
INVARIANT TypeOK
INVARIANT RecordedOutputsExist
INVARIANT NeverOverstated
INVARIANT SignedOverLedgerAmount
INVARIANT OvershootByOne
