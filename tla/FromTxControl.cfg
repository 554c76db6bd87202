SPECIFICATION FairSpec
CONSTANTS
  Rates = {2, 3}
  FullBatch = 2
  Fails = TRUE
  MaxKeys = 2
INVARIANT TypeOK
INVARIANT OneLateBatch
INVARIANT NoMoreThanRate
INVARIANT DisplayLags
PROPERTY QuitEnds
PROPERTY ShutdownEnds
