SPECIFICATION Spec
CONSTANTS
  Rates = {2, 3}
  FullBatch = 2
  Fails = TRUE
  MaxKeys = 3
INVARIANT ShutdownIsGraceful
