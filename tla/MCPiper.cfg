CONSTANTS
  k1 = k1
  k2 = k2
  Chunks <- MCChunks
  MaxReads = 3
  Timeouts = TRUE
SPECIFICATION FairSpec
INVARIANTS InOrder NoLostWakeup
PROPERTIES CloseEndsRead
CHECK_DEADLOCK FALSE
