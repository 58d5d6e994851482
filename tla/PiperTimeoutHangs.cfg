CONSTANTS
  k1 = k1
  k2 = k2
  Chunks <- MCChunks
  MaxReads = 1
  Timeouts = TRUE
SPECIFICATION FairSpec
PROPERTIES ReadEnds
CHECK_DEADLOCK FALSE
