CONSTANTS
  d1 = d1
  d2 = d2
  Downloads <- MCDownloads
  Writers <- MCWriters
  NSrcs <- MCNSrcs
  Max = 2
  RetryMax = 1
SPECIFICATION FairSpec
INVARIANTS Complete NothingBehind
PROPERTIES DownloadReturns
CHECK_DEADLOCK FALSE
