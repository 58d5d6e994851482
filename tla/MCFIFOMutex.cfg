CONSTANTS
  g1 = g1
  g2 = g2
  g3 = g3
  Threads <- MCThreads
  NoOne = NoOne
SPECIFICATION FairSpec
INVARIANTS NoLostHandoff
PROPERTIES ImplementsFIFOLock EveryLockReturns
