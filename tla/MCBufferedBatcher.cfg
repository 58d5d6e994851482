CONSTANTS
  x1 = x1
  x2 = x2
  Items <- MCItems
  MaxStarts = 2
  MaxAdds = 2
SPECIFICATION FairSpec
INVARIANTS NothingLost NoStrandedBatch
PROPERTIES StoppedInCallbackReturns
CHECK_DEADLOCK FALSE
