CONSTANTS
  c1 = c1
  c2 = c2
  c3 = c3
  c4 = c4
  Calls <- MCCalls
  Max = 2
SPECIFICATION FairSpec
INVARIANTS AtMostLimit NoRoomLost
PROPERTIES DoRuns
CHECK_DEADLOCK FALSE
