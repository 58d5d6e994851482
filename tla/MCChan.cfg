CONSTANTS
  f1 = f1
  f2 = f2
  Funcs <- MCFuncs
  NoFunc = NoFunc
  MaxStarts = 2
  OptionSet <- Kinds
SPECIFICATION FairSpec
INVARIANTS NoLostWakeup
PROPERTIES ImplementsSerialQueue DrainsBeforeReturning CancelledStartReturns AddedFuncRuns
CHECK_DEADLOCK FALSE
