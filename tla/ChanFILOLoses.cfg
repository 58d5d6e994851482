CONSTANTS
  f1 = f1
  f2 = f2
  Funcs <- MCFuncs
  NoFunc = NoFunc
  MaxStarts = 1
  OptionSet <- FILOKind
SPECIFICATION FairSpec
PROPERTIES AllProcessed
CHECK_DEADLOCK FALSE
