CONSTANTS
  p1 = p1
  p2 = p2
  parent = parent
  child = child
  f1 = f1
  f2 = f2
  NoOne = NoOne
  Procs <- MCProcs
  Closers <- MCClosers
  Roots <- MCRoots
  Funcs <- MCFuncs
  Appends <- MCAppends
  MaxCalls <- MCMaxCalls
  r1 = r1
  k1 = k1
  k2 = k2
  Writer = Writer
  Nobody = Nobody
  Readers <- MCReaders
  Keys <- MCKeys
  Sizes <- MCSizes
  MaxWrites = 3
  MaxFaults = 1
  PosixReaders <- MCReaders
  PosixSizes <- MCSizes
  PosixWrites = 3
  PosixRestarts = 1
SPECIFICATION MCSpec
INVARIANTS CallsEach DoProtects NobodyStuck ReadsAreWhole NeverDangling PosixFresh
PROPERTIES ReadReturns
CHECK_DEADLOCK FALSE
