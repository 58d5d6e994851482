CONSTANTS
  a = a
  b = b
  cmd1 = cmd1
  sig = sig
  http = http
  Root = Root
  NoGroup = NoGroup
  Tasks <- MCTasks
  Cmds <- MCCmds
  SigTasks <- MCSigTasks
  Servers <- MCServers
  TaskSets <- MCTaskSets
SPECIFICATION FairSpec
INVARIANTS StatusIsTrue NothingOutlives
PROPERTIES WaitEnds TermStops
CHECK_DEADLOCK FALSE
