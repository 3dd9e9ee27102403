CONSTANTS
  c1 = c1
  Caller = {c1}
  MaxThreads = 2
  MaxTasks = 2
  MaxResets = 1
  LoopCall <- MCLoops
  UIntMod = 16
SPECIFICATION FairSpec
INVARIANTS PoolInv LoopComplete DestroyedAfterTasks
PROPERTIES TasksExecuted WaitReturns
CHECK_DEADLOCK FALSE
