SPECIFICATION FairSpec
CONSTANTS
  p1 = p1
  p2 = p2
  a1 = a1
  a2 = a2
  k1 = k1
  Operations = {o1, o2}
  Threads = {}
  Requests <- WriteAndSteer
  MaxAttempts = 2
  MaxGlobal = 1
  MaxPerProject = 2
  MaxPerAgent = 2
  MaxPerThread = 1
  MaxPending = 2
  MaxStarts = 2
  MaxPolls = 1
  QuickRestart = FALSE
  None = None
CHECK_DEADLOCK FALSE
INVARIANTS
  RunningHoldsItsLocks
PROPERTIES
  EveryOperationStarts
  EndedLeavesNothing
