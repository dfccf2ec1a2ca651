SPECIFICATION Spec
CONSTANTS
  p1 = p1
  p2 = p2
  a1 = a1
  a2 = a2
  k1 = k1
  Operations = {o1, o2, o3}
  Threads = {}
  Requests <- ReadAndWrites
  MaxAttempts = 1
  MaxGlobal = 3
  MaxPerProject = 2
  MaxPerAgent = 2
  MaxPerThread = 1
  MaxPending = 2
  MaxStarts = 1
  MaxPolls = 1
  QuickRestart = TRUE
  None = None
CHECK_DEADLOCK FALSE
SYMMETRY Symmetric
INVARIANTS
  SlotsRespected
  WritesExclude
