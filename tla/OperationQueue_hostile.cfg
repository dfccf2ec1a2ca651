SPECIFICATION Spec
CONSTANTS
  Ops = {o1}
  Workers = {w1, w2}
  InlineWorkers = {w1, w2}
  Kinds = {"start_chat", "fork", "steer"}
  MaxAttempts = 2
  MaxLive = 2
  MaxStalls = 1
  RecoveryRaces = TRUE
  NoWorker = NoWorker
SYMMETRY WorkerSymmetry
CHECK_DEADLOCK FALSE
INVARIANTS
  EffectsAreAccounted
