SPECIFICATION Spec
CONSTANTS
  Ops = {o1}
  Workers = {w1, w2, w3}
  InlineWorkers = {w1, w2, w3}
  Kinds = {"start_chat", "send", "fork", "fork_msg", "review", "steer"}
  MaxAttempts = 2
  MaxLive = 2
  MaxStalls = 0
  RecoveryRaces = FALSE
  NoWorker = NoWorker
SYMMETRY WorkerSymmetry
CHECK_DEADLOCK FALSE
INVARIANTS
  TypeOK
  LeaseExclusion
  AttemptsBounded
  StatusHasEvidence
PROPERTIES
  ImplementsLedger
