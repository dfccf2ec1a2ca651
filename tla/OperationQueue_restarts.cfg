SPECIFICATION FairSpec
CONSTANTS
  Ops = {o1}
  Workers = {w1, w2, w3}
  InlineWorkers = {w1, w2, w3}
  Kinds = {"start_chat", "send", "fork", "fork_msg", "review"}
  MaxAttempts = 2
  MaxLive = 1
  MaxStalls = 0
  RecoveryRaces = FALSE
  NoWorker = NoWorker
CHECK_DEADLOCK FALSE
INVARIANTS
  TerminalMeansIdle
PROPERTIES
  EndedStaysEnded
  EverySubmissionSettles
