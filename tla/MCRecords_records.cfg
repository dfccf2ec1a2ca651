SPECIFICATION RecordsSpec
CONSTANTS
  Calls = {1, 2, 3}
  Requests = {1, 2}
  Prompts = {p1}
  Policies = {"guard", "resume"}
  KeySets = {{}, {1}, {2}}
  Processes = {1, 2}
  None = None
  Agents = {a1, a2}
  Surfaces = {"workflow", "operation"}
  Window = 2
  Cooldowns <- GrowingCooldowns
  MaxAttempts = 2
  RetryKeys = {"default", "k"}
  MaxWorkflows = 2
  MaxRepairs = 4
  MaxLateBeats = 1
  MaxMessages = 2
  MaxMoves = 1
  MaxRestarts = 1
CHECK_DEADLOCK FALSE
INVARIANTS
  RecordsTypeOK
  SameAnswer
  NoTwinsInOneProcess
  BlockedByLiveOrLost
  BudgetKept
  
  
  SearchIsComplete
