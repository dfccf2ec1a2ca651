SPECIFICATION FairSpec
CONSTANTS
  MaxOps = 3
  Manual = Manual
  Procs = {p1, p2}
  Requests = {r1, r2}
  Crashes = {"call", "turn"}
  MaxCrashes = 1
  MaxAdopts = 1
  Verdicts = {"completed", "failed"}
  Proposals = {"valid", "review"}
  None = None
CHECK_DEADLOCK FALSE
INVARIANTS
  
  ExecutesAnApprovedPlan

  
