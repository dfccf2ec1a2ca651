SPECIFICATION ServicesSpec
CONSTANTS
  Syncs = {s1, s2}
  MaxForeign = 1
  MaxFailures = 2
  MaxReviewAttempts = 2
  MaxReviewFaults = 2
  MaxCommands = 2
  MaxServers = 2
  MaxStops = 1
  MaxSaid = 1
  MaxQuestions = 2
  MaxReads = 1
CHECK_DEADLOCK FALSE
INVARIANTS
  RowTellsTheGoal
  CommandTellsTheTruth
  RecordMatchesTheTurn
PROPERTIES
  PersonsGoalSurvives
  GoalSettles
  ReviewSettles
  ReportDelivered
  CommandsEnd
  
