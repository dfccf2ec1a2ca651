SPECIFICATION FairSpec
CONSTANTS
  Turns = {t1, t2}
  Admin = Admin
  MaxSpawns = 2
  MaxStarting = 1
  MaxRestarts = 1
  LateExit = FALSE
CHECK_DEADLOCK FALSE
INVARIANTS
  TurnsFollowTheirServers
  NoStrayServer
PROPERTIES
  EndedTurnsStayEnded
  AnswersReachTheirAsker
  IdleRestartSparesWork
  QuestionsAreAnswered
