\* A turn written off with its app-server, and an import of its transcript:
\* violated.
SPECIFICATION RecordSpec
CONSTANTS
  MaxSaid = 1
  MaxQuestions = 0
  MaxReads = 0
PROPERTIES LostTurnStaysLost
CHECK_DEADLOCK FALSE
