SPECIFICATION FairSpec
CONSTANTS
  MaxRounds = 2
  MaxRetries = 1
  MaxCalls = 2
  Limit = 3
  Turns = 2
INVARIANTS
  ToolPairing
  RequestIsForThisTurn
  OutputOnce
PROPERTIES
  ShownAnswerIsKept
  TurnEnds
CHECK_DEADLOCK FALSE
