SPECIFICATION FairSpec
CONSTANTS
  Followups = 2
  PipeCap = 2
INVARIANTS
  AnswersInOrder
  StopIsGraceful
  NoChildLeftBehind
  LossOnlyWhenLate
PROPERTY RunEnds
CHECK_DEADLOCK FALSE
