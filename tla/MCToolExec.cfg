SPECIFICATION FairSpec
CONSTANTS
  N = 4
  MaxThreads = 2
INVARIANTS
  ExclusiveAlone
  SilentOnlyPastCap
  AtMostOneLateDispatch
  RepliesAreTrue
PROPERTIES
  BatchEnds
  ImplementsBatch
CHECK_DEADLOCK FALSE
