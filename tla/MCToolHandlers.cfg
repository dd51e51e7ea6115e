SPECIFICATION Spec
CONSTANTS
  Batches <- MCBatches
  InitFile <- MCInitFile
  InitTodos <- MCInitTodos
  InitBox <- MCInitBox
  MaxChecked = 3
  Fuzz = 4
  ReadCap = 3
INVARIANTS
  ApartIsExact
  PatchReachesGoal
  MailIsKept
  CheckMissesNothing
  OwnChangeShown
CHECK_DEADLOCK FALSE
