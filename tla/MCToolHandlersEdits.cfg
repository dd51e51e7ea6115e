SPECIFICATION Spec
CONSTANTS
  Batches <- MCEdits
  InitFile <- MCInitFile
  InitTodos <- MCInitTodos
  InitBox <- MCInitBox
  MaxChecked = 3
  Fuzz = 4
  ReadCap = 3
INVARIANT SafeTogether
CHECK_DEADLOCK FALSE
