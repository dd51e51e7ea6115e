SPECIFICATION PromptSpec
CONSTANTS
  bash = bash
  edit = edit
  confirm = confirm
  Risky <- MCRisky
  Confirms <- MCConfirms
  Rests <- MCShortLines
INVARIANTS
  RunsOnlyIfApproved
CHECK_DEADLOCK FALSE
