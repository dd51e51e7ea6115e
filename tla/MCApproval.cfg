SPECIFICATION PromptSpec
CONSTANTS
  bash = bash
  edit = edit
  confirm = confirm
  Risky <- MCRisky
  Confirms <- MCConfirms
  Rests <- MCRests
INVARIANTS
  OneCallPerYes
PROPERTY EveryPromptEnds
CHECK_DEADLOCK FALSE
