SPECIFICATION Spec
CONSTANTS
  Calls = 2
  Chatter = 2
  PipeSize = 2
  Sizes = {1, 3}
INVARIANTS
  ResultIsGenuine
  NoServerLeftBehind
PROPERTIES
  NoCallAfterSilence
  RequestsEnd
CHECK_DEADLOCK FALSE
