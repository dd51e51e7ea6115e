SPECIFICATION ExecSpec
CONSTANTS
  Timeout = 3
  Slice = 2
  Cap = 3
  MaxOutput = 4
  Sigints = 2
  Horizon = 8
INVARIANTS
  AllOutputKept
  NothingLeftRunning
  TwiceTimeoutAtMost
PROPERTY EndsUninterrupted
CHECK_DEADLOCK FALSE
