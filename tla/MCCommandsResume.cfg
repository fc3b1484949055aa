SPECIFICATION CmdSpec
CONSTANTS
  FrameTimeout = 3
  Timeout = 5
  Second = 2
  MaxChanges = 3
  Limit = 2
  MaxRows = 4
INVARIANTS
  SessionIsFound
CHECK_DEADLOCK FALSE
