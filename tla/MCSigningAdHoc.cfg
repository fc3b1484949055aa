SPECIFICATION Spec
CONSTANTS
  short = short
  long = long
  Names = {short, long}
  Within <- Contained
  MaxRuns = 3
  MaxKeys = 2
INVARIANTS
  UnchangedKeepsGrant
CHECK_DEADLOCK FALSE
