SPECIFICATION RecordedFairSpec
CONSTANTS
  SigW = 4
  SigH = 3
  BlockDelta = 25
  ChangeNum = 1
  ChangeDen = 6
  black = black
  busy = busy
  blink = blink
  ask = ask
  finished = finished
  blank = blank
  Uniform <- MCUniform
  Near <- MCNear
  NoRow = NoRow
  Never = Never
  ReadsAs <- MCReadsAs
  Rows = {}
  Notify = "telegram"
  Window = 3
  Refresh = 2
  Heartbeat = 2
  StreakLimit = 3
  OcrLimit = 3
  Duration = Never
  OcrFails = FALSE
  IndexFails = FALSE
  WallSteps <- MCWallSteps
  MaxClock = 0
  MaxWall = 3
  Frames = {busy, blink, ask, finished, blank, black}
PROPERTIES
  SettledScreenIsTracked
CHECK_DEADLOCK FALSE
