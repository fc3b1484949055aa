SPECIFICATION RecordedFairSpec
CONSTANTS
  SigW = 4
  SigH = 3
  BlockDelta = 25
  ChangeNum = 1
  ChangeDen = 6
  black = black
  busy = busy
  blink = blink
  ask = ask
  finished = finished
  blank = blank
  Uniform <- MCUniform
  Near <- MCNear
  NoRow = NoRow
  Never = Never
  ReadsAs <- MCReadsAs
  Rows = {}
  Notify = "telegram"
  Window = 3
  Refresh = 2
  Heartbeat = 2
  StreakLimit = 3
  OcrLimit = 3
  Duration = Never
  OcrFails = TRUE
  IndexFails = FALSE
  WallSteps = {}
  MaxClock = 0
  MaxWall = 0
  Frames = {busy, ask}
PROPERTIES
  SettledScreenIsTracked
CHECK_DEADLOCK FALSE
