SPECIFICATION RecordedSpec
CONSTANTS
  SigW = 4
  SigH = 3
  BlockDelta = 25
  ChangeNum = 1
  ChangeDen = 6
  black = black
  busy = busy
  blink = blink
  ask = ask
  finished = finished
  blank = blank
  Uniform <- MCUniform
  Near <- MCNear
  NoRow = NoRow
  Never = Never
  ReadsAs <- MCReadsAs
  Rows <- MCRows
  Notify = "telegram"
  Window = 2
  Refresh = 2
  Heartbeat = 2
  StreakLimit = 2
  OcrLimit = 2
  Duration = 3
  OcrFails = TRUE
  IndexFails = TRUE
  WallSteps = {}
  MaxClock = 3
  MaxWall = 0
  Frames = {busy, finished, black}
INVARIANTS
  TypeOK
  GivesUpAtTheLimit
  ReportedStateIsCurrent
PROPERTIES
  RefreshSpacing
  AlertSpacing
  SuppressedWithCause
  EventsChain
CHECK_DEADLOCK FALSE
