SPECIFICATION Spec
CONSTANTS
  SigW = 4
  SigH = 3
  BlockDelta = 25
  ChangeNum = 1
  ChangeDen = 6
  Widths <- MCWidths
  Heights <- MCHeights
  Colours <- MCColours
  Anchors <- MCAnchors
  WalkLength = 430
  FirstOpening = 1788447600
INVARIANTS
  BlocksCoverFrame
  ChangeIsAnArea
  SamplesInOrder
  CivilIsCalendar
  AdviceIsRight
CHECK_DEADLOCK FALSE
