SPECIFICATION Spec
CONSTANTS
  SigW = 4
  SigH = 3
  BlockDelta = 25
  ChangeNum = 1
  ChangeDen = 6
  Widths = {1}
  Heights = {1}
  Colours <- MCColours
  Anchors <- MCAnchors
  WalkLength = 430
  FirstOpening = 1788447600
INVARIANTS
  NextIsAnOpening
CHECK_DEADLOCK FALSE
