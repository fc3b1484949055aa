SPECIFICATION FairSpec
CONSTANTS
  s1 = s1
  Spawners = {s1}
  Settings <- Fleets
INVARIANTS
  OneWorkerPerTask
  PrintsEachLineOnce
  WatchdogFailsOnlyTheDead
PROPERTIES
  OpenLogKept
  AttentionReachesWatch
CHECK_DEADLOCK FALSE
