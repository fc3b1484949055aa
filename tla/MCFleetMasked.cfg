SPECIFICATION FairSpec
CONSTANTS
  s1 = s1
  Spawners = {s1}
  Settings <- Prompted
PROPERTIES
  AttentionReachesWatch
CHECK_DEADLOCK FALSE
