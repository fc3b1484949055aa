SPECIFICATION Spec
CONSTANTS
  s1 = s1
  Spawners = {s1}
  Settings <- Retried
PROPERTIES
  DeclaredOnlyWhenDead
CHECK_DEADLOCK FALSE
