SPECIFICATION FairSpec
CONSTANTS
  FrameTimeout = 2
  MaxClients = 2
  MaxCalls = 2
  MaxNoise = 1
INVARIANTS
  TypeOK
  NoOrphan
PROPERTIES
  TimeoutMeansSilence
  ImplementsRoundTrip
  CallsAndReadersEnd
CHECK_DEADLOCK FALSE
