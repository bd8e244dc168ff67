SPECIFICATION FairSpec
CONSTANTS
  s1 = s1
  s2 = s2
  s3 = s3
  s4 = s4
  NoSocket = NoSocket
  Sockets <- FourSockets
  MaxRetries = 3
INVARIANTS TypeOK NeverStranded OneLoop
PROPERTIES UnmountIsFinal SettlesOrGivesUp
CHECK_DEADLOCK FALSE
