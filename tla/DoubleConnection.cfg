SPECIFICATION Spec
CONSTANTS
  s1 = s1
  s2 = s2
  s3 = s3
  s4 = s4
  NoSocket = NoSocket
  Sockets <- TwoSockets
  MaxRetries = 3
INVARIANT OneConnection
CHECK_DEADLOCK FALSE
