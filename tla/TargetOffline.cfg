SPECIFICATION FairSpec
CONSTANTS
  f1 = f1
  f2 = f2
  f3 = f3
  f4 = f4
  NoFd = NoFd
  Fds <- TwoFds
  NumSlots = 2
  MaxOpen = 1
  Timeout = 1
  Sweeps = FALSE
PROPERTY OfflineIsNoticed
