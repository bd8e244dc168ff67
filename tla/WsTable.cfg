SPECIFICATION FairSpec
CONSTANTS
  f1 = f1
  f2 = f2
  f3 = f3
  f4 = f4
  NoFd = NoFd
  Fds <- FourFds
  NumSlots = 3
  MaxOpen = 2
  Timeout = 0
  Sweeps = TRUE
INVARIANTS TypeOK OneSlotPerFd RoomForNewcomer NoDeafClient
PROPERTY OfflineIsNoticed
