SPECIFICATION Spec
CONSTANTS
  QueueSlots = 2
  MaxEvents = 2
  MaxPresses = 2
  MaxRetry = 15
  MidRetry = 8
  RelaxRetry = 4
  MaxFailures = 2
  MaxErases = 1
  MaxRefusals = 3
  wstask = wstask
  httpd = httpd
  Tasks = {wstask, httpd}
  Periodic = wstask
  WorkSlots = 2
  MaxChanges = 2
  MaxResets = 1
  MaxRejoins = 1
  Busy = 3
  MaxSeq = 5
  o1 = o1
  o2 = o2
  s1 = s1
  s2 = s2
  Objects = {o1, o2}
  Sockets = {s1, s2}
  None = None
  MaxPending = 3
  e1 = e1
  e2 = e2
  l1 = l1
  l2 = l2
  Entries = {e1, e2}
  Links = {l1, l2}
  Nobody = Nobody
  MaxWaiting = 3
INVARIANTS
  TypeOK ResetScreenExplained IdleScreenShown
  BitTruthful NoPasswordOnlyIfTorn
  NoStepBack OneSocketPerObject OnlyOrphansStay
  ToldTruthfully
PROPERTIES KeepsLink BrowserKeepsLink BridgeKeepsLink RespawnScreenEnds AlertsEnd GetsOnline CatchesUp BrowserComesBack
