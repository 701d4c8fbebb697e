SPECIFICATION FairSpec
CONSTANTS
  NWorkers = 2
  QueueSize = 3
  PagesPerTask = 2
  Requests <- MCRequests
  MaxScans = 3
INVARIANTS DestroyedLast UnitsKept NoSleepOnWork
PROPERTIES ScansComplete ShutdownReturns
CHECK_DEADLOCK FALSE
