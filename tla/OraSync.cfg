SPECIFICATION SyncSpec
CONSTANTS
  j1 = j1
  j2 = j2
  j3 = j3
  NoCall = NoCall
  Jobs <- MCJobs
  Blocking <- MCJobs
  Maxsize = 2
CHECK_DEADLOCK FALSE
INVARIANTS
  SyncTypeOK
  UndefinedStopsMotions
PROPERTIES
  RunsTheQueue
  NothingOnTop
  InterruptReturns
  RoomIsNoticed
