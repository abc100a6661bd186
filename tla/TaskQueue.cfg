SPECIFICATION Spec
CONSTANTS
  j1 = j1
  j2 = j2
  j3 = j3
  j4 = j4
  Jobs <- MCJobs
  Blocking <- MCBlocking
  Maxsize = 2
CHECK_DEADLOCK FALSE
INVARIANTS
  TypeOK
  CapacityRespected
  AbortIsComplete
  FailureReportedOnce
  NoLostWakeup
  BlockingMeansDone
SYMMETRY Symmetric
