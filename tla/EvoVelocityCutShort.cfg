SPECIFICATION Spec
CONSTANTS
  c1 = c1
  c2 = c2
  c3 = c3
  NoCall = NoCall
  Calls <- MCCalls
CHECK_DEADLOCK FALSE
INVARIANT
  RunsItsDuration
