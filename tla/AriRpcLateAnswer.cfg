SPECIFICATION Spec
CONSTANTS
  Calls <- MCCalls
  NoCall = NoCall
  Watches <- MCWatches
  MaxNotifications = 2
CHECK_DEADLOCK FALSE
INVARIANT LateAnswersIgnored
