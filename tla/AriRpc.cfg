SPECIFICATION FairSpec
CONSTANTS
  Calls <- MCCalls
  NoCall = NoCall
  Watches <- MCWatches
  MaxNotifications = 2
CHECK_DEADLOCK FALSE
INVARIANTS
  TypeOK
  OneWriter
  NotificationsInOrder
  ContextTracksUnanswered
  AnswerNotLost
  CancelStopsRobot
PROPERTIES
  CallsSettle
  Promise
