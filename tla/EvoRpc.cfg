SPECIFICATION Spec
CONSTANTS
  c1 = c1
  c2 = c2
  c3 = c3
  NoCall = NoCall
  Calls <- MCCalls
  Programs <- MCPrograms
  MaxCancels = 2
  WriteChunks = 2
  MaxRequestId = 2
CHECK_DEADLOCK FALSE
INVARIANTS
  RpcTypeOK
  OneRpcAtATime
  ResponseIsOwn
  LongResponseIsOwn
  AnswersAreHeard
  EndedMeansStopped
  KeysAreUnique
PROPERTIES
  Returns
