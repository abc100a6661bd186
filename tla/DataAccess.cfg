SPECIFICATION Spec
CONSTANTS
  w1 = w1
  w2 = w2
  NoSample = NoSample
  Watches <- MCWatches
  Properties <- MCProperties
  MaxSamples = 1
  MaxEvents = 2
  MaxCancels = 1
CHECK_DEADLOCK FALSE
INVARIANTS
  SamplesOnce
  FailureIsRaised
PROPERTIES
  Delivered
