SPECIFICATION Spec
CONSTANTS
  large = large
  other = other
  small = small
  Nothing = Nothing
  Regions <- MCRegions
  SizeOf <- MCSizeOf
  WatcherCount = 2
  RegionCount = 3
  Capacity = 3
  MaxOpens = 3
  MaxFaults = 0
  MaxEvents = 1
CHECK_DEADLOCK FALSE
INVARIANTS
  MatchedEventsFit
