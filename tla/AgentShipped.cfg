SPECIFICATION Spec
CONSTANTS
  BatchSizes = {2}
  OverflowMax = 3
  StreamMaxLen = 2
  ExecuteWrites = FALSE
  MaxEvents = 3
CHECK_DEADLOCK FALSE
PROPERTY FlushReachesStream
