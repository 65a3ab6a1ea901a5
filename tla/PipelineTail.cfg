SPECIFICATION FairSpec
CONSTANTS
  BatchSize = 2
  StreamMaxLen = 3
  PostsSucceed = TRUE
  MaxMsgs = 1
  MaxFaults = 0
CHECK_DEADLOCK FALSE
PROPERTY BufferIsFlushed
