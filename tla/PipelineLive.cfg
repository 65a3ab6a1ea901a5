SPECIFICATION FairSpec
CONSTANTS
  BatchSize = 2
  StreamMaxLen = 3
  PostsSucceed = TRUE
  MaxMsgs = 3
  MaxFaults = 1
CHECK_DEADLOCK FALSE
INVARIANT AckedIsSafeInCalm
PROPERTY EveryEntryAccepted
PROPERTY StopEndsRun
