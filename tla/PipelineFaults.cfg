SPECIFICATION Spec
CONSTANTS
  BatchSize = 2
  StreamMaxLen = 2
  PostsSucceed = FALSE
  MaxMsgs = 3
  MaxFaults = 2
CHECK_DEADLOCK FALSE
INVARIANT AtMostOnce
INVARIANT LossWindow
PROPERTY HandoverSpec
