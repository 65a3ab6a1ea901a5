SPECIFICATION FairSpec
CONSTANTS
  BatchSizes = {2, 5}
  OverflowMax = 3
  StreamMaxLen = 1
  ExecuteWrites = TRUE
  MaxEvents = 5
CHECK_DEADLOCK FALSE
INVARIANT EveryEventAccounted
INVARIANT StreamInSendOrder
INVARIANT BufferIsNewest
INVARIANT BufferBounded
INVARIANT CloseDrains
PROPERTY ChannelSpec
PROPERTY BufferedEventLeaves
PROPERTY CloseCompletes
