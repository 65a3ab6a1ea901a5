SPECIFICATION FairSpec
CONSTANTS
  Absence = 3
  Lookback = 2
  Window = 3
  RateLimit = 4
  Interval = 1
  WindowSize = 6
  MinSamples = 3
  ZThreshold = 2
  Precision = 5
  Threshold = 1
  Values = {0, 1, 5}
  MaxAge = 6
  MaxStamps = 5
CHECK_DEADLOCK FALSE
PROPERTY AbsenceIsReal
INVARIANT RateNeedsEvaluations
INVARIANT OutlierNeedsWindow
PROPERTY JumpFires
PROPERTY AbsenceIsFound
