SPECIFICATION FairSpec
CONSTANTS
  Threads = {t1, t2}
  Keys = {k1, k2}
  Values = {1, 3}
  Bounds <- MCBounds
  MaxObservations = 3
CHECK_DEADLOCK FALSE
INVARIANT LockedReadsAgree
INVARIANT PercentileIsQuantile
INVARIANT ScrapeOrdered
INVARIANT SkewAtMostOne
INVARIANT SumIsOfPrefix
INVARIANT ScrapesMonotone
PROPERTY StopReturns
