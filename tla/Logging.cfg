SPECIFICATION MCSpec
CONSTANTS
  Threads = {t1, t2}
  Tasks = {t1, t2}
  OverflowMax = 2
  MaxEvents = 4
  MaxIds = 3
  MaxOpen = 2
  MinLevel = 2
  Sampled = TRUE
  Allow = {"latency_ns", "extra"}
  Deny = {}
  MaxCalls = 2
  MaxLoggers = 2
  MaxWork = 5
CHECK_DEADLOCK FALSE
INVARIANT TraceStays
INVARIANT SpanHasOneTrace
INVARIANT NearlyBounded
INVARIANT KeepsNewest
INVARIANT ResultsReturned
INVARIANT SuccessesMeasured
INVARIANT ConfigureNotStale
