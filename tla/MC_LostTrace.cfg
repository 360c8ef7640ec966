\* Sparse traffic: a trace at time 0, then one when three intervals have
\* passed, whose own rotate goroutine forwards past the head it was stored in.
CONSTANTS
  Threads = {t1}
  InputBuckets = 1
  OutputBuckets = 2
  MovingInterval = 1
  Window = 2
  Counts = {1}
  MaxTime = 3
  MaxTraces = 2
  Testing = FALSE
  CallerTimestamps = {}

SPECIFICATION Spec

INVARIANT RecentTraceCounted
