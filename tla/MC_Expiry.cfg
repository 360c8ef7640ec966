\* Spec P3: one trace, then time runs past Window + MovingInterval.
CONSTANTS
  Threads = {t1}
  InputBuckets = 1
  OutputBuckets = 2
  MovingInterval = 1
  Window = 2
  Counts = {1}
  MaxTime = 4
  MaxTraces = 1
  Testing = FALSE
  CallerTimestamps = {}

SPECIFICATION Spec

INVARIANT ExpiredTracesLeaveSummary
