\* int32 counters at their real width: AddTrace's cnt is a caller-supplied
\* int32, and two traces of 2^30 in one row make 2^31, which wraps.
CONSTANTS
  Threads = {t1}
  InputBuckets = 1
  OutputBuckets = 1
  MovingInterval = 1
  Window = 2
  Counts = {1073741824}
  MaxTime = 1
  MaxTraces = 2
  Testing = FALSE
  CallerTimestamps = {}

Int31n <- ExtremeCursors

SPECIFICATION Spec

INVARIANT PredictNeverPanics
