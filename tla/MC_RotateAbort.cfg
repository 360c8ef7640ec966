\* Two traces after a quiet gap of three intervals spawn two rotations.
CONSTANTS
  Threads = {t1}
  InputBuckets = 1
  OutputBuckets = 2
  MovingInterval = 1
  Window = 2
  Counts = {1}
  MaxTime = 3
  MaxTraces = 2
  Testing = FALSE
  CallerTimestamps = {}

SPECIFICATION Spec

INVARIANT NoRotateAbort
