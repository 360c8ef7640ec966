\* NewSimpleOutputPredictor(_, _, 0): accepted by the constructor, one slot.
CONSTANTS
  Threads = {t1}
  InputBuckets = 1
  OutputBuckets = 2
  MovingInterval = 1
  Window = 0
  Counts = {1}
  MaxTime = 1
  MaxTraces = 1
  Testing = FALSE
  CallerTimestamps = {}

SPECIFICATION FairSpec

PROPERTY RotationTerminates
