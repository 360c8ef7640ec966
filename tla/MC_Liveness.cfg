\* Progress and refinement under the Go scheduler's fairness, with a window
\* that is not a multiple of the interval (3 ticks, interval 2): the
\* constructor adds the extra slot and the ring must still hold exactly the
\* window rounded up to whole intervals.  Two callers and two traces: a
\* rotate waiting on p.mu blocks the second caller's RLock while the first
\* holds it, and a caller does not wait for rotate, so two rotations can be
\* pending at once.  MaxTime 4 lets one rotation forward two intervals and
\* run the resetTail loop.
CONSTANTS
  Threads = {t1, t2}
  InputBuckets = 1
  OutputBuckets = 2
  MovingInterval = 2
  Window = 3
  Counts = {1}
  MaxTime = 4
  MaxTraces = 2
  Testing = FALSE
  CallerTimestamps = {}

SPECIFICATION FairSpec

PROPERTY RotationTerminates
PROPERTY AddTraceCompletes
PROPERTY ImplementsSlidingWindow
