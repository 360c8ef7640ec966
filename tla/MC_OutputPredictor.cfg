\* Core safety run: two callers, one input bucket of two output buckets,
\* a two-interval window (three ring slots), three traces over four ticks:
\* enough for the head to wrap and for one rotation to forward two intervals.
CONSTANTS
  Threads = {t1, t2}
  InputBuckets = 1
  OutputBuckets = 2
  MovingInterval = 1
  Window = 2
  Counts = {1}
  MaxTime = 3
  MaxTraces = 3
  Testing = FALSE
  CallerTimestamps = {}

SPECIFICATION Spec
SYMMETRY ThreadSymmetry

INVARIANT TypeOK
INVARIANT SummaryMatchesLiveSlices
INVARIANT RowSumNeverExceedsCells
INVARIANT RingAccounting
INVARIANT ScanFindsCursorUnlessRaced
