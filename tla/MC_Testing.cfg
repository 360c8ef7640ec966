\* Testing mode with its single test caller, under the Go scheduler's
\* fairness: every AddTrace waits on testWait for the rotations it announced.
\* A two-interval window (three ring slots) and five ticks, so a trace is
\* kept across a rotation and three forwards wrap the head round the ring
\* (checked against the abstract spec); two input buckets, so reset's row
\* countdown and the per-row sums are told apart.
CONSTANTS
  Threads = {t1}
  InputBuckets = 2
  OutputBuckets = 2
  MovingInterval = 1
  Window = 2
  Counts = {1}
  MaxTime = 4
  MaxTraces = 3
  Testing = TRUE
  CallerTimestamps = {0, 4}

SPECIFICATION FairSpec

INVARIANT TestingRotationsJoined
INVARIANT RecentTraceCounted
INVARIANT TraceLandsInHead
INVARIANT RowSumNeverExceedsCells
PROPERTY AddTraceCompletes
PROPERTY ImplementsSlidingWindow
