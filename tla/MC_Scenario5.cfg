\* Spec scenario 5 in small: interval 2 and window 6 (a ring of four slots),
\* testing mode with its single caller so each rotation returns before the
\* next trace is added.  A trace at 1 lands in the slice of epoch 0; the
\* call at 6 forwards three intervals and the resetTail loop resets that
\* slice, dropping a trace 5 ticks old, younger than the window.
CONSTANTS
  Threads = {t1}
  InputBuckets = 1
  OutputBuckets = 1
  MovingInterval = 2
  Window = 6
  Counts = {1}
  MaxTime = 6
  MaxTraces = 2
  Testing = TRUE
  CallerTimestamps = {1}

SPECIFICATION Spec

INVARIANT WindowTraceCounted
