--------------------------- MODULE OutputPredictor ---------------------------
(***************************************************************************)
(* SimpleOutputPredictor of src/pkg/cache/output_predictor.go under        *)
(* concurrency: caller threads run AddTrace and Predict, and every         *)
(* AddTrace that finds the head timestamp stale spawns a rotate goroutine. *)
(*                                                                         *)
(* Each atomic access of the code that another actor can observe is a     *)
(* step of its own: AddTrace's three atomic adds, each cell load of        *)
(* Predict's scan and each of the two subtractions per cell of a reset.    *)
(* Token counts are abstracted to their buckets (module Bucketizer checks  *)
(* token2bucket); time is an integer clock in the units of MovingInterval. *)
(***************************************************************************)
EXTENDS Integers, FiniteSets, Sequences, Functions

CONSTANTS
  Threads,        \* caller threads (model values)
  InputBuckets,   \* p.inputBuckets
  OutputBuckets,  \* p.outputBuckets
  MovingInterval, \* MovingInterval, in clock ticks
  Window,         \* the window argument of NewSimpleOutputPredictor
  Counts,         \* cnt values passed to AddTrace
  MaxTime,        \* bound: last clock value
  MaxTraces,      \* bound: number of AddTrace calls
  Testing,        \* p.testing
  CallerTimestamps \* ts a caller passes to AddTraceWithTimestamp directly

ASSUME /\ InputBuckets \in Nat \ {0} /\ OutputBuckets \in Nat \ {0}
       /\ MovingInterval \in Nat \ {0} /\ Window \in Nat
       /\ Counts \subseteq Nat \ {0}
       /\ MaxTime \in Nat /\ MaxTraces \in Nat /\ Testing \in BOOLEAN
       /\ CallerTimestamps \subseteq Int /\ \A ts \in CallerTimestamps : ts <= MaxTime

(* --- int32 counters: sync/atomic.AddInt32 wraps modulo 2^32 ------------ *)

Int32Max == 2147483647
Int32Min == -Int32Max - 1
Int32 == Int32Min .. Int32Max

(* a + b in two's complement, computed without leaving TLC's int range.   *)
AddInt32(a, b) ==
  CASE b > 0 /\ a > Int32Max - b -> (a - Int32Max - 1) + (b + Int32Min)
    [] b < 0 /\ a < Int32Min - b -> (a - Int32Min) + (b - Int32Min)
    [] OTHER -> a + b

(* -x of an int32: the negation of MinInt32 is MinInt32 itself.           *)
NegInt32(x) == IF x = Int32Min THEN Int32Min ELSE -x

(* --- NewSimpleOutputPredictor: derived sizes --------------------------- *)

(* Mutant: no extra slot for a partial interval.                           *)
extraSlotNoPartial == 1

(* extraSlot: one spare slot, one more when the window is not a multiple   *)
(* of the interval.                                                        *)
extraSlot == IF Window % MovingInterval > 0 THEN 2 ELSE 1

(* len(p.history.window) = int(window/MovingInterval) + extraSlot.         *)
Capacity == Window \div MovingInterval + extraSlot

Slots == 0 .. Capacity - 1
NumCells == InputBuckets * OutputBuckets
Cells == 0 .. NumCells - 1
Rows == 0 .. InputBuckets - 1
SkipIdx == NumCells                 \* the trailing skip slot of a slice
SpareWindow == Capacity - 1         \* `window` in rotate
(* The horizon the spec promises: the window rounded up to whole intervals. *)
Retention == ((Window + MovingInterval - 1) \div MovingInterval) * MovingInterval

bucket2idx(i, j) == i * OutputBuckets + j

(* reset's loop state <<inputBucket, leftOutputBucket>> when it reaches    *)
(* cell i, starting from <<0, start>>: each cell decrements the countdown, *)
(* and at zero inputBucket moves on and the countdown restarts.            *)
RECURSIVE resetLoopState(_, _)
resetLoopState(i, start) ==
  IF i = 0 THEN <<0, start>>
  ELSE LET prev == resetLoopState(i - 1, start)
           left == prev[2] - 1
       IN IF left = 0 THEN <<prev[1] + 1, OutputBuckets>> ELSE <<prev[1], left>>

(* Mutant: the countdown starts one short, so rows shift by one cell.     *)
resetInputBucketEarly(i) == resetLoopState(i, OutputBuckets - 1)[1]

(* The input bucket whose row sum reset debits for cell i.                 *)
resetInputBucket(i) == resetLoopState(i, OutputBuckets)[1]

RotIds == 1 .. MaxTraces            \* one possible goroutine per AddTrace
NoRot == 0

ThreadPcs == {"idle", "wait", "rlock", "sum", "slice", "scan"}
RotPcs == {"unspawned", "check", "lock", "acquire", "forward", "loop",
           "sum", "cell", "advance", "done", "aborted"}

VARIABLES
  inputs,        \* p.inputs: summary cells
  inputsSums,    \* p.inputsSums: summary row sums
  window,        \* p.history.window: slices, each with its skip slot
  head, tail,    \* p.history.head, p.history.tail
  headTimestamp, \* p.history.headTimestamp
  size,          \* p.history.size
  rlocked,       \* threads holding p.mu for reading
  wlock,         \* rotator holding or waiting on p.mu for writing
  th,            \* per-thread program counter and locals
  rot,           \* per-goroutine program counter and locals of rotate
  clock,         \* time.Now()
  traces,        \* AddTrace calls so far (bound)
  traceLog,      \* history: [ts, cnt] of every AddTrace, in call order
  testWait,      \* p.testWait: the WaitGroup counter
  scanRaced      \* history: a reset lowered a cell of the row a Predict scans

(* p.mu, the sync.RWMutex: its readers and its writer.                     *)
mu == <<rlocked, wlock>>
vars == <<inputs, inputsSums, window, head, tail, headTimestamp, size,
          mu, th, rot, clock, traces, traceLog, testWait, scanRaced>>
(* p.history, the rotatingHistory struct.                                 *)
history == <<window, head, tail, headTimestamp, size>>
ring == <<inputs, inputsSums, history>>
(* hist.Tail(), the slice at the tail cursor, next to retire (renamed: the *)
(* Sequences module defines Tail).                                        *)
TailSlice == window[tail]

IdleThread == [pc |-> "idle", idx |-> 0, cnt |-> 0, ts |-> 0, row |-> 0,
               cursor |-> 0, acc |-> 0, j |-> 0]

Init ==
  /\ inputs = [c \in Cells |-> 0]
  /\ inputsSums = [b \in Rows |-> 0]
  /\ window = [s \in Slots |-> [c \in 0 .. NumCells |-> 0]]
  /\ head = 0 /\ tail = 0
  /\ headTimestamp = 0
  /\ size = 0
  /\ rlocked = {} /\ wlock = NoRot
  /\ th = [t \in Threads |-> IdleThread]
  /\ rot = [r \in RotIds |-> [pc |-> "unspawned", ts |-> 0, i |-> 0]]
  /\ clock = 0 /\ traces = 0 /\ traceLog = <<>>
  /\ testWait = 0
  /\ scanRaced = [t \in Threads |-> FALSE]

SetPc(t, pc) == th' = [th EXCEPT ![t].pc = pc]
RotGo(r, pc) == rot' = [rot EXCEPT ![r].pc = pc]

(* Wall-clock time passes.                                                 *)
Tick ==
  /\ clock < MaxTime
  /\ clock' = clock + 1
  /\ UNCHANGED <<ring, rlocked, wlock, th, rot, traces, traceLog, testWait>>

(* --- AddTrace and AddTraceWithTimestamp --------------------------------- *)

(* Mutant: in testing mode the spawn is not announced to testWait.         *)
tryRotateNoWaitAdd(ts, r) ==
  IF ts - headTimestamp >= MovingInterval
    THEN /\ rot' = [rot EXCEPT ![r] = [pc |-> "check", ts |-> ts, i |-> 0]]
         /\ UNCHANGED testWait
    ELSE UNCHANGED <<rot, testWait>>

(* tryRotate: an unlocked (racy) read of headTimestamp; if an interval has *)
(* passed, testWait.Add(1) in testing mode and a rotate goroutine is       *)
(* spawned.  runtime.Gosched is only a hint and is not modelled: the       *)
(* goroutine may run at any later point.                                   *)
tryRotate(ts, r) ==
  IF ts - headTimestamp >= MovingInterval
    THEN /\ rot' = [rot EXCEPT ![r] = [pc |-> "check", ts |-> ts, i |-> 0]]
         /\ testWait' = IF Testing THEN testWait + 1 ELSE testWait
    ELSE UNCHANGED <<rot, testWait>>

(* AddTraceWithTimestamp: tryRotate(ts), then bucketize the trace; in     *)
(* testing mode the caller then waits on testWait.                         *)
AddTraceWithTimestamp(t, ts) ==
  /\ th[t].pc = "idle"
  /\ traces < MaxTraces
  /\ \E i \in Rows, j \in 0 .. OutputBuckets - 1, n \in Counts :
       /\ th' = [th EXCEPT ![t] = [IdleThread EXCEPT !.pc = IF Testing THEN "wait" ELSE "rlock",
                                     !.row = i, !.idx = bucket2idx(i, j), !.cnt = n,
                                     !.ts = ts]]
       /\ traceLog' = Append(traceLog, [ts |-> ts, cnt |-> n])
  /\ tryRotate(ts, traces + 1)
  /\ traces' = traces + 1
  /\ UNCHANGED <<ring, rlocked, wlock, clock>>

(* AddTrace stamps the trace with time.Now().                              *)
AddTrace(t) == AddTraceWithTimestamp(t, clock)

(* A caller (a deterministic test, a replay) passes its own timestamp,     *)
(* which may lie before or after the clock and the head timestamp.         *)
AddTraceAt(t) == \E ts \in CallerTimestamps : AddTraceWithTimestamp(t, ts)

(* p.testWait.Wait(): blocks until every announced rotate has returned.    *)
AddTraceWait(t) ==
  /\ th[t].pc = "wait"
  /\ testWait = 0
  /\ SetPc(t, "rlock")
  /\ UNCHANGED <<ring, rlocked, wlock, rot, clock, traces, traceLog, testWait>>

(* RLock, blocked while a writer holds or waits for p.mu; then the summary *)
(* cell is incremented.                                                    *)
AddRLock(t) ==
  /\ th[t].pc = "rlock"
  /\ wlock = NoRot
  /\ rlocked' = rlocked \cup {t}
  /\ inputs' = [inputs EXCEPT ![th[t].idx] = AddInt32(@, th[t].cnt)]
  /\ SetPc(t, "sum")
  /\ UNCHANGED <<inputsSums, window, head, tail, headTimestamp, size,
                 wlock, rot, clock, traces, traceLog, testWait>>

(* Mutant: the row sum is indexed by the flat cell index, not the bucket.  *)
AddSumByIndex(t) ==
  /\ th[t].pc = "sum"
  /\ inputsSums' = [inputsSums EXCEPT ![th[t].idx] = AddInt32(@, th[t].cnt)]
  /\ SetPc(t, "slice")
  /\ UNCHANGED <<inputs, window, head, tail, headTimestamp, size,
                 rlocked, wlock, rot, clock, traces, traceLog, testWait>>

AddSum(t) ==
  /\ th[t].pc = "sum"
  /\ inputsSums' = [inputsSums EXCEPT ![th[t].row] = AddInt32(@, th[t].cnt)]
  /\ SetPc(t, "slice")
  /\ UNCHANGED <<inputs, window, head, tail, headTimestamp, size,
                 rlocked, wlock, rot, clock, traces, traceLog, testWait>>

(* Mutant: the read lock is not released (no deferred RUnlock).           *)
AddSliceKeepsRLock(t) ==
  /\ th[t].pc = "slice"
  /\ window' = [window EXCEPT ![head][th[t].idx] = AddInt32(@, th[t].cnt)]
  /\ SetPc(t, "idle")
  /\ UNCHANGED <<inputs, inputsSums, head, tail, headTimestamp, size,
                 rlocked, wlock, rot, clock, traces, traceLog, testWait>>

(* The head slice cell is incremented; the deferred RUnlock follows.       *)
AddSlice(t) ==
  /\ th[t].pc = "slice"
  /\ window' = [window EXCEPT ![head][th[t].idx] = AddInt32(@, th[t].cnt)]
  /\ rlocked' = rlocked \ {t}
  /\ SetPc(t, "idle")
  /\ UNCHANGED <<inputs, inputsSums, head, tail, headTimestamp, size,
                 wlock, rot, clock, traces, traceLog, testWait>>

(* --- Predict: no lock is taken ----------------------------------------- *)

(* The values p.rand = rand.Int31n may return for n > 0.                   *)
Int31n(n) == 0 .. n - 1

(* Mutant: the cursor is drawn from 0 .. randRange, one past the range.    *)
PredictStartInclusive(t) ==
  /\ th[t].pc = "idle"
  /\ \E b \in Rows :
       LET randRange == inputsSums[b] IN
       \/ /\ randRange = 0
          /\ UNCHANGED th
       \/ /\ randRange > 0
          /\ \E cursor \in 0 .. randRange :
               th' = [th EXCEPT ![t] = [IdleThread EXCEPT !.pc = "scan",
                                          !.row = b, !.cursor = cursor]]
  /\ UNCHANGED <<ring, rlocked, wlock, rot, clock, traces, traceLog, testWait>>

(* Load the row sum; zero gives the cold prediction (optimistic: 1) and    *)
(* returns, otherwise cursor = rand.Int31n(randRange).  rand.Int31n panics *)
(* on a negative range: the call never returns, so no step is taken from   *)
(* it (PredictNeverPanics is the property that it is unreachable).         *)
PredictStart(t) ==
  /\ th[t].pc = "idle"
  /\ \E b \in Rows :
       LET randRange == inputsSums[b] IN
       \/ /\ randRange = 0
          /\ UNCHANGED th
       \/ /\ randRange > 0
          /\ \E cursor \in Int31n(randRange) :
               th' = [th EXCEPT ![t] = [IdleThread EXCEPT !.pc = "scan",
                                          !.row = b, !.cursor = cursor]]
  /\ UNCHANGED <<ring, rlocked, wlock, rot, clock, traces, traceLog, testWait>>

(* One iteration of the weighted-random scan: load a cell, accumulate (in  *)
(* int32), return 2^j once the cursor is passed, 2^(OutputBuckets-1) after *)
(* the last cell.                                                          *)
PredictScan(t) ==
  /\ th[t].pc = "scan"
  /\ LET me == th[t]
         acc == AddInt32(me.acc, inputs[bucket2idx(me.row, me.j)])
     IN th' = [th EXCEPT ![t] =
                 IF me.cursor < acc \/ me.j = OutputBuckets - 1
                   THEN IdleThread
                   ELSE [me EXCEPT !.acc = acc, !.j = me.j + 1]]
  /\ UNCHANGED <<ring, rlocked, wlock, rot, clock, traces, traceLog, testWait>>

(* --- rotate(ts), the goroutine ---------------------------------------- *)

(* Mutant: rotate does not defer testWait.Done().                          *)
DoneMissing == testWait' = testWait

(* testWait.Done(), deferred by rotate in testing mode, on every return.   *)
Done == testWait' = IF Testing THEN testWait - 1 ELSE testWait

(* p.history.Size(): atomic.LoadInt32(&hist.size).                         *)
Size == size

(* Unlocked size check: more than the spare window logs and aborts.        *)
RotateCheck(r) ==
  /\ rot[r].pc = "check"
  /\ IF Size > SpareWindow
       THEN /\ rot' = [rot EXCEPT ![r] = [pc |-> "aborted", ts |-> 0, i |-> 0]]
            /\ Done
       ELSE /\ RotGo(r, "lock")
            /\ UNCHANGED testWait
  /\ UNCHANGED <<ring, rlocked, wlock, th, clock, traces, traceLog>>

(* p.mu.Lock: take the writer mutex, which blocks new readers ...          *)
RotateLock(r) ==
  /\ rot[r].pc = "lock"
  /\ wlock = NoRot
  /\ wlock' = r
  /\ RotGo(r, "acquire")
  /\ UNCHANGED <<ring, rlocked, th, clock, traces, traceLog, testWait>>

(* ... then wait for the active readers to leave.                          *)
RotateAcquire(r) ==
  /\ rot[r].pc = "acquire"
  /\ rlocked = {}
  /\ RotGo(r, "forward")
  /\ UNCHANGED <<ring, rlocked, wlock, th, clock, traces, traceLog, testWait>>

(* The deferred p.mu.Unlock, testWait.Done and return of rotate.           *)
Unlock(r) ==
  /\ wlock' = NoRot
  /\ Done
  /\ rot' = [rot EXCEPT ![r] = [pc |-> "done", ts |-> 0, i |-> 0]]

(* Mutant: the head index is advanced without wrapping around the ring.    *)
forwardLockedNoWrap(r) ==
  /\ rot[r].pc = "forward"
  /\ LET ts == rot[r].ts
         forwarded == (ts - headTimestamp) \div MovingInterval
     IN IF ts - headTimestamp < MovingInterval
          THEN /\ Unlock(r)
               /\ UNCHANGED ring
          ELSE /\ head' = head + 1
               /\ headTimestamp' = headTimestamp + forwarded * MovingInterval
               /\ window' = [window EXCEPT ![head + 1][SkipIdx] = forwarded]
               /\ size' = size + forwarded
               /\ RotGo(r, "loop")
               /\ UNCHANGED <<inputs, inputsSums, tail, wlock, testWait>>
  /\ UNCHANGED <<rlocked, th, clock, traces, traceLog>>

(* Mutant: the counting loop runs while more than an interval is left      *)
(* (> instead of >=), so an exact multiple forwards one interval short.   *)
forwardLockedStrictLoop(r) ==
  /\ rot[r].pc = "forward"
  /\ LET ts == rot[r].ts
         forwarded == (ts - headTimestamp - 1) \div MovingInterval
         newHead == (head + 1) % Capacity
     IN IF ts - headTimestamp < MovingInterval
          THEN /\ Unlock(r)
               /\ UNCHANGED ring
          ELSE /\ head' = newHead
               /\ headTimestamp' = headTimestamp + forwarded * MovingInterval
               /\ window' = [window EXCEPT ![newHead][SkipIdx] = forwarded]
               /\ size' = size + forwarded
               /\ RotGo(r, "loop")
               /\ UNCHANGED <<inputs, inputsSums, tail, wlock, testWait>>
  /\ UNCHANGED <<rlocked, th, clock, traces, traceLog>>

(* forwardLocked: count the whole intervals elapsed, move the head into    *)
(* the spare slot, record the count in its skip slot and add it to size.   *)
forwardLocked(r) ==
  /\ rot[r].pc = "forward"
  /\ LET ts == rot[r].ts
         forwarded == (ts - headTimestamp) \div MovingInterval
         newHead == (head + 1) % Capacity
     IN IF ts - headTimestamp < MovingInterval
          THEN /\ Unlock(r)
               /\ UNCHANGED ring
          ELSE /\ head' = newHead
               /\ headTimestamp' = headTimestamp + forwarded * MovingInterval
               /\ window' = [window EXCEPT ![newHead][SkipIdx] = forwarded]
               /\ size' = size + forwarded
               /\ RotGo(r, "loop")
               /\ UNCHANGED <<inputs, inputsSums, tail, wlock, testWait>>
  /\ UNCHANGED <<rlocked, th, clock, traces, traceLog>>

(* Mutant: the loop stops one interval late (> instead of >=).             *)
RotateLoopStrict(r) ==
  /\ rot[r].pc = "loop"
  /\ IF Size > SpareWindow
       THEN /\ rot' = [rot EXCEPT ![r].pc = "sum", ![r].i = 0]
            /\ UNCHANGED <<wlock, testWait>>
       ELSE Unlock(r)
  /\ UNCHANGED <<ring, rlocked, th, clock, traces, traceLog>>

(* Mutant: the loop resets one slice more than needed (window - 1).       *)
RotateLoopOneExtra(r) ==
  /\ rot[r].pc = "loop"
  /\ IF Size >= SpareWindow - 1
       THEN /\ rot' = [rot EXCEPT ![r].pc = "sum", ![r].i = 0]
            /\ UNCHANGED <<wlock, testWait>>
       ELSE Unlock(r)
  /\ UNCHANGED <<ring, rlocked, th, clock, traces, traceLog>>

(* for p.history.Size() >= window { resetTail }, then the deferred Unlock. *)
RotateLoop(r) ==
  /\ rot[r].pc = "loop"
  /\ IF Size >= SpareWindow
       THEN /\ rot' = [rot EXCEPT ![r].pc = "sum", ![r].i = 0]
            /\ UNCHANGED <<wlock, testWait>>
       ELSE Unlock(r)
  /\ UNCHANGED <<ring, rlocked, th, clock, traces, traceLog>>

(* reset, cell i of the tail: subtract it from the row sum ...             *)
ResetSum(r) ==
  /\ rot[r].pc = "sum"
  /\ LET i == rot[r].i IN
     inputsSums' = [inputsSums EXCEPT ![resetInputBucket(i)] = AddInt32(@, NegInt32(TailSlice[i]))]
  /\ RotGo(r, "cell")
  /\ UNCHANGED <<inputs, window, head, tail, headTimestamp, size,
                 rlocked, wlock, th, clock, traces, traceLog, testWait>>

(* ... then from the summary cell, and zero it.                            *)
ResetCell(r) ==
  /\ rot[r].pc = "cell"
  /\ LET i == rot[r].i IN
     /\ inputs' = [inputs EXCEPT ![i] = AddInt32(@, NegInt32(TailSlice[i]))]
     /\ window' = [window EXCEPT ![tail][i] = 0]
     /\ rot' = [rot EXCEPT ![r].pc = IF i + 1 < NumCells THEN "sum" ELSE "advance",
                           ![r].i = i + 1]
  /\ UNCHANGED <<inputsSums, head, tail, headTimestamp, size,
                 rlocked, wlock, th, clock, traces, traceLog, testWait>>

(* Mutant: the summary cell is subtracted before the row sum.              *)
resetCellFirst(r) ==
  LET i == rot[r].i IN
  /\ \/ /\ rot[r].pc = "sum"
        /\ inputs' = [inputs EXCEPT ![i] = AddInt32(@, NegInt32(TailSlice[i]))]
        /\ RotGo(r, "cell")
        /\ UNCHANGED <<inputsSums, window>>
     \/ /\ rot[r].pc = "cell"
        /\ inputsSums' = [inputsSums EXCEPT ![resetInputBucket(i)] = AddInt32(@, NegInt32(TailSlice[i]))]
        /\ window' = [window EXCEPT ![tail][i] = 0]
        /\ rot' = [rot EXCEPT ![r].pc = IF i + 1 < NumCells THEN "sum" ELSE "advance",
                              ![r].i = i + 1]
        /\ UNCHANGED inputs
  /\ UNCHANGED <<head, tail, headTimestamp, size,
                 rlocked, wlock, th, clock, traces, traceLog, testWait>>

(* reset of one cell of the tail: the two steps above, in the code's order. *)
reset(r) == ResetSum(r) \/ ResetCell(r)

(* Mutant: end of resetTail subtracts the skip count of the old tail (read *)
(* before advancing), which reset has just zeroed.                         *)
resetTailOldSkip(r) ==
  /\ rot[r].pc = "advance"
  /\ window' = [window EXCEPT ![tail][SkipIdx] = 0]
  /\ tail' = (tail + 1) % Capacity
  /\ size' = size - 0
  /\ rot' = [rot EXCEPT ![r].pc = "loop", ![r].i = 0]
  /\ UNCHANGED <<inputs, inputsSums, head, headTimestamp,
                 rlocked, wlock, th, clock, traces, traceLog, testWait>>

(* Mutant: resetTail forgets to subtract the new tail's skip count.        *)
resetTailKeepsSize(r) ==
  /\ rot[r].pc = "advance"
  /\ window' = [window EXCEPT ![tail][SkipIdx] = 0]
  /\ tail' = (tail + 1) % Capacity
  /\ UNCHANGED size
  /\ rot' = [rot EXCEPT ![r].pc = "loop", ![r].i = 0]
  /\ UNCHANGED <<inputs, inputsSums, head, headTimestamp,
                 rlocked, wlock, th, clock, traces, traceLog, testWait>>

(* End of reset and of resetTail: zero the skip slot, advance the tail and *)
(* subtract the skip count of the new tail from size.                      *)
resetTail(r) ==
  /\ rot[r].pc = "advance"
  /\ window' = [window EXCEPT ![tail][SkipIdx] = 0]
  /\ tail' = (tail + 1) % Capacity
  /\ size' = size - TailSlice'[SkipIdx]
  /\ rot' = [rot EXCEPT ![r].pc = "loop", ![r].i = 0]
  /\ UNCHANGED <<inputs, inputsSums, head, headTimestamp,
                 rlocked, wlock, th, clock, traces, traceLog, testWait>>

ThreadStep(t) ==
  \/ AddTrace(t) \/ AddTraceAt(t) \/ AddTraceWait(t) \/ AddRLock(t) \/ AddSum(t) \/ AddSlice(t)
  \/ PredictStart(t) \/ PredictScan(t)

RotateStep(r) ==
  \/ RotateCheck(r) \/ RotateLock(r) \/ RotateAcquire(r) \/ forwardLocked(r)
  \/ RotateLoop(r) \/ reset(r) \/ resetTail(r)

RowCells(b) == {bucket2idx(b, j) : j \in 0 .. OutputBuckets - 1}

(* History for the properties: a Predict's scan counts as raced from the  *)
(* first step after its row-sum load that lowers a cell of its row.       *)
TrackScanRaces ==
  scanRaced' = [t \in Threads |->
                  /\ th'[t].pc = "scan"
                  /\ \/ th[t].pc = "scan" /\ scanRaced[t]
                     \/ \E c \in RowCells(th'[t].row) : inputs'[c] < inputs[c]]

Next ==
  /\ \/ Tick
     \/ \E t \in Threads : ThreadStep(t)
     \/ \E r \in RotIds : RotateStep(r)
  /\ TrackScanRaces

(* The Go scheduler runs every runnable goroutine eventually, and the      *)
(* steps a caller has begun are not abandoned; starting a call is the      *)
(* caller's choice and is not fair.                                        *)
CallerContinues(t) ==
  AddTraceWait(t) \/ AddRLock(t) \/ AddSum(t) \/ AddSlice(t) \/ PredictScan(t)

Fairness ==
  /\ \A t \in Threads : WF_vars(CallerContinues(t) /\ TrackScanRaces)
  /\ \A r \in RotIds : WF_vars(RotateStep(r) /\ TrackScanRaces)

Spec == Init /\ [][Next]_vars
FairSpec == Spec /\ Fairness

(* --- Views of the state used by the properties -------------------------- *)

(* Ring distance from the tail; the live slots run from tail to head.      *)
Dist(s) == (s - tail) % Capacity
LiveSlots == {s \in Slots : Dist(s) <= Dist(head)}

(* No AddTrace is between its atomic adds and no rotation holds the lock   *)
(* past its acquisition.                                                   *)
Quiescent ==
  /\ \A t \in Threads : th[t].pc \notin {"sum", "slice"}
  /\ \A r \in RotIds : rot[r].pc \notin {"forward", "loop", "sum", "cell", "advance"}

CellOfSlices(c) == SumFunctionOnSet([s \in Slots |-> window[s][c]], LiveSlots)
RowTotal(b) == SumFunctionOnSet(inputs, RowCells(b))

(* Intervals between the slot at ring distance d from the tail and the     *)
(* head: the sum of the skip counts of the slots after it.                 *)
RECURSIVE AgeAtDist(_)
AgeAtDist(d) ==
  IF d >= Dist(head) THEN 0
  ELSE AgeAtDist(d + 1) + window[(tail + d + 1) % Capacity][SkipIdx]

SlotAge(s) == AgeAtDist(Dist(s))
SlotEpoch(s) == headTimestamp - MovingInterval * SlotAge(s)

(* Refinement mapping: an epoch's counts are those of the live slot that   *)
(* began at it, unless the slot is already past the retention.             *)
Recorded ==
  LET epoch == [s \in LiveSlots |-> SlotEpoch(s)]
      kept == {s \in LiveSlots : headTimestamp - epoch[s] < Retention}
  IN [e \in 0 .. MaxTime |->
        IF \E s \in kept : epoch[s] = e
          THEN LET s == CHOOSE s \in kept : epoch[s] = e
               IN [c \in Cells |-> window[s][c]]
          ELSE [c \in Cells |-> 0]]

Abstract == INSTANCE SlidingWindowHistogram
              WITH MovingInterval <- MovingInterval, Retention <- Retention,
                   MaxTime <- MaxTime, Cells <- Cells, Counts <- Counts,
                   headTimestamp <- headTimestamp, recorded <- Recorded

(* Timestamp of the latest AddTrace, -1 if none.                          *)
LastTrace ==
  IF traceLog = <<>>
    THEN -1
    ELSE CHOOSE ts \in {e.ts : e \in Range(traceLog)} : \A e \in Range(traceLog) : e.ts <= ts

(* --- Properties ---------------------------------------------------------- *)

TypeOK ==
  /\ inputs \in [Cells -> Int32] /\ inputsSums \in [Rows -> Int32]
  /\ window \in [Slots -> [0 .. NumCells -> Int32]]
  /\ head \in Slots /\ tail \in Slots
  /\ headTimestamp \in 0 .. MaxTime /\ size \in Int
  /\ rlocked \subseteq Threads /\ wlock \in RotIds \cup {NoRot}
  /\ \A t \in Threads : th[t].pc \in ThreadPcs
  /\ \A r \in RotIds : rot[r].pc \in RotPcs /\ rot[r].ts \in 0 .. MaxTime
  /\ clock \in 0 .. MaxTime /\ traces \in 0 .. MaxTraces
  /\ traceLog \in Seq([ts : (0 .. MaxTime) \cup CallerTimestamps, cnt : Counts]) /\ Len(traceLog) = traces
  /\ testWait \in 0 .. MaxTraces /\ scanRaced \in [Threads -> BOOLEAN]

(* I1/I2: whenever no AddTrace is between its adds and no rotation is      *)
(* running, every summary cell is the sum of that cell over the live       *)
(* slices, and every row sum is the sum of its row's cells.  AddTrace      *)
(* updates three counters in sequence and reset subtracts cell by cell,    *)
(* so this holds only because the RWMutex separates them.                  *)
SummaryMatchesLiveSlices ==
  Quiescent =>
    /\ \A c \in Cells : inputs[c] = CellOfSlices(c)
    /\ \A b \in Rows : inputsSums[b] = RowTotal(b)

(* In every state, also in the middle of an AddTrace or of a reset, a row  *)
(* sum never exceeds the total of its summary cells, nor is it negative:   *)
(* Predict loads the row sum without a lock and then scans the cells, and  *)
(* its scan can only run past the last cell (the 2^(OutputBuckets-1)       *)
(* fallback) when a reset overtakes it.  AddTrace adds to the cell before  *)
(* the row sum, reset subtracts from the row sum before the cell.          *)
RowSumNeverExceedsCells ==
  \A b \in Rows : 0 <= inputsSums[b] /\ inputsSums[b] <= RowTotal(b)

(* I3/I4: at rest, size is the number of intervals between the tail and   *)
(* the head, it is below the spare window, and every slot outside tail..head *)
(* is zero, so the next head forwardLocked moves into is clean.            *)
RingAccounting ==
  Quiescent =>
    /\ size = SlotAge(tail)
    /\ size < SpareWindow
    /\ \A s \in Slots \ LiveSlots : \A k \in 0 .. NumCells : window[s][k] = 0

(* The ring, the skip counts and the reset loop implement the sliding      *)
(* window: counts recorded in an epoch are kept, unchanged, until the head *)
(* timestamp is Retention past it, and then dropped all at once.           *)
ImplementsSlidingWindow == Abstract!Spec

(* Every rotate goroutine that is spawned returns.                         *)
RotationTerminates ==
  \A r \in RotIds : rot[r].pc = "check" ~> rot[r].pc \in {"done", "aborted"}

(* Every AddTrace that has passed tryRotate completes: the writer lock is  *)
(* always released and readers are not starved.                            *)
AddTraceCompletes ==
  \A t \in Threads : th[t].pc \in {"wait", "rlock"} ~> th[t].pc = "idle"

(* rotate's unlocked size check ("unexpected no spare time slot") never    *)
(* fires: the spec calls it a violation of I3 that should never happen.    *)
NoRotateAbort == \A r \in RotIds : rot[r].pc # "aborted"

(* Spec P3: once time has advanced by Window + MovingInterval with no      *)
(* further trace, every summary counter is zero.                           *)
ExpiredTracesLeaveSummary ==
  (LastTrace >= 0 /\ clock - LastTrace >= Window + MovingInterval)
    => \A b \in Rows : inputsSums[b] = 0


(* Spec 4.5: the fallback 2^(OutputBuckets-1) after the last cell only     *)
(* guards against racing subtractions.  A Predict whose row no reset has   *)
(* lowered since it loaded the row sum can still find its cursor in the    *)
(* cells it has not yet read: the AddTrace order (cell before row sum),    *)
(* the reset order (row sum before cell) and rand.Int31n's bound together  *)
(* keep cursor < acc + the cells left, with cells read at different times. *)
ScanFindsCursorUnlessRaced ==
  \A t \in Threads :
    (th[t].pc = "scan" /\ ~scanRaced[t]) =>
      th[t].cursor < th[t].acc +
        SumFunctionOnSet(inputs, {bucket2idx(th[t].row, k) : k \in th[t].j .. OutputBuckets - 1})

(* The test hook (spec 6, "rotation completes before any further AddTrace  *)
(* proceeds"): with a single caller in testing mode, an AddTrace takes the *)
(* read lock only after every rotate goroutine spawned so far returned.    *)
TestingRotationsJoined ==
  Testing =>
    \A t \in Threads : th[t].pc = "rlock" =>
      \A r \in RotIds : rot[r].pc \in {"unspawned", "done", "aborted"}

(* Spec 7 ("no runtime errors on the predict path"): the row sum Predict   *)
(* passes to rand.Int31n is never negative, as Int31n panics on n <= 0.    *)
PredictNeverPanics == \A b \in Rows : inputsSums[b] >= 0

(* Spec I5: a write at time ts lands in the head iff ts - headTimestamp <  *)
(* MovingInterval.  In testing mode the AddTrace's own rotation (spawned   *)
(* by tryRotate, joined by testWait.Wait) has forwarded the head by every  *)
(* whole interval up to ts before the trace is added to window[head], for  *)
(* timestamps the caller chooses, earlier or later than the clock.         *)
TraceLandsInHead ==
  Testing =>
    \A t \in Threads : th[t].pc = "slice" => th[t].ts - headTimestamp < MovingInterval

(* The latest time the predictor has been told of: the clock, or a later  *)
(* timestamp a caller passed.                                              *)
Now == LET stamps == {clock} \cup {e.ts : e \in Range(traceLog)}
       IN CHOOSE ts \in stamps : \A u \in stamps : u <= ts

(* The total count of the traces at most age old, measured up to Now.     *)
TracesWithin(age) ==
  SumFunctionOnSet([k \in DOMAIN traceLog |-> traceLog[k].cnt],
                   {k \in DOMAIN traceLog : Now - traceLog[k].ts <= age})

(* No AddTrace is between its steps: the summary is at rest for callers.   *)
CallersAtRest == \A t \in Threads : th[t].pc \in {"idle", "scan"}

(* Every trace that has been added (no AddTrace is between its steps) is   *)
(* still counted by the summary until more than Window - MovingInterval   *)
(* has passed, up to Now, since its timestamp: an epoch is dropped whole   *)
(* once the head is Retention past its start, so no trace is dropped       *)
(* sooner, unless it was stored in a slice older than its timestamp        *)
(* (runtime.Gosched in tryRotate is only a hint: the rotate it spawned may *)
(* run after it).                                                          *)
RecentTraceCounted ==
  CallersAtRest => SumFunction(inputsSums) >= TracesWithin(Window - MovingInterval)

(* Spec glossary ("Window: total time horizon over which observations     *)
(* remain live") and scenario 5 (window 60 s, interval 10 s: the trace of  *)
(* 35 s is still in the summary after 95 s): every trace younger than      *)
(* Window (time is in whole ticks) is still counted once the calls have    *)
(* returned.  rotate's loop (Size() >= len - 1) drops whole slices, and so *)
(* a trace younger than Window whose slice starts a Window back.           *)
WindowTraceCounted ==
  CallersAtRest => SumFunction(inputsSums) >= TracesWithin(Window - 1)

=============================================================================
