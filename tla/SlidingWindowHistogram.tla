----------------------- MODULE SlidingWindowHistogram -----------------------
(***************************************************************************)
(* What the rotating history and summary of SimpleOutputPredictor promise  *)
(* (src/pkg/cache/output_predictor.go): a histogram of traces, each kept   *)
(* under the epoch (head timestamp) at which it was recorded, from which   *)
(* an epoch disappears as a whole once the head timestamp is Retention or  *)
(* more past it.  The epoch only moves forward, and only in whole          *)
(* multiples of MovingInterval.                                            *)
(***************************************************************************)
EXTENDS Integers, Functions

CONSTANTS
  Cells,           \* flat (input bucket, output bucket) indices
  Counts,          \* trace counts a caller may pass
  MovingInterval,  \* rotation quantum
  Retention,       \* age at which an epoch expires
  MaxTime          \* last representable timestamp

ASSUME MovingInterval \in Nat \ {0} /\ Retention \in Nat /\ MaxTime \in Nat

VARIABLES headTimestamp, recorded

vars == <<headTimestamp, recorded>>

Epochs == 0 .. MaxTime

NoCounts == [c \in Cells |-> 0]

Init ==
  /\ headTimestamp = 0
  /\ recorded = [e \in Epochs |-> NoCounts]

(* A trace of n requests in cell c is recorded in the current epoch.       *)
Record(c, n) ==
  /\ recorded' = [recorded EXCEPT ![headTimestamp][c] = @ + n]
  /\ UNCHANGED headTimestamp

(* Time ts is at least one interval past the epoch: the epoch advances by  *)
(* the whole intervals elapsed and every expired epoch is forgotten.       *)
Advance(ts) ==
  /\ ts - headTimestamp >= MovingInterval
  /\ headTimestamp' = headTimestamp
                        + ((ts - headTimestamp) \div MovingInterval) * MovingInterval
  /\ recorded' = [e \in Epochs |->
                    IF headTimestamp' - e >= Retention THEN NoCounts ELSE recorded[e]]

Next ==
  \/ \E c \in Cells, n \in Counts : Record(c, n)
  \/ \E ts \in Epochs : Advance(ts)

Spec == Init /\ [][Next]_vars

=============================================================================
