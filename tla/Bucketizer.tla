----------------------------- MODULE Bucketizer -----------------------------
(***************************************************************************)
(* The pure arithmetic of SimpleOutputPredictor: token2bucket, the bucket  *)
(* count computed by NewSimpleOutputPredictor and the value Predict        *)
(* returns for a bucket.  The float computations math.Round(math.Log2(n)) *)
(* and math.Ceil(math.Log2(m)) are modelled by what they compute on        *)
(* integers: log2 n is never exactly half-way between two integers, so    *)
(* round(log2 n) = f + 1 exactly when n^2 >= 2^(2f+1), f = floor(log2 n).  *)
(*                                                                         *)
(* The state machine is a predictor built with one of the allowed         *)
(* maxOutputTokens, and the stream of token counts bucketized by AddTrace  *)
(* and Predict and of values Predict returns; each step is one of them.    *)
(***************************************************************************)
EXTENDS Integers

CONSTANTS
  MaxOutputTokensSet, \* maxOutputTokens values passed to NewSimpleOutputPredictor
  MaxTokens           \* bound: largest token count bucketized

ASSUME MaxOutputTokensSet \subseteq Nat /\ MaxTokens \in Nat

RECURSIVE FloorLog2(_)
FloorLog2(n) == IF n < 2 THEN 0 ELSE 1 + FloorLog2(n \div 2)

(* math.Round(math.Log2(float64(n))), n > 0.                               *)
RoundLog2(n) ==
  LET f == FloorLog2(n) IN IF n * n >= 2^(2 * f + 1) THEN f + 1 ELSE f

(* math.Ceil(math.Log2(float64(m))), m > 0.                                *)
CeilLog2(m) ==
  LET f == FloorLog2(m) IN IF 2^f = m THEN f ELSE f + 1

(* int(math.Ceil(math.Log2(float64(maxOutputTokens + 1)))).                *)
outputBuckets(maxOutputTokens) == CeilLog2(maxOutputTokens + 1)

(* Mutant: the tokens > 0 guard is dropped; math.Log2(0) is -Inf and its  *)
(* conversion to int is negative.                                          *)
token2bucketNoZeroGuard(tokens, limit) ==
  LET bucket == IF tokens > 0 THEN RoundLog2(tokens) ELSE -1
  IN IF bucket >= limit THEN limit - 1 ELSE bucket

token2bucket(tokens, limit) ==
  LET bucket == IF tokens > 0 THEN RoundLog2(tokens) ELSE 0
  IN IF bucket >= limit THEN limit - 1 ELSE bucket

(* int(math.Pow(2, float64(j))): the prediction for output bucket j.       *)
bucketValue(j) == 2^j

(* The ColdPredictionStrategy constants and MaxOutputLen.                  *)
OptimisticColdPrediction == 0
RandomColdPredition == 1
InputColdPrediction == 2
PessimiticColdPrediction == 3
MaxOutputLen == 4096

DefaultColdPrediction == OptimisticColdPrediction

(* coldPredict: the values it may return (rand.Intn(n) + 1 is 1 .. n).    *)
coldPredict(inputTokens) ==
  CASE DefaultColdPrediction = RandomColdPredition -> 1 .. MaxOutputLen
    [] DefaultColdPrediction = InputColdPrediction -> {inputTokens}
    [] DefaultColdPrediction = PessimiticColdPrediction -> {MaxOutputLen}
    [] OTHER -> {1}

(* The values Predict(inputTokens) may return: coldPredict on an empty row *)
(* sum, else 2^j for the bucket j the scan stops at, or the fallback       *)
(* 2^(outputBuckets-1) after the last cell.                                *)
PredictValues(inputTokens, rowEmpty, maxOutputTokens) ==
  IF rowEmpty THEN coldPredict(inputTokens)
  ELSE {bucketValue(j) : j \in 0 .. outputBuckets(maxOutputTokens) - 1}

VARIABLES maxOutputTokens, tokens, bucket

vars == <<maxOutputTokens, tokens, bucket>>

Init ==
  /\ maxOutputTokens \in MaxOutputTokensSet
  /\ tokens = 0
  /\ bucket = token2bucket(0, outputBuckets(maxOutputTokens))

(* One token count is bucketized.                                          *)
Bucketize ==
  /\ \E n \in 0 .. MaxTokens :
       /\ tokens' = n
       /\ bucket' = token2bucket(n, outputBuckets(maxOutputTokens))
  /\ UNCHANGED maxOutputTokens

Spec == Init /\ [][Bucketize]_vars

(* --- Properties ---------------------------------------------------------- *)

TypeOK ==
  /\ maxOutputTokens \in MaxOutputTokensSet /\ tokens \in 0 .. MaxTokens
  /\ bucket \in Nat

(* Spec scenario 6: with max_output = 1024, a prediction from any observed *)
(* output is at most 2^(output_buckets - 1) = 512.                         *)
PredictionAtMost512 == bucketValue(bucket) <= 512

BucketIsIndex == bucket \in 0 .. outputBuckets(maxOutputTokens) - 1

=============================================================================
