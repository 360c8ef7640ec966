------------------------- MODULE MC_OutputPredictor -------------------------
(* Model-checking instance of OutputPredictor: the constants are given in  *)
(* the .cfg files; this module adds the symmetry of the caller threads.    *)
EXTENDS OutputPredictor, TLC

ThreadSymmetry == Permutations(Threads)

(* For runs with counts near 2^31, whose properties do not depend on the   *)
(* draw: the least and the greatest cursor rand.Int31n(n) can return.      *)
ExtremeCursors(n) == {0, n - 1}

=============================================================================
