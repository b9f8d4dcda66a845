--------------------------- MODULE MCHtlcReverse ---------------------------
(* Model values and symmetry for the TLC runs of HtlcReverse.              *)
EXTENDS HtlcReverse, TLC

\* Workers are interchangeable: no handler depends on which one runs it.
WorkerSymmetry == Permutations(Workers)
=============================================================================
