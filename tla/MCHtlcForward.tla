--------------------------- MODULE MCHtlcForward ---------------------------
(* Model values and symmetry for the TLC runs of HtlcForward.              *)
EXTENDS HtlcForward, TLC

\* Workers are interchangeable: no handler depends on which one runs it.
WorkerSymmetry == Permutations(Workers)
=============================================================================
