--------------------------- MODULE MCForwardLoop ---------------------------
(* Model values and symmetry for the TLC runs of ForwardLoop.              *)
EXTENDS ForwardLoop, TLC

\* Workers are interchangeable: no handler depends on which one runs it.
LoopWorkerSymmetry == Permutations(Workers)
=============================================================================
