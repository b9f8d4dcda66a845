---------------------------- MODULE MCCantonSwap ----------------------------
(* Model values and symmetry for the TLC runs of CantonSwap.               *)
EXTENDS CantonSwap, TLC

\* Workers are interchangeable: any server instance runs any handler.
WorkerSymmetry == Permutations(Workers)
=============================================================================
