--------------------------- MODULE MCMintProcessor ---------------------------
\* Instances of MintProcessor for TLC: one holding and two invocations that may
\* overlap, or more holdings and one invocation.
EXTENDS MintProcessor, TLC

CONSTANTS h1, r1, r2
=============================================================================
