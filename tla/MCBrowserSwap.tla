--------------------------- MODULE MCBrowserSwap ---------------------------
(* Model values for the TLC runs of BrowserSwap.                           *)
EXTENDS BrowserSwap
=============================================================================
