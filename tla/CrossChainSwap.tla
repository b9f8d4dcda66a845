--------------------------- MODULE CrossChainSwap ---------------------------
(***************************************************************************)
(* What a cross-chain swap promises in either direction, with no order row,*)
(* handler, contract or clock: where each asset is, and the order in which *)
(* it may move.  README.md section 7 states it as "no double-settlement,   *)
(* ... no refund after claim".  The main asset is the user's (WBTC in a    *)
(* forward swap, CBTC in a reverse one), the counter asset the solver's.   *)
(* The solver ties up and releases the counter asset only against the main *)
(* asset in escrow, and collects the main asset only after the release.    *)
(***************************************************************************)

VARIABLES
    main,   \* "owner" (the user), "escrow" (for the solver) or "settled"
    counter \* "free" (never tied up), "locked", "delivered" or "returned"

Init == main = "owner" /\ counter = "free"

\* The user's deposit, and its return.
Deposit == main = "owner"  /\ main' = "escrow" /\ UNCHANGED counter
Return  == main = "escrow" /\ main' = "owner"  /\ UNCHANGED counter

\* The solver ties up the counter asset once, against a deposit.
Reserve ==
    /\ counter = "free" /\ main = "escrow"
    /\ counter' = "locked" /\ UNCHANGED main

\* The user receives the counter asset, while the deposit stands.
Release ==
    /\ counter = "locked" /\ main = "escrow"
    /\ counter' = "delivered" /\ UNCHANGED main

\* The solver takes its counter asset back.
Reclaim == counter = "locked" /\ counter' = "returned" /\ UNCHANGED main

\* The solver collects the deposit, having delivered.
Collect ==
    /\ main = "escrow" /\ counter = "delivered"
    /\ main' = "settled" /\ UNCHANGED counter

Next == Deposit \/ Return \/ Reserve \/ Release \/ Reclaim \/ Collect

Spec == Init /\ [][Next]_<<main, counter>>
=============================================================================
