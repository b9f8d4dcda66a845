---------------------------- MODULE LoopCustody ----------------------------
(***************************************************************************)
(* The Canton leg of a reverse swap whose seller has an external (Loop)    *)
(* wallet: no HtlcLock, but one transfer of the CBTC into the solver's     *)
(* custody and, if the swap fails, one transfer back.  The transfer        *)
(* instruction is external (Splice registry code); what is used of it is   *)
(* that it is either pending until the receiver accepts it, or settled at  *)
(* once when the receiver has a preapproval; that it is accepted at most   *)
(* once; that it cannot be accepted after it lapses, and stays listed; and *)
(* that a transfer back happens once per deterministic commandId.          *)
(***************************************************************************)

VARIABLE custody

\* offered, lapsed: a pending instruction, before and after its executeBefore.
\* held: accepted by the solver.  direct: settled by preapproval.
\* returned: sent back.
CustodyState == {"none", "offered", "lapsed", "held", "direct", "returned"}

CustodyTypeOK == custody \in CustodyState
CustodyInit == custody = "none"

\* The solver's vault holds the user's CBTC.
Held == custody \in {"held", "direct"}

\* The wallet submits the prepared TransferFactory_Transfer.
Offer == custody = "none" /\ custody' \in {"offered", "direct"}
Lapse == custody = "offered" /\ custody' = "lapsed"

\* TransferInstruction_Accept by the solver (acceptTransfer).
AcceptTransfer == custody = "offered" /\ custody' = "held"

\* createTransfer back to the user, under the command id of the refund.
ReturnTransfer == Held /\ custody' = "returned"
=============================================================================
