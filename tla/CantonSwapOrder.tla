-------------------------- MODULE CantonSwapOrder --------------------------
(***************************************************************************)
(* What the handlers of a Canton-to-Canton swap act on: the order row      *)
(* (lib/canton-swap-types.ts) in its store (lib/canton-swap-store.ts), the *)
(* user's sell offer and the commands of the vault on the ledger           *)
(* (lib/canton-swap-settle.ts, lib/canton-command-recovery.ts).            *)
(*                                                                         *)
(* legs[k] is the fate of the vault's command with deterministic id k:     *)
(* leg 1 is the fill, which accepts the sell offer and delivers the bought *)
(* asset in one transaction, leg k > 1 is reissue k - 1.  The ledger       *)
(* executes a command id at most once.                                     *)
(***************************************************************************)
EXTENDS Naturals, FiniteSets

CONSTANTS
    Workers,   \* concurrent routes, daemon calls and sweeps
    MaxLegs,   \* bound: the fill and MaxLegs - 1 reissues
    MaxFails   \* bound: workers killed, calls failed, answers lost

ASSUME CantonSwapAssumption ==
    /\ MaxLegs \in Nat \ {0}
    /\ MaxFails \in Nat

VARIABLES
    mode,      \* o.walletMode
    row,       \* the canton_swap_orders row
    sell,      \* the user's sell offer to the vault
    legs,      \* the vault's commands
    feesOn,    \* isNetworkFeeEnabled(), switched off by a deployment
    feeLeg,    \* the fill was submitted with the fee leg
    booked,    \* network_fee_ledger has the order's entry
    late,      \* the order's deadline has passed
    job,       \* what each worker is doing
    fails

ledgerVars == <<sell, legs, feeLeg>>
envVars == <<mode, feesOn, late>>

Status == {"none", "open", "user_locked", "settling", "filling", "filled",
           "failed", "expired", "cancelled"}
Leg == 1..MaxLegs

\* Contract and update ids are abstracted to whether they are set, the
\* counter offer's to its leg; failureReason to the class isLoopFillInFlight
\* asks for; counterPendingClearedAt to whether the cooldown has elapsed.
Row == [status : Status, floatReserved : BOOLEAN, userLegOfferCid : BOOLEAN,
        settlementUpdateId : BOOLEAN, counterLegOfferCid : 0..MaxLegs,
        counterReceiptUpdateId : BOOLEAN, counterReissueAttempt : 0..MaxLegs,
        counterPendingClearedAt : {"none", "recent", "old"},
        fillInFlight : BOOLEAN, networkFeeCc : BOOLEAN,
        networkFeeSettlementUpdateId : BOOLEAN,
        networkFeeAccountingPending : BOOLEAN]

NewOrder == [status |-> "none", floatReserved |-> FALSE,
             userLegOfferCid |-> FALSE, settlementUpdateId |-> FALSE,
             counterLegOfferCid |-> 0, counterReceiptUpdateId |-> FALSE,
             counterReissueAttempt |-> 0, counterPendingClearedAt |-> "none",
             fillInFlight |-> FALSE, networkFeeCc |-> FALSE,
             networkFeeSettlementUpdateId |-> FALSE,
             networkFeeAccountingPending |-> FALSE]

-----------------------------------------------------------------------------
(* Workers.  job[w] is the await a worker stands at, its copy of the row,  *)
(* the status (and counter offer) its next conditional write compares with *)
(* and the error it is handling.                                           *)

Idle == [at |-> "idle", o |-> NewOrder, was |-> "none", cid |-> 0, err |-> "none"]

At(w, label) == job[w].at = label
Become(w, j) == job' = [job EXCEPT ![w] = j]
Return(w) == Become(w, Idle)
Goto(w, label) == Become(w, [job[w] EXCEPT !.at = label])

\* Read the row and go on with the copy.
Read(w, label) ==
    Become(w, [Idle EXCEPT !.at = label, !.o = row, !.was = row.status,
                           !.cid = row.counterLegOfferCid])
\* Go on with another copy, to be written where the status is still `was'.
Carry(w, label, o, was) ==
    Become(w, [job[w] EXCEPT !.at = label, !.o = o, !.was = was])

CallLost == fails < MaxFails /\ fails' = fails + 1

-----------------------------------------------------------------------------
(* The store.  orderToRow omits the fee columns it does not know, so a     *)
(* copy without the settlement id leaves them as they are.                 *)

Put(o) ==
    row' = [o EXCEPT !.networkFeeSettlementUpdateId =
                        @ \/ row.networkFeeSettlementUpdateId,
                     !.networkFeeAccountingPending =
                        IF o.networkFeeSettlementUpdateId THEN @
                        ELSE row.networkFeeAccountingPending]

\* putIfStatus, and putIfStatusAndCounterOffer when a reissue is recorded.
CanPut(w) ==
    /\ row.status = job[w].was
    /\ At(w, "reissued") => row.counterLegOfferCid = job[w].cid

\* reserve_canton_swap_float, one transaction: the vault may have the float.
Reserve(expected, next, withOffer) ==
    /\ row.status = expected
    /\ row' = [row EXCEPT !.status = next, !.floatReserved = TRUE,
                          !.userLegOfferCid = @ \/ withOffer,
                          !.fillInFlight = FALSE]

-----------------------------------------------------------------------------
(* The ledger.                                                             *)

Committed(k) == legs[k] \notin {"none", "flying"}
Delivered(k) == legs[k] \in {"direct", "accepted"}
\* The transaction of leg k created a counter offer (a Loop user without a
\* preapproval); a managed fill is refused unless it delivers directly.
Offered(k) == legs[k] \in {"pending", "accepted", "closed"}
Kinds == IF mode = "managed" THEN {"direct"} ELSE {"direct", "pending"}

\* The ledger executes leg k: the fill consumes the sell offer.
Execute(k, kind) ==
    /\ k = 1 => sell = "pending"
    /\ legs' = [legs EXCEPT ![k] = kind]
    /\ sell' = IF k = 1 THEN "accepted" ELSE sell

\* What a submission of leg k answers, besides a plain commit: refused,
\* or unknown to the caller (a timeout: the ledger has executed it, will
\* execute it later, or never does).
Vanishes(k) ==
    /\ legs[k] = "none"
    /\ CallLost
    /\ \/ \E kind \in Kinds : Execute(k, kind)
       \/ legs' = [legs EXCEPT ![k] = "flying"] /\ UNCHANGED sell
       \/ UNCHANGED <<legs, sell>>

\* A submission in flight commits or is dropped.
Land(k) ==
    /\ legs[k] = "flying"
    /\ \/ \E kind \in Kinds : Execute(k, kind)
       \/ legs' = [legs EXCEPT ![k] = "none"] /\ UNCHANGED sell
    /\ UNCHANGED <<envVars, row, feeLeg, booked, job, fails>>

\* The user withdraws the sell offer, or it lapses.
SellCloses ==
    /\ sell = "pending"
    /\ sell' = "closed"
    /\ UNCHANGED <<envVars, row, legs, feeLeg, booked, job, fails>>

\* A Loop user signs the sell offer prepared for this order.
SellOffered ==
    /\ mode = "loop"
    /\ sell = "none"
    /\ sell' = "pending"
    /\ UNCHANGED <<envVars, row, legs, feeLeg, booked, job, fails>>

\* A counter offer is accepted in the wallet, or rejected, or withdrawn.
OfferEnds(k) ==
    /\ legs[k] = "pending"
    /\ \E end \in {"accepted", "closed"} : legs' = [legs EXCEPT ![k] = end]
    /\ UNCHANGED <<envVars, row, sell, feeLeg, booked, job, fails>>
=============================================================================
