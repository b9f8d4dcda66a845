--------------------------- MODULE FloatReservation ---------------------------
(***************************************************************************)
(* The float that many orders share: the CBTC of the vault, promised to    *)
(* forward swaps and Canton-to-Canton swaps and holding the custody of     *)
(* reverse Loop swaps, and the WBTC of the solver's wallet, promised to    *)
(* reverse swaps.  An order is promised its amount by one of four SQL      *)
(* functions (supabase/migrations/040, 041, 042), each of which compares a *)
(* float the server read before the call with the sum of the open promises *)
(* under an advisory lock.                                                 *)
(*                                                                         *)
(* Of the handlers of HtlcForward, HtlcReverse and CantonSwap only what    *)
(* they do to the status of the row, to the reservation columns and to the *)
(* float remains.  The amounts of the two legs of an order are taken to be *)
(* equal.                                                                  *)
(***************************************************************************)
EXTENDS Integers, FiniteSets

CONSTANTS
    Forward,  \* forward swaps (evm-to-canton)
    Reverse,  \* reverse swaps (canton-to-evm) of Loop users
    Swaps,    \* Canton-to-Canton swaps that pay out CBTC
    Books,    \* bound: which orders a run opens together
    Amount,   \* base units of each order
    Vault,    \* the vault's CBTC at the start
    Wallet    \* the solver's WBTC at the start

Orders == Forward \cup Reverse \cup Swaps

ASSUME FloatAssumption ==
    /\ IsFiniteSet(Orders)
    /\ Forward \cap Reverse = {} /\ Forward \cap Swaps = {} /\ Reverse \cap Swaps = {}
    /\ Books \subseteq SUBSET Orders
    /\ Amount \in [Orders -> Nat \ {0}]
    /\ Vault \in Nat /\ Wallet \in Nat

VARIABLES
    status,     \* of every row
    prev,       \* the status a failed refund rolls back to
    reserved,   \* evm_float_reserved, or float_reserved of a swap
    bound,      \* counter_transfer_offer_cid is set
    recorded,   \* counter_transfer_update_id is set
    leg,        \* the solver's leg of the order on its ledger
    custody,    \* the custody transfer of a reverse order
    cbtc,       \* unlocked CBTC of the vault, what getHoldings adds up
    wbtc,       \* WBTC balance of the solver
    reading,    \* the float an order's handler has read, -1 for none
    overtaken,  \* orders whose reading precedes the end of a paid-out order
    gap         \* floats a promise was made on without cover (history)

rowVars == <<status, prev, reserved, bound, recorded>>
ledgerVars == <<leg, custody, cbtc, wbtc>>
readVars == <<reading, overtaken>>
vars == <<rowVars, ledgerVars, readVars, gap>>

Status == {"open", "accepted", "main_locking", "main_locked", "counter_locking",
           "counter_locked", "counter_claimed", "main_claimed", "refunding",
           "refunded", "cancelled", "failed", "user_locked", "filled", "expired"}

TypeOK ==
    /\ status \in [Orders -> Status]
    /\ prev \in [Orders -> Status]
    /\ reserved \in [Orders -> BOOLEAN]
    /\ bound \in [Orders -> BOOLEAN]
    /\ recorded \in [Orders -> BOOLEAN]
    /\ leg \in [Orders -> {"none", "locked", "paid", "returned"}]
    /\ custody \in [Orders -> {"none", "offered", "held", "returned"}]
    /\ cbtc \in Nat
    /\ wbtc \in Nat
    /\ reading \in [Orders -> Int]
    /\ overtaken \subseteq Orders
    /\ gap \subseteq {"cbtc", "wbtc"}

Init ==
    /\ \E book \in Books :
         status = [o \in Orders |-> IF o \in book THEN "open" ELSE "cancelled"]
    /\ prev = [o \in Orders |-> "open"]
    /\ reserved = [o \in Orders |-> FALSE]
    /\ bound = [o \in Orders |-> FALSE]
    /\ recorded = [o \in Orders |-> FALSE]
    /\ leg = [o \in Orders |-> "none"]
    /\ custody = [o \in Orders |-> "none"]
    /\ cbtc = Vault
    /\ wbtc = Wallet
    /\ reading = [o \in Orders |-> -1]
    /\ overtaken = {}
    /\ gap = {}

-----------------------------------------------------------------------------
(* The sums of the SQL functions.  Total(S) is the sum of Amount over S,   *)
(* counted unit by unit.                                                   *)

Units(S) == UNION {{o} \X (1..Amount[o]) : o \in S}
Total(S) == Cardinality(Units(S))

ForwardReserved(o) ==
    status[o] \in {"accepted", "main_locking", "main_locked", "counter_locking",
                   "counter_locked", "counter_claimed"}

\* Custody on record, or an offer bound that may have been accepted.
CustodyReserved(o) ==
    \/ /\ recorded[o]
       /\ status[o] \in {"main_locked", "counter_locking", "counter_locked",
                         "counter_claimed", "refunding"}
    \/ bound[o] /\ ~recorded[o] /\ status[o] = "main_locking"

SwapReserved(o) == reserved[o] /\ status[o] = "user_locked"

\* sum_vault_cbtc_reserved_sats.
CbtcReserved ==
    {o \in Forward : ForwardReserved(o)} \cup {o \in Reverse : CustodyReserved(o)}
        \cup {o \in Swaps : SwapReserved(o)}

WbtcReserved_AfterMainLock ==
    {o \in Reverse : reserved[o] /\ status[o] \in {"main_locked", "counter_locking"}}

\* The sum in the two reserve_reverse_htlc_evm_float functions.
WbtcReserved ==
    {o \in Reverse : reserved[o] /\
        status[o] \in {"main_locking", "main_locked", "counter_locking"}}

-----------------------------------------------------------------------------
(* What is promised and still in the float, and what is promised and has   *)
(* left it: locked, paid or sent back.                                     *)

CbtcOut(o) ==
    IF o \in Reverse THEN custody[o] = "returned" ELSE leg[o] \in {"locked", "paid"}
CbtcIn(o) ==
    CASE o \in Reverse -> custody[o] = "held"
      [] o \in Forward -> leg[o] = "none"
      [] o \in Swaps -> leg[o] \in {"none", "returned"}
WbtcOut(o) == leg[o] \in {"locked", "paid"}

CbtcOwed == {o \in CbtcReserved : CbtcIn(o)}
CbtcSpent == {o \in CbtcReserved : CbtcOut(o)}
WbtcOwed == {o \in WbtcReserved : ~WbtcOut(o)}
WbtcSpent == {o \in WbtcReserved : WbtcOut(o)}

\* A paid-out promise ends: the sum no longer counts what a reading taken
\* before the payment still shows as float.
PromiseEnds ==
    overtaken' =
        {p \in Orders :
            /\ reading'[p] # -1
            /\ \/ p \in overtaken
               \/ p \in Reverse /\ \E o \in WbtcSpent : o \notin WbtcReserved'
               \/ p \notin Reverse /\ \E o \in CbtcSpent : o \notin CbtcReserved'}

-----------------------------------------------------------------------------
(* The four SQL functions, and the reading each request takes first.       *)

Become(o, s) == status' = [status EXCEPT ![o] = s]
Flag(o, b) == reserved' = [reserved EXCEPT ![o] = b]
Answered(o) == reading' = [reading EXCEPT ![o] = -1]

ReadFloat(o) ==
    /\ reading[o] = -1
    /\ \/ o \in Forward /\ status[o] = "open"
       \/ o \in Reverse /\ status[o] \in {"accepted", "main_locked"}
       \/ o \in Swaps /\ status[o] \in {"open", "user_locked"} /\ ~reserved[o]
    /\ reading' = [reading EXCEPT ![o] = IF o \in Reverse THEN wbtc ELSE cbtc]
    /\ UNCHANGED <<rowVars, ledgerVars, gap>> /\ PromiseEnds

Fits_OwnKindOnly(o, promised) ==
    Amount[o] <= reading[o] - Total({p \in promised \ {o} : p \in Forward <=> o \in Forward})
Fits(o, promised) == Amount[o] <= reading[o] - Total(promised \ {o})

\* A promise made on an overtaken reading may have no cover.
Promised(o, float) == gap' = IF o \in overtaken THEN gap \cup {float} ELSE gap

\* accept_htlc_order_with_float_reservation: a forward order that does not fit
\* has failed at the first attempt.
AcceptForward(o) ==
    /\ o \in Forward /\ status[o] = "open" /\ reading[o] # -1
    /\ \/ Fits(o, CbtcReserved) /\ Become(o, "accepted") /\ Promised(o, "cbtc")
       \/ ~Fits(o, CbtcReserved) /\ Become(o, "failed") /\ UNCHANGED gap
    /\ Answered(o)
    /\ UNCHANGED <<prev, reserved, bound, recorded, ledgerVars>> /\ PromiseEnds

\* reserve_canton_swap_float.
ReserveSwap(o) ==
    /\ o \in Swaps /\ status[o] \in {"open", "user_locked"} /\ ~reserved[o]
    /\ reading[o] # -1
    /\ \/ /\ Fits(o, CbtcReserved)
          /\ Become(o, "user_locked") /\ Flag(o, TRUE) /\ Promised(o, "cbtc")
       \/ ~Fits(o, CbtcReserved) /\ UNCHANGED <<status, reserved, gap>>
    /\ Answered(o)
    /\ UNCHANGED <<prev, bound, recorded, ledgerVars>> /\ PromiseEnds

\* reserve_reverse_htlc_evm_float_before_main_lock.
ReserveBeforeMainLock(o) ==
    /\ o \in Reverse /\ status[o] = "accepted" /\ reading[o] # -1
    /\ \/ /\ Fits(o, WbtcReserved)
          /\ Become(o, "main_locking") /\ Flag(o, TRUE) /\ Promised(o, "wbtc")
       \/ ~Fits(o, WbtcReserved) /\ UNCHANGED <<status, reserved, gap>>
    /\ Answered(o)
    /\ UNCHANGED <<prev, bound, recorded, ledgerVars>> /\ PromiseEnds

\* reserve_reverse_htlc_evm_float: a reservation that still stands is kept.
ReserveEvmFloat(o) ==
    /\ o \in Reverse /\ status[o] = "main_locked" /\ reading[o] # -1
    /\ \/ reserved[o] /\ Become(o, "counter_locking") /\ UNCHANGED <<reserved, gap>>
       \/ /\ ~reserved[o] /\ Fits(o, WbtcReserved)
          /\ Become(o, "counter_locking") /\ Flag(o, TRUE) /\ Promised(o, "wbtc")
       \/ /\ ~reserved[o] /\ ~Fits(o, WbtcReserved)
          /\ UNCHANGED <<status, reserved, gap>>
    /\ Answered(o)
    /\ UNCHANGED <<prev, bound, recorded, ledgerVars>> /\ PromiseEnds

\* The request dies between the two.
ReadingLost(o) ==
    /\ reading[o] # -1
    /\ Answered(o)
    /\ UNCHANGED <<rowVars, ledgerVars, gap>> /\ PromiseEnds

-----------------------------------------------------------------------------
(* Steps of the row alone.                                                 *)

ForwardRow == {<<"accepted", "main_locking">>, <<"main_locking", "accepted">>,
               <<"main_locking", "main_locked">>, <<"accepted", "main_locked">>,
               <<"open", "cancelled">>, <<"accepted", "cancelled">>,
               <<"main_locked", "counter_locking">>}

\* cancel, recordMainLock, expireAbandonedAccepted, beginCounterLock.
ForwardStep(o) ==
    /\ o \in Forward
    /\ \E s \in Status : <<status[o], s>> \in ForwardRow /\ Become(o, s)
    /\ UNCHANGED <<prev, reserved, bound, recorded, ledgerVars, reading, gap>> /\ PromiseEnds

\* recordMainRetake.
Retaken(o) ==
    /\ o \in Forward
    /\ status[o] \in {"accepted", "main_locking", "main_locked", "counter_locking",
                      "counter_claimed", "refunding", "failed"}
    /\ Become(o, IF status[o] = "counter_claimed" THEN "failed" ELSE "refunded")
    /\ UNCHANGED <<prev, reserved, bound, recorded, ledgerVars, reading, gap>> /\ PromiseEnds

\* accept and cancel of a reverse order.
ReverseStep(o) ==
    /\ o \in Reverse
    /\ \/ status[o] = "open" /\ Become(o, "accepted")
       \/ status[o] \in {"open", "accepted"} /\ Become(o, "cancelled")
    /\ UNCHANGED <<prev, reserved, bound, recorded, ledgerVars, reading, gap>> /\ PromiseEnds

\* Bind the pending offer (commitReverseLoopOrder).
Bind(o) ==
    /\ o \in Reverse /\ status[o] = "main_locking" /\ custody[o] = "offered"
    /\ bound' = [bound EXCEPT ![o] = TRUE]
    /\ UNCHANGED <<status, prev, reserved, recorded, ledgerVars, reading, gap>> /\ PromiseEnds

\* Custody in the vault goes on record.  confirmLoopSellerLock accepts before
\* it writes, and a direct transfer has no offer to bind: until now the sums
\* have not counted this CBTC, although every reading of the float has.
RecordCustody(o) ==
    /\ o \in Reverse /\ status[o] = "main_locking" /\ custody[o] = "held"
    /\ Become(o, "main_locked")
    /\ recorded' = [recorded EXCEPT ![o] = TRUE]
    /\ gap' = IF bound[o] THEN gap ELSE gap \cup {"cbtc"}
    /\ UNCHANGED <<prev, reserved, bound, ledgerVars, reading>> /\ PromiseEnds

\* release-prelock, the stale sweep, or an offer that has lapsed.
ReleasePrelock(o) ==
    /\ o \in Reverse /\ status[o] = "main_locking"
    /\ ~bound[o] \/ custody[o] = "none"
    /\ Become(o, "failed") /\ Flag(o, FALSE) /\ bound' = [bound EXCEPT ![o] = FALSE]
    /\ UNCHANGED <<prev, recorded, ledgerVars, reading, gap>> /\ PromiseEnds

\* abortCounterLock, or a lock that is gone (reconcilePhantomEvmCounterLock).
ReverseRollback(o) ==
    /\ o \in Reverse
    /\ \/ status[o] = "counter_locking" /\ leg[o] = "none"
       \/ status[o] = "counter_locked" /\ leg[o] = "returned"
    /\ Become(o, "main_locked") /\ Flag(o, FALSE)
    /\ UNCHANGED <<prev, bound, recorded, ledgerVars, reading, gap>> /\ PromiseEnds

\* recordCounterLocked, recordCounterClaimed, claimMainAsSolver.
CounterStep(o) ==
    /\ o \in Reverse
    /\ \/ /\ status[o] = "counter_locking" /\ leg[o] = "locked"
          /\ Become(o, "counter_locked") /\ UNCHANGED reserved
       \/ /\ status[o] = "counter_locked" /\ leg[o] = "paid"
          /\ Become(o, "counter_claimed") /\ UNCHANGED reserved
       \/ /\ status[o] = "counter_claimed"
          /\ Become(o, "main_claimed") /\ Flag(o, FALSE)
    /\ UNCHANGED <<prev, bound, recorded, ledgerVars, reading, gap>> /\ PromiseEnds

\* recordCounterRetake before userTimelock: the custody stays where it is.
RecordRetake(o) ==
    /\ o \in Reverse /\ status[o] = "counter_locked" /\ leg[o] = "returned"
    /\ Become(o, "failed") /\ Flag(o, FALSE)
    /\ UNCHANGED <<prev, bound, recorded, ledgerVars, reading, gap>> /\ PromiseEnds

-----------------------------------------------------------------------------
(* Refunds: the durable claim, and the way back when the transfer fails.   *)

\* refundCounter.
RefundForward(o) ==
    /\ o \in Forward /\ status[o] = "counter_locked"
    /\ Become(o, "refunding")
    /\ prev' = [prev EXCEPT ![o] = "counter_locked"]
    /\ UNCHANGED <<reserved, bound, recorded, ledgerVars, reading, gap>> /\ PromiseEnds

\* refundMainCanton gives the WBTC promise up, earlyRefundLoopCustody
\* (from main_locked only) does not.
RefundReverse(o) ==
    /\ o \in Reverse /\ recorded[o] /\ leg[o] # "locked"
    /\ \/ status[o] = "main_locked" /\ UNCHANGED reserved
       \/ /\ status[o] \in {"main_locked", "counter_locking", "counter_locked",
                            "counter_claimed"}
          /\ Flag(o, FALSE)
    /\ Become(o, "refunding")
    /\ prev' = [prev EXCEPT ![o] = status[o]]
    /\ UNCHANGED <<bound, recorded, ledgerVars, reading, gap>> /\ PromiseEnds

RefundRecorded(o) ==
    /\ o \notin Swaps /\ status[o] = "refunding"
    /\ IF o \in Reverse THEN custody[o] = "returned" ELSE leg[o] = "returned"
    /\ Become(o, "refunded")
    /\ UNCHANGED <<prev, reserved, bound, recorded, ledgerVars, reading, gap>> /\ PromiseEnds

\* Refused or unanswered.  The WBTC promise that earlyRefundLoopCustody kept
\* counts again, and nobody asked the wallet.
RefundRollsBack(o) ==
    /\ o \notin Swaps /\ status[o] = "refunding"
    /\ Become(o, prev[o])
    /\ gap' = IF o \in Reverse /\ reserved[o] THEN gap \cup {"wbtc"} ELSE gap
    /\ UNCHANGED <<prev, reserved, bound, recorded, ledgerVars, reading>> /\ PromiseEnds

-----------------------------------------------------------------------------
(* What the ledgers execute.                                               *)

Leg(o, s) == leg' = [leg EXCEPT ![o] = s]

\* The registry allocates the vault's CBTC (lockCounter).
Allocate(o) ==
    /\ o \in Forward /\ status[o] = "counter_locking" /\ leg[o] = "none"
    /\ cbtc >= Amount[o]
    /\ Leg(o, "locked") /\ cbtc' = cbtc - Amount[o]
    /\ UNCHANGED <<rowVars, custody, wbtc, reading, gap>> /\ PromiseEnds

CounterLocked(o) ==
    /\ o \in Forward /\ status[o] = "counter_locking" /\ leg[o] = "locked"
    /\ Become(o, "counter_locked")
    /\ UNCHANGED <<prev, reserved, bound, recorded, ledgerVars, reading, gap>> /\ PromiseEnds

\* claimCounterAsBackend pays the user, recordMainClaim ends the order with the
\* user's WBTC in the wallet.
CounterClaimed(o) ==
    /\ o \in Forward /\ status[o] = "counter_locked" /\ leg[o] = "locked"
    /\ Become(o, "counter_claimed") /\ Leg(o, "paid")
    /\ UNCHANGED <<prev, reserved, bound, recorded, custody, cbtc, wbtc, reading, gap>> /\ PromiseEnds

MainClaimed(o) ==
    /\ o \in Forward /\ status[o] = "counter_claimed"
    /\ Become(o, "main_claimed")
    /\ wbtc' = wbtc + Amount[o]
    /\ UNCHANGED <<prev, reserved, bound, recorded, leg, custody, cbtc, reading, gap>> /\ PromiseEnds

HtlcRefund(o) ==
    /\ o \in Forward /\ status[o] = "refunding" /\ leg[o] = "locked"
    /\ Leg(o, "returned") /\ cbtc' = cbtc + Amount[o]
    /\ UNCHANGED <<rowVars, custody, wbtc, reading, gap>> /\ PromiseEnds

\* The seller's transfer to the vault: offered, accepted (or settled without an
\* offer), lapsed.
CustodyOffered(o) ==
    /\ o \in Reverse /\ status[o] = "main_locking"
    /\ \/ custody[o] = "none" /\ ~bound[o] /\ custody' = [custody EXCEPT ![o] = "offered"]
       \/ custody[o] = "offered" /\ custody' = [custody EXCEPT ![o] = "none"]
    /\ UNCHANGED <<rowVars, leg, cbtc, wbtc, reading, gap>> /\ PromiseEnds

CustodyArrives(o) ==
    /\ o \in Reverse /\ status[o] = "main_locking"
    /\ \/ custody[o] = "offered"
       \/ custody[o] = "none" /\ ~bound[o]
    /\ custody' = [custody EXCEPT ![o] = "held"] /\ cbtc' = cbtc + Amount[o]
    /\ UNCHANGED <<rowVars, leg, wbtc, reading, gap>> /\ PromiseEnds

\* createTransfer back to the seller, one command id.
CustodyReturned(o) ==
    /\ o \in Reverse /\ status[o] = "refunding" /\ custody[o] = "held"
    /\ cbtc >= Amount[o]
    /\ custody' = [custody EXCEPT ![o] = "returned"] /\ cbtc' = cbtc - Amount[o]
    /\ UNCHANGED <<rowVars, leg, wbtc, reading, gap>> /\ PromiseEnds

\* The daemon locks WBTC; the user claims it, or the solver takes it back.  A
\* counter_locking order without the promise has been through
\* refundMainCanton, past userTimelock, when the daemon locks no more.
LockWbtc(o) ==
    /\ o \in Reverse /\ status[o] = "counter_locking" /\ reserved[o]
    /\ leg[o] \in {"none", "returned"}
    /\ wbtc >= Amount[o]
    /\ Leg(o, "locked") /\ wbtc' = wbtc - Amount[o]
    /\ UNCHANGED <<rowVars, custody, cbtc, reading, gap>> /\ PromiseEnds

WbtcLeaves(o) ==
    /\ o \in Reverse /\ leg[o] = "locked"
    /\ \/ Leg(o, "paid") /\ UNCHANGED wbtc
       \/ Leg(o, "returned") /\ wbtc' = wbtc + Amount[o]
    /\ UNCHANGED <<rowVars, custody, cbtc, reading, gap>> /\ PromiseEnds

\* A fill or reissue pays a swap; a counter offer may come back; the receipt
\* ends the swap; a fill that was refused fails it and hands it back.
FillSwap(o) ==
    /\ o \in Swaps /\ SwapReserved(o) /\ leg[o] \in {"none", "returned"}
    /\ cbtc >= Amount[o]
    /\ Leg(o, "paid") /\ cbtc' = cbtc - Amount[o]
    /\ UNCHANGED <<rowVars, custody, wbtc, reading, gap>> /\ PromiseEnds

CounterOfferEnds(o) ==
    /\ o \in Swaps /\ SwapReserved(o) /\ leg[o] = "paid"
    /\ Leg(o, "returned") /\ cbtc' = cbtc + Amount[o]
    /\ UNCHANGED <<rowVars, custody, wbtc, reading, gap>> /\ PromiseEnds

SwapStep(o) ==
    /\ o \in Swaps
    /\ \/ SwapReserved(o) /\ leg[o] = "paid" /\ Become(o, "filled") /\ Flag(o, FALSE)
       \/ /\ SwapReserved(o) /\ leg[o] = "none"
          /\ \E s \in {"failed", "expired"} : Become(o, s) /\ Flag(o, FALSE)
       \/ status[o] = "failed" /\ Become(o, "user_locked") /\ UNCHANGED reserved
    /\ UNCHANGED <<prev, bound, recorded, ledgerVars, reading, gap>> /\ PromiseEnds

-----------------------------------------------------------------------------
Request(o) ==
    \/ ReadFloat(o) \/ ReadingLost(o) \/ AcceptForward(o) \/ ReserveSwap(o)
    \/ ReserveBeforeMainLock(o) \/ ReserveEvmFloat(o)

RowStep(o) ==
    \/ ForwardStep(o) \/ Retaken(o) \/ ReverseStep(o) \/ Bind(o) \/ RecordCustody(o)
    \/ ReleasePrelock(o) \/ ReverseRollback(o) \/ CounterStep(o) \/ RecordRetake(o)
    \/ RefundForward(o) \/ RefundReverse(o) \/ RefundRecorded(o) \/ RefundRollsBack(o)
    \/ CounterLocked(o) \/ SwapStep(o)

LedgerStep(o) ==
    \/ Allocate(o) \/ CounterClaimed(o) \/ MainClaimed(o) \/ HtlcRefund(o)
    \/ CustodyOffered(o) \/ CustodyArrives(o) \/ CustodyReturned(o)
    \/ LockWbtc(o) \/ WbtcLeaves(o) \/ FillSwap(o) \/ CounterOfferEnds(o)

Next == \E o \in Orders : Request(o) \/ RowStep(o) \/ LedgerStep(o)

Spec == Init /\ [][Next]_vars

-----------------------------------------------------------------------------
(* Properties.                                                             *)

\* The vault can pay every order it has promised CBTC to, and give back all
\* custody on record, as long as no promise was made on a reading older than a
\* finished payout and no custody was recorded that no offer was bound for
\* (sum_vault_cbtc_reserved_sats and the RPCs that use it).
VaultSolvent == "cbtc" \notin gap => Total(CbtcOwed) <= cbtc

\* The solver's wallet can lock WBTC for every reverse order it was promised
\* to, as long as no promise was made on such a reading and no early refund
\* was rolled back (reserve_reverse_htlc_evm_float and its companion).
WalletSolvent == "wbtc" \notin gap => Total(WbtcOwed) <= wbtc

\* The same without the provisos: "retry + fresh read; H-1 unified lock"
\* (docs/AUDIT-MASTER-FINDINGS.md, M-2).  The code fails both.
VaultAlwaysSolvent == Total(CbtcOwed) <= cbtc
WalletAlwaysSolvent == Total(WbtcOwed) <= wbtc

\* An order is turned away only when the free float, less what is still owed,
\* is too small for it.  The code fails this one: an allocated order is counted
\* in the sum although getHoldings no longer sees its CBTC.
TurnedAwayOnlyIfShort ==
    [][\A o \in Forward :
        AcceptForward(o) /\ status'[o] = "failed" => Amount[o] > cbtc - Total(CbtcOwed)]_vars
=============================================================================
