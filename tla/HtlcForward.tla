---------------------------- MODULE HtlcForward ----------------------------
(***************************************************************************)
(* One managed forward swap (evm-to-canton: the user's WBTC for the        *)
(* solver's CBTC) as HtlcService (lib/htlc-service-singleton.ts) and the   *)
(* solver daemon run it over the order row, the EVM escrow and the Canton  *)
(* ledger.                                                                 *)
(*                                                                         *)
(* Step prefixes: Cancel, Rml recordMainLock, Lc lockCounter,              *)
(* Cl claimCounterAsBackend, Dm the daemon's WBTC claim + recordMainClaim, *)
(* Rc refundCounter, Rt recordMainRetake, Ex expireAbandonedAccepted,      *)
(* Rf reconcileForwardEvmMainClaim, Cu the cleanup-allocations route.      *)
(* A definition named X_Bug is X with one plausible mistake; no action uses*)
(* it.  PROJECT.json says which property must notice it in X's place.      *)
(***************************************************************************)
EXTENDS HtlcOrder, HtlcTimelock

CONSTANTS
    Margin,         \* EVM_CLAIM_MARGIN_SECONDS
    BindTol,        \* EVM_TIMELOCK_BIND_TOLERANCE_SECONDS
    DraftTTL,       \* ACCEPTED_DRAFT_TTL_SECONDS
    LockTimes, LockAmounts, LockReceivers,  \* what the user's wallet may lock
    Cleanup,        \* is cleanup-allocations ever run?
    Reorgs          \* can the EVM chain drop an unfinalised lock?

ASSUME ForwardAssumption ==
    /\ LockReceivers \subseteq Addr
    /\ LockTimes \subseteq Nat /\ LockAmounts \subseteq Nat
    /\ {Margin, BindTol, DraftTTL} \subseteq Nat
    /\ {Cleanup, Reorgs} \subseteq BOOLEAN
    /\ CantonUnlock = SolverTimelock - UnlockLead

\* assertValidTimelocks, with the numbers of production: see HtlcTimelock and
\* the theorem AcceptedLadderCoversForward.
ASSUME LadderAssumption ==
    ForwardLadder(UserTimelock, CantonUnlock, SolverTimelock - AllocLead,
                  Margin, BindTol, Skew)

vars == <<now, escrowVars, cantonVars, row, updatedAt, pc, snap, fails>>

Label == {"idle", "cancelCas", "rmlBegin", "rmlVerify", "rmlCommit",
          "rmlRollback", "lcBegin", "lcVerify", "lcAlloc", "lcPersist",
          "lcReverify", "lcCreate", "lcCommit", "clVerify", "clSubmit",
          "clDuplicate", "clCommit", "dmClaim", "dmRecord", "dmCommit",
          "rcBegin", "rcSubmit", "rcRollback", "rcCommit", "rtCas",
          "rtRefund", "exRead", "exRecover", "exCancel", "rfCas",
          "cuCheck", "cuWithdraw"}

Init ==
    /\ EscrowInit
    /\ CantonInit
    /\ OrderInit

-----------------------------------------------------------------------------
(* What the escrow lock must look like.                                    *)

AbsDiff(a, b) == IF a >= b THEN a - b ELSE b - a

EvmLockSafeForReveal_NoBinding ==
    /\ slot.amount >= WbtcAmount
    /\ slot.receiver = Solver
    /\ slot.unlockTime - now >= Margin

\* assertEvmLockSafeForReveal.
EvmLockSafeForReveal ==
    /\ slot.amount >= WbtcAmount
    /\ slot.receiver = Solver
    /\ AbsDiff(slot.unlockTime, UserTimelock) <= BindTol
    /\ slot.unlockTime - now >= Margin

VerifyEvmLock_NoFinality(o) == EvmLockSafeForReveal

\* verifyEvmLock: finality of the recorded lock transaction, if there is one.
VerifyEvmLock(o) ==
    /\ o.mainLockTx # 0 => o.mainLockTx \in finalTxs
    /\ EvmLockSafeForReveal

\* htlcCanExposePreimageToSolver, managed forward order.
CanExposePreimage(o) ==
    /\ o.status \in {"counter_claimed", "main_claimed"}
    /\ o.revealedPreimage
    /\ o.counterClaimUpdateId # "none"

-----------------------------------------------------------------------------
(* accept; cancel is in HtlcOrder.                                         *)

\* accept_htlc_order_with_float_reservation, one database transaction: the
\* order is accepted, or failed when the float does not cover it.
Accept ==
    /\ row.status = "open"
    /\ \E s \in {"accepted", "failed"} : Put([row EXCEPT !.status = s])
    /\ UNCHANGED <<chainVars, cantonVars, pc, snap, fails>>

-----------------------------------------------------------------------------
(* recordMainLock(id, tx).  The posted tx travels in snap.mainLockTx; the  *)
(* row gets it only in RmlCommit.  The client posts one of its lock        *)
(* transactions; only the finality of the posted one is looked at.         *)

RmlStart(w, tx) ==
    /\ pc[w] = "idle"
    /\ row.mainLockTx = 0
    /\ row.status \in {"accepted", "main_locking"}
    /\ Proceed(w, IF row.status = "accepted" THEN "rmlBegin" ELSE "rmlVerify",
               [row EXCEPT !.mainLockTx = tx])
    /\ UNCHANGED <<chainVars, cantonVars, orderVars, fails>>

RmlBegin(w) ==
    /\ pc[w] = "rmlBegin"
    /\ IF row.status = "accepted"
         THEN /\ Put([snap[w] EXCEPT !.status = "main_locking", !.mainLockTx = 0])
              /\ Proceed(w, "rmlVerify", [snap[w] EXCEPT !.status = "main_locking"])
         ELSE UNCHANGED orderVars /\ Return(w)
    /\ UNCHANGED <<chainVars, cantonVars, fails>>

\* waitForEvmTransactionFinality, then verifyEvmLock; waiting is not taking
\* this step, giving up is taking it before the transaction is final.  A check
\* that fails for want of an answer is rolled back like one that says no.
RmlVerify(w) ==
    /\ pc[w] = "rmlVerify"
    /\ \/ /\ Proceed(w, IF VerifyEvmLock(snap[w]) THEN "rmlCommit"
                                                  ELSE "rmlRollback", snap[w])
          /\ UNCHANGED fails
       \/ CallLost /\ Proceed(w, "rmlRollback", snap[w])
    /\ UNCHANGED <<chainVars, cantonVars, orderVars>>

RmlRollback(w) ==
    /\ pc[w] = "rmlRollback"
    /\ PutIfStatus(w, [snap[w] EXCEPT !.status = "accepted", !.mainLockTx = 0],
                   "main_locking", "idle")
    /\ UNCHANGED <<chainVars, cantonVars, fails>>

RmlCommit(w) ==
    /\ pc[w] = "rmlCommit"
    /\ PutIfStatus(w, [snap[w] EXCEPT !.status = "main_locked"],
                   "main_locking", "idle")
    /\ UNCHANGED <<chainVars, cantonVars, fails>>

-----------------------------------------------------------------------------
(* The daemon's lock-counter poll and lockCounter(id).                     *)

\* Where lockCounter goes with the row `o' once beginCounterLock is behind it:
\* an Allocation without HtlcLock is reused whatever the status is.
LcBranch(o) ==
    CASE o.allocationCid /\ o.htlcCid = 0 -> "lcReverify"
      [] ~(o.allocationCid /\ o.htlcCid = 0)
         /\ o.status \in {"counter_locking", "main_locked"} -> "lcVerify"
      [] OTHER -> "idle"

\* The daemon locks only against the exact amount, for itself, with the margin.
LcStart(w) ==
    /\ pc[w] = "idle"
    /\ row.status \in {"main_locked", "counter_locking"}
    /\ slot.amount = WbtcAmount
    /\ slot.receiver = Solver
    /\ slot.unlockTime - now >= Margin
    /\ Proceed(w, IF row.status = "main_locked" THEN "lcBegin" ELSE LcBranch(row),
               row)
    /\ UNCHANGED <<chainVars, cantonVars, orderVars, fails>>

\* beginCounterLock: on a lost race lockCounter goes on with the fresh row.
LcBegin(w) ==
    /\ pc[w] = "lcBegin"
    /\ IF row.status = "main_locked"
         THEN LET o == [snap[w] EXCEPT !.status = "counter_locking"]
              IN  Put(o) /\ Proceed(w, LcBranch(o), o)
         ELSE /\ UNCHANGED orderVars
              /\ IF LcBranch(row) = "idle" THEN Return(w)
                                           ELSE Proceed(w, LcBranch(row), row)
    /\ UNCHANGED <<chainVars, cantonVars, fails>>

LcVerify(w) ==
    /\ pc[w] \in {"lcVerify", "lcReverify"}
    /\ IF VerifyEvmLock(snap[w])
         THEN Proceed(w, IF pc[w] = "lcVerify" THEN "lcAlloc" ELSE "lcCreate",
                      snap[w])
         ELSE Return(w)
    /\ UNCHANGED <<chainVars, cantonVars, orderVars, fails>>

AllocRejected_Swallowed(w) ==
    /\ alloc = "none"
    /\ now + Skew > SolverTimelock - AllocLead
    /\ Proceed(w, "lcPersist", [snap[w] EXCEPT !.allocationCid = TRUE])
    /\ UNCHANGED cantonVars

\* The ledger refuses the allocation, and lockCounter throws.
AllocRejected(w) ==
    /\ alloc = "none"
    /\ now + Skew > SolverTimelock - AllocLead
    /\ Return(w)
    /\ UNCHANGED cantonVars

\* allocate() under the command id of the order.  A duplicate is answered from
\* the transaction of the first submission, whatever became of its Allocation.
LcAlloc(w) ==
    /\ pc[w] = "lcAlloc"
    /\ \/ /\ \E lt \in LedgerTime : Allocate(lt, SolverTimelock - AllocLead)
          /\ Proceed(w, "lcPersist", [snap[w] EXCEPT !.allocationCid = TRUE])
       \/ /\ alloc # "none"
          /\ Proceed(w, "lcPersist", [snap[w] EXCEPT !.allocationCid = TRUE])
          /\ UNCHANGED cantonVars
       \/ AllocRejected(w)
    /\ UNCHANGED <<chainVars, orderVars, fails>>

LcPersist(w) ==
    /\ pc[w] = "lcPersist"
    /\ PutIfStatus(w, snap[w], snap[w].status, "lcCreate")
    /\ UNCHANGED <<chainVars, cantonVars, fails>>

\* createHtlcLock: no command id, no look at the Allocation.
LcCreate(w) ==
    /\ pc[w] = "lcCreate"
    /\ \E i \in 1..MaxWrap :
         /\ \A j \in 1..(i - 1) : htlc[j] # "none"
         /\ CreateHtlcLock(i)
         /\ Proceed(w, "lcCommit", [snap[w] EXCEPT !.htlcCid = i])
    /\ UNCHANGED <<chainVars, orderVars, fails>>

LcCommit(w) ==
    /\ pc[w] = "lcCommit"
    /\ PutIfStatus(w, [snap[w] EXCEPT !.status = "counter_locked"],
                   "counter_locking", "idle")
    /\ UNCHANGED <<chainVars, cantonVars, fails>>

-----------------------------------------------------------------------------
(* claimCounterAsBackend(id, preimage).                                    *)

ClStart(w) ==
    /\ pc[w] = "idle"
    /\ row.status = "counter_locked"
    /\ row.htlcCid # 0 /\ row.allocationCid
    /\ Proceed(w, "clVerify", row)
    /\ UNCHANGED <<chainVars, cantonVars, orderVars, fails>>

ClVerify(w) ==
    /\ pc[w] = "clVerify"
    /\ IF VerifyEvmLock(snap[w]) THEN Proceed(w, "clSubmit", snap[w])
                                 ELSE Return(w)
    /\ UNCHANGED <<chainVars, cantonVars, orderVars, fails>>

ClaimRejected_Swallowed(w) ==
    /\ alloc # "executed"
    /\ alloc = "locked" => now + Skew >= CantonUnlock
    /\ Proceed(w, "clCommit", snap[w])
    /\ UNCHANGED cantonVars

\* The ledger refuses the claim, and claimCounterAsBackend throws.
ClaimRejected(w) ==
    /\ alloc # "executed"
    /\ alloc = "locked" => now + Skew >= CantonUnlock
    /\ Return(w)
    /\ UNCHANGED cantonVars

\* claimAsReceiver under the command id of the order: it commits, or it is a
\* duplicate of a claim that did, or the ledger rejects it.
ClSubmit(w) ==
    /\ pc[w] = "clSubmit"
    /\ \/ /\ \E lt \in LedgerTime : HtlcClaim(snap[w].htlcCid, lt)
          /\ Proceed(w, "clCommit", snap[w])
       \/ /\ alloc = "executed"
          /\ Proceed(w, "clDuplicate", snap[w])
          /\ UNCHANGED cantonVars
       \/ ClaimRejected(w)
    /\ UNCHANGED <<chainVars, orderVars, fails>>

\* The C-04 heal: go on with a fresh copy of the row.
ClDuplicate(w) ==
    /\ pc[w] = "clDuplicate"
    /\ IF row.status = "counter_locked" THEN Proceed(w, "clCommit", row)
                                        ELSE Return(w)
    /\ UNCHANGED <<chainVars, cantonVars, orderVars, fails>>

ClCommit(w) ==
    /\ pc[w] = "clCommit"
    /\ PutIfStatus(w, [snap[w] EXCEPT !.status = "counter_claimed",
                                      !.revealedPreimage = TRUE,
                                      !.counterClaimUpdateId = "claim"],
                   "counter_locked", "idle")
    /\ UNCHANGED <<chainVars, cantonVars, fails>>

-----------------------------------------------------------------------------
(* The daemon claims the WBTC and posts main-claim (recordMainClaim).      *)

DmStart_LiveLockOnly(w) ==
    /\ pc[w] = "idle"
    /\ row.status = "counter_claimed"
    /\ CanExposePreimage(row)
    /\ slot.amount # 0
    /\ Proceed(w, "dmClaim", row)
    /\ UNCHANGED <<chainVars, cantonVars, orderVars, fails>>

\* GET /preimage is gated by htlcCanExposePreimageToSolver; an empty slot
\* sends the daemon looking for the Claimed event.
DmStart(w) ==
    /\ pc[w] = "idle"
    /\ row.status = "counter_claimed"
    /\ CanExposePreimage(row)
    /\ slot.amount = 0 => "Claimed" \in events
    /\ Proceed(w, IF slot.amount = 0 THEN "dmRecord" ELSE "dmClaim", row)
    /\ UNCHANGED <<chainVars, cantonVars, orderVars, fails>>

\* escrow.claim(preimage): mined, or reverted.
DmClaim(w) ==
    /\ pc[w] = "dmClaim"
    /\ \/ Claim(Solver) /\ Proceed(w, "dmRecord", snap[w])
       \/ /\ ~ (slot.amount # 0 /\ now < slot.unlockTime /\ slot.receiver = Solver)
          /\ Return(w)
          /\ UNCHANGED chainVars
    /\ UNCHANGED <<cantonVars, orderVars, fails>>

\* recordMainClaim reads the row afresh, then verifyReverseClaimTx.
DmRecord(w) ==
    /\ pc[w] = "dmRecord"
    /\ IF row.status = "counter_claimed" /\ CanExposePreimage(row)
          /\ "Claimed" \in events
         THEN Proceed(w, "dmCommit", row)
         ELSE Return(w)
    /\ UNCHANGED <<chainVars, cantonVars, orderVars, fails>>

DmCommit(w) ==
    /\ pc[w] = "dmCommit"
    /\ PutIfStatus(w, [snap[w] EXCEPT !.status = "main_claimed",
                                      !.mainClaimTx = "claim"],
                   "counter_claimed", "idle")
    /\ UNCHANGED <<chainVars, cantonVars, fails>>

-----------------------------------------------------------------------------
(* recordMainRetake(id, tx), then refundCounter(id).                       *)

RtStart_NoTerminalGuard(w) ==
    /\ pc[w] = "idle"
    /\ "Retaken" \in events
    /\ Proceed(w, "rtCas", row)
    /\ UNCHANGED <<chainVars, cantonVars, orderVars, fails>>

\* Posted by the user, or by the sweep for a stale main_locked order; the
\* Retaken event is verified on chain.
RtStart(w) ==
    /\ pc[w] = "idle"
    /\ row.status \notin {"main_claimed", "refunded", "cancelled"}
    /\ "Retaken" \in events
    /\ Proceed(w, "rtCas", row)
    /\ UNCHANGED <<chainVars, cantonVars, orderVars, fails>>

RtCas(w) ==
    /\ pc[w] = "rtCas"
    /\ LET o == [snap[w] EXCEPT !.mainClaimTx = "retake"]
       IN  IF o.status = "counter_locked" /\ o.htlcCid # 0 /\ o.allocationCid
             THEN PutIfStatus(w, o, "counter_locked", "rtRefund")
             ELSE PutIfStatus(w, [o EXCEPT !.status =
                                    IF @ = "counter_claimed" THEN "failed"
                                                             ELSE "refunded"],
                              o.status, "idle")
    /\ UNCHANGED <<chainVars, cantonVars, fails>>

Refundable_NoRecovery(o) ==
    /\ o.status = "counter_locked"
    /\ o.htlcCid # 0 /\ o.allocationCid
    /\ ~o.revealedPreimage
    /\ now >= SolverTimelock

\* refundCounter: called by the sweep, by the refund-counter route, and at the
\* end of recordMainRetake.
Refundable(o) ==
    /\ o.status \in {"counter_locked", "refunding"}
    /\ o.htlcCid # 0 /\ o.allocationCid
    /\ ~o.revealedPreimage
    /\ now >= SolverTimelock

RcStart(w) ==
    /\ pc[w] \in {"idle", "rtRefund"}
    /\ IF Refundable(row) THEN Proceed(w, "rcBegin", row)
                          ELSE pc[w] = "rtRefund" /\ Return(w)
    /\ UNCHANGED <<chainVars, cantonVars, orderVars, fails>>

RcBegin(w) ==
    /\ pc[w] = "rcBegin"
    /\ PutIfStatus(w, [snap[w] EXCEPT !.status = "refunding"],
                   snap[w].status, "rcSubmit")
    /\ UNCHANGED <<chainVars, cantonVars, fails>>

RefundRejected_Swallowed(w) ==
    /\ alloc # "refunded"
    /\ alloc = "locked" => now - Skew < CantonUnlock
    /\ Proceed(w, "rcCommit", snap[w])
    /\ UNCHANGED <<cantonVars, fails>>

\* The ledger refuses the refund: the status is rolled back.
RefundRejected(w) ==
    /\ alloc # "refunded"
    /\ alloc = "locked" => now - Skew < CantonUnlock
    /\ Proceed(w, "rcRollback", snap[w])
    /\ UNCHANGED <<cantonVars, fails>>

\* An earlier refund is found under its command id; else HtlcLock.Refund is
\* submitted.  A lost answer, committed or not, is rolled back like a rejection.
RcSubmit(w) ==
    /\ pc[w] = "rcSubmit"
    /\ \/ /\ alloc = "refunded"
          /\ Proceed(w, "rcCommit", snap[w])
          /\ UNCHANGED <<cantonVars, fails>>
       \/ /\ \E lt \in LedgerTime : HtlcRefund(snap[w].htlcCid, lt)
          /\ \/ Proceed(w, "rcCommit", snap[w]) /\ UNCHANGED fails
             \/ CallLost /\ Proceed(w, "rcRollback", snap[w])
       \/ /\ CallLost
          /\ Proceed(w, "rcRollback", snap[w])
          /\ UNCHANGED cantonVars
       \/ RefundRejected(w)
    /\ UNCHANGED <<chainVars, orderVars>>

RcRollback(w) ==
    /\ pc[w] = "rcRollback"
    /\ PutIfStatus(w, [snap[w] EXCEPT !.status = "counter_locked"],
                   "refunding", "idle")
    /\ UNCHANGED <<chainVars, cantonVars, fails>>

RcCommit(w) ==
    /\ pc[w] = "rcCommit"
    /\ PutIfStatus(w, [snap[w] EXCEPT !.status = "refunded",
                                      !.counterClaimUpdateId = "refund"],
                   "refunding", "idle")
    /\ UNCHANGED <<chainVars, cantonVars, fails>>

-----------------------------------------------------------------------------
(* Sweeps and reconcilers.                                                 *)

\* expireAbandonedAccepted.
ExStart(w) ==
    /\ pc[w] = "idle"
    /\ row.status = "accepted"
    /\ now >= updatedAt + DraftTTL
    /\ Proceed(w, "exRead", row)
    /\ UNCHANGED <<chainVars, cantonVars, orderVars, fails>>

ExRead(w) ==
    /\ pc[w] = "exRead"
    /\ IF slot.amount = 0 THEN Proceed(w, "exCancel", snap[w])
       ELSE IF VerifyEvmLock(snap[w]) THEN Proceed(w, "exRecover", snap[w])
       ELSE Return(w)
    /\ UNCHANGED <<chainVars, cantonVars, orderVars, fails>>

ExRecover(w) ==
    /\ pc[w] = "exRecover"
    /\ PutIfStatus(w, [snap[w] EXCEPT !.status = "main_locked"],
                   "accepted", "idle")
    /\ UNCHANGED <<chainVars, cantonVars, fails>>

ExCancel(w) ==
    /\ pc[w] = "exCancel"
    /\ PutIfStatus(w, [snap[w] EXCEPT !.status = "cancelled"],
                   "accepted", "idle")
    /\ UNCHANGED <<chainVars, cantonVars, fails>>

RfStart_EmptyIsClaimed(w) ==
    /\ pc[w] = "idle"
    /\ row.status = "counter_claimed"
    /\ row.mainClaimTx # "none" \/ (CanExposePreimage(row) /\ slot.amount = 0)
    /\ Proceed(w, "rfCas",
               [row EXCEPT !.status = "main_claimed",
                           !.mainClaimTx = IF @ = "none" THEN "claim" ELSE @])
    /\ UNCHANGED <<chainVars, cantonVars, orderVars, fails>>

\* reconcileForwardEvmMainClaim, run by every full getOrder.
RfStart(w) ==
    /\ pc[w] = "idle"
    /\ row.status = "counter_claimed"
    /\ \/ row.mainClaimTx # "none"
       \/ CanExposePreimage(row) /\ slot.amount = 0 /\ "Claimed" \in events
    /\ Proceed(w, "rfCas",
               [row EXCEPT !.status = "main_claimed",
                           !.mainClaimTx = IF @ = "none" THEN "claim" ELSE @])
    /\ UNCHANGED <<chainVars, cantonVars, orderVars, fails>>

RfCas(w) ==
    /\ pc[w] = "rfCas"
    /\ PutIfStatus(w, snap[w], "counter_claimed", "idle")
    /\ UNCHANGED <<chainVars, cantonVars, fails>>

\* cleanup-allocations: list the solver's Allocations, then keep those an
\* active order refers to, then withdraw the rest.
Actionable == {"main_locking", "main_locked", "counter_locking",
               "counter_locked", "counter_claimed"}

CuStart(w) ==
    /\ Cleanup
    /\ pc[w] = "idle"
    /\ alloc = "locked"
    /\ Proceed(w, "cuCheck", NewOrder)
    /\ UNCHANGED <<chainVars, cantonVars, orderVars, fails>>

CuCheck(w) ==
    /\ pc[w] = "cuCheck"
    /\ IF row.status \in Actionable /\ row.allocationCid
         THEN Return(w)
         ELSE Proceed(w, "cuWithdraw", NewOrder)
    /\ UNCHANGED <<chainVars, cantonVars, orderVars, fails>>

CuWithdraw(w) ==
    /\ pc[w] = "cuWithdraw"
    /\ \/ AllocationWithdraw
       \/ alloc # "locked" /\ UNCHANGED cantonVars
    /\ Return(w)
    /\ UNCHANGED <<chainVars, orderVars, fails>>

-----------------------------------------------------------------------------
(* The environment.                                                        *)

\* A worker is killed between two awaits.
Fail(w) ==
    /\ pc[w] # "idle"
    /\ CallLost
    /\ Return(w)
    /\ UNCHANGED <<chainVars, cantonVars, orderVars>>

\* The wallet locks once the order has been accepted; the transaction may
\* land late, whatever the row says by then.
UserLock ==
    /\ row.status # "open"
    /\ "Claimed" \notin events
    /\ \E t \in LockTimes, a \in LockAmounts, r \in LockReceivers :
         Lock(User, r, t, a)
    /\ UNCHANGED <<cantonVars, orderVars, pc, snap, fails>>

UserRetake ==
    /\ Retake(User)
    /\ UNCHANGED <<cantonVars, orderVars, pc, snap, fails>>

Chain ==
    /\ Tick \/ Finalize \/ (Reorgs /\ Reorg)
    /\ UNCHANGED <<cantonVars, orderVars, pc, snap, fails>>

Environment == Accept \/ UserLock \/ UserRetake \/ Chain

-----------------------------------------------------------------------------
StartRequest(w) ==
    \/ CancelStart(w)
    \/ \E tx \in 1..lockTxs : RmlStart(w, tx)
    \/ LcStart(w) \/ ClStart(w) \/ DmStart(w) \/ RtStart(w) \/ RcStart(w)
    \/ ExStart(w) \/ RfStart(w) \/ CuStart(w)

Resume(w) ==
    \/ CancelCas(w)
    \/ RmlBegin(w) \/ RmlVerify(w) \/ RmlRollback(w) \/ RmlCommit(w)
    \/ LcBegin(w) \/ LcVerify(w) \/ LcAlloc(w) \/ LcPersist(w) \/ LcCreate(w)
    \/ LcCommit(w)
    \/ ClVerify(w) \/ ClSubmit(w) \/ ClDuplicate(w) \/ ClCommit(w)
    \/ DmClaim(w) \/ DmRecord(w) \/ DmCommit(w)
    \/ RtCas(w) \/ RcBegin(w) \/ RcSubmit(w) \/ RcRollback(w) \/ RcCommit(w)
    \/ ExRead(w) \/ ExRecover(w) \/ ExCancel(w) \/ RfCas(w)
    \/ CuCheck(w) \/ CuWithdraw(w)

Next ==
    \/ Environment
    \/ \E w \in Workers : StartRequest(w) \/ Resume(w) \/ Fail(w)

Spec == Init /\ [][Next]_vars

-----------------------------------------------------------------------------
(* Properties.                                                             *)

TypeOK ==
    /\ EscrowTypeOK
    /\ CantonTypeOK
    /\ row \in Row
    /\ updatedAt \in Nat
    /\ pc \in [Workers -> Label]
    /\ snap \in [Workers -> Row]
    /\ fails \in 0..MaxFails

\* The solver takes the user's WBTC only once the user has the CBTC: no Claimed
\* event before HtlcLock.Claim has executed, through every stale copy, crash
\* and retry between claimCounterAsBackend, /preimage and the daemon's claim.
WbtcAfterCbtc == "Claimed" \in events => alloc = "executed"

\* The lock that backs a release: at least the order's amount, for the solver.
Backed == slot.amount >= WbtcAmount /\ slot.receiver = Solver

\* When HtlcLock.Claim commits, the user's WBTC is still locked for the solver
\* and at least the claim margin of verifyEvmLock is left, although that
\* guard's own reading may be arbitrarily old by then: the Canton unlock time
\* and the timelock ladder close the gap.
ReleaseCovered ==
    alloc = "locked" /\ alloc' = "executed"
        => Backed /\ slot.unlockTime - now >= Margin
CbtcReleaseCovered == [][ReleaseCovered]_vars

\* Likewise the solver commits CBTC to the swap (AllocationFactory_Allocate in
\* lockCounter) only while the user's WBTC is locked for it.
ReserveCovered == alloc = "none" /\ alloc' = "locked" => Backed
CbtcReserveCovered == [][ReserveCovered]_vars

\* Likewise when an EVM reorg may drop a lock that is not final: the release of
\* an order whose mainLockTx is recorded is covered, because verifyEvmLock
\* waits for that transaction's finality.
RecordedReleaseCovered ==
    [][row.mainLockTx # 0 => ReleaseCovered]_vars

\* What a row says has happened, against the Allocation `al' and the log `ev'.
Evidence(o, al, ev) ==
    /\ o.revealedPreimage \/ o.status \in {"counter_claimed", "main_claimed"}
         => al = "executed"
    /\ o.counterClaimUpdateId = "refund" => al = "refunded"
    /\ o.mainClaimTx = "claim" => "Claimed" \in ev
    /\ o.mainClaimTx = "retake" => "Retaken" \in ev

\* The row never claims what has not happened: a revealed preimage, or status
\* counter_claimed or main_claimed, means the user has the CBTC; a recorded
\* refund means the solver has; a recorded claim or retake is in the escrow's
\* log.  Every writer overwrites the whole row from a copy older than its
\* awaits.
RowEvidenceTrue == Evidence(row, alloc, events)

\* What a worker standing before the await `l' already knows.
LabelEvidence(l, al, ev) ==
    /\ l \in {"clCommit", "clDuplicate", "dmClaim", "dmRecord", "dmCommit"}
         => al = "executed"
    /\ l = "rcCommit" => al = "refunded"
    /\ l = "dmCommit" => "Claimed" \in ev
    /\ l = "rtCas" => "Retaken" \in ev

\* The inductive strengthening of WbtcAfterCbtc and RowEvidenceTrue: every
\* worker's copy of the row is truthful too, and so is the point it has reached.
EvidenceInv ==
    /\ WbtcAfterCbtc
    /\ RowEvidenceTrue
    /\ \A w \in Workers : /\ Evidence(snap[w], alloc, events)
                           /\ LabelEvidence(pc[w], alloc, events)

\* The user's deposit still backs the order, or the order can no longer be
\* paid, or it has been.
Secured ==
    \/ Backed /\ slot.unlockTime >= UserTimelock - BindTol
    \/ now >= UserTimelock - BindTol
    \/ alloc = "executed"

\* The inductive strengthening of CbtcReleaseCovered and CbtcReserveCovered: a
\* handler past verifyEvmLock may hold a stale reading, never an unsecured one.
CoverInv == \A w \in Workers : pc[w] \in {"lcAlloc", "clSubmit"} => Secured

\* No step leaves a settled status: no stale whole-row write resurrects an
\* order that recordMainRetake, refundCounter, cancel or recordMainClaim
\* finished ("a stray or stale POST can't knock a live/completed order out").
SettledStays ==
    [][row.status \in {"main_claimed", "refunded", "cancelled"}
         => row'.status = row.status]_vars

\* A cancelled order has cost the solver nothing: neither cancel nor the
\* accepted-TTL sweep wins over a lockCounter that has committed CBTC.
CancelledUnfunded == row.status = "cancelled" => alloc = "none"

\* lockCounter: "CBTC is genuinely locked on-ledger (Allocation) ... BEFORE the
\* user reveals": a counter_locked row has CBTC behind it unless its own
\* HtlcLock released or refunded it.
CounterLockedFunded ==
    row.status = "counter_locked" => alloc \in {"locked", "executed", "refunded"}

\* The statuses of an order for which lockCounter has not begun, and the awaits
\* between that beginning and the end of lockCounter.
Uncommitted == {"open", "accepted", "main_locking", "main_locked", "cancelled"}
Committing == {"lcVerify", "lcAlloc", "lcPersist", "lcReverify", "lcCreate",
               "lcCommit"}

\* The contract columns of a row or a copy agree with its status and with the
\* Allocation `al': none before lockCounter, one behind a locked counter leg.
Staged(o, al) ==
    /\ o.status \in Uncommitted => ~o.allocationCid
    /\ o.status \in {"counter_locked", "refunding"} => o.allocationCid
    /\ o.allocationCid => al # "none"

\* What the copy `o' of a worker before the await `l' is about to be written
\* over, or to say of the Allocation.
LabelStage(l, o) ==
    /\ l = "cancelCas" => o.status \in {"open", "accepted"}
    /\ l \in {"rmlBegin", "rmlVerify", "rmlRollback", "rmlCommit", "exRead",
             "exRecover", "exCancel"} => o.status \in Uncommitted
    /\ l \in Committing => o.status \notin Uncommitted
    /\ l \in (Committing \ {"lcVerify", "lcAlloc"})
           \cup {"rcBegin", "rcSubmit", "rcRollback", "rcCommit"}
         => o.allocationCid
    /\ l = "rcBegin" => o.status \in {"counter_locked", "refunding"}
    /\ l = "rtCas" => o.status \notin {"main_claimed", "refunded", "cancelled"}
    /\ l = "rfCas" => o.status = "main_claimed"

\* The inductive strengthening of SettledStays, CancelledUnfunded and
\* CounterLockedFunded: lockCounter never runs for an order that is still, or
\* again, uncommitted, so whoever wins the compare-and-set against it has
\* nothing on the ledger to undo.
StageInv ==
    /\ Staged(row, alloc)
    /\ \A w \in Workers : Staged(snap[w], alloc) /\ LabelStage(pc[w], snap[w])
    /\ row.status \in Uncommitted =>
         /\ alloc = "none"
         /\ \A w \in Workers : pc[w] \notin Committing

\* Without the cleanup route nothing withdraws an Allocation.
NeverWithdrawn ==
    /\ alloc # "withdrawn"
    /\ \A w \in Workers : pc[w] \notin {"cuCheck", "cuWithdraw"}

\* verifyEvmLock asks for the finality of the recorded transaction: whatever the
\* row, or a copy that is past recordMainLock's check, names is final.
RecordedFinal(o, final) == o.mainLockTx # 0 => o.mainLockTx \in final
Unchecked == {"rmlBegin", "rmlVerify", "rmlRollback"}
FinalityInv ==
    /\ finalTxs \subseteq 1..lockTxs
    /\ slot.amount # 0 => slot.tx \in 1..lockTxs
    /\ RecordedFinal(row, finalTxs)
    /\ \A w \in Workers :
         pc[w] \notin Unchecked => RecordedFinal(snap[w], finalTxs)

\* The inductive strengthening of RecordedReleaseCovered while the user locks
\* once: the deposit a claim was checked against is still secured, or a reorg
\* has dropped it, and then no lock transaction is final.
ReorgCoverInv ==
    \A w \in Workers : pc[w] = "clSubmit" =>
        /\ lockTxs # 0
        /\ Secured \/ (slot.amount = 0 /\ finalTxs = {})

\* The swap seen as two assets changing places: CBTC moves only against WBTC in
\* escrow for the solver, WBTC only after the CBTC.
wbtcView ==
    CASE "Claimed" \in events -> "settled"
      [] "Claimed" \notin events /\ slot.amount # 0 /\ slot.receiver = Solver
           -> "escrow"
      [] OTHER -> "owner"

cbtcView ==
    CASE alloc = "none" -> "free"
      [] alloc = "locked" -> "locked"
      [] alloc = "executed" -> "delivered"
      [] OTHER -> "returned"

Swap == INSTANCE CrossChainSwap WITH main <- wbtcView, counter <- cbtcView

ImplementsSwap == Swap!Spec

-----------------------------------------------------------------------------
(* Liveness.  A handler that started goes on unless it is killed; the sweep*)
(* (every minute from the daemon, every five from cron), the daemon's poll *)
(* and a user who wants the CBTC come back again and again, so each of     *)
(* them gets a worker eventually.                                          *)

Fairness ==
    /\ WF_vars(Chain)
    /\ \A w \in Workers : WF_vars(Resume(w))
    /\ SF_vars(\E w \in Workers : RcStart(w))
    /\ SF_vars(\E w \in Workers : DmStart(w))
    /\ SF_vars(\E w \in Workers : LcStart(w))
    /\ SF_vars(\E w \in Workers : ClStart(w))
    /\ SF_vars(\E w \in Workers : ExStart(w))

FairSpec == Spec /\ Fairness

\* The sweep frees the solver's CBTC: an expired counter_locked or refunding
\* order does not keep it locked, whatever crashed in the middle of a refund;
\* unless the user's retake is recorded first (RefundedFreesFloat below).
FloatFreed ==
    row.status \in {"counter_locked", "refunding"} /\ now >= SolverTimelock
        ~> alloc # "locked" \/ "Retaken" \in events

\* Once the solver's WBTC claim is on chain the order is eventually completed,
\* also when the daemon dies before it has recorded the claim.
SettlementRecorded == "Claimed" \in events ~> row.status = "main_claimed"

-----------------------------------------------------------------------------
(* What the repository says of itself and the code does not keep: TLC      *)
(* refutes each, on the instances listed in README.md section 3.           *)

\* reconcileForwardEvmMainClaim: "the solver already claimed WBTC on EVM" when
\* an order is repaired to main_claimed.
CompletedSettled ==
    row.status = "main_claimed" => "Claimed" \in events /\ alloc = "executed"

\* recordMainRetake: "do NOT mark refunded with float stranded".
RefundedFreesFloat == row.status = "refunded" => alloc # "locked"

\* README.md, target properties: "no refund after claim".
NoRefundAfterClaim == row.status = "refunded" => alloc # "executed"

\* Crash-recovery drills: "EVM finality/hash checks still gate any irreversible
\* Canton action".
FinalityGatesReserve ==
    [][alloc = "none" /\ alloc' = "locked" => slot.tx \in finalTxs]_vars

\* Crash-recovery drills, managed user claim: "Duplicate command recovery
\* records claim update and preimage".
ClaimRecorded == alloc = "executed" ~> row.revealedPreimage

\* Crash-recovery drills: "no stranded vault/user funds after retry windows".
NoStrandedFloat == alloc = "locked" ~> alloc # "locked"
=============================================================================
