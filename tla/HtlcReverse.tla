---------------------------- MODULE HtlcReverse ----------------------------
(***************************************************************************)
(* One reverse swap (canton-to-evm: the user's CBTC for the solver's WBTC) *)
(* as HtlcService (lib/htlc-service-singleton.ts) and the solver daemon    *)
(* run it.  The CBTC is the long, main leg: a managed user's CBTC sits in  *)
(* an Allocation wrapped in an HtlcLock, a Loop seller's in the solver's   *)
(* custody.  The WBTC is the short, counter leg, in the EVM escrow.        *)
(*                                                                         *)
(* Step prefixes: Rs reserveReverseFloatBeforeMainLock, Lm lockMainCanton, *)
(* Rl releaseStaleReversePrelockReservation, Rp release-prelock,           *)
(* Co commitReverseLoopOrder, Cf confirmLoopSellerLock, Dk the daemon's    *)
(* WBTC lock, Rcl recordCounterLocked, Ph reconcilePhantomEvmCounterLock,  *)
(* Rcc recordCounterClaimed, Cm claimMainAsSolver, Rf refundMainCanton,    *)
(* Ef earlyRefundLoopCustody, Rk recordCounterRetake.  Sw: run by a sweep. *)
(* A definition named X_Bug is X with one plausible mistake; no action uses*)
(* it.  PROJECT.json says which property must notice it in X's place.      *)
(***************************************************************************)
EXTENDS HtlcOrder, HtlcTimelock, LoopCustody

CONSTANTS
    Loop,           \* order.counterMode = "loop"
    ClaimMargin,    \* EVM_PRE_REVEAL_CLAIM_MARGIN_SECONDS
    PrelockTTL,     \* REVERSE_PRELOCK_RESERVATION_TTL_SECONDS and, for a bare
                    \* Allocation, BARE_ALLOCATION_RECOVERY_TTL_SECONDS
    Grace,          \* LOOP_CUSTODY_GRACE_SECONDS
    ReleasePrelock  \* is release-prelock ever posted for this order?

ASSUME ReverseAssumption ==
    /\ {Loop, ReleasePrelock} \subseteq BOOLEAN
    /\ {ClaimMargin, PrelockTTL, Grace} \subseteq Nat
    /\ CantonUnlock = UserTimelock - UnlockLead
    /\ MaxWrap = 1

\* assertValidTimelocks: the WBTC unlocks before the CBTC does.
ASSUME ReverseLadderAssumption == ReverseLadder(SolverTimelock, CantonUnlock, Skew)

VARIABLES
    pendingLocks,   \* WBTC lock transactions sent whose receipt nobody awaits
    claimedTx       \* which lock the last Claimed event emptied (0: no event)

mainVars == <<cantonVars, custody>>
evmVars == <<chainVars, pendingLocks, claimedTx>>
vars == <<now, escrowVars, pendingLocks, claimedTx, cantonVars, custody,
          row, updatedAt, pc, snap, fails>>

Label == {"idle", "cancelCas", "rsReserve", "rsFresh",
          "lmAlloc", "lmSweepAlloc", "lmPersist", "lmCreate", "lmCommit",
          "rlRead", "rlKeepRead", "rlScan", "rlKeepScan", "rlPersist", "rlFail",
          "rpList", "coDirect", "coBind", "coAccept", "coReread", "coCommit",
          "coFail", "cfFail", "cfBound", "cfSweepBound", "cfList", "cfSweepList",
          "cfAccept", "cfCommit", "dkSlot", "dkBegin", "dkBegun", "dkResume",
          "dkSend", "dkWait", "dkAbort", "dkAbortCas", "rclVerify",
          "rclCommit", "rclKeep", "phRead", "phVerify", "phClaimed", "phKeep",
          "phRollback", "rccCas", "cmReveal", "cmSubmit", "cmCommit",
          "rfGuard", "efGuard", "rfBegin", "efBegin", "rfSubmit",
          "efSubmit", "rfRollback", "rfCommit", "rkCas", "rkNext"}

Init ==
    /\ EscrowInit
    /\ CantonInit
    /\ CustodyInit
    /\ OrderInit
    /\ pendingLocks = 0
    /\ claimedTx = 0

-----------------------------------------------------------------------------
(* What the handlers look at.                                              *)

\* An Allocation, HtlcLock or custody transfer is linked to the row.
LinkedEvidence(o) ==
    \/ o.allocationCid \/ o.htlcCid # 0
    \/ o.counterTransferOfferCid \/ o.counterTransferUpdateId

\* The Claimed scans start at the block of the recorded counter lock, or at
\* the order's creation: a claim of an earlier lock is not seen.
ClaimSeen(o) == claimedTx # 0 /\ claimedTx >= o.counterLockTx

Refundable_NotFailed(o) ==
    /\ o.status \in {"main_locked", "counter_locking", "counter_locked",
                     "counter_claimed", "refunding"}
    /\ ~o.revealedPreimage
    /\ now >= UserTimelock

\* isRefundMainCantonStatusEligible, the deadline and the reveal.
Refundable(o) ==
    /\ \/ o.status \in {"main_locked", "counter_locking", "counter_locked",
                        "counter_claimed", "refunding"}
       \/ o.status = "failed" /\ o.mainClaimTx # "none"
    /\ ~o.revealedPreimage
    /\ now >= UserTimelock

-----------------------------------------------------------------------------
(* accept, and the float reservation before the main lock.                 *)

Accept_UnknownStatus ==
    /\ row.status = "open"
    /\ Put([row EXCEPT !.status = "quoted"])
    /\ UNCHANGED <<evmVars, mainVars, pc, snap, fails>>

\* accept reads no float in this direction.
Accept ==
    /\ row.status = "open"
    /\ Put([row EXCEPT !.status = "accepted"])
    /\ UNCHANGED <<evmVars, mainVars, pc, snap, fails>>

\* lock-main (managed), prepare-lock-loop and confirm-lock-loop (Loop) of an
\* accepted order.
RsStart(w) ==
    /\ pc[w] = "idle"
    /\ row.status = "accepted"
    /\ Proceed(w, "rsReserve", row)
    /\ UNCHANGED <<evmVars, mainVars, orderVars, fails>>

\* reserve_reverse_htlc_evm_float_before_main_lock, one transaction: granted,
\* granted before, or refused (the status changed, or the float is too low).
RsReserve(w) ==
    /\ pc[w] = "rsReserve"
    /\ \/ /\ row.status = "accepted"
          /\ Put([row EXCEPT !.status = "main_locking", !.evmFloatReserved = TRUE])
          /\ Proceed(w, "rsFresh", snap[w])
       \/ /\ row.status = "main_locking" /\ row.evmFloatReserved
          /\ UNCHANGED orderVars /\ Proceed(w, "rsFresh", snap[w])
       \/ /\ ~ (row.status = "main_locking" /\ row.evmFloatReserved)
          /\ UNCHANGED orderVars /\ Return(w)
    /\ UNCHANGED <<evmVars, mainVars, fails>>

\* Where the lock handlers go with a row they have just read.  An Allocation
\* without HtlcLock is wrapped whatever the status is.
LockBranch(o) ==
    CASE ~Loop /\ o.allocationCid /\ o.htlcCid = 0 -> "lmCreate"
      [] ~Loop /\ ~(o.allocationCid /\ o.htlcCid = 0)
         /\ o.status = "main_locking" -> "lmAlloc"
      [] Loop /\ o.status = "main_locking" -> "cfBound"
      [] OTHER -> "idle"

\* prepare-lock-loop ends here: it only returns the command for the wallet.
RsFresh(w) ==
    /\ pc[w] = "rsFresh"
    /\ \/ LockBranch(row) # "idle" /\ Proceed(w, LockBranch(row), row)
       \/ (Loop \/ LockBranch(row) = "idle") /\ Return(w)
    /\ UNCHANGED <<evmVars, mainVars, orderVars, fails>>

-----------------------------------------------------------------------------
(* lockMainCanton(id), managed orders.                                     *)

LmStart(w) ==
    /\ pc[w] = "idle"
    /\ ~Loop
    /\ LockBranch(row) # "idle"
    /\ Proceed(w, LockBranch(row), row)
    /\ UNCHANGED <<evmVars, mainVars, orderVars, fails>>

\* reconcileReverseMainLocking, and the bare-Allocation bucket of the sweep.
LmSweep(w) ==
    /\ pc[w] = "idle"
    /\ ~Loop
    /\ row.status = "main_locking"
    /\ now >= updatedAt + PrelockTTL
    /\ Proceed(w, IF LockBranch(row) = "lmAlloc" THEN "lmSweepAlloc"
                                                 ELSE LockBranch(row), row)
    /\ UNCHANGED <<evmVars, mainVars, orderVars, fails>>

\* An exception in allocate(): the sweep looks at its cause.
AllocThrows(w, l) ==
    IF pc[w] = "lmAlloc" THEN Return(w) ELSE Proceed(w, l, NewOrder)

AllocRejected_Swallowed(w) ==
    Proceed(w, "lmPersist", [snap[w] EXCEPT !.allocationCid = TRUE])

\* The holdings may not cover the amount, one reason being that the first
\* submission has locked them: the sweep then releases the reservation.  Any
\* other failure keeps it.
AllocRejected(w) ==
    \/ AllocThrows(w, "rlRead")
    \/ alloc = "none" /\ now + Skew > UserTimelock - AllocLead
       /\ AllocThrows(w, "rlKeepRead")

\* allocate() under the command id of the order.  A duplicate is answered from
\* the first submission.
LmAlloc(w) ==
    /\ pc[w] \in {"lmAlloc", "lmSweepAlloc"}
    /\ \/ /\ \E lt \in LedgerTime : Allocate(lt, UserTimelock - AllocLead)
          /\ \/ /\ Proceed(w, "lmPersist", [snap[w] EXCEPT !.allocationCid = TRUE])
                /\ UNCHANGED fails
             \/ CallLost /\ AllocThrows(w, "rlKeepRead")
       \/ /\ alloc # "none"
          /\ Proceed(w, "lmPersist", [snap[w] EXCEPT !.allocationCid = TRUE])
          /\ UNCHANGED <<cantonVars, fails>>
       \/ AllocRejected(w) /\ UNCHANGED <<cantonVars, fails>>
    /\ UNCHANGED <<evmVars, custody, orderVars>>

LmPersist(w) ==
    /\ pc[w] = "lmPersist"
    /\ PutIfStatus(w, snap[w], "main_locking", "lmCreate")
    /\ UNCHANGED <<evmVars, mainVars, fails>>

LmCreate_AssumesDuplicate(w) ==
    /\ pc[w] = "lmCreate"
    /\ Proceed(w, "lmCommit", [snap[w] EXCEPT !.htlcCid = 1])
    /\ UNCHANGED <<evmVars, mainVars, orderVars, fails>>

\* createOrRecoverReverseMainHtlc: one HtlcLock per command id.
LmCreate(w) ==
    /\ pc[w] = "lmCreate"
    /\ CreateHtlcLock(1) \/ (htlc[1] # "none" /\ UNCHANGED cantonVars)
    /\ Proceed(w, "lmCommit", [snap[w] EXCEPT !.htlcCid = 1])
    /\ UNCHANGED <<evmVars, custody, orderVars, fails>>

LmCommit(w) ==
    /\ pc[w] = "lmCommit"
    /\ PutIfStatus(w, [snap[w] EXCEPT !.status = "main_locked"],
                   "main_locking", "idle")
    /\ UNCHANGED <<evmVars, mainVars, fails>>

-----------------------------------------------------------------------------
(* releaseStaleReversePrelockReservation: a sweep's lock attempt threw.    *)
(* The Keep steps are those of a cause that does not allow the release.    *)

RlRead(w) ==
    /\ pc[w] \in {"rlRead", "rlKeepRead"}
    /\ IF row.status = "main_locking" /\ ~LinkedEvidence(row)
         THEN Proceed(w, IF pc[w] = "rlRead" THEN "rlScan" ELSE "rlKeepScan", row)
         ELSE Return(w)
    /\ UNCHANGED <<evmVars, mainVars, orderVars, fails>>

RlScan_TrustsCause(w) ==
    /\ pc[w] \in {"rlScan", "rlKeepScan"}
    /\ IF pc[w] = "rlScan"
         THEN Proceed(w, "rlFail", [snap[w] EXCEPT !.status = "failed",
                                                   !.evmFloatReserved = FALSE])
         ELSE Return(w)
    /\ UNCHANGED <<evmVars, mainVars, orderVars, fails>>

\* The Allocation is looked up by its command id.
RlScan(w) ==
    /\ pc[w] \in {"rlScan", "rlKeepScan"}
    /\ IF alloc # "none"
         THEN Proceed(w, "rlPersist", [snap[w] EXCEPT !.allocationCid = TRUE])
       ELSE IF pc[w] = "rlScan"
         THEN Proceed(w, "rlFail", [snap[w] EXCEPT !.status = "failed",
                                                   !.evmFloatReserved = FALSE])
       ELSE Return(w)
    /\ UNCHANGED <<evmVars, mainVars, orderVars, fails>>

RlCas(w) ==
    /\ pc[w] \in {"rlPersist", "rlFail"}
    /\ PutIfStatus(w, snap[w], "main_locking", "idle")
    /\ UNCHANGED <<evmVars, mainVars, fails>>

\* releaseReversePrelockWithoutCustody, posted when the wallet did not sign.
RpStart(w) ==
    /\ ReleasePrelock
    /\ pc[w] = "idle"
    /\ row.status = "main_locking"
    /\ ~LinkedEvidence(row)
    /\ Proceed(w, "rpList", row)
    /\ UNCHANGED <<evmVars, mainVars, orderVars, fails>>

RpList(w) ==
    /\ pc[w] = "rpList"
    /\ IF custody \in {"offered", "lapsed"}
         THEN Return(w)
         ELSE Proceed(w, "rlFail", [snap[w] EXCEPT !.status = "failed",
                                                   !.evmFloatReserved = FALSE])
    /\ UNCHANGED <<evmVars, mainVars, orderVars, fails>>

-----------------------------------------------------------------------------
(* commitReverseLoopOrder: the wallet reports its submission.              *)

\* The submitted update shows an offer, or that the CBTC arrived directly.
CoStart(w) ==
    /\ pc[w] = "idle"
    /\ Loop
    /\ row.status = "main_locking" /\ row.evmFloatReserved
    /\ custody # "none"
    /\ Proceed(w, IF custody = "direct" THEN "coDirect" ELSE "coBind", row)
    /\ UNCHANGED <<evmVars, mainVars, orderVars, fails>>

CoDirect(w) ==
    /\ pc[w] = "coDirect"
    /\ PutIfStatus(w, [snap[w] EXCEPT !.status = "main_locked",
                                      !.counterTransferOfferCid = FALSE,
                                      !.counterTransferUpdateId = TRUE],
                   "main_locking", "idle")
    /\ UNCHANGED <<evmVars, mainVars, fails>>

\* On a lost race the handler goes on when somebody has bound an offer.
CoBind(w) ==
    /\ pc[w] = "coBind"
    /\ IF row.status = "main_locking"
         THEN LET o == [snap[w] EXCEPT !.counterTransferOfferCid = TRUE]
              IN  Put(o) /\ Proceed(w, "coAccept", o)
         ELSE /\ UNCHANGED orderVars
              /\ IF row.status # "main_locked" /\ row.counterTransferOfferCid
                   THEN Proceed(w, "coAccept", row) ELSE Return(w)
    /\ UNCHANGED <<evmVars, mainVars, fails>>

CoAccept_Unchecked(w) ==
    /\ pc[w] = "coAccept"
    /\ Proceed(w, "coReread", snap[w])
    /\ UNCHANGED <<evmVars, mainVars, orderVars, fails>>

\* acceptTransfer: accepted, lapsed, or no longer active (the handler throws).
CoAccept(w) ==
    /\ pc[w] = "coAccept"
    /\ \/ AcceptTransfer /\ Proceed(w, "coReread", snap[w])
       \/ custody = "lapsed" /\ Proceed(w, "coFail", snap[w]) /\ UNCHANGED custody
       \/ custody \in {"held", "returned"} /\ Return(w) /\ UNCHANGED custody
    /\ UNCHANGED <<evmVars, cantonVars, orderVars, fails>>

CoReread(w) ==
    /\ pc[w] = "coReread"
    /\ Proceed(w, "coCommit", [row EXCEPT !.status = "main_locked",
                                          !.counterTransferUpdateId = TRUE])
    /\ UNCHANGED <<evmVars, mainVars, orderVars, fails>>

CoCommit(w) ==
    /\ pc[w] = "coCommit"
    /\ PutIfStatus(w, snap[w], "main_locking", "idle")
    /\ UNCHANGED <<evmVars, mainVars, fails>>

\* The offer has lapsed; only commitReverseLoopOrder unbinds it.
CoFail(w) ==
    /\ pc[w] \in {"coFail", "cfFail"}
    /\ PutIfStatus(w, [snap[w] EXCEPT !.status = "failed",
                                      !.evmFloatReserved = FALSE,
                                      !.counterTransferOfferCid =
                                          pc[w] = "cfFail" /\ @],
                   "main_locking", "idle")
    /\ UNCHANGED <<evmVars, mainVars, fails>>

-----------------------------------------------------------------------------
(* confirmLoopSellerLock: the daemon, the browser, or a sweep looks for the *)
(* transfer on the ledger.                                                 *)

CfStart(w) ==
    /\ pc[w] = "idle"
    /\ Loop
    /\ row.status = "main_locking"
    /\ \/ Proceed(w, "cfBound", row)
       \/ now >= updatedAt + PrelockTTL /\ Proceed(w, "cfSweepBound", row)
    /\ UNCHANGED <<evmVars, mainVars, orderVars, fails>>

\* A bound offer that is no longer pending was accepted: recover that update.
CfBound(w) ==
    /\ pc[w] \in {"cfBound", "cfSweepBound"}
    /\ IF /\ snap[w].counterTransferOfferCid /\ ~snap[w].counterTransferUpdateId
          /\ custody \in {"held", "returned"}
         THEN Proceed(w, "cfCommit", [snap[w] EXCEPT !.counterTransferUpdateId = TRUE])
         ELSE Proceed(w, IF pc[w] = "cfBound" THEN "cfList" ELSE "cfSweepList",
                      snap[w])
    /\ UNCHANGED <<evmVars, mainVars, orderVars, fails>>

\* Only pending offers are listed: custody that arrived directly, or was
\* accepted without being bound to the row, is "not visible on-ledger yet",
\* which a sweep takes as a reason to release the reservation.
CfList(w) ==
    /\ pc[w] \in {"cfList", "cfSweepList"}
    /\ IF custody \in {"offered", "lapsed"} THEN Proceed(w, "cfAccept", snap[w])
       ELSE IF pc[w] = "cfList" THEN Return(w)
       ELSE Proceed(w, "rlRead", NewOrder)
    /\ UNCHANGED <<evmVars, mainVars, orderVars, fails>>

\* The offer is accepted before anything of it is written to the row.
CfAccept(w) ==
    /\ pc[w] = "cfAccept"
    /\ \/ /\ AcceptTransfer
          /\ Proceed(w, "cfCommit", [snap[w] EXCEPT !.counterTransferOfferCid = TRUE,
                                                    !.counterTransferUpdateId = TRUE])
       \/ custody = "lapsed" /\ Proceed(w, "cfFail", snap[w]) /\ UNCHANGED custody
       \/ custody \in {"held", "returned"} /\ Return(w) /\ UNCHANGED custody
    /\ UNCHANGED <<evmVars, cantonVars, orderVars, fails>>

CfCommit(w) ==
    /\ pc[w] = "cfCommit"
    /\ PutIfStatus(w, [snap[w] EXCEPT !.status = "main_locked"],
                   "main_locking", "idle")
    /\ UNCHANGED <<evmVars, mainVars, fails>>

-----------------------------------------------------------------------------
(* The daemon's WBTC lock.  There is one daemon: no two workers stand at   *)
(* its own steps.  What it posts to the API (abort, counter-lock) may run  *)
(* on after the daemon has stopped waiting for the answer.                 *)

DaemonIdle == \A w \in Workers : pc[w] \notin {"dkSlot", "dkBegin", "dkBegun",
                                              "dkResume", "dkSend", "dkWait"}

\* From the active list; a row with a counterLockTx is only posted again.
DkStart(w) ==
    /\ pc[w] = "idle"
    /\ DaemonIdle
    /\ row.status \in {"main_locked", "counter_locking"}
    /\ row.counterLockTx = 0
    /\ Proceed(w, "dkSlot", row)
    /\ UNCHANGED <<evmVars, mainVars, orderVars, fails>>

\* A lock that is already there is posted (Rcl); a low balance gives up.
DkSlot(w) ==
    /\ pc[w] = "dkSlot"
    /\ \/ slot.amount # 0 /\ Return(w)
       \/ slot.amount = 0 /\ Proceed(w, IF snap[w].status = "main_locked"
                                          THEN "dkBegin" ELSE "dkResume", NewOrder)
       \/ slot.amount = 0 /\ IF snap[w].status = "counter_locking"
                               THEN Proceed(w, "dkAbort", NewOrder) ELSE Return(w)
    /\ UNCHANGED <<evmVars, mainVars, orderVars, fails>>

\* beginCounterLock and reserve_reverse_htlc_evm_float.
DkBegin(w) ==
    /\ pc[w] = "dkBegin"
    /\ \/ /\ row.status = "main_locked"
          /\ Put([row EXCEPT !.status = "counter_locking", !.evmFloatReserved = TRUE])
          /\ Proceed(w, "dkBegun", NewOrder)
       \/ /\ row.status = "counter_locking"
          /\ UNCHANGED orderVars /\ Proceed(w, "dkBegun", NewOrder)
       \/ /\ row.status # "counter_locking"
          /\ row.status = "main_locked" => ~row.evmFloatReserved
          /\ UNCHANGED orderVars /\ Return(w)
    /\ UNCHANGED <<evmVars, mainVars, fails>>

\* The claim margin; then the log: an earlier claim (looked for only when the
\* lock was begun in an earlier poll) and an earlier lock stop a second one.
DkCheck(w) ==
    /\ pc[w] \in {"dkBegun", "dkResume"}
    /\ IF SolverTimelock - now < ClaimMargin
         THEN Proceed(w, "dkAbort", NewOrder)
       ELSE IF (pc[w] = "dkResume" /\ "Claimed" \in events) \/ "Locked" \in events
         THEN Return(w)
         ELSE Proceed(w, "dkSend", NewOrder)
    /\ UNCHANGED <<evmVars, mainVars, orderVars, fails>>

\* escrow.write.lock: sent, or it throws (the gas estimate reverts, no answer).
\* Bound: transactions sent never exceed MaxLocks.
DkSend(w) ==
    /\ pc[w] = "dkSend"
    /\ \/ /\ slot.amount = 0 /\ now < SolverTimelock
          /\ lockTxs + pendingLocks < MaxLocks
          /\ Proceed(w, "dkWait", NewOrder)
       \/ ~ (slot.amount = 0 /\ now < SolverTimelock) /\ Return(w)
    /\ UNCHANGED <<evmVars, mainVars, orderVars, fails>>

SolverLock == Lock(Solver, User, SolverTimelock, WbtcAmount)

\* waitForTransactionReceipt, and the POST of a mined lock (Rcl).  Nonces are
\* in order: an earlier pending transaction lands first.  When the wait is cut
\* short the transaction stays behind.
DkWait(w) ==
    /\ pc[w] = "dkWait"
    /\ \/ /\ pendingLocks = 0 /\ SolverLock
          /\ Return(w)
          /\ UNCHANGED <<pendingLocks, fails>>
       \/ /\ pendingLocks = 0 /\ (slot.amount # 0 \/ now >= SolverTimelock)
          /\ Proceed(w, "dkAbort", NewOrder)
          /\ UNCHANGED <<chainVars, pendingLocks, fails>>
       \/ /\ CallLost
          /\ pendingLocks' = pendingLocks + 1
          /\ Return(w)
          /\ UNCHANGED chainVars
    /\ UNCHANGED <<claimedTx, mainVars, orderVars>>

\* abortCounterLock.
DkAbort(w) ==
    /\ pc[w] = "dkAbort"
    /\ IF row.status = "counter_locking" THEN Proceed(w, "dkAbortCas", row)
                                         ELSE Return(w)
    /\ UNCHANGED <<evmVars, mainVars, orderVars, fails>>

DkAbortCas(w) ==
    /\ pc[w] = "dkAbortCas"
    /\ PutIfStatus(w, [snap[w] EXCEPT !.status = "main_locked",
                                      !.evmFloatReserved = FALSE],
                   "counter_locking", "idle")
    /\ UNCHANGED <<evmVars, mainVars, fails>>

-----------------------------------------------------------------------------
(* recordCounterLocked(id, tx), posted by the daemon for any lock it has a *)
(* receipt of or has found in the log.                                     *)

RclStart(w, tx) ==
    /\ pc[w] = "idle"
    /\ DaemonIdle
    /\ row.status \in {"main_locked", "counter_locking"}
    /\ Proceed(w, "rclVerify", [row EXCEPT !.counterLockTx = tx])
    /\ UNCHANGED <<evmVars, mainVars, orderVars, fails>>

RclVerify_NoFinality(w) ==
    /\ pc[w] = "rclVerify"
    /\ IF slot.amount >= WbtcAmount THEN Proceed(w, "rclCommit", snap[w])
                                    ELSE Return(w)
    /\ UNCHANGED <<evmVars, mainVars, orderVars, fails>>

\* verifyReverseCounterLockTx: the lock must stand, and be final; one that is
\* mined only is remembered.
RclVerify(w) ==
    /\ pc[w] = "rclVerify"
    /\ IF slot.amount >= WbtcAmount
         THEN Proceed(w, IF snap[w].counterLockTx \in finalTxs THEN "rclCommit"
                                                               ELSE "rclKeep",
                      snap[w])
         ELSE Return(w)
    /\ UNCHANGED <<evmVars, mainVars, orderVars, fails>>

RclCas(w) ==
    /\ pc[w] \in {"rclCommit", "rclKeep"}
    /\ PutIfStatus(w, IF pc[w] = "rclCommit"
                        THEN [snap[w] EXCEPT !.status = "counter_locked",
                                             !.evmFloatReserved = FALSE]
                        ELSE [snap[w] EXCEPT !.status = "counter_locking"],
                   snap[w].status, "idle")
    /\ UNCHANGED <<evmVars, mainVars, fails>>

-----------------------------------------------------------------------------
(* reconcilePhantomEvmCounterLock, run by every full getOrder and by a     *)
(* counter-lock POST.                                                      *)

PhStart(w) ==
    /\ pc[w] = "idle"
    /\ row.status = "counter_locked"
    /\ Proceed(w, "phRead", row)
    /\ UNCHANGED <<evmVars, mainVars, orderVars, fails>>

\* A lock that stands is the solver's own and has the right terms.
PhRead(w) ==
    /\ pc[w] = "phRead"
    /\ IF slot.amount # 0 THEN Return(w)
       ELSE IF ClaimSeen(snap[w])
         THEN Proceed(w, "phClaimed", [snap[w] EXCEPT !.status = "counter_claimed"])
         ELSE Proceed(w, "phVerify", snap[w])
    /\ UNCHANGED <<evmVars, mainVars, orderVars, fails>>

\* verifyReverseCounterLockTx again, which wants the slot to be filled again.
PhVerify(w) ==
    /\ pc[w] = "phVerify"
    /\ LET o == [snap[w] EXCEPT !.evmFloatReserved = FALSE]
       IN  IF snap[w].counterLockTx # 0 /\ slot.amount >= WbtcAmount
             THEN Proceed(w, "phKeep",
                    IF "Retaken" \in events THEN [o EXCEPT !.mainClaimTx = "retake"]
                                            ELSE o)
             ELSE Proceed(w, "phRollback", [o EXCEPT !.status = "main_locked",
                                                     !.counterLockTx = 0])
    /\ UNCHANGED <<evmVars, mainVars, orderVars, fails>>

PhCas(w) ==
    /\ pc[w] \in {"phClaimed", "phKeep", "phRollback"}
    /\ PutIfStatus(w, snap[w], "counter_locked", "idle")
    /\ UNCHANGED <<evmVars, mainVars, fails>>

-----------------------------------------------------------------------------
(* The reveal: recordCounterClaimed from the browser, claimMainAsSolver    *)
(* from the daemon's watchtower.                                           *)

\* A counter_claimed row is answered as it is.
RccStart(w) ==
    /\ pc[w] = "idle"
    /\ row.status = "counter_locked"
    /\ ClaimSeen(row)
    /\ Proceed(w, "rccCas", row)
    /\ UNCHANGED <<evmVars, mainVars, orderVars, fails>>

RccCas(w) ==
    /\ pc[w] = "rccCas"
    /\ PutIfStatus(w, [snap[w] EXCEPT !.status = "counter_claimed",
                                      !.revealedPreimage = TRUE,
                                      !.mainClaimTx = "claim"],
                   "counter_locked", "idle")
    /\ UNCHANGED <<evmVars, mainVars, fails>>

CmNext(o) == IF o.status = "counter_locked" \/ ~o.revealedPreimage
               THEN "cmReveal" ELSE "cmSubmit"

CmStart_NoProof(w) ==
    /\ pc[w] = "idle"
    /\ row.status \in {"counter_locked", "counter_claimed"}
    /\ row.mainClaimTx # "retake"
    /\ Proceed(w, CmNext(row), [row EXCEPT !.mainClaimTx = "claim"])
    /\ UNCHANGED <<evmVars, mainVars, orderVars, fails>>

\* The watchtower has the preimage from the row, or from the Claimed event once
\* it sees the lock gone; claimMainAsSolver wants the event's transaction.
CmStart(w) ==
    /\ pc[w] = "idle"
    /\ row.status \in {"counter_locked", "counter_claimed"}
    /\ row.revealedPreimage \/ slot.amount = 0
    /\ ClaimSeen(row)
    /\ row.mainClaimTx # "retake"
    /\ Proceed(w, CmNext(row), [row EXCEPT !.mainClaimTx = "claim"])
    /\ UNCHANGED <<evmVars, mainVars, orderVars, fails>>

\* The reveal is persisted before the CBTC is claimed.
CmReveal(w) ==
    /\ pc[w] = "cmReveal"
    /\ IF row.status = snap[w].status
         THEN LET o == [snap[w] EXCEPT !.status = "counter_claimed",
                                       !.revealedPreimage = TRUE]
              IN  Put(o) /\ Proceed(w, "cmSubmit", o)
         ELSE /\ UNCHANGED orderVars
              /\ IF row.status = "counter_claimed" /\ row.revealedPreimage
                   THEN Proceed(w, "cmSubmit", row) ELSE Return(w)
    /\ UNCHANGED <<evmVars, mainVars, fails>>

\* Loop: the CBTC is in custody already.  Managed: HtlcLock.Claim, or the one
\* that has been committed under the command id, or the ledger rejects it (a
\* row that got here has both contract ids).
CmSubmit(w) ==
    /\ pc[w] = "cmSubmit"
    /\ \/ /\ Loop
          /\ IF snap[w].counterTransferUpdateId THEN Proceed(w, "cmCommit", snap[w])
                                                ELSE Return(w)
          /\ UNCHANGED cantonVars
       \/ /\ ~Loop /\ snap[w].htlcCid # 0 /\ snap[w].allocationCid
          /\ \/ /\ \E lt \in LedgerTime : HtlcClaim(snap[w].htlcCid, lt)
                /\ Proceed(w, "cmCommit", snap[w])
             \/ /\ alloc = "executed"
                /\ Proceed(w, "cmCommit", snap[w])
                /\ UNCHANGED cantonVars
             \/ /\ alloc # "executed"
                /\ alloc = "locked" => now + Skew >= CantonUnlock
                /\ Return(w)
                /\ UNCHANGED cantonVars
    /\ UNCHANGED <<evmVars, custody, orderVars, fails>>

CmCommit(w) ==
    /\ pc[w] = "cmCommit"
    /\ PutIfStatus(w, [snap[w] EXCEPT !.status = "main_claimed",
                                      !.evmFloatReserved = FALSE,
                                      !.counterClaimUpdateId = "claim"],
                   snap[w].status, "idle")
    /\ UNCHANGED <<evmVars, mainVars, fails>>

-----------------------------------------------------------------------------
(* refundMainCanton(id), earlyRefundLoopCustody(id), recordCounterRetake.  *)

RfStart(w) ==
    /\ pc[w] = "idle" \/ (pc[w] = "rkNext" /\ now >= UserTimelock)
    /\ IF Refundable(row) THEN Proceed(w, "rfGuard", row)
                          ELSE pc[w] = "rkNext" /\ Return(w)
    /\ UNCHANGED <<evmVars, mainVars, orderVars, fails>>

\* What the auto-refund sweep picks up (reverseMain, staleLoopSeller); the rest
\* of what RfStart allows is only started by the user's button.
RfSweep(w) ==
    /\ RfStart(w)
    /\ IF Loop THEN row.status \in {"main_locked", "counter_locking",
                                    "counter_locked", "refunding"}
               ELSE row.htlcCid # 0

RfGuard_SlotOnly(w) ==
    /\ pc[w] = "rfGuard"
    /\ IF slot.amount = 0 THEN Proceed(w, "rfBegin", snap[w]) ELSE Return(w)
    /\ UNCHANGED <<evmVars, mainVars, orderVars, fails>>

\* assertEvmCounterNotClaimed: the slot is empty and the log has no claim.
RfGuard(w) ==
    /\ pc[w] = "rfGuard"
    /\ IF slot.amount = 0 /\ ~ClaimSeen(snap[w])
         THEN Proceed(w, "rfBegin", snap[w]) ELSE Return(w)
    /\ UNCHANGED <<evmVars, mainVars, orderVars, fails>>

\* The sweep's loopCustodyStalled bucket.
EfStart(w) ==
    /\ pc[w] = "idle"
    /\ Loop
    /\ Grace <= now /\ now < UserTimelock
    /\ row.status \in {"main_locked", "refunding"}
    /\ ~row.revealedPreimage /\ row.counterTransferUpdateId
    /\ Proceed(w, "efGuard", row)
    /\ UNCHANGED <<evmVars, mainVars, orderVars, fails>>

\* Only the slot is looked at, not the log.
EfGuard(w) ==
    /\ pc[w] = "efGuard"
    /\ IF slot.amount = 0 THEN Proceed(w, "efBegin", snap[w]) ELSE Return(w)
    /\ UNCHANGED <<evmVars, mainVars, orderVars, fails>>

\* The durable claim of the refund.  The copy keeps the previous status, to
\* which a failed transfer rolls back; only refundMainCanton frees the float.
RfBegin(w) ==
    /\ pc[w] \in {"rfBegin", "efBegin"}
    /\ LET o == IF pc[w] = "rfBegin" THEN [snap[w] EXCEPT !.evmFloatReserved = FALSE]
                                     ELSE snap[w]
       IN  IF row.status = snap[w].status
             THEN /\ Put([o EXCEPT !.status = "refunding"])
                  /\ Proceed(w, IF pc[w] = "rfBegin" THEN "rfSubmit" ELSE "efSubmit", o)
             ELSE UNCHANGED orderVars /\ Return(w)
    /\ UNCHANGED <<evmVars, mainVars, fails>>

\* The refund's command has been committed.
RefundDone == IF Loop THEN custody = "returned" ELSE alloc = "refunded"

\* One refund per command id: createTransfer from the vault, or HtlcLock.Refund.
RefundCommits(o) ==
    \/ /\ Loop /\ o.counterTransferUpdateId
       /\ ReturnTransfer /\ UNCHANGED cantonVars
    \/ /\ ~Loop /\ o.allocationCid /\ o.htlcCid # 0
       /\ \E lt \in LedgerTime : HtlcRefund(o.htlcCid, lt)
       /\ UNCHANGED custody

\* The ledger refuses the refund of an HtlcLock.
RfRejected(w) ==
    /\ ~RefundDone
    /\ ~Loop /\ (alloc = "locked" => now - Skew < CantonUnlock)
    /\ Proceed(w, "rfRollback", snap[w])
    /\ UNCHANGED <<mainVars, fails>>

\* A refund that has committed is found under its command id.  A lost answer,
\* committed or not, is rolled back like a rejection.
RfSubmit(w) ==
    /\ pc[w] = "rfSubmit"
    /\ \/ /\ RefundDone
          /\ Proceed(w, "rfCommit", snap[w])
          /\ UNCHANGED <<mainVars, fails>>
       \/ /\ RefundCommits(snap[w])
          /\ \/ Proceed(w, "rfCommit", snap[w]) /\ UNCHANGED fails
             \/ CallLost /\ Proceed(w, "rfRollback", snap[w])
       \/ /\ CallLost
          /\ Proceed(w, "rfRollback", snap[w])
          /\ UNCHANGED mainVars
       \/ RfRejected(w)
    /\ UNCHANGED <<evmVars, orderVars>>

\* earlyRefundLoopCustody does not look for a refund that has committed: a
\* duplicate of it is an error like any other (createTransfer's own text hides
\* the words the handler looks for), and the status is rolled back.
EfSubmit(w) ==
    /\ pc[w] = "efSubmit"
    /\ \/ /\ RefundDone
          /\ Proceed(w, "rfRollback", snap[w])
          /\ UNCHANGED <<mainVars, fails>>
       \/ /\ RefundCommits(snap[w])
          /\ \/ Proceed(w, "rfCommit", snap[w]) /\ UNCHANGED fails
             \/ CallLost /\ Proceed(w, "rfRollback", snap[w])
       \/ /\ CallLost
          /\ Proceed(w, "rfRollback", snap[w])
          /\ UNCHANGED mainVars
    /\ UNCHANGED <<evmVars, orderVars>>

RfRollback(w) ==
    /\ pc[w] = "rfRollback"
    /\ PutIfStatus(w, snap[w], "refunding", "idle")
    /\ UNCHANGED <<evmVars, mainVars, fails>>

RfCommit(w) ==
    /\ pc[w] = "rfCommit"
    /\ PutIfStatus(w, [snap[w] EXCEPT !.status = "refunded",
                                      !.counterClaimUpdateId = "refund"],
                   "refunding", "idle")
    /\ UNCHANGED <<evmVars, mainVars, fails>>

\* recordCounterRetake, posted by the daemon after its retake.
RkStart(w) ==
    /\ pc[w] = "idle"
    /\ row.status = "counter_locked"
    /\ ~row.revealedPreimage
    /\ "Retaken" \in events
    /\ Proceed(w, "rkCas", row)
    /\ UNCHANGED <<evmVars, mainVars, orderVars, fails>>

RkCas(w) ==
    /\ pc[w] = "rkCas"
    /\ PutIfStatus(w, [snap[w] EXCEPT !.mainClaimTx = "retake",
                                      !.evmFloatReserved = FALSE],
                   "counter_locked", "rkNext")
    /\ UNCHANGED <<evmVars, mainVars, fails>>

\* Past userTimelock refundMainCanton follows (RfStart); before it the order
\* has failed.
RkFail(w) ==
    /\ pc[w] = "rkNext"
    /\ now < UserTimelock
    /\ PutIfStatus(w, [snap[w] EXCEPT !.status = "failed"], "counter_locked", "idle")
    /\ UNCHANGED <<evmVars, mainVars, fails>>

-----------------------------------------------------------------------------
(* The environment.                                                        *)

\* A worker is killed between two awaits; DkWait has its own case, because the
\* transaction it waits for survives it.
Fail(w) ==
    /\ pc[w] \notin {"idle", "dkWait"}
    /\ CallLost
    /\ Return(w)
    /\ UNCHANGED <<evmVars, mainVars, orderVars>>

\* The Loop seller signs the prepared transfer once; it may land late.
UserTransfer ==
    /\ Loop
    /\ row.status \notin {"open", "accepted", "cancelled"}
    /\ Offer
    /\ UNCHANGED <<evmVars, cantonVars, orderVars, pc, snap, fails>>

OfferLapses ==
    /\ Lapse
    /\ UNCHANGED <<evmVars, cantonVars, orderVars, pc, snap, fails>>

\* The user, who has the preimage from the start, claims whenever the escrow
\* allows it, whatever the row says.
UserClaim ==
    /\ Claim(User)
    /\ claimedTx' = slot.tx
    /\ UNCHANGED <<pendingLocks, mainVars, orderVars, pc, snap, fails>>

\* The daemon retakes the WBTC of an order it watches.
SolverRetake ==
    /\ row.status \in {"counter_locked", "counter_claimed"}
    /\ ~row.revealedPreimage
    /\ now > SolverTimelock
    /\ Retake(Solver)
    /\ UNCHANGED <<pendingLocks, claimedTx, mainVars, orderVars, pc, snap, fails>>

\* A transaction nobody waits for is mined, or it reverts or is dropped.
PendingLands ==
    /\ pendingLocks > 0
    /\ pendingLocks' = pendingLocks - 1
    /\ SolverLock \/ UNCHANGED chainVars
    /\ UNCHANGED <<claimedTx, mainVars, orderVars, pc, snap, fails>>

Chain ==
    /\ Tick \/ Finalize
    /\ UNCHANGED <<pendingLocks, claimedTx, mainVars, orderVars, pc, snap, fails>>

Environment ==
    \/ Accept \/ UserTransfer \/ OfferLapses \/ UserClaim \/ SolverRetake
    \/ PendingLands \/ Chain

-----------------------------------------------------------------------------
Cancel(w) == (CancelStart(w) \/ CancelCas(w)) /\ UNCHANGED <<custody, pendingLocks, claimedTx>>

StartRequest(w) ==
    \/ RsStart(w) \/ LmStart(w) \/ LmSweep(w) \/ RpStart(w) \/ CoStart(w)
    \/ CfStart(w) \/ DkStart(w) \/ PhStart(w) \/ RccStart(w) \/ CmStart(w)
    \/ RfStart(w) \/ EfStart(w) \/ RkStart(w)
    \/ \E tx \in 1..lockTxs : RclStart(w, tx)

Resume(w) ==
    \/ RsReserve(w) \/ RsFresh(w)
    \/ LmAlloc(w) \/ LmPersist(w) \/ LmCreate(w) \/ LmCommit(w)
    \/ RlRead(w) \/ RlScan(w) \/ RlCas(w) \/ RpList(w)
    \/ CoDirect(w) \/ CoBind(w) \/ CoAccept(w) \/ CoReread(w) \/ CoCommit(w)
    \/ CoFail(w) \/ CfBound(w) \/ CfList(w) \/ CfAccept(w) \/ CfCommit(w)
    \/ DkSlot(w) \/ DkBegin(w) \/ DkCheck(w) \/ DkSend(w) \/ DkWait(w)
    \/ DkAbort(w) \/ DkAbortCas(w)
    \/ RclVerify(w) \/ RclCas(w) \/ PhRead(w) \/ PhVerify(w) \/ PhCas(w)
    \/ RccCas(w) \/ CmReveal(w) \/ CmSubmit(w) \/ CmCommit(w)
    \/ RfGuard(w) \/ EfGuard(w) \/ RfBegin(w) \/ RfSubmit(w) \/ EfSubmit(w)
    \/ RfRollback(w) \/ RfCommit(w) \/ RkCas(w) \/ RkFail(w)

Next ==
    \/ Environment
    \/ \E w \in Workers : Cancel(w) \/ StartRequest(w) \/ Resume(w) \/ Fail(w)

Spec == Init /\ [][Next]_vars

-----------------------------------------------------------------------------
(* Properties.                                                             *)

TypeOK ==
    /\ EscrowTypeOK
    /\ CantonTypeOK
    /\ CustodyTypeOK
    /\ row \in Row
    /\ updatedAt \in Nat
    /\ pc \in [Workers -> Label]
    /\ snap \in [Workers -> Row]
    /\ fails \in 0..MaxFails
    /\ pendingLocks \in Nat
    /\ claimedTx \in 0..MaxLocks

\* What the ledgers show.
ledgers == [events |-> events, mined |-> 1..lockTxs, final |-> finalTxs,
            alloc |-> alloc, htlc |-> htlc, custody |-> custody]

\* The user's CBTC has been set aside for the swap.
SetAside(g) == IF Loop THEN g.custody \in {"held", "direct", "returned"}
                       ELSE g.alloc # "none"

\* What a copy `o' of the row says is so on the ledgers `g'.
Evidence(o, g) ==
    /\ o.revealedPreimage \/ o.status \in {"counter_claimed", "main_claimed"}
         => "Claimed" \in g.events
    /\ o.mainClaimTx = "claim" => "Claimed" \in g.events
    /\ o.mainClaimTx = "retake" => "Retaken" \in g.events
    /\ o.counterLockTx # 0 => o.counterLockTx \in g.mined
    /\ o.status = "counter_locked" => o.counterLockTx \in g.final
    /\ o.allocationCid => g.alloc # "none"
    /\ o.htlcCid # 0 => g.htlc[o.htlcCid] # "none"
    /\ o.counterTransferUpdateId => g.custody \in {"held", "direct", "returned"}
    /\ o.status \in {"main_locked", "counter_locking", "counter_locked",
                     "counter_claimed", "main_claimed"} => SetAside(g)
    /\ o.status = "refunded" => IF Loop THEN g.custody = "returned"
                                        ELSE g.alloc = "refunded"
    /\ o.status = "main_claimed" => Loop \/ g.alloc = "executed"

\* The row never says what has not happened: a reveal, or counter_claimed or
\* main_claimed, means the user has the WBTC; a counterLockTx is a lock that
\* was mined, and final once counter_locked; a linked Allocation, HtlcLock or
\* custody update, that it exists; main_locked and what follows, that the CBTC
\* has been set aside; a refund or a completion, that it has moved.  Every
\* writer but two SQL functions overwrites the whole row from a copy older than
\* its awaits.
RowEvidenceTrue == Evidence(row, ledgers)

\* The solver takes the managed user's CBTC only once the user has the WBTC:
\* claimMainAsSolver submits HtlcLock.Claim only on the escrow's Claimed event,
\* through every stale copy, crash and retry.
CbtcAfterWbtc == alloc = "executed" => "Claimed" \in events

\* "No refund after claim", on the ledger itself: once the user has taken the
\* WBTC, no worker, however stale its reading of the escrow, returns the CBTC.
NoRefundAfterClaim == RefundDone => "Claimed" \notin events

\* What a worker with copy `o' before the await `l' already knows.
LabelEvidence(l, o, g) ==
    /\ l \in {"lmAlloc", "lmSweepAlloc"} => ~Loop
    /\ l \in {"lmPersist", "lmCreate", "lmCommit"} => o.allocationCid
    /\ l \in {"coDirect", "coReread"} => g.custody \in {"held", "direct", "returned"}
    /\ l = "cfCommit" => o.counterTransferUpdateId
    /\ l \in {"dkSlot", "dkBegin", "dkBegun", "dkResume", "dkSend", "dkWait",
              "dkAbortCas", "rclVerify", "rclCommit", "rclKeep", "phRead",
              "phVerify"} => SetAside(g)
    /\ l = "rclCommit" => o.counterLockTx \in g.final
    /\ l \in {"rccCas", "cmReveal", "cmSubmit", "cmCommit"} => "Claimed" \in g.events
    /\ l = "cmCommit" => Loop \/ g.alloc = "executed"
    /\ l = "rkCas" => "Retaken" \in g.events
    /\ l = "rfCommit" => IF Loop THEN g.custody = "returned" ELSE g.alloc = "refunded"

\* The inductive strengthening of RowEvidenceTrue and CbtcAfterWbtc: the copies
\* tell the truth too, each direction has its own kind of CBTC leg, and no WBTC
\* transaction is under way before that leg is set aside.
EvidenceInv ==
    /\ CbtcAfterWbtc
    /\ RowEvidenceTrue
    /\ alloc # "none" => ~Loop
    /\ custody # "none" => Loop
    /\ pendingLocks > 0 \/ lockTxs > 0 => SetAside(ledgers)
    /\ \A w \in Workers : /\ Evidence(snap[w], ledgers)
                           /\ LabelEvidence(pc[w], snap[w], ledgers)

\* What the escrow's slot, log and transactions have to do with each other.
\* The lock in the slot is the newest one and was made by the daemon.
EscrowInv ==
    /\ slot.amount # 0 => slot.unlockTime = SolverTimelock /\ slot.tx = lockTxs
    /\ slot.amount # 0 \/ events # {} => lockTxs > 0
    /\ claimedTx # 0 <=> "Claimed" \in events
    /\ claimedTx <= lockTxs

\* The CBTC goes back only when the WBTC can no longer be locked or claimed.
RefundLate ==
    /\ alloc # "withdrawn"
    /\ alloc = "refunded" => now >= SolverTimelock

\* What keeps a managed refund off a claimed swap, as long as nothing is locked
\* again after the claim: the scan of a refund finds the claim if there is one,
\* and none can follow, since refunds start when the WBTC has long timed out.
RefundGuarded ==
    /\ "Claimed" \in events => claimedTx = lockTxs /\ slot.amount = 0
    /\ alloc = "refunded" => "Claimed" \notin events
    /\ \A w \in Workers :
         /\ pc[w] \in {"rfGuard", "rfBegin", "rfSubmit"} => now >= UserTimelock
         /\ pc[w] \in {"rfBegin", "rfSubmit"} => "Claimed" \notin events
         /\ pc[w] \notin {"efGuard", "efBegin", "efSubmit"}

\* The solver's WBTC goes into escrow only while the user's CBTC is locked for
\* the swap, or has been paid to the solver.
CounterCovered ==
    [][lockTxs' > lockTxs =>
         IF Loop THEN Held ELSE alloc \in {"locked", "executed"}]_vars

\* The managed swap seen as two assets changing places: the WBTC moves only
\* against CBTC locked for the solver, the CBTC only after the WBTC.
cbtcView ==
    CASE alloc = "locked" -> "escrow"
      [] alloc = "executed" -> "settled"
      [] OTHER -> "owner"

wbtcView ==
    CASE lockTxs = 0 -> "free"
      [] "Claimed" \in events -> "delivered"
      [] lockTxs # 0 /\ "Claimed" \notin events /\ slot.amount # 0 -> "locked"
      [] OTHER -> "returned"

Swap == INSTANCE CrossChainSwap WITH main <- cbtcView, counter <- wbtcView

ImplementsSwap == Swap!Spec

-----------------------------------------------------------------------------
(* Liveness.  A handler that started goes on unless it is killed; the sweep*)
(* and the daemon's polls come back again and again.                       *)

Fairness ==
    /\ WF_vars(Chain)
    /\ WF_vars(SolverRetake)
    /\ WF_vars(PendingLands)
    /\ \A w \in Workers : WF_vars(Resume(w))
    /\ SF_vars(\E w \in Workers : LmSweep(w))
    /\ SF_vars(\E w \in Workers : CfStart(w))
    /\ SF_vars(\E w \in Workers : DkStart(w))
    /\ SF_vars(\E w \in Workers, tx \in 1..lockTxs : RclStart(w, tx))
    /\ SF_vars(\E w \in Workers : RkStart(w))
    /\ SF_vars(\E w \in Workers : CmStart(w))
    /\ SF_vars(\E w \in Workers : RfSweep(w))

FairSpec == Spec /\ Fairness

\* "No stranded vault/user funds after retry windows": the user's locked CBTC
\* is either paid for or given back, whatever crashed on the way, in an
\* Allocation (managed) or in custody (Loop).
MainFreed ==
    alloc = "locked" \/ Held
        ~> (alloc # "locked" /\ ~Held) \/ "Claimed" \in events

-----------------------------------------------------------------------------
(* What the repository says of itself and the code does not keep: TLC      *)
(* refutes each, on the instances listed in README.md section 3.           *)

\* abortCounterLock: "Release the claim only when the daemon knows no EVM
\* transaction was submitted".
AbortKnowsNoTx ==
    [][row.status = "counter_locking" /\ row'.status = "main_locked"
         => pendingLocks = 0]_vars

\* The daemon's re-lock guard: a real claim must never "make us double-fund".
FundedOnce == [][lockTxs' > lockTxs => "Claimed" \notin events]_vars

\* reconcilePhantomEvmCounterLock: "A valid landed lock that later disappeared
\* stays counter_locked".
LandedLockStays ==
    [][row.status = "counter_locked" /\ row.counterLockTx \in finalTxs
         => row'.status # "main_locked"]_vars

\* Crash-recovery drills: "Preimage discovery advances order".
ClaimDiscovered == "Claimed" \in events ~> row.revealedPreimage

\* Crash-recovery drills: "no stranded vault/user funds after retry windows",
\* for a reverse order whose WBTC the daemon has retaken and recorded.
RetakenFreed ==
    row.status = "failed" /\ row.mainClaimTx = "retake"
        ~> alloc # "locked" /\ ~Held

\* releaseReversePrelockWithoutCustody: "cannot release pre-lock - custody or
\* lock evidence is already linked".
FailedHoldsNothing ==
    row.status = "failed" /\ row.mainClaimTx = "none" => alloc # "locked" /\ ~Held
=============================================================================
