----------------------------- MODULE CantonSwap -----------------------------
(***************************************************************************)
(* One Canton-to-Canton swap as CantonSwapService runs it                  *)
(* (lib/canton-swap-service.ts), with the daemon's expire/reconcile and    *)
(* fill calls (swap-solver/src/canton-swap-daemon.mts).  A managed order   *)
(* is settled by the user's own request; a Loop order waits for the user's *)
(* signed sell offer, is filled by the daemon, and may leave a counter     *)
(* offer that the user still has to accept.                                *)
(*                                                                         *)
(* The daemon's calls time out after a minute while the server goes on, so *)
(* a sweep, a fill and the user's requests overlap.                        *)
(***************************************************************************)
EXTENDS CantonSwapOrder

CONSTANTS
    Modes,        \* the wallet modes of the run, a subset of {"managed", "loop"}
    SlowHandlers  \* a handler may stand at one await for the whole cooldown

ASSUME ModesAssumption ==
    /\ Modes \subseteq {"managed", "loop"}
    /\ SlowHandlers \in BOOLEAN

vars == <<mode, row, sell, legs, feesOn, feeLeg, booked, late, job, fails>>

Label == {"idle", "reserve", "joined", "confirm", "unconfirmed",
          "reserveFill", "reservedFill", "begin", "fee", "offer", "offered",
          "repair", "check", "submit", "recover", "result", "book", "unmark",
          "caught", "reject", "inFlight", "sweepRepair", "look", "fresh",
          "relook", "reserveReissue", "reservedReissue", "reissue",
          "reissued", "expire", "expireReject", "feeBook", "put"}
Err == {"none", "other", "retry", "flight", "lost"}

TypeOK ==
    /\ mode \in {"managed", "loop"}
    /\ row \in Row
    /\ sell \in {"none", "pending", "accepted", "closed"}
    /\ legs \in [Leg -> {"none", "flying", "direct", "pending", "accepted", "closed"}]
    /\ {feesOn, feeLeg, booked, late} \subseteq BOOLEAN
    /\ job \in [Workers -> [at : Label, o : Row, was : Status, cid : 0..MaxLegs, err : Err]]
    /\ fails \in 0..MaxFails

Init ==
    /\ mode \in Modes
    /\ row = NewOrder
    /\ sell = "none"
    /\ legs = [k \in Leg |-> "none"]
    /\ feesOn = (mode = "managed")
    /\ feeLeg = FALSE
    /\ booked = FALSE
    /\ late = FALSE
    /\ job = [w \in Workers |-> Idle]
    /\ fails = 0

-----------------------------------------------------------------------------
(* Predicates on a copy of the row (lib/canton-swap-order-logic.ts).       *)

PendingCounterAccept(o) ==
    o.status = "user_locked" /\ o.settlementUpdateId /\ o.counterLegOfferCid # 0

LoopFillInFlight(o) ==
    /\ mode = "loop"
    /\ \/ o.status = "filling"
       \/ o.status = "user_locked" /\ ~o.settlementUpdateId /\ o.fillInFlight

Expired(o) ==
    /\ late
    /\ ~LoopFillInFlight(o)
    /\ ~(mode = "managed" /\ o.status = "settling")
    /\ ~PendingCounterAccept(o)

\* applyManagedFillResult and applyLoopFillResult, for a counter leg that was
\* delivered with the fill or left as an offer.
FillResult(o, offered) ==
    IF offered
      THEN [o EXCEPT !.status = "user_locked", !.settlementUpdateId = TRUE,
                     !.counterLegOfferCid = 1, !.counterReceiptUpdateId = FALSE,
                     !.counterPendingClearedAt = "none", !.floatReserved = TRUE,
                     !.fillInFlight = FALSE]
      ELSE [o EXCEPT !.status = "filled", !.settlementUpdateId = TRUE,
                     !.counterReceiptUpdateId = TRUE,
                     !.counterPendingClearedAt = "none", !.floatReserved = FALSE,
                     !.fillInFlight = FALSE]

-----------------------------------------------------------------------------
(* createOrder, submitManaged's first half, and cancel.                    *)

\* The insert is first-write-wins; a fee is bound while fees are on.
CreateOrder ==
    /\ row.status = "none"
    /\ ~late
    /\ row' = [NewOrder EXCEPT !.status = "open", !.networkFeeCc = feesOn]
    /\ UNCHANGED <<envVars, ledgerVars, booked, job, fails>>

Cancel(w) ==
    /\ At(w, "idle")
    /\ row.status = "open"
    /\ Become(w, [Idle EXCEPT !.at = "put", !.was = "open", !.cid = row.counterLegOfferCid,
                   !.o = [row EXCEPT !.status = "cancelled", !.floatReserved = FALSE]])
    /\ UNCHANGED <<envVars, ledgerVars, row, booked, fails>>

-----------------------------------------------------------------------------
(* Reserving float: settleManaged, confirmUserLeg, fillLoop and the        *)
(* reissue each ask reserve_canton_swap_float and read the row again.      *)

\* One call of the RPC: granted, or refused because the status has changed or
\* the vault is short.
AskFloat(w, next, withOffer, granted, refused) ==
    /\ \/ Reserve(job[w].was, next, withOffer) /\ Goto(w, granted)
       \/ UNCHANGED row /\ Goto(w, refused)
    /\ UNCHANGED <<envVars, ledgerVars, booked, fails>>

\* settleManaged, from the submit and settle routes.
SettleStart(w) ==
    /\ At(w, "idle")
    /\ mode = "managed"
    /\ \/ row.status = "open" /\ ~Expired(row) /\ Read(w, "reserve")
       \/ row.status = "settling" /\ Read(w, IF row.floatReserved THEN "fee" ELSE "reserve")
    /\ UNCHANGED <<envVars, ledgerVars, row, booked, fails>>

SettleReserve(w) ==
    /\ At(w, "reserve")
    /\ AskFloat(w, "settling", FALSE, "joined",
                IF job[w].was = "open" THEN "joined" ELSE "idle")

\* Whoever reserved it: a settling order is settled, any other is left alone.
SettleJoin(w) ==
    /\ At(w, "joined")
    /\ IF row.status = "settling" THEN Read(w, "fee") ELSE Return(w)
    /\ UNCHANGED <<envVars, ledgerVars, row, booked, fails>>

\* confirmUserLeg, from the confirm-user-leg and commit-user-leg routes: the
\* offer is on the vault's ACS, or the update that created it was read.
ConfirmStart(w) ==
    /\ At(w, "idle")
    /\ mode = "loop" /\ row.status = "open" /\ ~Expired(row)
    /\ sell # "none"
    /\ Read(w, "confirm")
    /\ UNCHANGED <<envVars, ledgerVars, row, booked, fails>>

ConfirmReserve(w) ==
    At(w, "confirm") /\ AskFloat(w, "user_locked", TRUE, "idle", "unconfirmed")

\* Not reserved: another confirm may have won, else the offer is rejected; a
\* failed rejection is only logged.
ConfirmReject(w) ==
    /\ At(w, "unconfirmed")
    /\ \/ row.status = "user_locked" /\ UNCHANGED <<sell, fails>>
       \/ /\ row.status # "user_locked"
          /\ sell' = IF sell = "pending" THEN "closed" ELSE sell
          /\ UNCHANGED fails
       \/ row.status # "user_locked" /\ CallLost /\ UNCHANGED sell
    /\ Return(w)
    /\ UNCHANGED <<envVars, row, legs, feeLeg, booked>>

FillStart_NoReserve(w) ==
    /\ At(w, "idle")
    /\ mode = "loop" /\ row.status \in {"user_locked", "filling"}
    /\ ~PendingCounterAccept(row) /\ ~Expired(row)
    /\ Read(w, "begin")
    /\ UNCHANGED <<envVars, ledgerVars, row, booked, fails>>

\* fillLoop, from the daemon and from reconcileFilling.  The quote may be
\* stale too: then nothing happens.
FillStart(w) ==
    /\ At(w, "idle")
    /\ mode = "loop" /\ row.status \in {"user_locked", "filling"}
    /\ ~PendingCounterAccept(row) /\ ~Expired(row)
    /\ Read(w, IF ~row.floatReserved /\ ~row.settlementUpdateId
                 THEN "reserveFill" ELSE "begin")
    /\ UNCHANGED <<envVars, ledgerVars, row, booked, fails>>

FillReserve(w) ==
    At(w, "reserveFill") /\ AskFloat(w, job[w].was, FALSE, "reservedFill", "idle")

FillReserved(w) ==
    /\ At(w, "reservedFill")
    /\ IF row.status = job[w].was /\ row.floatReserved
         THEN Read(w, "begin") ELSE Return(w)
    /\ UNCHANGED <<envVars, ledgerVars, row, booked, fails>>

-----------------------------------------------------------------------------
(* completeSettling: fee, offer, fill, result, fee entry.                  *)

Fail(w, err) == Become(w, [job[w] EXCEPT !.at = "caught", !.err = err])

\* The quote and the fee are checked and the fee is written; a lost race or a
\* failed write leaves the request with the row as it is now, or in the catch.
SettleFee(w) ==
    /\ At(w, "fee")
    /\ \/ /\ IF ~(feesOn /\ job[w].o.networkFeeCc)
               THEN Carry(w, "offer", job[w].o, "settling") /\ UNCHANGED row
             ELSE IF row.status = "settling"
               THEN Carry(w, "offer", job[w].o, "settling") /\ Put(job[w].o)
             ELSE Carry(w, "offer", row, "settling") /\ UNCHANGED row
       \/ Fail(w, "other") /\ UNCHANGED row
    /\ UNCHANGED <<envVars, ledgerVars, booked, fails>>

\* ensureManagedUserLegOffer: one command id, so a repeated submission finds
\* the offer of the first.
SettleOffer(w) ==
    /\ At(w, "offer")
    /\ LET o == job[w].o IN
       \/ o.userLegOfferCid /\ Goto(w, "check") /\ UNCHANGED <<sell, fails>>
       \/ /\ ~o.userLegOfferCid
          /\ sell' = IF sell = "none" THEN "pending" ELSE sell
          /\ Carry(w, "offered", [o EXCEPT !.userLegOfferCid = TRUE], "settling")
          /\ UNCHANGED fails
       \/ /\ ~o.userLegOfferCid
          /\ CallLost
          /\ sell' \in {sell, IF sell = "none" THEN "pending" ELSE sell}
          /\ Fail(w, "other")
    /\ UNCHANGED <<envVars, row, legs, feeLeg, booked>>

SettleOffered(w) ==
    /\ At(w, "offered")
    /\ IF CanPut(w) THEN Put(job[w].o) /\ Goto(w, "check")
       ELSE /\ UNCHANGED row
            /\ IF row.userLegOfferCid THEN Carry(w, "check", row, "settling")
               ELSE Become(w, [job[w] EXCEPT !.at = "caught", !.o = row, !.err = "other"])
    /\ UNCHANGED <<envVars, ledgerVars, booked, fails>>

-----------------------------------------------------------------------------
(* fillLoop up to the submission.                                          *)

FillBegin(w) ==
    /\ At(w, "begin")
    /\ LET o == [job[w].o EXCEPT !.status = "filling"] IN
       IF job[w].was = "filling" THEN Carry(w, "repair", o, "filling") /\ UNCHANGED row
       ELSE IF CanPut(w) THEN Put(o) /\ Carry(w, "repair", o, "filling")
       ELSE Return(w) /\ UNCHANGED row
    /\ UNCHANGED <<envVars, ledgerVars, booked, fails>>

\* repairLoopFillFromLedger: an unreadable ledger looks like no fill.
FillRepair(w) ==
    /\ At(w, "repair")
    /\ \/ /\ Committed(1)
          /\ Carry(w, "put", FillResult(job[w].o, Offered(1)), "filling")
          /\ UNCHANGED fails
       \/ ~Committed(1) /\ Goto(w, "check") /\ UNCHANGED fails
       \/ Committed(1) /\ CallLost /\ Goto(w, "check")
    /\ UNCHANGED <<envVars, ledgerVars, row, booked>>

-----------------------------------------------------------------------------
(* fillFromUserOffer: the offer must be pending, then one submission.      *)

FillCheck(w) ==
    /\ At(w, "check")
    /\ \/ /\ IF sell = "pending" THEN Goto(w, "submit")
             ELSE Fail(w, IF mode = "loop" THEN "retry" ELSE "other")
          /\ UNCHANGED fails
       \/ CallLost /\ \E err \in {"retry", "other"} : Fail(w, err)
    /\ UNCHANGED <<envVars, ledgerVars, row, booked>>

WithFee(w) == mode = "managed" /\ feesOn /\ job[w].o.networkFeeCc

\* The settlement id and the mark that the fee is to be booked go with it.
FillSubmitted(w, kind) ==
    LET o == FillResult(job[w].o, kind = "pending")
    IN [o EXCEPT !.networkFeeSettlementUpdateId = @ \/ WithFee(w),
                 !.networkFeeAccountingPending = @ \/ WithFee(w)]

FillSubmit(w) ==
    /\ At(w, "submit")
    /\ \/ \E kind \in Kinds :
            /\ legs[1] = "none" /\ Execute(1, kind)
            /\ Carry(w, "result", FillSubmitted(w, kind), job[w].was)
            /\ feeLeg' = WithFee(w)
            /\ UNCHANGED fails
       \/ Vanishes(1) /\ feeLeg' = WithFee(w) /\ Fail(w, "other")
       \/ /\ \/ legs[1] = "none" /\ sell # "pending" /\ Fail(w, "other")
             \/ legs[1] = "flying" /\ Fail(w, "flight")
             \/ Committed(1) /\ Goto(w, "recover")
          /\ UNCHANGED <<ledgerVars, fails>>
    /\ UNCHANGED <<envVars, row, booked>>

\* recoverCommittedFill: the duplicate's transaction is looked up by command
\* id.  It proves the swap legs, not the fee leg.
FillRecover(w) ==
    /\ At(w, "recover")
    /\ \/ /\ Carry(w, "result", FillResult(job[w].o, Offered(1)), job[w].was)
          /\ UNCHANGED fails
       \/ CallLost /\ Fail(w, "lost")
    /\ UNCHANGED <<envVars, ledgerVars, row, booked>>

RecordResult(w) ==
    /\ At(w, "result")
    /\ \/ /\ CanPut(w) /\ Put(job[w].o)
          /\ IF job[w].o.networkFeeAccountingPending THEN Goto(w, "book") ELSE Return(w)
          /\ UNCHANGED fails
       \/ ~CanPut(w) /\ Return(w) /\ UNCHANGED <<row, fails>>
       \/ CallLost /\ Fail(w, "other") /\ UNCHANGED row
    /\ UNCHANGED <<envVars, ledgerVars, booked>>

\* recordNetworkFeeCollected, then the mark is taken off the row as it is now.
BookFee(w) ==
    /\ At(w, "book")
    /\ booked' = TRUE
    /\ Goto(w, "unmark")
    /\ UNCHANGED <<envVars, ledgerVars, row, fails>>

UnmarkFee(w) ==
    /\ At(w, "unmark")
    /\ Become(w, [Idle EXCEPT !.at = "put", !.was = row.status,
                   !.o = [row EXCEPT !.networkFeeAccountingPending = FALSE]])
    /\ UNCHANGED <<envVars, ledgerVars, row, booked, fails>>

-----------------------------------------------------------------------------
(* The catch blocks of completeSettling and fillLoop.                      *)

Failed(o) == [o EXCEPT !.status = "failed", !.floatReserved = FALSE,
                       !.fillInFlight = FALSE]
\* The user's sell offer is known and was not taken, as far as the copy says.
Rejectable(o) == o.userLegOfferCid /\ ~o.settlementUpdateId

\* Managed: the ledger is asked first (unreadable looks like no fill).
SettleCaught(w) ==
    /\ At(w, "caught") /\ mode = "managed"
    /\ LET o == job[w].o IN
       \/ /\ Committed(1)
          /\ Carry(w, "put", FillResult(o, FALSE), o.status)
          /\ UNCHANGED fails
       \/ /\ IF Committed(1) THEN CallLost ELSE UNCHANGED fails
          /\ CASE job[w].err = "lost" -> Return(w)
               [] job[w].err = "flight" ->
                    Carry(w, "put", [o EXCEPT !.status = "settling"], "settling")
               [] OTHER -> IF Rejectable(o) THEN Goto(w, "reject")
                           ELSE Carry(w, "put", Failed(o), "settling")
    /\ UNCHANGED <<envVars, ledgerVars, row, booked>>

\* Loop: a transient error is retried by the daemon, any other fails the order.
FillCaught(w) ==
    /\ At(w, "caught") /\ mode = "loop"
    /\ LET o == job[w].o IN
       CASE job[w].err = "lost" -> Return(w)
         [] job[w].err = "flight" -> Goto(w, "inFlight")
         [] job[w].err = "retry" ->
              Carry(w, "put", [o EXCEPT !.status = "user_locked",
                                        !.fillInFlight = FALSE], "filling")
         [] OTHER -> IF Rejectable(o) THEN Goto(w, "reject")
                     ELSE Carry(w, "put", Failed(o), "filling")
    /\ UNCHANGED <<envVars, ledgerVars, row, booked, fails>>

\* The submission of another worker is in flight: leave a filling row to it.
FillInFlight(w) ==
    /\ At(w, "inFlight")
    /\ IF row.status = "filling" THEN Return(w)
       ELSE Carry(w, "put", [row EXCEPT !.status = "user_locked",
                                        !.fillInFlight = TRUE], "filling")
    /\ UNCHANGED <<envVars, ledgerVars, row, booked, fails>>

\* rejectUserLegOffer does nothing when the offer is not pending.  When it
\* fails a managed order stays settling; a Loop order is failed all the same.
CatchReject(w) ==
    /\ At(w, "reject")
    /\ LET o == job[w].o IN
       \/ /\ sell' = IF sell = "pending" THEN "closed" ELSE sell
          /\ Carry(w, "put", Failed(o), job[w].was)
          /\ UNCHANGED fails
       \/ /\ CallLost /\ UNCHANGED sell
          /\ Carry(w, "put", IF mode = "managed" THEN [o EXCEPT !.status = "settling"]
                             ELSE Failed(o), job[w].was)
    /\ UNCHANGED <<envVars, row, legs, feeLeg, booked>>

\* The last write of a handler; a failed one only costs the handler its call.
LastPut(w) ==
    /\ At(w, "put")
    /\ IF CanPut(w) THEN Put(job[w].o) ELSE UNCHANGED row
    /\ Return(w)
    /\ UNCHANGED <<envVars, ledgerVars, booked, fails>>

-----------------------------------------------------------------------------
(* reconcileSettling, reconcileExpiredManaged, history (managed);          *)
(* reconcileFilling, reconcileFailedLoop (Loop): find the fill by its      *)
(* command id and record it.                                               *)

RepairStart_Unfinished(w) ==
    /\ At(w, "idle")
    /\ row.status \in {"open", "settling", "filling"}
    /\ Read(w, "sweepRepair")
    /\ UNCHANGED <<envVars, ledgerVars, row, booked, fails>>

RepairStart(w) ==
    /\ At(w, "idle")
    /\ row.status \in IF mode = "managed" THEN {"open", "settling", "failed", "expired"}
                      ELSE {"filling", "failed"}
    /\ mode = "loop" => ~Expired(row)
    /\ Read(w, "sweepRepair")
    /\ UNCHANGED <<envVars, ledgerVars, row, booked, fails>>

SweepRepair_BooksFee(w) ==
    /\ At(w, "sweepRepair")
    /\ Committed(1)
    /\ Carry(w, "result", [FillResult(job[w].o, Offered(1)) EXCEPT
                             !.networkFeeSettlementUpdateId = job[w].o.networkFeeCc,
                             !.networkFeeAccountingPending = job[w].o.networkFeeCc], job[w].was)
    /\ UNCHANGED <<envVars, ledgerVars, row, booked, fails>>

\* A failed Loop order without a fill is handed back to the daemon.
SweepRepair(w) ==
    /\ At(w, "sweepRepair")
    /\ LET o == job[w].o IN
       \/ /\ Committed(1)
          /\ Carry(w, "put", FillResult(o, Offered(1)), job[w].was)
          /\ UNCHANGED fails
       \/ /\ IF Committed(1) THEN CallLost ELSE UNCHANGED fails
          /\ IF mode = "loop" /\ job[w].was = "failed" /\ o.userLegOfferCid
               THEN Carry(w, "put", [o EXCEPT !.status = "user_locked",
                                              !.fillInFlight = TRUE], "failed")
               ELSE Return(w)
    /\ UNCHANGED <<envVars, ledgerVars, row, booked>>

-----------------------------------------------------------------------------
(* markCounterAccepted, from the wallet, and reconcileLoopCounters.        *)

Received(o) == [o EXCEPT !.status = "filled", !.counterReceiptUpdateId = TRUE,
                         !.counterPendingClearedAt = "none"]

ReceiptProved_Gone(o) == o.counterReceiptUpdateId \/ legs[o.counterLegOfferCid] # "pending"
ReceiptProved_FillOnly(o) == o.counterReceiptUpdateId

\* verifyCounterLegReceiptProof: an Accept of the offer, from its offset on.
ReceiptProved(o) == o.counterReceiptUpdateId \/ legs[o.counterLegOfferCid] = "accepted"

MarkAccepted(w) ==
    /\ At(w, "idle")
    /\ PendingCounterAccept(row) /\ ReceiptProved(row)
    /\ Become(w, [Idle EXCEPT !.at = "put", !.was = "user_locked", !.o = Received(row)])
    /\ UNCHANGED <<envVars, ledgerVars, row, booked, fails>>

CounterStart(w) ==
    /\ At(w, "idle")
    /\ PendingCounterAccept(row)
    /\ Read(w, "look")
    /\ UNCHANGED <<envVars, ledgerVars, row, booked, fails>>

\* Look at the counter offer: received, pending, or gone without a receipt.
\* A settlement that cannot be read only blocks, and writes the copy back.
CounterLook(w) ==
    /\ At(w, "look")
    /\ LET o == job[w].o
           offer == legs[o.counterLegOfferCid]
           Write(p) == Carry(w, "put", p, "user_locked")
       IN \/ ReceiptProved(o) /\ Write(Received(o)) /\ UNCHANGED fails
          \/ /\ offer = "pending" /\ UNCHANGED fails
             /\ IF o.counterPendingClearedAt = "none" THEN Return(w)
                ELSE Write([o EXCEPT !.counterPendingClearedAt = "none"])
          \/ /\ offer = "closed" /\ UNCHANGED fails
             /\ CASE o.counterPendingClearedAt = "none" ->
                       Write([o EXCEPT !.counterPendingClearedAt = "recent"])
                  [] o.counterPendingClearedAt = "recent" -> Return(w)
                  [] OTHER -> Goto(w, "fresh")
          \/ offer = "closed" /\ CallLost /\ Write(o)
    /\ UNCHANGED <<envVars, ledgerVars, row, booked>>

\* After the cooldown the row is read again; it must be the same offer.
CounterFresh(w) ==
    /\ At(w, "fresh")
    /\ IF /\ row.counterLegOfferCid = job[w].cid
          /\ row.counterReissueAttempt = job[w].o.counterReissueAttempt
         THEN Read(w, "relook") ELSE Return(w)
    /\ UNCHANGED <<envVars, ledgerVars, row, booked, fails>>

\* The second look decides: only an offer that is gone is reissued, and only when
\* the settlement can be read; otherwise the copy is written back.
CounterRelook(w) ==
    /\ At(w, "relook")
    /\ LET o == job[w].o
           offer == legs[o.counterLegOfferCid]
           Write(p) == Carry(w, "put", p, "user_locked")
       IN \/ ReceiptProved(o) /\ Write(Received(o)) /\ UNCHANGED fails
          \/ /\ ~ReceiptProved(o) /\ offer = "pending" /\ UNCHANGED fails
             /\ Write([o EXCEPT !.counterPendingClearedAt = "none"])
          \/ /\ ~ReceiptProved(o) /\ offer # "pending"
             /\ \/ /\ Carry(w, IF o.floatReserved THEN "reissue" ELSE "reserveReissue",
                             o, "user_locked")
                   /\ UNCHANGED fails
                \/ CallLost /\ Write(o)
    /\ UNCHANGED <<envVars, ledgerVars, row, booked>>

ReissueReserve(w) ==
    /\ At(w, "reserveReissue")
    /\ AskFloat(w, "user_locked", FALSE, "reservedReissue", "idle")

ReissueReserved(w) ==
    /\ At(w, "reservedReissue")
    /\ IF /\ row.status = "user_locked" /\ row.floatReserved
          /\ row.counterLegOfferCid = job[w].cid
          /\ row.counterReissueAttempt = job[w].o.counterReissueAttempt
         THEN Read(w, "reissue") ELSE Return(w)
    /\ UNCHANGED <<envVars, ledgerVars, row, booked, fails>>

-----------------------------------------------------------------------------
(* reissueLoopCounterLeg: the command id names the attempt.                *)

ReissueLeg_Fresh(o) ==
    IF \E k \in Leg : legs[k] = "none"
      THEN CHOOSE k \in Leg : legs[k] = "none" ELSE 1
ReissueLeg(o) == o.counterReissueAttempt + 2

ReissueResult(o, k, offered) ==
    IF offered
      THEN [o EXCEPT !.counterReissueAttempt = k - 1, !.counterLegOfferCid = k,
                     !.counterReceiptUpdateId = FALSE,
                     !.counterPendingClearedAt = "none", !.fillInFlight = FALSE]
      ELSE [o EXCEPT !.counterReissueAttempt = k - 1, !.counterLegOfferCid = 0,
                     !.status = "filled", !.counterReceiptUpdateId = TRUE,
                     !.counterPendingClearedAt = "none", !.fillInFlight = FALSE]

Reissue(w) ==
    /\ At(w, "reissue")
    /\ LET o == job[w].o
           k == ReissueLeg(o)
       IN /\ k \in Leg
          /\ \/ \E kind \in Kinds :
                  /\ legs[k] = "none" /\ Execute(k, kind)
                  /\ Carry(w, "reissued", ReissueResult(o, k, kind = "pending"),
                           "user_locked")
                  /\ UNCHANGED fails
             \/ Vanishes(k) /\ Return(w)
             \/ /\ legs[k] = "flying" /\ Return(w)
                /\ UNCHANGED <<legs, sell, fails>>
             \/ /\ Committed(k)
                /\ Carry(w, "reissued", ReissueResult(o, k, Offered(k)), "user_locked")
                /\ UNCHANGED <<legs, sell, fails>>
    /\ UNCHANGED <<envVars, row, feeLeg, booked>>

ReissueRecord(w) ==
    /\ At(w, "reissued")
    /\ IF CanPut(w) THEN Put(job[w].o) ELSE UNCHANGED row
    /\ Return(w)
    /\ UNCHANGED <<envVars, ledgerVars, booked, fails>>

-----------------------------------------------------------------------------
(* expireStale and reconcileNetworkFeeAccounting.                          *)

ExpireStart(w) ==
    /\ At(w, "idle")
    /\ row.status \in {"open", "user_locked", "settling", "failed"}
    /\ ~PendingCounterAccept(row) /\ ~LoopFillInFlight(row)
    /\ row.status = "failed" \/ Expired(row)
    /\ Read(w, "expire")
    /\ UNCHANGED <<envVars, ledgerVars, row, booked, fails>>

ExpiredRow(o) == [o EXCEPT !.status = "expired", !.floatReserved = FALSE,
                           !.fillInFlight = FALSE]
ExpireOrLeave(w) ==
    IF Expired(job[w].o) THEN Carry(w, "put", ExpiredRow(job[w].o), job[w].was)
    ELSE Return(w)

\* A managed order is first looked for on the ledger.
ExpireRepair(w) ==
    /\ At(w, "expire")
    /\ LET o == job[w].o IN
       \/ /\ mode = "managed" /\ o.status = "open" /\ Committed(1)
          /\ Carry(w, "put", FillResult(o, FALSE), o.status)
          /\ UNCHANGED fails
       \/ /\ IF mode = "managed" /\ o.status = "open" /\ Committed(1)
               THEN CallLost ELSE UNCHANGED fails
          /\ IF Rejectable(o) /\ o.status # "open" THEN Goto(w, "expireReject")
             ELSE ExpireOrLeave(w)
    /\ UNCHANGED <<envVars, ledgerVars, row, booked>>

ExpireReject_Swallowed(w) ==
    /\ At(w, "expireReject")
    /\ \/ /\ sell' = IF sell = "pending" THEN "closed" ELSE sell
          /\ UNCHANGED fails
       \/ CallLost /\ UNCHANGED sell
    /\ ExpireOrLeave(w)
    /\ UNCHANGED <<envVars, row, legs, feeLeg, booked>>

\* The order stays as it is when the rejection fails: the next sweep retries.
ExpireReject(w) ==
    /\ At(w, "expireReject")
    /\ \/ /\ sell' = IF sell = "pending" THEN "closed" ELSE sell
          /\ ExpireOrLeave(w)
          /\ UNCHANGED fails
       \/ CallLost /\ Return(w) /\ UNCHANGED sell
    /\ UNCHANGED <<envVars, row, legs, feeLeg, booked>>

FeeStart_WhileEnabled(w) ==
    /\ At(w, "idle")
    /\ row.networkFeeAccountingPending /\ feesOn
    /\ Read(w, "feeBook")
    /\ UNCHANGED <<envVars, ledgerVars, row, booked, fails>>

FeeStart(w) ==
    /\ At(w, "idle")
    /\ row.networkFeeAccountingPending
    /\ row.networkFeeCc /\ row.networkFeeSettlementUpdateId
    /\ Read(w, "feeBook")
    /\ UNCHANGED <<envVars, ledgerVars, row, booked, fails>>

FeeBook(w) ==
    /\ At(w, "feeBook")
    /\ \/ /\ booked' = TRUE
          /\ Carry(w, "put", [job[w].o EXCEPT !.networkFeeAccountingPending = FALSE],
                   job[w].was)
          /\ UNCHANGED fails
       \/ CallLost /\ Return(w) /\ UNCHANGED booked
    /\ UNCHANGED <<envVars, ledgerVars, row>>

-----------------------------------------------------------------------------
(* A crash or a serverless timeout, the clock and the deployment.          *)

Kill(w) ==
    /\ ~At(w, "idle")
    /\ CallLost
    /\ Return(w)
    /\ UNCHANGED <<envVars, ledgerVars, row, booked>>

\* orderDeadline: the Loop TTL, the managed abandon TTL or the quote's end.
DeadlinePasses ==
    /\ ~late /\ row.status # "none"
    /\ late' = TRUE
    /\ UNCHANGED <<mode, feesOn, ledgerVars, row, booked, job, fails>>

Aged(o) == [o EXCEPT !.counterPendingClearedAt = IF @ = "recent" THEN "old" ELSE @]

\* COUNTER_REISSUE_COOLDOWN_SECONDS pass.
CooldownPasses ==
    /\ row.counterPendingClearedAt = "recent"
    /\ SlowHandlers \/ \A w \in Workers : At(w, "idle")
    /\ row' = Aged(row)
    /\ job' = [w \in Workers |-> [job[w] EXCEPT !.o = Aged(@)]]
    /\ UNCHANGED <<envVars, ledgerVars, booked, fails>>

\* Fees are switched off by a deployment while the order is under way.
FeesSwitchedOff ==
    /\ feesOn /\ row.status # "none"
    /\ feesOn' = FALSE
    /\ UNCHANGED <<mode, late, ledgerVars, row, booked, job, fails>>

-----------------------------------------------------------------------------
Start(w) ==
    \/ Cancel(w) \/ SettleStart(w) \/ ConfirmStart(w) \/ FillStart(w)
    \/ MarkAccepted(w)

Sweep(w) ==
    \/ RepairStart(w) \/ CounterStart(w) \/ ExpireStart(w) \/ FeeStart(w)

Step(w) ==
    \/ SettleReserve(w) \/ SettleJoin(w) \/ SettleFee(w) \/ SettleOffer(w)
    \/ SettleOffered(w) \/ ConfirmReserve(w) \/ ConfirmReject(w)
    \/ FillReserve(w) \/ FillReserved(w) \/ FillBegin(w) \/ FillRepair(w)
    \/ FillCheck(w) \/ FillSubmit(w) \/ FillRecover(w) \/ RecordResult(w)
    \/ BookFee(w) \/ UnmarkFee(w) \/ SettleCaught(w) \/ FillCaught(w)
    \/ FillInFlight(w) \/ CatchReject(w) \/ LastPut(w) \/ SweepRepair(w)
    \/ CounterLook(w) \/ CounterFresh(w) \/ CounterRelook(w)
    \/ ReissueReserve(w) \/ ReissueReserved(w) \/ Reissue(w) \/ ReissueRecord(w)
    \/ ExpireRepair(w) \/ ExpireReject(w) \/ FeeBook(w)

Environment ==
    \/ CreateOrder \/ SellOffered \/ SellCloses \/ DeadlinePasses
    \/ CooldownPasses \/ FeesSwitchedOff
    \/ \E k \in Leg : Land(k) \/ OfferEnds(k)

Next == Environment \/ \E w \in Workers : Start(w) \/ Sweep(w) \/ Step(w) \/ Kill(w)

Spec == Init /\ [][Next]_vars

\* A handler that runs goes on; the daemon's serial loop reaches every sweep
\* again and again; submissions do not stay in flight.
Fairness ==
    /\ \A w \in Workers :
         /\ WF_vars(Step(w))
         /\ SF_vars(RepairStart(w)) /\ SF_vars(CounterStart(w))
         /\ SF_vars(ExpireStart(w)) /\ SF_vars(FeeStart(w))
    /\ \A k \in Leg : WF_vars(Land(k))

FairSpec == Spec /\ Fairness

-----------------------------------------------------------------------------
(* Properties.                                                             *)

\* The bought asset is delivered to the user at most once, and never while
\* another counter offer can still be accepted: a reissue replaces an offer
\* that is gone (reconcileLoopCounters, the command id per attempt).
PaidOnce == Cardinality({k \in Leg : legs[k] \in {"pending", "direct", "accepted"}}) <= 1

\* A row that says filled is right: the user has the bought asset.
FilledIsPaid == row.status = "filled" => \E k \in Leg : Delivered(k)

\* While the vault may be submitting a fill that is not on record yet, the
\* order holds a reservation.
FillIsReserved ==
    row.status \in {"settling", "filling"} /\ ~row.settlementUpdateId => row.floatReserved

\* An order that expired leaves no sell offer pending that it knows of.
ExpiredReleasesOffer ==
    row.status = "expired" /\ Rejectable(row) => sell # "pending"

\* Fee revenue is booked only for a fill that carried the fee leg, whatever
\* the configuration says by then.
BookedFeeWasCollected == booked => Committed(1) /\ feeLeg

-----------------------------------------------------------------------------
(* The inductive invariants behind these properties.                       *)

\* What has happened for good: the fill has committed, with the fee leg; the
\* asset has been delivered; counter offers have been made; the sell offer has
\* been made, and is gone; the order has been taken up, and has left settling.
facts ==
    [filled |-> Committed(1), fee |-> Committed(1) /\ feeLeg,
     paid |-> \E k \in Leg : Delivered(k), offers |-> {k \in Leg : Offered(k)},
     made |-> sell # "none", gone |-> sell \in {"accepted", "closed"},
     begun |-> row.status \notin {"none", "open"},
     past |-> row.status \notin {"none", "open", "settling"}]

\* What a copy of the row may say, given the facts.
Evidence(o, f) ==
    /\ o.networkFeeSettlementUpdateId \/ o.networkFeeAccountingPending => f.fee
    /\ o.status = "filled" \/ o.counterReceiptUpdateId => f.paid
    /\ o.settlementUpdateId => f.filled
    /\ o.counterLegOfferCid # 0 =>
         o.counterLegOfferCid \in f.offers /\ o.status \notin {"none", "open"}
    /\ o.userLegOfferCid => f.made /\ o.status \notin {"none", "open"}
    /\ o.status = "settling" => mode = "managed"
    /\ \/ o.status \in {"settling", "filling"} /\ ~o.settlementUpdateId => o.floatReserved
       \/ o.status = "settling" /\ f.past

\* What a worker at an await already knows.
JobEvidence(j, f) ==
    /\ Evidence(j.o, f)
    /\ j.o.status = "expired" /\ Rejectable(j.o) =>
         f.gone \/ (j.was = "settling" /\ f.past)
    /\ j.at \in {"book", "feeBook"} => f.fee
    /\ j.at = "confirm" => f.made
    /\ j.at = "recover" => f.filled
    /\ j.at \in {"look", "fresh", "relook", "reserveReissue", "reservedReissue",
                 "reissue"} =>
         /\ j.o.counterLegOfferCid # 0 /\ j.cid = j.o.counterLegOfferCid
         /\ j.was # "settling"
    /\ j.at = "reserve" => j.was \in {"open", "settling"} /\ mode = "managed"
    /\ j.at \in {"joined", "fee", "offer", "offered"} => mode = "managed"
    /\ j.at \in {"reserveFill", "reservedFill", "begin", "repair"} => mode = "loop"
    /\ j.at = "begin" => j.o.floatReserved \/ j.o.settlementUpdateId
    /\ mode = "managed" /\ j.at \in {"fee", "offer", "offered", "check", "submit",
                                     "recover", "result", "caught", "reject"} =>
         /\ j.was = "settling" /\ f.begun /\ j.o.status \notin {"none", "open"}
         /\ \/ j.o.status = "settling" /\ j.o.floatReserved
            \/ j.o.settlementUpdateId
            \/ f.past
    /\ /\ j.at \in {"put", "result", "offered", "reissued", "feeBook"}
       /\ j.o.status \in {"none", "open", "settling"}
       => j.was = j.o.status

EvidenceInv ==
    /\ Evidence(row, facts)
    /\ \A w \in Workers : JobEvidence(job[w], facts)
    /\ mode = "managed" => \A k \in Leg : ~Offered(k)
    /\ ExpiredReleasesOffer
    /\ BookedFeeWasCollected

\* Before the first cooldown has passed the fill is the only leg, and every copy
\* of the row knows of no other.
EarlyCopy(o) ==
    /\ o.counterReissueAttempt = 0
    /\ o.counterLegOfferCid \in {0, 1}
    /\ o.counterPendingClearedAt # "old"
    /\ o.counterPendingClearedAt = "recent" =>
         o.settlementUpdateId /\ o.counterLegOfferCid = 1

Reissuing == {"fresh", "relook", "reserveReissue", "reservedReissue", "reissue",
              "reissued"}

EarlyJob(j) ==
    /\ EarlyCopy(j.o)
    /\ j.at \notin Reissuing
    /\ j.at = "look" => j.o.settlementUpdateId

Early ==
    /\ \A k \in Leg : k > 1 => legs[k] = "none"
    /\ EarlyCopy(row)
    /\ \A w \in Workers : EarlyJob(job[w])

\* Once it has, every copy is of a settled Loop order, whose counter offer is
\* that of the attempt it names; what fills or fails an order has seen no
\* attempt, and does not write over a row that waits for the accept.
LateCopy(o) ==
    /\ o.settlementUpdateId
    /\ o.status # "filled" => o.counterLegOfferCid # 0
    /\ o.counterLegOfferCid # 0 => o.counterLegOfferCid = o.counterReissueAttempt + 1
    /\ o.status \notin {"user_locked", "filled"} => o.counterReissueAttempt = 0

Filling == {"begin", "repair", "check", "submit", "recover", "result", "caught",
            "sweepRepair", "expire"}

\* s is the status of the row, gone the counter offers that ended without accept.
LateJob(j, s, gone) ==
    /\ LateCopy(j.o)
    /\ j.at \in Filling \cup Reissuing \cup {"look", "feeBook", "book", "unmark", "put"}
    /\ j.at \in Filling =>
         /\ j.o.counterReissueAttempt = 0 /\ j.o.status # "filled"
         /\ j.was \notin {"user_locked", "filled"}
    /\ j.at = "begin" => j.was = "filling"
    /\ j.at = "caught" => j.err # "flight"
    /\ j.at \in Reissuing \cup {"look"} =>
         s \in {"user_locked", "filled"} /\ j.o.status \in {"user_locked", "filled"}
    /\ j.at \in {"reserveReissue", "reservedReissue", "reissue"} =>
         j.o.counterLegOfferCid \in gone /\ j.was = "user_locked"
    /\ j.at \in {"put", "reissued", "feeBook"} /\ j.was \in {"user_locked", "filled"} =>
         j.o.status \in {"user_locked", "filled"}

ended == {k \in Leg : legs[k] = "closed"}

Late ==
    /\ mode = "loop" /\ Offered(1)
    /\ LateCopy(row)
    /\ \A w \in Workers : At(w, "idle") \/ LateJob(job[w], row.status, ended)

\* A leg is sent only when the legs before it are closed for good.
SentInTurn == \A i, k \in Leg : i < k /\ legs[k] # "none" => legs[i] = "closed"

OnceInv == SentInTurn /\ (Early \/ Late)

\* A managed fill that committed is recorded, whatever the request that
\* submitted it came to.
ManagedFillRecorded == mode = "managed" /\ Committed(1) ~> row.status = "filled"

\* A row does not wait for ever for a counter offer that was accepted.
AcceptNoticed ==
    PendingCounterAccept(row) /\ legs[row.counterLegOfferCid] = "accepted"
        ~> ~PendingCounterAccept(row)

\* The fee outbox drains.
OutboxDrains ==
    row.networkFeeAccountingPending ~> booked /\ ~row.networkFeeAccountingPending

\* What the row records of a committed fill stays on record: daemon and sweep
\* are serial so that no expiry overlaps a fill
\* (swap-solver/src/canton-swap-daemon.mts); the code fails this one.
FillKept == [][row.settlementUpdateId => row'.settlementUpdateId]_vars

\* A committed Loop fill is found again and recorded with its counter offer
\* (docs/SWAP-CRASH-RECOVERY-DRILLS.md); the code fails this one.
LoopFillRecorded == mode = "loop" /\ Committed(1) ~> row.settlementUpdateId

\* A collected fee is booked (same document); the code fails this one.
CollectedFeeBooked == feeLeg /\ Committed(1) ~> booked

\* The float of an abandoned managed order comes back; the code fails this one.
SettlingReleased == row.status = "settling" ~> row.status # "settling"

\* Float is promised only by the reservation RPC, or kept for a counter offer
\* that is out; the code fails this one.
ReservedByRpc ==
    [][~row.floatReserved /\ row'.floatReserved =>
         \/ row'.settlementUpdateId
         \/ \E w \in Workers : job[w].at \in {"reserve", "confirm", "reserveFill",
                                              "reserveReissue"}]_vars
=============================================================================
