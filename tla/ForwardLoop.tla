---------------------------- MODULE ForwardLoop ----------------------------
(***************************************************************************)
(* A forward swap whose user holds the CBTC in a Loop wallet.  Loop cannot *)
(* exercise HtlcLock, so nothing is locked on Canton: the user reveals to  *)
(* the backend (claimCounter), which sends the CBTC by a standard transfer.*)
(* With a receiver preapproval the transfer settles at once; otherwise it  *)
(* leaves an offer, which the wallet accepts later, rejects, or lets lapse.*)
(* The daemon may claim the WBTC only once the row proves the delivery.    *)
(*                                                                         *)
(* The lock of the WBTC, cancel, the sweep of abandoned orders and the     *)
(* user's retake are those of HtlcForward; its lockCounter, claim-managed, *)
(* refundCounter and cleanup are never run for such an order.              *)
(*                                                                         *)
(* Step prefixes: Cc claimCounter, Pv persistLoopCounterDeliveryEvidence,  *)
(* Re reconcileLoopForwardCounterDelivery, Pa prepareLoopAccept,           *)
(* Cr recordCounterClaimed, Ld and Lf the daemon's claim and the repair    *)
(* that records it.                                                        *)
(***************************************************************************)
EXTENDS HtlcForward

CONSTANTS
    SlowHandlers    \* may the clock run while claimCounter is about to send?

ASSUME LoopAssumption == SlowHandlers \in BOOLEAN

VARIABLES
    transfer    \* the transfer of the order's CBTC to the user

loopVars == <<vars, transfer>>

\* lapsed: past executeBefore, still listed but no longer acceptable.
\* direct: settled by the preapproval in the sending transaction.
Transfer == {"none", "offered", "lapsed", "rejected", "accepted", "direct"}

Delivered == transfer \in {"accepted", "direct"}
Listed == transfer \in {"offered", "lapsed"}

LoopLabel == Label \cup
    {"ccVerify", "ccReveal", "ccSend", "ccProof", "ccFind", "ccBind",
     "pvUpdate", "pvOffer", "pvDirect", "pvUpdatePut", "pvOfferPut",
     "pvDirectPut", "reProof", "reBind", "reList", "reCas", "paFind", "paBind",
     "paList", "crVerify", "crProof", "crCas"}

LoopInit == Init /\ transfer = "none"

Revealed(o) == o.status \in {"counter_claimed", "main_claimed"}

\* What no step of the backend below touches but its own row and position.
elsewhere == <<chainVars, cantonVars, transfer>>

-----------------------------------------------------------------------------
(* claimCounter(id, preimage).                                             *)

\* A retry goes on where the row says the last one stopped.  Without a recorded
\* offer it may go on to ccFind, when the repair has found nothing.
CcStart(w) ==
    /\ pc[w] = "idle"
    /\ \/ row.status = "main_locked" /\ Proceed(w, "ccVerify", row)
       \/ /\ Revealed(row)
          /\ ~row.counterTransferUpdateId
          /\ Proceed(w, "ccSend", row)
       \/ /\ Revealed(row)
          /\ row.counterTransferUpdateId /\ row.counterClaimUpdateId = "none"
          /\ \/ Proceed(w, "reProof", row)
             \/ ~row.counterTransferOfferCid /\ Proceed(w, "ccFind", row)
    /\ UNCHANGED <<elsewhere, orderVars, fails>>

CcVerify(w) ==
    /\ pc[w] = "ccVerify"
    /\ IF VerifyEvmLock(snap[w]) THEN Proceed(w, "ccReveal", snap[w])
                                 ELSE Return(w)
    /\ UNCHANGED <<elsewhere, orderVars, fails>>

\* The reveal is stored before anything is sent.  Having lost the race, the
\* handler goes on with the fresh row if that is revealed.
CcReveal(w) ==
    /\ pc[w] = "ccReveal"
    /\ LET o == [snap[w] EXCEPT !.status = "counter_claimed",
                                !.revealedPreimage = TRUE]
       IN  IF row.status = "main_locked"
             THEN Put(o) /\ Proceed(w, "ccSend", o)
             ELSE /\ UNCHANGED orderVars
                  /\ IF ~Revealed(row) THEN Return(w)
                     ELSE IF ~row.counterTransferUpdateId
                       THEN Proceed(w, "ccSend", row)
                     ELSE IF row.counterClaimUpdateId = "none"
                       THEN Proceed(w, "reProof", row)
                     ELSE Return(w)
    /\ UNCHANGED <<elsewhere, fails>>

\* createTransfer under the command id of the order.  A duplicate is refused
\* by the ledger and thrown on: createTransfer's own text hides the words by
\* which claimCounter would recognise it.
CcSend(w) ==
    /\ pc[w] = "ccSend"
    /\ \/ /\ transfer = "none"
          /\ transfer' \in {"offered", "direct"}
          /\ \/ Proceed(w, "ccProof", snap[w]) /\ UNCHANGED fails
             \/ CallLost /\ Return(w)
       \/ /\ transfer = "none"
          /\ CallLost
          /\ Return(w)
          /\ UNCHANGED transfer
       \/ /\ transfer # "none"
          /\ Return(w)
          /\ UNCHANGED <<transfer, fails>>
    /\ UNCHANGED <<chainVars, cantonVars, orderVars>>

\* waitForLoopCounterDeliveryEvidence reads the sending transaction: a holding
\* of the user's, or an offer.  Unread, the update id is stored alone or with
\* the offer id createTransfer saw, which direct delivery may have consumed.
CcProof(w) ==
    /\ pc[w] = "ccProof"
    /\ \/ /\ Proceed(w, IF transfer = "direct" THEN "pvDirect" ELSE "pvOffer",
                     snap[w])
          /\ UNCHANGED fails
       \/ /\ CallLost
          /\ \E l \in {"pvUpdate", "pvOffer"} : Proceed(w, l, snap[w])
    /\ UNCHANGED <<elsewhere, orderVars>>

\* findOfferFromSender, and when it lists nothing the sending transaction.
CcFind(w) ==
    /\ pc[w] = "ccFind"
    /\ CASE Listed -> Proceed(w, "ccBind",
                        [snap[w] EXCEPT !.counterTransferOfferCid = TRUE])
         [] transfer = "direct" -> Proceed(w, "pvDirect", snap[w])
         [] OTHER -> Proceed(w, "pvOffer", snap[w])
    /\ UNCHANGED <<elsewhere, orderVars, fails>>

-----------------------------------------------------------------------------
(* prepareLoopAccept(id): the offer the user's wallet is to accept.        *)

PaStart(w) ==
    /\ pc[w] = "idle"
    /\ Revealed(row) /\ row.counterTransferUpdateId
    /\ Proceed(w, IF row.counterTransferOfferCid THEN "paList" ELSE "paFind", row)
    /\ UNCHANGED <<elsewhere, orderVars, fails>>

PaFind(w) ==
    /\ pc[w] = "paFind"
    /\ IF transfer = "direct"
         THEN Proceed(w, "pvDirect", snap[w])
         ELSE Proceed(w, "paBind", [snap[w] EXCEPT !.counterTransferOfferCid = TRUE])
    /\ UNCHANGED <<elsewhere, orderVars, fails>>

\* The found offer is written with the rest of the copy; the caller goes on.
Bind(w) ==
    /\ pc[w] \in {"ccBind", "paBind"}
    /\ PutIfStatus(w, snap[w], snap[w].status,
                   IF pc[w] = "ccBind" THEN "idle" ELSE "paList")
    /\ UNCHANGED <<elsewhere, fails>>

PaList(w) ==
    /\ pc[w] = "paList"
    /\ IF Listed \/ snap[w].counterClaimUpdateId # "none"
         THEN Return(w) ELSE Proceed(w, "reProof", snap[w])
    /\ UNCHANGED <<elsewhere, orderVars, fails>>

-----------------------------------------------------------------------------
(* persistLoopCounterDeliveryEvidence: a fresh row, then putIfStatus on its*)
(* status, again from the start when that has changed in between.          *)

\* What the three kinds of evidence write.
WithEvidence(o, l) ==
    CASE l = "pvDirect" -> [o EXCEPT !.counterTransferUpdateId = TRUE,
                                     !.counterTransferOfferCid = FALSE,
                                     !.counterClaimUpdateId = "claim"]
      [] l = "pvOffer"  -> [o EXCEPT !.counterTransferUpdateId = TRUE,
                                     !.counterTransferOfferCid = TRUE]
      [] l = "pvUpdate" -> [o EXCEPT !.counterTransferUpdateId = TRUE]

PutLabel == [pvDirect |-> "pvDirectPut", pvOffer |-> "pvOfferPut",
             pvUpdate |-> "pvUpdatePut"]

PvRead(w) ==
    /\ pc[w] \in DOMAIN PutLabel
    /\ IF Revealed(row)
         THEN Proceed(w, PutLabel[pc[w]], WithEvidence(row, pc[w]))
         ELSE Return(w)
    /\ UNCHANGED <<elsewhere, orderVars, fails>>

PvPut(w) ==
    \E l \in DOMAIN PutLabel :
        /\ pc[w] = PutLabel[l]
        /\ IF row.status = snap[w].status
             THEN Put(snap[w]) /\ Return(w)
             ELSE Proceed(w, l, snap[w]) /\ UNCHANGED orderVars
        /\ UNCHANGED <<elsewhere, fails>>

-----------------------------------------------------------------------------
(* reconcileLoopForwardCounterDelivery, run by every poll and page read.   *)

ReStart_DirectOnly(w) ==
    /\ pc[w] = "idle"
    /\ Revealed(row)
    /\ row.counterTransferUpdateId /\ row.counterClaimUpdateId = "none"
    /\ ~row.counterTransferOfferCid
    /\ Proceed(w, "reProof", row)
    /\ UNCHANGED <<elsewhere, orderVars, fails>>

ReStart(w) ==
    /\ pc[w] = "idle"
    /\ Revealed(row)
    /\ row.counterTransferUpdateId /\ row.counterClaimUpdateId = "none"
    /\ Proceed(w, "reProof", row)
    /\ UNCHANGED <<elsewhere, orderVars, fails>>

\* The sending transaction is read again; unread, a recorded offer id will do.
ReProof(w) ==
    /\ pc[w] = "reProof"
    /\ LET offer == IF snap[w].counterTransferOfferCid
                      THEN Proceed(w, "reList", snap[w])
                      ELSE Proceed(w, "reBind", snap[w])
       IN  \/ /\ IF transfer = "direct" THEN Proceed(w, "pvDirect", snap[w]) ELSE offer
              /\ UNCHANGED fails
           \/ /\ snap[w].counterTransferOfferCid
              /\ CallLost
              /\ offer
    /\ UNCHANGED <<elsewhere, orderVars>>

\* On a lost race the repair goes on with the fresh row, whatever it says.
ReBind(w) ==
    /\ pc[w] = "reBind"
    /\ LET o == [snap[w] EXCEPT !.counterTransferOfferCid = TRUE]
       IN  IF row.status = snap[w].status
             THEN Put(o) /\ Proceed(w, "reList", o)
             ELSE UNCHANGED orderVars /\ Proceed(w, "reList", row)
    /\ UNCHANGED <<elsewhere, fails>>

ReList_NotPending(w) ==
    /\ pc[w] = "reList"
    /\ IF transfer # "offered" THEN Proceed(w, "reCas", snap[w]) ELSE Return(w)
    /\ UNCHANGED <<elsewhere, orderVars, fails>>

\* An offer that is no longer pending counts only with its Accept found on the
\* ledger (counterOfferConsumedInEvents), not when rejected.
ReList(w) ==
    /\ pc[w] = "reList"
    /\ IF transfer = "accepted" THEN Proceed(w, "reCas", snap[w]) ELSE Return(w)
    /\ UNCHANGED <<elsewhere, orderVars, fails>>

ReCas(w) ==
    /\ pc[w] = "reCas"
    /\ PutIfStatus(w, [snap[w] EXCEPT !.counterTransferOfferCid = TRUE,
                                      !.counterClaimUpdateId = "claim"],
                   snap[w].status, "idle")
    /\ UNCHANGED <<elsewhere, fails>>

-----------------------------------------------------------------------------
(* recordCounterClaimed(id, preimage, updateId), posted after the accept.  *)

CrStart(w) ==
    /\ pc[w] = "idle"
    /\ row.status = "counter_claimed"
    /\ row.counterTransferUpdateId /\ row.counterClaimUpdateId = "none"
    /\ Proceed(w, "crVerify", row)
    /\ UNCHANGED <<elsewhere, orderVars, fails>>

CrVerify(w) ==
    /\ pc[w] = "crVerify"
    /\ IF VerifyEvmLock(snap[w]) THEN Proceed(w, "crProof", snap[w])
                                 ELSE Return(w)
    /\ UNCHANGED <<elsewhere, orderVars, fails>>

\* Direct delivery, or the accept of the recorded offer.
CrProof(w) ==
    /\ pc[w] = "crProof"
    /\ IF transfer = "direct"
         THEN Proceed(w, "crCas", [snap[w] EXCEPT !.counterTransferOfferCid = FALSE])
         ELSE IF snap[w].counterTransferOfferCid /\ transfer = "accepted"
           THEN Proceed(w, "crCas", snap[w])
           ELSE Return(w)
    /\ UNCHANGED <<elsewhere, orderVars, fails>>

CrCas(w) ==
    /\ pc[w] = "crCas"
    /\ PutIfStatus(w, [snap[w] EXCEPT !.counterClaimUpdateId = "claim"],
                   "counter_claimed", "idle")
    /\ UNCHANGED <<elsewhere, fails>>

-----------------------------------------------------------------------------
(* The daemon's claim, recordMainClaim and reconcileForwardEvmMainClaim.   *)

LoopDeliveryProven_UpdateOnly(o) == o.counterTransferUpdateId

\* htlcForwardLoopDeliveryProven.
LoopDeliveryProven(o) ==
    o.counterTransferUpdateId /\ o.counterClaimUpdateId # "none"

\* htlcCanExposePreimageToSolver, forward Loop order.
LoopCanExpose(o) == Revealed(o) /\ o.revealedPreimage /\ LoopDeliveryProven(o)

LdStart_LiveLockOnly(w) ==
    /\ pc[w] = "idle"
    /\ row.status = "counter_claimed"
    /\ LoopCanExpose(row)
    /\ slot.amount # 0
    /\ Proceed(w, "dmClaim", row)
    /\ UNCHANGED <<elsewhere, orderVars, fails>>

LdStart(w) ==
    /\ pc[w] = "idle"
    /\ row.status = "counter_claimed"
    /\ LoopCanExpose(row)
    /\ slot.amount = 0 => "Claimed" \in events
    /\ Proceed(w, IF slot.amount = 0 THEN "dmRecord" ELSE "dmClaim", row)
    /\ UNCHANGED <<elsewhere, orderVars, fails>>

LdRecord(w) ==
    /\ pc[w] = "dmRecord"
    /\ IF row.status = "counter_claimed" /\ LoopCanExpose(row)
          /\ "Claimed" \in events
         THEN Proceed(w, "dmCommit", row)
         ELSE Return(w)
    /\ UNCHANGED <<elsewhere, orderVars, fails>>

LfStart(w) ==
    /\ pc[w] = "idle"
    /\ row.status = "counter_claimed"
    /\ \/ row.mainClaimTx # "none"
       \/ LoopCanExpose(row) /\ slot.amount = 0 /\ "Claimed" \in events
    /\ Proceed(w, "rfCas",
               [row EXCEPT !.status = "main_claimed",
                           !.mainClaimTx = IF @ = "none" THEN "claim" ELSE @])
    /\ UNCHANGED <<elsewhere, orderVars, fails>>

-----------------------------------------------------------------------------
(* The environment: the user's wallet and the registry.                    *)

WalletAccept == transfer = "offered" /\ transfer' = "accepted"
WalletReject == transfer = "offered" /\ transfer' = "rejected"
OfferLapses == transfer = "offered" /\ transfer' = "lapsed"

LoopEnvironment == (WalletAccept \/ WalletReject \/ OfferLapses) /\ UNCHANGED vars

\* With prompt handlers claimCounter's way from its check of the escrow to the
\* transfer takes less than the claim margin; one tick is more than that way.
Prompt == \A w \in Workers : pc[w] \notin {"ccReveal", "ccSend"}

LoopChain ==
    /\ Chain
    /\ SlowHandlers \/ Prompt \/ now' = now

LoopStart(w) ==
    \/ CcStart(w) \/ PaStart(w) \/ ReStart(w) \/ CrStart(w)
    \/ LdStart(w) \/ LfStart(w)

LoopResume(w) ==
    \/ CcVerify(w) \/ CcReveal(w) \/ CcSend(w) \/ CcProof(w) \/ CcFind(w)
    \/ Bind(w) \/ PaFind(w) \/ PaList(w) \/ PvRead(w) \/ PvPut(w)
    \/ ReProof(w) \/ ReBind(w) \/ ReList(w) \/ ReCas(w)
    \/ CrVerify(w) \/ CrProof(w) \/ CrCas(w) \/ LdRecord(w)

\* The handlers HtlcForward shares with this kind of order.
SharedStart(w) ==
    \/ CancelStart(w) \/ RtStart(w) \/ ExStart(w)
    \/ \E tx \in 1..lockTxs : RmlStart(w, tx)

SharedResume(w) ==
    \/ CancelCas(w)
    \/ RmlBegin(w) \/ RmlVerify(w) \/ RmlRollback(w) \/ RmlCommit(w)
    \/ DmClaim(w) \/ DmCommit(w) \/ RtCas(w)
    \/ ExRead(w) \/ ExRecover(w) \/ ExCancel(w) \/ RfCas(w)

Shared ==
    \/ Accept \/ UserLock \/ UserRetake \/ LoopChain
    \/ \E w \in Workers : SharedStart(w) \/ SharedResume(w) \/ Fail(w)

LoopNext ==
    \/ LoopEnvironment
    \/ \E w \in Workers : LoopStart(w) \/ LoopResume(w)
    \/ Shared /\ UNCHANGED transfer

LoopSpec == LoopInit /\ [][LoopNext]_loopVars

-----------------------------------------------------------------------------
(* Properties.                                                             *)

LoopTypeOK ==
    /\ EscrowTypeOK
    /\ CantonTypeOK
    /\ transfer \in Transfer
    /\ row \in Row
    /\ updatedAt \in Nat
    /\ pc \in [Workers -> LoopLabel]
    /\ snap \in [Workers -> Row]
    /\ fails \in 0..MaxFails

\* claimCounter: "the daemon must not claim WBTC until the CBTC delivery is
\* proven": no Claimed event before the user has the CBTC, whichever of the
\* four writers of the proof was read.
WbtcAfterDelivery == "Claimed" \in events => Delivered

\* What a row says of the delivery, against the transfer `t' and the log `ev'.
DeliveryEvidence(o, t, ev) ==
    /\ o.counterTransferUpdateId \/ o.counterTransferOfferCid => t # "none"
    /\ o.counterClaimUpdateId # "none" => t \in {"accepted", "direct"}
    /\ o.status = "main_claimed" =>
         "Claimed" \in ev /\ o.mainClaimTx = "claim" /\ LoopDeliveryProven(o)

\* The row never claims a delivery that has not happened, also when an offer
\* was rejected, lapsed or settled without an offer while its evidence was
\* being recorded; and a completed order has both legs and their proofs, which
\* no stale copy of the row takes away again.
DeliveryEvidenceTrue == DeliveryEvidence(row, transfer, events)

\* Moreover a closing transaction is recorded only together with its status,
\* and no HtlcLock ever is.
Truthful(o, t, ev) ==
    /\ DeliveryEvidence(o, t, ev)
    /\ o.mainClaimTx # "none" => o.status \in {"main_claimed", "failed", "refunded"}
    /\ o.htlcCid = 0

\* The awaits reached only after a transfer was seen, only by a direct one,
\* only after the delivery, and only by an order nothing has closed.
SentLabel == {"ccProof", "ccFind", "ccBind", "pvUpdate", "pvOffer", "pvDirect",
              "pvUpdatePut", "pvOfferPut", "pvDirectPut", "reProof", "reBind",
              "reList", "reCas", "paFind", "paBind", "paList"}
DirectLabel == {"pvDirect", "pvDirectPut"}
DeliveredLabel == {"reCas", "crCas", "dmClaim"}
EarlyLabel == {"cancelCas", "rmlBegin", "rmlVerify", "rmlRollback", "rmlCommit",
               "exRead", "exRecover", "exCancel", "ccVerify", "ccReveal"}

\* What a worker standing before the await `l' with the copy `o' knows.
ReachedWith(l, o, t, ev) ==
    /\ l \in SentLabel => t # "none"
    /\ l \in DirectLabel => t = "direct"
    /\ l \in DeliveredLabel => t \in {"accepted", "direct"}
    /\ l \in EarlyLabel => o.mainClaimTx = "none"
    /\ l = "dmCommit" => "Claimed" \in ev /\ LoopDeliveryProven(o)

\* The inductive strengthening of WbtcAfterDelivery and DeliveryEvidenceTrue:
\* every worker's copy is truthful too, and so is the point it has reached.
LoopEvidenceInv ==
    /\ WbtcAfterDelivery
    /\ Truthful(row, transfer, events)
    /\ \A w \in Workers : /\ Truthful(snap[w], transfer, events)
                           /\ ReachedWith(pc[w], snap[w], transfer, events)

-----------------------------------------------------------------------------
(* Liveness: handlers go on unless killed; the daemon's poll repairs the   *)
(* rows it lists (activeOrders), and comes back to claim and record.       *)

LoopFairness ==
    /\ WF_loopVars(LoopChain /\ UNCHANGED transfer)
    /\ \A w \in Workers :
         WF_loopVars(LoopResume(w) \/ (SharedResume(w) /\ UNCHANGED transfer))
    /\ SF_loopVars(\E w \in Workers : ReStart(w))
    /\ SF_loopVars(\E w \in Workers : LdStart(w))

LoopFairSpec == LoopSpec /\ LoopFairness

\* A delivery whose update id is recorded is eventually proved in the row, as
\* the daemon needs it: although four handlers race to write the proof and a
\* stale copy may erase it, unless the retake of the WBTC has ended the order.
DeliveryRecorded ==
    Delivered /\ row.counterTransferUpdateId
        ~> LoopDeliveryProven(row) \/ row.status \in {"failed", "refunded"}

\* Once the WBTC claim is on chain the order is completed.
LoopSettlementRecorded == "Claimed" \in events ~> row.status = "main_claimed"

-----------------------------------------------------------------------------
(* Refuted by TLC.                                                         *)

\* verifyEvmLock: "before we release CBTC on reveal (Loop claim-counter ...),
\* verify on-chain that the user's WBTC is REALLY locked in the HTLC escrow".
SendCovered ==
    [][transfer = "none" /\ transfer' # "none" => Backed]_loopVars

\* Crash-recovery drills, Loop reveal/delivery: "Delivery recovery finds direct
\* holding or pending offer".
DeliveryRecovered ==
    transfer # "none"
        ~> row.counterTransferUpdateId \/ row.status \in {"failed", "refunded"}
=============================================================================
