-------------------------- MODULE ForwardLoopProofs --------------------------
(***************************************************************************)
(* Proofs about ForwardLoop, for any number of workers, lost calls and lock*)
(* transactions, any timelocks on the ladder, prompt or slow handlers.     *)
(*                                                                         *)
(* The argument: what a row can say of the delivery are facts that, once   *)
(* true, stay true (Grows); every copy of the row was truthful when it was *)
(* read, so it still is when it is written back; and each await is reached *)
(* only past the reading that makes what is written next true.             *)
(***************************************************************************)
EXTENDS ForwardLoop, HtlcForwardProofs

-----------------------------------------------------------------------------
(* Who moves what.                                                         *)

\* A step belongs to a worker, or leaves the workers and the row alone but for
\* the accept transaction.
LEMMA LoopSteps ==
    ASSUME [LoopNext]_loopVars
    PROVE  \/ Accept /\ UNCHANGED transfer
           \/ /\ (UserLock \/ UserRetake \/ Chain) /\ UNCHANGED transfer
           \/ LoopEnvironment
           \/ UNCHANGED loopVars
           \/ \E w \in Workers : LoopStart(w) \/ LoopResume(w)
           \/ \E w \in Workers : /\ SharedStart(w) \/ SharedResume(w) \/ Fail(w)
                                 /\ UNCHANGED transfer
  BY DEF LoopNext, Shared, LoopChain

\* The handlers of this module leave both ledgers and the clock alone.
LEMMA LoopHandlerFrame ==
    ASSUME NEW w \in Workers, LoopStart(w) \/ LoopResume(w)
    PROVE  UNCHANGED <<chainVars, cantonVars>>
  <1> USE DEF elsewhere, chainVars, escrowVars, cantonVars
  <1>1. CASE LoopStart(w)
    BY <1>1 DEF LoopStart, CcStart, PaStart, ReStart, CrStart, LdStart, LfStart
  <1>2. CASE LoopResume(w)
    BY <1>2 DEF LoopResume, CcVerify, CcReveal, CcSend, CcProof, CcFind, Bind,
                PaFind, PaList, PvRead, PvPut, ReProof, ReBind, ReList, ReCas,
                CrVerify, CrProof, CrCas, LdRecord
  <1> QED BY <1>1, <1>2

\* Those shared with HtlcForward leave the ledgers alone but for the claim.
LEMMA SharedHandlerFrame ==
    ASSUME NEW w \in Workers, SharedStart(w) \/ SharedResume(w) \/ Fail(w)
    PROVE  UNCHANGED cantonVars /\ (DmClaim(w) \/ UNCHANGED chainVars)
  <1> USE DEF chainVars, escrowVars, cantonVars
  <1>1. CASE SharedStart(w) \/ Fail(w)
    BY <1>1 DEF SharedStart, CancelStart, RtStart, ExStart, RmlStart, Fail
  <1>2. CASE SharedResume(w)
    BY <1>2 DEF SharedResume, CancelCas, RmlBegin, RmlVerify, RmlRollback,
                RmlCommit, DmClaim, DmCommit, RtCas, ExRead, ExRecover,
                ExCancel, RfCas
  <1> QED BY <1>1, <1>2

LEMMA LoopFrame ==
    ASSUME [LoopNext]_loopVars
    PROVE  /\ UNCHANGED cantonVars
           /\ \/ UserLock \/ UserRetake \/ Chain \/ \E w \in Workers : DmClaim(w)
              \/ UNCHANGED chainVars
  <1>1. CASE Accept \/ UserLock \/ UserRetake \/ Chain
    BY <1>1 DEF Accept, UserLock, UserRetake, Chain
  <1>2. CASE LoopEnvironment \/ UNCHANGED loopVars
    BY <1>2 DEF LoopEnvironment, loopVars, vars, cantonVars, chainVars, escrowVars
  <1>3. ASSUME NEW w \in Workers, LoopStart(w) \/ LoopResume(w)
        PROVE  UNCHANGED <<chainVars, cantonVars>>
    BY <1>3, LoopHandlerFrame
  <1>4. ASSUME NEW w \in Workers, SharedStart(w) \/ SharedResume(w) \/ Fail(w)
        PROVE  UNCHANGED cantonVars /\ (DmClaim(w) \/ UNCHANGED chainVars)
    BY <1>4, SharedHandlerFrame
  <1> QED BY <1>1, <1>2, <1>3, <1>4, LoopSteps

\* The transfer moves only when it is sent, and at the wallet.
LEMMA TransferFrame ==
    ASSUME [LoopNext]_loopVars
    PROVE  \/ UNCHANGED transfer
           \/ transfer = "none" /\ transfer' \in {"offered", "direct"}
           \/ transfer = "offered" /\ transfer' \in {"accepted", "rejected", "lapsed"}
  <1>1. CASE LoopEnvironment
    BY <1>1 DEF LoopEnvironment, WalletAccept, WalletReject, OfferLapses
  <1>2. ASSUME NEW w \in Workers, LoopStart(w) PROVE UNCHANGED transfer
    BY <1>2 DEF LoopStart, CcStart, PaStart, ReStart, CrStart, LdStart, LfStart,
                elsewhere
  <1>3. ASSUME NEW w \in Workers, LoopResume(w)
        PROVE  \/ UNCHANGED transfer
               \/ transfer = "none" /\ transfer' \in {"offered", "direct"}
    BY <1>3 DEF LoopResume, CcVerify, CcReveal, CcSend, CcProof, CcFind, Bind,
                PaFind, PaList, PvRead, PvPut, ReProof, ReBind, ReList, ReCas,
                CrVerify, CrProof, CrCas, LdRecord, elsewhere
  <1> QED BY <1>1, <1>2, <1>3, LoopSteps DEF loopVars

\* What is true of the delivery and in the log is never taken back.
Grows ==
    /\ transfer # "none" => transfer' # "none"
    /\ transfer = "direct" => transfer' = "direct"
    /\ Delivered => Delivered'
    /\ events \subseteq events'

LEMMA LoopOnlyGrows ==
    ASSUME LoopTypeOK, [LoopNext]_loopVars
    PROVE  Grows /\ transfer' \in Transfer
  <1>1. events \subseteq events'
    BY LoopFrame DEF UserLock, UserRetake, Chain, Lock, Retake, Tick, Finalize,
       Reorg, DmClaim, Claim, chainVars, escrowVars
  <1> QED BY <1>1, TransferFrame DEF Grows, Delivered, LoopTypeOK, Transfer

-----------------------------------------------------------------------------
(* What a step has to show of the worker it moves and the row it writes.   *)

\* Hence what was true of a copy stays true of it.
LEMMA TruthKept ==
    ASSUME Grows, NEW l, NEW o
    PROVE  /\ Truthful(o, transfer, events) => Truthful(o, transfer', events')
           /\ ReachedWith(l, o, transfer, events)
                => ReachedWith(l, o, transfer', events')
  BY DEF Grows, Delivered, Truthful, DeliveryEvidence, ReachedWith

\* The workers' and the row's part of the invariant, after a step.
WorkersSound ==
    /\ pc' \in [Workers -> LoopLabel] /\ snap' \in [Workers -> Row]
    /\ \A v \in Workers : /\ Truthful(snap'[v], transfer', events')
                          /\ ReachedWith(pc'[v], snap'[v], transfer', events')
RowSound ==
    /\ row' \in Row /\ updatedAt' \in Nat
    /\ Truthful(row', transfer', events')

\* A label and a copy a worker may move on to.
Sound(l, o) ==
    /\ l \in LoopLabel /\ o \in Row
    /\ Truthful(o, transfer', events')
    /\ ReachedWith(l, o, transfer', events')

LEMMA ProceedSound ==
    ASSUME LoopTypeOK, LoopEvidenceInv, Grows, NEW w \in Workers, NEW l, NEW o,
           Proceed(w, l, o), Sound(l, o)
    PROVE  WorkersSound
  <1>1. pc' \in [Workers -> LoopLabel] /\ snap' \in [Workers -> Row]
    BY DEF LoopTypeOK, Proceed, Sound
  <1>2. ASSUME NEW v \in Workers
        PROVE  /\ Truthful(snap'[v], transfer', events')
               /\ ReachedWith(pc'[v], snap'[v], transfer', events')
    <2>1. CASE v = w
      BY <2>1 DEF Proceed, LoopTypeOK, Sound
    <2>2. CASE v # w
      <3>1. snap'[v] = snap[v] /\ pc'[v] = pc[v]
        BY <2>2 DEF Proceed, LoopTypeOK
      <3> QED BY <3>1, TruthKept DEF LoopEvidenceInv
    <2> QED BY <2>1, <2>2
  <1> QED BY <1>1, <1>2 DEF WorkersSound

LEMMA ReturnSound ==
    ASSUME LoopTypeOK, LoopEvidenceInv, Grows, NEW w \in Workers, Return(w)
    PROVE  WorkersSound
  <1>1. Sound("idle", NewOrder)
    BY NewOrderType
       DEF Sound, LoopLabel, Label, Truthful, DeliveryEvidence, ReachedWith,
           NewOrder, SentLabel, DirectLabel, DeliveredLabel, EarlyLabel
  <1> QED BY <1>1, ProceedSound DEF Return

\* Workers that stay where they are, and a row nothing writes.
LEMMA StaySound ==
    ASSUME LoopTypeOK, LoopEvidenceInv, Grows
    PROVE  /\ UNCHANGED <<pc, snap>> => WorkersSound
           /\ UNCHANGED orderVars => RowSound
  BY TruthKept DEF WorkersSound, RowSound, LoopEvidenceInv, LoopTypeOK, orderVars

\* A sound copy may be written.
LEMMA PutSound ==
    ASSUME LoopTypeOK, NEW o, Put(o), o \in Row, Truthful(o, transfer', events')
    PROVE  RowSound
  BY DEF Put, RowSound, LoopTypeOK, EscrowTypeOK

LEMMA PutIfStatusSound ==
    ASSUME LoopTypeOK, LoopEvidenceInv, Grows, NEW w \in Workers, NEW o,
           NEW expected, NEW next, PutIfStatus(w, o, expected, next),
           Sound(next, o)
    PROVE  RowSound /\ WorkersSound
  <1>1. CASE row.status = expected
    <2>1. Put(o) /\ (Return(w) \/ Proceed(w, next, o))
      BY <1>1 DEF PutIfStatus
    <2> QED BY <2>1, PutSound, ReturnSound, ProceedSound DEF Sound
  <1>2. CASE row.status # expected
    BY <1>2, StaySound, ReturnSound DEF PutIfStatus
  <1> QED BY <1>1, <1>2

\* What the worker and the row know, seen from the state after the step.
LEMMA Known ==
    ASSUME LoopTypeOK, LoopEvidenceInv, Grows, NEW w \in Workers
    PROVE  /\ snap[w] \in Row /\ Truthful(snap[w], transfer', events')
           /\ ReachedWith(pc[w], snap[w], transfer', events')
           /\ row \in Row /\ Truthful(row, transfer', events')
  BY TruthKept DEF LoopTypeOK, LoopEvidenceInv

\* Most labels promise nothing.
LEMMA FreeLabel ==
    ASSUME NEW l \in {"idle", "ccSend", "crVerify", "crProof", "dmRecord",
                      "rtCas", "rtRefund", "rfCas"},
           NEW o, NEW t, NEW ev
    PROVE  l \in LoopLabel /\ ReachedWith(l, o, t, ev)
  BY DEF LoopLabel, Label, ReachedWith, SentLabel, DirectLabel, DeliveredLabel,
         EarlyLabel

\* Those of this module that promise a transfer, or its acceptance.
LEMMA ProofLabel ==
    ASSUME NEW o, NEW t, NEW ev, t # "none"
    PROVE  /\ \A l \in SentLabel \ (DirectLabel \cup DeliveredLabel) :
                 l \in LoopLabel /\ ReachedWith(l, o, t, ev)
           /\ t = "direct" => \A l \in DirectLabel :
                 l \in LoopLabel /\ ReachedWith(l, o, t, ev)
           /\ t \in {"accepted", "direct"} => \A l \in DeliveredLabel :
                 l \in LoopLabel /\ ReachedWith(l, o, t, ev)
  BY DEF LoopLabel, Label, ReachedWith, SentLabel, DirectLabel, DeliveredLabel,
         EarlyLabel

-----------------------------------------------------------------------------
(* The handlers of this module, action by action.                          *)

\* The requests, polls and repairs start from the row as it is.
LEMMA LoopStartSound ==
    ASSUME LoopTypeOK, LoopEvidenceInv, Grows, NEW w \in Workers, LoopStart(w)
    PROVE  RowSound /\ WorkersSound
  <1>1. row \in Row /\ Truthful(row, transfer', events')
    BY Known
  <1>2. UNCHANGED <<transfer, events, orderVars>>
    BY DEF LoopStart, CcStart, PaStart, ReStart, CrStart, LdStart, LfStart,
           elsewhere, chainVars, escrowVars
  <1>3. row.counterTransferUpdateId => transfer' # "none"
    BY <1>1 DEF Truthful, DeliveryEvidence
  <1>4. RowSound
    BY <1>2, StaySound
  <1>5. CASE CcStart(w)
    <2>1. row.status = "main_locked" => Sound("ccVerify", row)
      BY <1>1 DEF Sound, Truthful, ReachedWith, LoopLabel, SentLabel,
                  DirectLabel, DeliveredLabel, EarlyLabel
    <2>2. Sound("ccSend", row)
      BY <1>1, FreeLabel DEF Sound
    <2>3. row.counterTransferUpdateId => Sound("reProof", row) /\ Sound("ccFind", row)
      BY <1>1, <1>3, ProofLabel DEF Sound, SentLabel, DirectLabel, DeliveredLabel
    <2> QED BY <1>4, <1>5, <2>1, <2>2, <2>3, ProceedSound DEF CcStart
  <1>6. CASE PaStart(w)
    <2>1. row.counterTransferUpdateId => Sound("paList", row) /\ Sound("paFind", row)
      BY <1>1, <1>3, ProofLabel DEF Sound, SentLabel, DirectLabel, DeliveredLabel
    <2> QED BY <1>4, <1>6, <2>1, ProceedSound DEF PaStart
  <1>7. CASE ReStart(w)
    <2>1. row.counterTransferUpdateId => Sound("reProof", row)
      BY <1>1, <1>3, ProofLabel DEF Sound, SentLabel, DirectLabel, DeliveredLabel
    <2> QED BY <1>4, <1>7, <2>1, ProceedSound DEF ReStart
  <1>8. CASE CrStart(w)
    <2>1. Sound("crVerify", row)
      BY <1>1, FreeLabel DEF Sound
    <2> QED BY <1>4, <1>8, <2>1, ProceedSound DEF CrStart
  <1>9. CASE LdStart(w)
    <2>1. transfer' \in {"accepted", "direct"}
      BY <1>1, <1>9 DEF LdStart, LoopCanExpose, LoopDeliveryProven, Truthful,
                        DeliveryEvidence
    <2>2. Sound("dmClaim", row) /\ Sound("dmRecord", row)
      BY <1>1, <2>1, ProofLabel, FreeLabel DEF Sound, DeliveredLabel
    <2> QED BY <1>4, <1>9, <2>2, ProceedSound DEF LdStart
  <1>10. CASE LfStart(w)
    <2> DEFINE o == [row EXCEPT !.status = "main_claimed",
                     !.mainClaimTx = IF @ = "none" THEN "claim" ELSE @]
    <2>1. row.mainClaimTx = "none"
      BY <1>1, <1>10 DEF LfStart, Truthful
    <2>2. o \in Row
      BY <1>1, RowWrites
    <2>3. LoopDeliveryProven(row) /\ "Claimed" \in events'
      BY <1>2, <1>10, <2>1 DEF LfStart, LoopCanExpose
    <2>4. Truthful(o, transfer', events')
      BY <1>1, <2>1, <2>3 DEF Truthful, DeliveryEvidence, LoopDeliveryProven, Row
    <2>5. Proceed(w, "rfCas", o)
      BY <1>10 DEF LfStart
    <2> HIDE DEF o
    <2>6. Sound("rfCas", o)
      BY <2>2, <2>4, FreeLabel DEF Sound
    <2> QED BY <1>4, <2>5, <2>6, ProceedSound
  <1> QED BY <1>5, <1>6, <1>7, <1>8, <1>9, <1>10 DEF LoopStart

\* claimCounter: the check, the reveal, the transfer and its first reading.
LEMMA CcStepsSound ==
    ASSUME LoopTypeOK, LoopEvidenceInv, Grows, NEW w \in Workers,
           CcVerify(w) \/ CcReveal(w) \/ CcSend(w) \/ CcProof(w) \/ CcFind(w)
    PROVE  RowSound /\ WorkersSound
  <1>1. /\ snap[w] \in Row /\ Truthful(snap[w], transfer', events')
        /\ ReachedWith(pc[w], snap[w], transfer', events')
        /\ row \in Row /\ Truthful(row, transfer', events')
    BY Known
  <1>2. UNCHANGED orderVars => RowSound
    BY StaySound
  <1>3. CASE CcVerify(w)
    <2>1. Sound("ccReveal", snap[w])
      BY <1>1, <1>3 DEF CcVerify, Sound, ReachedWith, LoopLabel, SentLabel,
                        DirectLabel, DeliveredLabel, EarlyLabel
    <2> QED BY <1>2, <1>3, <2>1, ProceedSound, ReturnSound DEF CcVerify
  <1>4. CASE CcReveal(w)
    <2> DEFINE o == [snap[w] EXCEPT !.status = "counter_claimed",
                                    !.revealedPreimage = TRUE]
    <2>1. o \in Row
      BY <1>1 DEF Row, Status
    <2>2. snap[w].mainClaimTx = "none"
      BY <1>1, <1>4 DEF CcReveal, ReachedWith, EarlyLabel
    <2>3. Truthful(o, transfer', events')
      BY <1>1, <2>2 DEF Truthful, DeliveryEvidence, LoopDeliveryProven, Row
    <2>4. Sound("ccSend", row)
      BY <1>1, FreeLabel DEF Sound
    <2>5. row.counterTransferUpdateId => Sound("reProof", row)
      BY <1>1, ProofLabel DEF Sound, Truthful, DeliveryEvidence, SentLabel,
                              DirectLabel, DeliveredLabel
    <2>6. \/ Put(o) /\ Proceed(w, "ccSend", o)
          \/ /\ UNCHANGED orderVars
             /\ \/ Return(w) \/ Proceed(w, "ccSend", row)
                \/ row.counterTransferUpdateId /\ Proceed(w, "reProof", row)
      BY <1>4 DEF CcReveal
    <2> HIDE DEF o
    <2>7. Sound("ccSend", o)
      BY <2>1, <2>3, FreeLabel DEF Sound
    <2> QED BY <1>2, <2>1, <2>3, <2>4, <2>5, <2>6, <2>7, PutSound, ProceedSound,
               ReturnSound
  <1>5. CASE CcSend(w)
    <2>1. transfer' # "none" => Sound("ccProof", snap[w])
      BY <1>1, ProofLabel DEF Sound, SentLabel, DirectLabel, DeliveredLabel
    <2> QED BY <1>2, <1>5, <2>1, ProceedSound, ReturnSound DEF CcSend
  <1>6. CASE CcProof(w)
    <2>1. transfer' # "none" /\ UNCHANGED <<transfer, orderVars>>
      BY <1>1, <1>6 DEF CcProof, ReachedWith, SentLabel, elsewhere
    <2>2. /\ Sound("pvOffer", snap[w]) /\ Sound("pvUpdate", snap[w])
          /\ transfer = "direct" => Sound("pvDirect", snap[w])
      BY <1>1, <2>1, ProofLabel DEF Sound, SentLabel, DirectLabel, DeliveredLabel
    <2> QED BY <1>2, <1>6, <2>1, <2>2, ProceedSound DEF CcProof
  <1>7. CASE CcFind(w)
    <2>1. transfer' # "none" /\ UNCHANGED <<transfer, orderVars>>
      BY <1>1, <1>7 DEF CcFind, ReachedWith, SentLabel, elsewhere
    <2> DEFINE o == [snap[w] EXCEPT !.counterTransferOfferCid = TRUE]
    <2>2. o \in Row
      BY <1>1 DEF Row
    <2>3. Truthful(o, transfer', events')
      BY <1>1, <2>1 DEF Truthful, DeliveryEvidence, LoopDeliveryProven, Row
    <2>4. \/ Proceed(w, "ccBind", o) \/ Proceed(w, "pvOffer", snap[w])
          \/ transfer = "direct" /\ Proceed(w, "pvDirect", snap[w])
      BY <1>7 DEF CcFind
    <2> HIDE DEF o
    <2>5. Sound("ccBind", o)
      BY <2>1, <2>2, <2>3, ProofLabel DEF Sound, SentLabel, DirectLabel, DeliveredLabel
    <2>6. Sound("pvOffer", snap[w])
      BY <1>1, <2>1, ProofLabel, SMTT(60)
         DEF Sound, SentLabel, DirectLabel, DeliveredLabel
    <2>7. transfer = "direct" => Sound("pvDirect", snap[w])
      BY <1>1, <2>1, ProofLabel, SMTT(60)
         DEF Sound, SentLabel, DirectLabel, DeliveredLabel
    <2> QED BY <1>2, <2>1, <2>4, <2>5, <2>6, <2>7, ProceedSound
  <1> QED BY <1>3, <1>4, <1>5, <1>6, <1>7

\* The offer of a copy noted in it: harmless once a transfer has been seen.
LEMMA OfferNoted ==
    ASSUME NEW o \in Row, NEW t, NEW ev, Truthful(o, t, ev), t # "none"
    PROVE  /\ [o EXCEPT !.counterTransferOfferCid = TRUE] \in Row
           /\ Truthful([o EXCEPT !.counterTransferOfferCid = TRUE], t, ev)
  BY DEF Row, Truthful, DeliveryEvidence, LoopDeliveryProven

\* prepareLoopAccept, and the writing of an offer found by it or claimCounter.
LEMMA PaStepsSound ==
    ASSUME LoopTypeOK, LoopEvidenceInv, Grows, NEW w \in Workers,
           PaFind(w) \/ Bind(w) \/ PaList(w)
    PROVE  RowSound /\ WorkersSound
  <1>1. /\ snap[w] \in Row /\ Truthful(snap[w], transfer', events')
        /\ ReachedWith(pc[w], snap[w], transfer', events')
        /\ row \in Row /\ Truthful(row, transfer', events')
    BY Known
  <1>2. transfer' # "none" /\ UNCHANGED transfer
    BY <1>1 DEF PaFind, Bind, PaList, ReachedWith, SentLabel, elsewhere
  <1>3. /\ Sound("reProof", snap[w]) /\ Sound("paList", snap[w])
        /\ transfer = "direct" => Sound("pvDirect", snap[w])
        /\ Sound("idle", snap[w])
    BY <1>1, <1>2, ProofLabel, FreeLabel
       DEF Sound, SentLabel, DirectLabel, DeliveredLabel
  <1>4. CASE PaFind(w)
    <2> DEFINE o == [snap[w] EXCEPT !.counterTransferOfferCid = TRUE]
    <2>1. o \in Row /\ Truthful(o, transfer', events')
      BY <1>1, <1>2, OfferNoted
    <2>2. \/ Proceed(w, "paBind", o)
          \/ transfer = "direct" /\ Proceed(w, "pvDirect", snap[w])
      BY <1>4 DEF PaFind
    <2> HIDE DEF o
    <2>3. Sound("paBind", o)
      BY <1>2, <2>1, ProofLabel DEF Sound, SentLabel, DirectLabel, DeliveredLabel
    <2>4. RowSound
      BY <1>4, StaySound DEF PaFind
    <2> QED BY <1>3, <2>2, <2>3, <2>4, ProceedSound
  <1>5. CASE Bind(w)
    <2>1. PutIfStatus(w, snap[w], snap[w].status,
                      IF pc[w] = "ccBind" THEN "idle" ELSE "paList")
      BY <1>5 DEF Bind
    <2> QED BY <1>3, <2>1, PutIfStatusSound
  <1>6. CASE PaList(w)
    BY <1>3, <1>6, StaySound, ProceedSound, ReturnSound DEF PaList
  <1> QED BY <1>4, <1>5, <1>6

\* persistLoopCounterDeliveryEvidence: what it writes is true of the transfer.
LEMMA EvidenceWritten ==
    ASSUME NEW o \in Row, NEW t, NEW ev, Truthful(o, t, ev), t # "none",
           NEW l \in DOMAIN PutLabel, l = "pvDirect" => t = "direct"
    PROVE  WithEvidence(o, l) \in Row /\ Truthful(WithEvidence(o, l), t, ev)
  <1>1. CASE l = "pvDirect"
    BY <1>1 DEF WithEvidence, Row, Truthful, DeliveryEvidence, LoopDeliveryProven
  <1>2. CASE l = "pvOffer"
    BY <1>2 DEF WithEvidence, Row, Truthful, DeliveryEvidence, LoopDeliveryProven
  <1>3. CASE l = "pvUpdate"
    BY <1>3 DEF WithEvidence, Row, Truthful, DeliveryEvidence, LoopDeliveryProven
  <1> QED BY <1>1, <1>2, <1>3 DEF PutLabel

LEMMA PvStepsSound ==
    ASSUME LoopTypeOK, LoopEvidenceInv, Grows, NEW w \in Workers,
           PvRead(w) \/ PvPut(w)
    PROVE  RowSound /\ WorkersSound
  <1>1. /\ snap[w] \in Row /\ Truthful(snap[w], transfer', events')
        /\ ReachedWith(pc[w], snap[w], transfer', events')
        /\ row \in Row /\ Truthful(row, transfer', events')
    BY Known
  <1>2. UNCHANGED orderVars => RowSound
    BY StaySound
  <1>3. CASE PvRead(w)
    <2> DEFINE o == WithEvidence(row, pc[w])
    <2>1. /\ pc[w] \in DOMAIN PutLabel /\ transfer' # "none"
          /\ pc[w] = "pvDirect" => transfer' = "direct"
      BY <1>1, <1>3 DEF PvRead, PutLabel, ReachedWith, SentLabel, DirectLabel
    <2>2. o \in Row /\ Truthful(o, transfer', events')
      BY <1>1, <2>1, EvidenceWritten
    <2>3. (Proceed(w, PutLabel[pc[w]], o) \/ Return(w)) /\ UNCHANGED orderVars
      BY <1>3 DEF PvRead
    <2> HIDE DEF o
    <2>4. \/ PutLabel[pc[w]] \in {"pvOfferPut", "pvUpdatePut"}
          \/ PutLabel[pc[w]] = "pvDirectPut" /\ transfer' = "direct"
      BY <2>1 DEF PutLabel
    <2>5. Sound(PutLabel[pc[w]], o)
      BY <2>1, <2>2, <2>4, ProofLabel DEF Sound, SentLabel, DirectLabel,
                                          DeliveredLabel
    <2> QED BY <1>2, <2>3, <2>5, ProceedSound, ReturnSound
  <1>4. CASE PvPut(w)
    <2>1. PICK l \in DOMAIN PutLabel :
            /\ pc[w] = PutLabel[l]
            /\ \/ Put(snap[w]) /\ Return(w)
               \/ Proceed(w, l, snap[w]) /\ UNCHANGED orderVars
      BY <1>4 DEF PvPut
    <2>2. Sound(l, snap[w])
      BY <1>1, <2>1, ProofLabel DEF Sound, PutLabel, ReachedWith, SentLabel,
                                    DirectLabel, DeliveredLabel
    <2> QED BY <1>1, <1>2, <2>1, <2>2, PutSound, ProceedSound, ReturnSound
  <1> QED BY <1>3, <1>4

\* reconcileLoopForwardCounterDelivery.
LEMMA ReStepsSound ==
    ASSUME LoopTypeOK, LoopEvidenceInv, Grows, NEW w \in Workers,
           ReProof(w) \/ ReBind(w) \/ ReList(w) \/ ReCas(w)
    PROVE  RowSound /\ WorkersSound
  <1>1. /\ snap[w] \in Row /\ Truthful(snap[w], transfer', events')
        /\ ReachedWith(pc[w], snap[w], transfer', events')
        /\ row \in Row /\ Truthful(row, transfer', events')
    BY Known
  <1>2. transfer' # "none" /\ UNCHANGED transfer
    BY <1>1 DEF ReProof, ReBind, ReList, ReCas, ReachedWith, SentLabel, elsewhere
  <1>3. /\ Sound("reList", snap[w]) /\ Sound("reBind", snap[w])
        /\ Sound("reList", row)
        /\ transfer = "direct" => Sound("pvDirect", snap[w])
        /\ transfer = "accepted" => Sound("reCas", snap[w])
    <2>1. /\ Sound("reList", snap[w]) /\ Sound("reBind", snap[w])
          /\ Sound("reList", row)
      <3>1. {"reList", "reBind"} \subseteq SentLabel \ (DirectLabel \cup DeliveredLabel)
        BY DEF SentLabel, DirectLabel, DeliveredLabel
      <3> QED BY <1>1, <1>2, <3>1, ProofLabel DEF Sound
    <2>2. transfer = "direct" => Sound("pvDirect", snap[w])
      BY <1>1, <1>2, ProofLabel DEF Sound, DirectLabel
    <2>3. transfer = "accepted" => Sound("reCas", snap[w])
      BY <1>1, <1>2, ProofLabel DEF Sound, DeliveredLabel
    <2> QED BY <2>1, <2>2, <2>3
  <1>4. UNCHANGED orderVars => RowSound
    BY StaySound
  <1>5. CASE ReProof(w)
    BY <1>3, <1>4, <1>5, ProceedSound DEF ReProof
  <1>6. CASE ReBind(w)
    <2> DEFINE o == [snap[w] EXCEPT !.counterTransferOfferCid = TRUE]
    <2>1. o \in Row /\ Truthful(o, transfer', events')
      BY <1>1, <1>2, OfferNoted
    <2>2. \/ Put(o) /\ Proceed(w, "reList", o)
          \/ UNCHANGED orderVars /\ Proceed(w, "reList", row)
      BY <1>6 DEF ReBind
    <2> HIDE DEF o
    <2>3. Sound("reList", o)
      BY <1>2, <2>1, ProofLabel DEF Sound, SentLabel, DirectLabel, DeliveredLabel
    <2> QED BY <1>3, <1>4, <2>1, <2>2, <2>3, PutSound, ProceedSound
  <1>7. CASE ReList(w)
    BY <1>3, <1>4, <1>7, ProceedSound, ReturnSound DEF ReList
  <1>8. CASE ReCas(w)
    <2> DEFINE o == [snap[w] EXCEPT !.counterTransferOfferCid = TRUE,
                                    !.counterClaimUpdateId = "claim"]
    <2>1. transfer' \in {"accepted", "direct"}
      BY <1>1, <1>8 DEF ReCas, ReachedWith, DeliveredLabel
    <2>2. o \in Row
      BY <1>1 DEF Row
    <2>3. Truthful(o, transfer', events')
      BY <1>1, <1>2, <2>1 DEF Truthful, DeliveryEvidence, LoopDeliveryProven, Row
    <2>4. PutIfStatus(w, o, snap[w].status, "idle")
      BY <1>8 DEF ReCas
    <2> HIDE DEF o
    <2>5. Sound("idle", o)
      BY <2>2, <2>3, FreeLabel DEF Sound
    <2> QED BY <2>4, <2>5, PutIfStatusSound
  <1> QED BY <1>5, <1>6, <1>7, <1>8

\* recordCounterClaimed, and the daemon's reading of the row it completes.
LEMMA CrStepsSound ==
    ASSUME LoopTypeOK, LoopEvidenceInv, Grows, NEW w \in Workers,
           CrVerify(w) \/ CrProof(w) \/ CrCas(w) \/ LdRecord(w)
    PROVE  RowSound /\ WorkersSound
  <1>1. /\ snap[w] \in Row /\ Truthful(snap[w], transfer', events')
        /\ ReachedWith(pc[w], snap[w], transfer', events')
        /\ row \in Row /\ Truthful(row, transfer', events')
    BY Known
  <1>2. UNCHANGED orderVars => RowSound
    BY StaySound
  <1>3. CASE CrVerify(w)
    <2>1. Sound("crProof", snap[w])
      BY <1>1, FreeLabel DEF Sound
    <2> QED BY <1>2, <1>3, <2>1, ProceedSound, ReturnSound DEF CrVerify
  <1>4. CASE CrProof(w)
    <2> DEFINE o == [snap[w] EXCEPT !.counterTransferOfferCid = FALSE]
    <2>1. o \in Row
      BY <1>1 DEF Row
    <2>2. Truthful(o, transfer', events')
      BY <1>1 DEF Truthful, DeliveryEvidence, LoopDeliveryProven, Row
    <2>3. /\ UNCHANGED <<transfer, orderVars>>
          /\ \/ transfer = "direct" /\ Proceed(w, "crCas", o)
             \/ transfer = "accepted" /\ Proceed(w, "crCas", snap[w])
             \/ Return(w)
      BY <1>4 DEF CrProof, elsewhere
    <2> HIDE DEF o
    <2>4. transfer \in {"accepted", "direct"} =>
            Sound("crCas", o) /\ Sound("crCas", snap[w])
      BY <1>1, <2>1, <2>2, <2>3, ProofLabel DEF Sound, DeliveredLabel
    <2> QED BY <1>2, <2>3, <2>4, ProceedSound, ReturnSound
  <1>5. CASE CrCas(w)
    <2> DEFINE o == [snap[w] EXCEPT !.counterClaimUpdateId = "claim"]
    <2>1. transfer' \in {"accepted", "direct"}
      BY <1>1, <1>5 DEF CrCas, ReachedWith, DeliveredLabel
    <2>2. o \in Row
      BY <1>1 DEF Row
    <2>3. Truthful(o, transfer', events')
      BY <1>1, <2>1 DEF Truthful, DeliveryEvidence, LoopDeliveryProven, Row
    <2>4. PutIfStatus(w, o, "counter_claimed", "idle")
      BY <1>5 DEF CrCas
    <2> HIDE DEF o
    <2>5. Sound("idle", o)
      BY <2>2, <2>3, FreeLabel DEF Sound
    <2> QED BY <2>4, <2>5, PutIfStatusSound
  <1>6. CASE LdRecord(w)
    <2>1. events' = events /\ UNCHANGED orderVars
      BY <1>6 DEF LdRecord, elsewhere, chainVars, escrowVars
    <2>2. LoopCanExpose(row) /\ "Claimed" \in events => Sound("dmCommit", row)
      BY <1>1, <2>1 DEF Sound, LoopLabel, Label, ReachedWith, SentLabel,
                        DirectLabel, DeliveredLabel, EarlyLabel, LoopCanExpose
    <2> QED BY <1>2, <1>6, <2>1, <2>2, ProceedSound, ReturnSound DEF LdRecord
  <1> QED BY <1>3, <1>4, <1>5, <1>6

LEMMA LoopHandlersSound ==
    ASSUME LoopTypeOK, LoopEvidenceInv, Grows, NEW w \in Workers,
           LoopStart(w) \/ LoopResume(w)
    PROVE  RowSound /\ WorkersSound
  BY LoopStartSound, CcStepsSound, PaStepsSound, PvStepsSound, ReStepsSound,
     CrStepsSound DEF LoopResume

-----------------------------------------------------------------------------
(* The handlers shared with HtlcForward.                                   *)

\* The labels before the order is closed promise that nothing has closed it.
LEMMA EarlyLabels ==
    ASSUME NEW l \in EarlyLabel, NEW o, NEW t, NEW ev
    PROVE  /\ l \in LoopLabel
           /\ ReachedWith(l, o, t, ev) <=> o.mainClaimTx = "none"
  BY DEF LoopLabel, Label, ReachedWith, SentLabel, DirectLabel, DeliveredLabel,
         EarlyLabel

\* A copy of an order nothing has closed may be given any earlier status, and
\* its transaction noted or forgotten.
LEMMA StatusWritten ==
    ASSUME NEW o \in Row, NEW t, NEW ev, Truthful(o, t, ev),
           o.mainClaimTx = "none", NEW s \in Status \ {"main_claimed"}
    PROVE  /\ Truthful([o EXCEPT !.status = s], t, ev)
           /\ Truthful([o EXCEPT !.status = s, !.mainLockTx = 0], t, ev)
           /\ [o EXCEPT !.status = s].mainClaimTx = "none"
  BY DEF Row, Truthful, DeliveryEvidence, LoopDeliveryProven

\* cancel, recordMainLock, the retake and the sweep start from the row.
LEMMA SharedStartSound ==
    ASSUME LoopTypeOK, LoopEvidenceInv, Grows, NEW w \in Workers, SharedStart(w)
    PROVE  RowSound /\ WorkersSound
  <1>1. /\ snap[w] \in Row /\ Truthful(snap[w], transfer', events')
        /\ ReachedWith(pc[w], snap[w], transfer', events')
        /\ row \in Row /\ Truthful(row, transfer', events')
    BY Known
  <1>2. RowSound
    BY StaySound DEF SharedStart, CancelStart, RtStart, ExStart, RmlStart
  <1>3. row.status \in {"open", "accepted", "main_locking"} => row.mainClaimTx = "none"
    BY <1>1 DEF Truthful
  <1>4. CASE CancelStart(w)
    <2>1. Sound("cancelCas", row)
      BY <1>1, <1>3, <1>4, EarlyLabels DEF CancelStart, Sound, EarlyLabel
    <2> QED BY <1>2, <1>4, <2>1, ProceedSound DEF CancelStart
  <1>5. CASE RtStart(w)
    <2>1. Sound("rtCas", row)
      BY <1>1, FreeLabel DEF Sound
    <2> QED BY <1>2, <1>5, <2>1, ProceedSound DEF RtStart
  <1>6. CASE ExStart(w)
    <2>1. Sound("exRead", row)
      BY <1>1, <1>3, <1>6, EarlyLabels DEF ExStart, Sound, EarlyLabel
    <2> QED BY <1>2, <1>6, <2>1, ProceedSound DEF ExStart
  <1>7. CASE \E tx \in 1..lockTxs : RmlStart(w, tx)
    <2>1. PICK tx \in 1..lockTxs : RmlStart(w, tx)
      BY <1>7
    <2> DEFINE o == [row EXCEPT !.mainLockTx = tx]
    <2>2. tx \in 0..MaxLocks
      BY <2>1, EscrowAssumption DEF LoopTypeOK, EscrowTypeOK
    <2>3. o \in Row
      BY <1>1, <2>2, RowWrites
    <2>4. o.mainClaimTx = "none"
      BY <1>1, <1>3, <2>1 DEF RmlStart, Row
    <2>5. Truthful(o, transfer', events')
      BY <1>1 DEF Truthful, DeliveryEvidence, LoopDeliveryProven, Row
    <2>6. Proceed(w, "rmlBegin", o) \/ Proceed(w, "rmlVerify", o)
      BY <2>1 DEF RmlStart
    <2> HIDE DEF o
    <2>7. Sound("rmlBegin", o) /\ Sound("rmlVerify", o)
      BY <2>3, <2>4, <2>5, EarlyLabels DEF Sound, EarlyLabel
    <2> QED BY <1>2, <2>6, <2>7, ProceedSound
  <1> QED BY <1>4, <1>5, <1>6, <1>7 DEF SharedStart

\* Up to the lock of the WBTC, and the sweep of orders that never got there.
LEMMA EarlyStepsSound ==
    ASSUME LoopTypeOK, LoopEvidenceInv, Grows, NEW w \in Workers,
           \/ CancelCas(w) \/ RmlBegin(w) \/ RmlVerify(w) \/ RmlRollback(w)
           \/ RmlCommit(w) \/ ExRead(w) \/ ExRecover(w) \/ ExCancel(w)
    PROVE  RowSound /\ WorkersSound
  <1>1. /\ snap[w] \in Row /\ Truthful(snap[w], transfer', events')
        /\ ReachedWith(pc[w], snap[w], transfer', events')
        /\ row \in Row /\ Truthful(row, transfer', events')
    BY Known
  <1>2. snap[w].mainClaimTx = "none"
    BY <1>1 DEF CancelCas, RmlBegin, RmlVerify, RmlRollback, RmlCommit, ExRead,
                ExRecover, ExCancel, ReachedWith, EarlyLabel
  <1>3. \A l \in EarlyLabel : Sound(l, snap[w])
    BY <1>1, <1>2, EarlyLabels DEF Sound
  <1>4. \A s \in Status \ {"main_claimed"} :
          /\ Sound("idle", [snap[w] EXCEPT !.status = s])
          /\ Sound("idle", [snap[w] EXCEPT !.status = s, !.mainLockTx = 0])
          /\ Sound("rmlVerify", [snap[w] EXCEPT !.status = s])
    <2> TAKE s \in Status \ {"main_claimed"}
    <2> DEFINE o == [snap[w] EXCEPT !.status = s]
               q == [snap[w] EXCEPT !.status = s, !.mainLockTx = 0]
    <2>1. o \in Row /\ q \in Row
      BY <1>1, RowWrites
    <2>2. /\ Truthful(o, transfer', events') /\ Truthful(q, transfer', events')
          /\ o.mainClaimTx = "none"
      BY <1>1, <1>2, StatusWritten
    <2> HIDE DEF o, q
    <2>3. Sound("idle", o) /\ Sound("idle", q) /\ Sound("rmlVerify", o)
      BY <2>1, <2>2, FreeLabel, EarlyLabels DEF Sound, EarlyLabel
    <2> QED BY <2>3 DEF o, q
  <1>5. UNCHANGED orderVars => RowSound
    BY StaySound
  <1>6. CASE CancelCas(w)
    BY <1>4, <1>6, PutIfStatusSound DEF CancelCas, Status
  <1>7. CASE RmlBegin(w)
    <2> DEFINE o == [snap[w] EXCEPT !.status = "main_locking", !.mainLockTx = 0]
               q == [snap[w] EXCEPT !.status = "main_locking"]
    <2>1. \/ Put(o) /\ Proceed(w, "rmlVerify", q)
          \/ UNCHANGED orderVars /\ Return(w)
      BY <1>7 DEF RmlBegin
    <2>2. Sound("idle", o) /\ Sound("rmlVerify", q)
      BY <1>4 DEF Status
    <2> HIDE DEF o, q
    <2> QED BY <1>5, <2>1, <2>2, PutSound, ProceedSound, ReturnSound DEF Sound
  <1>8. CASE RmlVerify(w)
    BY <1>3, <1>5, <1>8, ProceedSound DEF RmlVerify, EarlyLabel
  <1>9. CASE RmlRollback(w)
    BY <1>4, <1>9, PutIfStatusSound DEF RmlRollback, Status
  <1>10. CASE RmlCommit(w)
    BY <1>4, <1>10, PutIfStatusSound DEF RmlCommit, Status
  <1>11. CASE ExRead(w)
    BY <1>3, <1>5, <1>11, ProceedSound, ReturnSound DEF ExRead, EarlyLabel
  <1>12. CASE ExRecover(w)
    BY <1>4, <1>12, PutIfStatusSound DEF ExRecover, Status
  <1>13. CASE ExCancel(w)
    BY <1>4, <1>13, PutIfStatusSound DEF ExCancel, Status
  <1> QED BY <1>6, <1>7, <1>8, <1>9, <1>10, <1>11, <1>12, <1>13

\* The daemon's claim, its record, the repair that records it, and the retake.
LEMMA CloseStepsSound ==
    ASSUME LoopTypeOK, LoopEvidenceInv, Grows, NEW w \in Workers,
           DmClaim(w) \/ DmCommit(w) \/ RfCas(w) \/ RtCas(w) \/ Fail(w)
    PROVE  RowSound /\ WorkersSound
  <1>1. /\ snap[w] \in Row /\ Truthful(snap[w], transfer', events')
        /\ ReachedWith(pc[w], snap[w], transfer', events')
        /\ row \in Row /\ Truthful(row, transfer', events')
    BY Known
  <1>2. UNCHANGED orderVars => RowSound
    BY StaySound
  <1>3. CASE DmClaim(w)
    <2>1. Sound("dmRecord", snap[w])
      BY <1>1, FreeLabel DEF Sound
    <2> QED BY <1>2, <1>3, <2>1, ProceedSound, ReturnSound DEF DmClaim
  <1>4. CASE DmCommit(w)
    <2> DEFINE o == [snap[w] EXCEPT !.status = "main_claimed",
                                    !.mainClaimTx = "claim"]
    <2>1. o \in Row
      BY <1>1, RowWrites
    <2>2. "Claimed" \in events' /\ LoopDeliveryProven(snap[w])
      BY <1>1, <1>4 DEF DmCommit, ReachedWith
    <2>3. Truthful(o, transfer', events')
      BY <1>1, <2>2 DEF Truthful, DeliveryEvidence, LoopDeliveryProven, Row
    <2>4. PutIfStatus(w, o, "counter_claimed", "idle")
      BY <1>4 DEF DmCommit
    <2> HIDE DEF o
    <2>5. Sound("idle", o)
      BY <2>1, <2>3, FreeLabel DEF Sound
    <2> QED BY <2>4, <2>5, PutIfStatusSound
  <1>5. CASE RfCas(w)
    <2>1. Sound("idle", snap[w])
      BY <1>1, FreeLabel DEF Sound
    <2> QED BY <1>5, <2>1, PutIfStatusSound DEF RfCas
  <1>6. CASE RtCas(w)
    <2> DEFINE o == [snap[w] EXCEPT !.mainClaimTx = "retake"]
               q == [o EXCEPT !.status = IF @ = "counter_claimed" THEN "failed"
                                                                  ELSE "refunded"]
    <2>1. o \in Row /\ o.htlcCid = 0
      <3>1. o \in Row
        BY <1>1, RowWrites
      <3>2. o.htlcCid = 0
        BY <1>1 DEF Truthful, Row
      <3> QED BY <3>1, <3>2
    <2>2. q \in Row
      BY <2>1 DEF Row, Status
    <2>3. Truthful(q, transfer', events')
      BY <1>1, ZenonT(60) DEF Truthful, DeliveryEvidence, LoopDeliveryProven, Row
    <2>4. PutIfStatus(w, q, o.status, "idle")
      BY <1>6, <2>1 DEF RtCas
    <2> HIDE DEF o, q
    <2>5. Sound("idle", q)
      BY <2>2, <2>3, FreeLabel DEF Sound
    <2> QED BY <2>4, <2>5, PutIfStatusSound
  <1>7. CASE Fail(w)
    BY <1>2, <1>7, ReturnSound DEF Fail
  <1> QED BY <1>3, <1>4, <1>5, <1>6, <1>7

-----------------------------------------------------------------------------
(* The theorems.                                                           *)

\* No Claimed event before the delivery: only the daemon claims, past its
\* reading of a proved delivery.
LEMMA ClaimNeedsDelivery ==
    ASSUME LoopTypeOK, LoopEvidenceInv, Grows, [LoopNext]_loopVars
    PROVE  WbtcAfterDelivery'
  <1>1. CASE events' = events
    BY <1>1 DEF Grows, LoopEvidenceInv, WbtcAfterDelivery, Delivered
  <1>2. CASE UserLock \/ UserRetake
    BY <1>2 DEF UserLock, UserRetake, Lock, Retake, Grows, LoopEvidenceInv,
                WbtcAfterDelivery, Delivered
  <1>3. ASSUME NEW w \in Workers, DmClaim(w) PROVE WbtcAfterDelivery'
    BY <1>3 DEF DmClaim, LoopEvidenceInv, ReachedWith, DeliveredLabel, Grows,
                WbtcAfterDelivery, Delivered
  <1>4. CASE Chain \/ UNCHANGED chainVars
    BY <1>1, <1>4 DEF Chain, Tick, Finalize, Reorg, chainVars, escrowVars
  <1> QED BY <1>2, <1>3, <1>4, LoopFrame

\* Both parts together are inductive.
LEMMA LoopInductive ==
    ASSUME LoopTypeOK, LoopEvidenceInv, [LoopNext]_loopVars
    PROVE  LoopTypeOK' /\ LoopEvidenceInv'
  <1>1. Grows /\ transfer' \in Transfer
    BY LoopOnlyGrows
  <1>2. RowSound /\ WorkersSound
    <2>1. CASE Accept
      <3>1. PICK s \in {"accepted", "failed"} : Put([row EXCEPT !.status = s])
        BY <2>1 DEF Accept
      <3> DEFINE o == [row EXCEPT !.status = s]
      <3>2. o \in Row /\ row \in Row
        BY RowWrites DEF LoopTypeOK, Status
      <3>3. row.status = "open" /\ Truthful(row, transfer', events')
        BY <1>1, <2>1, TruthKept DEF Accept, LoopEvidenceInv
      <3>4. Truthful(o, transfer', events')
        BY <3>2, <3>3 DEF Truthful, DeliveryEvidence, LoopDeliveryProven, Row
      <3> HIDE DEF o
      <3>5. Put(o)
        BY <3>1 DEF o
      <3> QED BY <1>1, <2>1, <3>2, <3>4, <3>5, PutSound, StaySound DEF Accept
    <2>2. CASE UserLock \/ UserRetake \/ Chain \/ LoopEnvironment
               \/ UNCHANGED loopVars
      BY <1>1, <2>2, StaySound
         DEF UserLock, UserRetake, Chain, LoopEnvironment, loopVars, vars, orderVars
    <2>3. ASSUME NEW w \in Workers, LoopStart(w) \/ LoopResume(w)
          PROVE  RowSound /\ WorkersSound
      BY <1>1, <2>3, LoopHandlersSound
    <2>4. ASSUME NEW w \in Workers, SharedStart(w) \/ SharedResume(w) \/ Fail(w)
          PROVE  RowSound /\ WorkersSound
      BY <1>1, <2>4, SharedStartSound, EarlyStepsSound, CloseStepsSound
         DEF SharedResume
    <2> QED BY <2>1, <2>2, <2>3, <2>4, LoopSteps
  <1>3. EscrowTypeOK' /\ CantonTypeOK'
    <2>1. EscrowTypeOK'
      BY LoopFrame, EscrowStepKeeps DEF LoopTypeOK, DmClaim
    <2>2. CantonTypeOK'
      BY LoopFrame DEF LoopTypeOK, CantonTypeOK, cantonVars
    <2> QED BY <2>1, <2>2
  <1>4. fails' \in 0..MaxFails
    <2>1. fails' = fails \/ CallLost
      <3>1. ASSUME NEW w \in Workers, LoopStart(w) \/ LoopResume(w)
            PROVE  fails' = fails \/ CallLost
        BY <3>1 DEF LoopStart, CcStart, PaStart, ReStart, CrStart, LdStart,
                    LfStart, LoopResume, CcVerify, CcReveal, CcSend, CcProof,
                    CcFind, Bind, PaFind, PaList, PvRead, PvPut, ReProof, ReBind,
                    ReList, ReCas, CrVerify, CrProof, CrCas, LdRecord
      <3>2. ASSUME NEW w \in Workers, SharedStart(w) \/ SharedResume(w) \/ Fail(w)
            PROVE  fails' = fails \/ CallLost
        BY <3>2 DEF SharedStart, CancelStart, RtStart, ExStart, RmlStart, Fail,
                    SharedResume, CancelCas, RmlBegin, RmlVerify, RmlRollback,
                    RmlCommit, DmClaim, DmCommit, RtCas, ExRead, ExRecover,
                    ExCancel, RfCas
      <3> QED BY <3>1, <3>2, LoopSteps DEF Accept, UserLock, UserRetake, Chain,
                 LoopEnvironment, loopVars, vars
    <2> QED BY <2>1, OrderAssumption DEF LoopTypeOK, CallLost
  <1>5. WbtcAfterDelivery'
    BY <1>1, ClaimNeedsDelivery
  <1> QED BY <1>1, <1>2, <1>3, <1>4, <1>5
          DEF LoopTypeOK, LoopEvidenceInv, RowSound, WorkersSound

LEMMA LoopInitially ==
    ASSUME LoopInit
    PROVE  LoopTypeOK /\ LoopEvidenceInv
  <1>1. EscrowTypeOK
    BY EscrowAssumption DEF LoopInit, Init, EscrowInit, EscrowTypeOK, Slot
  <1>2. CantonTypeOK
    BY DEF LoopInit, Init, CantonInit, CantonTypeOK, AllocState, HtlcState
  <1>3. /\ row \in Row /\ updatedAt \in Nat /\ fails \in 0..MaxFails
        /\ pc \in [Workers -> LoopLabel] /\ snap \in [Workers -> Row]
        /\ transfer \in Transfer
    BY NewOrderType, OrderAssumption
       DEF LoopInit, Init, OrderInit, LoopLabel, Label, Transfer
  <1>4. LoopEvidenceInv
    BY DEF LoopInit, Init, OrderInit, EscrowInit, LoopEvidenceInv,
           WbtcAfterDelivery, Truthful, DeliveryEvidence, ReachedWith, NewOrder,
           SentLabel, DirectLabel, DeliveredLabel, EarlyLabel
  <1> QED BY <1>1, <1>2, <1>3, <1>4 DEF LoopTypeOK

\* Type correctness of the whole specification.
THEOREM LoopTypeCorrect == LoopSpec => []LoopTypeOK
  BY LoopInitially, LoopInductive, PTL DEF LoopSpec

\* Row, copies and positions are truthful throughout.
THEOREM LoopEvidenceInvariant == LoopSpec => []LoopEvidenceInv
  BY LoopInitially, LoopInductive, PTL DEF LoopSpec

\* The solver never collects the user's WBTC before the user has the CBTC,
\* whichever of the four writers recorded the proof of delivery.
THEOREM DeliveredFirst == LoopSpec => []WbtcAfterDelivery
  <1>1. LoopEvidenceInv => WbtcAfterDelivery
    BY DEF LoopEvidenceInv
  <1> QED BY <1>1, LoopEvidenceInvariant, PTL

\* The row never claims a delivery that has not happened, and a completed order
\* keeps both its proofs.
THEOREM LoopRowTellsTheTruth == LoopSpec => []DeliveryEvidenceTrue
  <1>1. LoopEvidenceInv => DeliveryEvidenceTrue
    BY DEF LoopEvidenceInv, Truthful, DeliveryEvidenceTrue
  <1> QED BY <1>1, LoopEvidenceInvariant, PTL
=============================================================================
