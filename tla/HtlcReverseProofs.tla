------------------------- MODULE HtlcReverseProofs -------------------------
(***************************************************************************)
(* Proofs about HtlcReverse, for any number of workers, crashes and lock   *)
(* transactions, and any timelocks on the ladder.  A theorem that is about *)
(* managed users only assumes ~Loop; for Loop sellers TLC refutes it.      *)
(***************************************************************************)
EXTENDS HtlcReverse, TLAPS

-----------------------------------------------------------------------------
(* Who moves what.                                                         *)

\* The escrow, its clock and its log change only by the user, the chain, the
\* daemon's retake, a transaction nobody waits for, and the daemon's lock.
LEMMA EscrowFrame ==
    ASSUME [Next]_vars
    PROVE  \/ UserClaim \/ SolverRetake \/ PendingLands \/ Chain
           \/ \E w \in Workers : DkWait(w)
           \/ UNCHANGED evmVars
  <1>1. CASE UNCHANGED vars \/ Environment \/ \E w \in Workers : Fail(w)
    BY <1>1 DEF vars, Environment, Accept, UserTransfer, OfferLapses, Fail,
                evmVars, chainVars, escrowVars
  <1>2. ASSUME NEW w \in Workers, StartRequest(w) PROVE UNCHANGED evmVars
    BY <1>2 DEF StartRequest, RsStart, LmStart, LmSweep, RpStart, CoStart,
       CfStart, DkStart, PhStart, RccStart, CmStart, RfStart, EfStart, RkStart,
       RclStart
  <1>3. ASSUME NEW w \in Workers, Cancel(w) PROVE UNCHANGED evmVars
    BY <1>3 DEF Cancel, CancelStart, CancelCas, evmVars
  <1>4. ASSUME NEW w \in Workers, Resume(w), ~DkWait(w)
        PROVE  UNCHANGED evmVars
    BY <1>4 DEF Resume, RsReserve, RsFresh, LmAlloc, LmPersist, LmCreate,
       LmCommit, RlRead, RlScan, RlCas, RpList, CoDirect, CoBind, CoAccept,
       CoReread, CoCommit, CoFail, CfBound, CfList, CfAccept, CfCommit, DkSlot,
       DkBegin, DkCheck, DkSend, DkAbort, DkAbortCas, RclVerify, RclCas,
       PhRead, PhVerify, PhCas, RccCas, CmReveal, CmSubmit, CmCommit, RfGuard,
       EfGuard, RfBegin, RfSubmit, EfSubmit, RfRollback, RfCommit, RkCas,
       RkFail
  <1> QED BY <1>1, <1>2, <1>3, <1>4 DEF Next

\* The Canton contracts change only by the steps that submit a command on them.
LEMMA CantonFrame ==
    ASSUME [Next]_vars
    PROVE  \/ UNCHANGED cantonVars
           \/ \E w \in Workers : \/ LmAlloc(w) \/ LmCreate(w) \/ CmSubmit(w)
                                 \/ RfSubmit(w) \/ EfSubmit(w)
  <1>1. CASE UNCHANGED vars \/ Environment \/ \E w \in Workers : Fail(w)
    BY <1>1 DEF vars, Environment, Accept, UserTransfer, OfferLapses,
       UserClaim, SolverRetake, PendingLands, Chain, Fail, mainVars, cantonVars
  <1>2. ASSUME NEW w \in Workers, StartRequest(w) PROVE UNCHANGED cantonVars
    BY <1>2 DEF StartRequest, mainVars, RsStart, LmStart, LmSweep, RpStart,
       CoStart, CfStart, DkStart, PhStart, RccStart, CmStart, RfStart, EfStart,
       RkStart, RclStart
  <1>3. ASSUME NEW w \in Workers, Cancel(w) PROVE UNCHANGED cantonVars
    BY <1>3 DEF Cancel, CancelStart, CancelCas
  <1>4. ASSUME NEW w \in Workers, Resume(w)
        PROVE  \/ UNCHANGED cantonVars
               \/ LmAlloc(w) \/ LmCreate(w) \/ CmSubmit(w) \/ RfSubmit(w)
               \/ EfSubmit(w)
    BY <1>4 DEF Resume, mainVars, RsReserve, RsFresh, LmPersist, LmCommit,
       RlRead, RlScan, RlCas, RpList, CoDirect, CoBind, CoAccept, CoReread,
       CoCommit, CoFail, CfBound, CfList, CfAccept, CfCommit, DkSlot, DkBegin,
       DkCheck, DkSend, DkWait, DkAbort, DkAbortCas, RclVerify, RclCas, PhRead,
       PhVerify, PhCas, RccCas, CmReveal, CmCommit, RfGuard, EfGuard, RfBegin,
       RfRollback, RfCommit, RkCas, RkFail
  <1> QED BY <1>1, <1>2, <1>3, <1>4 DEF Next

\* Custody changes only by the user's transfer, its lapse, the two handlers
\* that accept it and the two that send it back.
LEMMA CustodyFrame ==
    ASSUME [Next]_vars
    PROVE  \/ UNCHANGED custody
           \/ UserTransfer \/ OfferLapses
           \/ \E w \in Workers : \/ CoAccept(w) \/ CfAccept(w) \/ RfSubmit(w)
                                 \/ EfSubmit(w)
  <1>1. CASE UNCHANGED vars \/ Environment \/ \E w \in Workers : Fail(w)
    BY <1>1 DEF vars, Environment, Accept, UserClaim,
                SolverRetake, PendingLands, Chain, Fail, mainVars
  <1>2. ASSUME NEW w \in Workers, StartRequest(w) PROVE UNCHANGED custody
    BY <1>2 DEF StartRequest, mainVars, RsStart, LmStart, LmSweep, RpStart,
       CoStart, CfStart, DkStart, PhStart, RccStart, CmStart, RfStart, EfStart,
       RkStart, RclStart
  <1>3. ASSUME NEW w \in Workers, Cancel(w) PROVE UNCHANGED custody
    BY <1>3 DEF Cancel
  <1>4. ASSUME NEW w \in Workers, Resume(w)
        PROVE  \/ UNCHANGED custody
               \/ CoAccept(w) \/ CfAccept(w) \/ RfSubmit(w) \/ EfSubmit(w)
    BY <1>4 DEF Resume, mainVars, RsReserve, RsFresh, LmAlloc, LmPersist,
       LmCreate, LmCommit, RlRead, RlScan, RlCas, RpList, CoDirect, CoBind,
       CoReread, CoCommit, CoFail, CfBound, CfList, CfCommit, DkSlot, DkBegin,
       DkCheck, DkSend, DkWait, DkAbort, DkAbortCas, RclVerify, RclCas, PhRead,
       PhVerify, PhCas, RccCas, CmReveal, CmSubmit, CmCommit, RfGuard, EfGuard,
       RfBegin, RfRollback, RfCommit, RkCas, RkFail
  <1> QED BY <1>1, <1>2, <1>3, <1>4 DEF Next

-----------------------------------------------------------------------------
(* Type correctness.                                                       *)

\* The places a worker may be sent to, one by one (the provers are slow on the
\* whole enumeration).
LEMMA LabelMembers ==
    /\ "idle" \in Label /\ "cancelCas" \in Label /\ "rsReserve" \in Label
    /\ "rsFresh" \in Label /\ "lmAlloc" \in Label
    /\ "lmSweepAlloc" \in Label /\ "lmPersist" \in Label
    /\ "lmCreate" \in Label /\ "lmCommit" \in Label /\ "rlRead" \in Label
    /\ "rlKeepRead" \in Label /\ "rlScan" \in Label
    /\ "rlKeepScan" \in Label /\ "rlPersist" \in Label /\ "rlFail" \in Label
    /\ "rpList" \in Label /\ "coDirect" \in Label /\ "coBind" \in Label
    /\ "coAccept" \in Label /\ "coReread" \in Label /\ "coCommit" \in Label
    /\ "coFail" \in Label /\ "cfFail" \in Label /\ "cfBound" \in Label
    /\ "cfSweepBound" \in Label /\ "cfList" \in Label
    /\ "cfSweepList" \in Label /\ "cfAccept" \in Label
    /\ "cfCommit" \in Label /\ "dkSlot" \in Label /\ "dkBegin" \in Label
    /\ "dkBegun" \in Label /\ "dkResume" \in Label /\ "dkSend" \in Label
    /\ "dkWait" \in Label /\ "dkAbort" \in Label /\ "dkAbortCas" \in Label
    /\ "rclVerify" \in Label /\ "rclCommit" \in Label /\ "rclKeep" \in Label
    /\ "phRead" \in Label /\ "phVerify" \in Label /\ "phClaimed" \in Label
    /\ "phKeep" \in Label /\ "phRollback" \in Label /\ "rccCas" \in Label
    /\ "cmReveal" \in Label /\ "cmSubmit" \in Label /\ "cmCommit" \in Label
    /\ "rfGuard" \in Label /\ "efGuard" \in Label /\ "rfBegin" \in Label
    /\ "efBegin" \in Label /\ "rfSubmit" \in Label /\ "efSubmit" \in Label
    /\ "rfRollback" \in Label /\ "rfCommit" \in Label /\ "rkCas" \in Label
    /\ "rkNext" \in Label
  BY DEF Label

\* Moving a worker to a label with a well-typed copy keeps pc and snap typed.
LEMMA ProceedType ==
    ASSUME NEW w \in Workers, NEW l \in Label, NEW o \in Row,
           TypeOK, Proceed(w, l, o)
    PROVE  pc' \in [Workers -> Label] /\ snap' \in [Workers -> Row]
  BY DEF TypeOK, Proceed

\* The blank copy a returning handler leaves behind is well typed.
LEMMA NewOrderType == NewOrder \in Row
  BY EscrowAssumption, CantonAssumption DEF NewOrder, Row, Status

\* Ending a handler keeps pc and snap typed.
LEMMA ReturnType ==
    ASSUME NEW w \in Workers, TypeOK, Return(w)
    PROVE  pc' \in [Workers -> Label] /\ snap' \in [Workers -> Row]
  BY NewOrderType, ProceedType, LabelMembers DEF Return

\* Writing a row keeps the row and its timestamp typed.
LEMMA PutType ==
    ASSUME NEW o \in Row, TypeOK, Put(o)
    PROVE  row' \in Row /\ updatedAt' \in Nat
  BY DEF TypeOK, EscrowTypeOK, Put

\* The handlers' part of the state, after a step.
HandlersTyped ==
    /\ row' \in Row /\ updatedAt' \in Nat
    /\ pc' \in [Workers -> Label] /\ snap' \in [Workers -> Row]

\* putIfStatus keeps the row, its timestamp and the worker well typed.
LEMMA PutIfStatusType ==
    ASSUME NEW w \in Workers, NEW o \in Row, NEW expected, NEW next \in Label,
           TypeOK, PutIfStatus(w, o, expected, next)
    PROVE  HandlersTyped
  BY ProceedType, ReturnType, PutType
     DEF PutIfStatus, HandlersTyped, TypeOK, orderVars

\* A step that only moves the worker on, or ends its handler.
LEMMA MoveType ==
    ASSUME TypeOK, NEW w \in Workers, UNCHANGED orderVars,
           NEW l \in Label, NEW o \in Row, Proceed(w, l, o)
    PROVE  HandlersTyped
  BY ProceedType DEF HandlersTyped, TypeOK, orderVars

\* A step that only ends a handler.
LEMMA EndType ==
    ASSUME TypeOK, NEW w \in Workers, UNCHANGED orderVars, Return(w)
    PROVE  HandlersTyped
  BY ReturnType DEF HandlersTyped, TypeOK, orderVars

\* The copies the handlers build from a row are rows.
LEMMA RowWrites ==
    ASSUME NEW o \in Row
    PROVE  /\ \A s \in Status : [o EXCEPT !.status = s] \in Row
           /\ \A s \in Status, b \in BOOLEAN :
                [o EXCEPT !.status = s, !.evmFloatReserved = b] \in Row
           /\ \A b \in BOOLEAN : [o EXCEPT !.evmFloatReserved = b] \in Row
           /\ \A tx \in 0..MaxLocks : [o EXCEPT !.counterLockTx = tx] \in Row
           /\ \A m \in {"claim", "retake"} :
                /\ [o EXCEPT !.mainClaimTx = m] \in Row
                /\ [o EXCEPT !.mainClaimTx = m, !.evmFloatReserved = FALSE] \in Row
           /\ [o EXCEPT !.allocationCid = TRUE] \in Row
           /\ [o EXCEPT !.htlcCid = 1] \in Row
  <1>1. 1 \in 0..MaxWrap
    BY ReverseAssumption
  <1> USE DEF Row
  <1>2. /\ \A s \in Status : [o EXCEPT !.status = s] \in Row
        /\ \A b \in BOOLEAN : [o EXCEPT !.evmFloatReserved = b] \in Row
        /\ \A tx \in 0..MaxLocks : [o EXCEPT !.counterLockTx = tx] \in Row
    OBVIOUS
  <1>3. \A s \in Status, b \in BOOLEAN :
          [o EXCEPT !.status = s, !.evmFloatReserved = b] \in Row
    OBVIOUS
  <1>4. \A m \in {"claim", "retake"} :
          /\ [o EXCEPT !.mainClaimTx = m] \in Row
          /\ [o EXCEPT !.mainClaimTx = m, !.evmFloatReserved = FALSE] \in Row
    OBVIOUS
  <1>5. [o EXCEPT !.allocationCid = TRUE] \in Row /\ [o EXCEPT !.htlcCid = 1] \in Row
    BY <1>1
  <1> QED BY <1>2, <1>3, <1>4, <1>5, Zenon

\* The writes of the Loop custody handlers.
LEMMA CustodyWrites ==
    ASSUME NEW o \in Row
    PROVE  /\ [o EXCEPT !.counterTransferOfferCid = TRUE] \in Row
           /\ [o EXCEPT !.counterTransferUpdateId = TRUE] \in Row
           /\ [o EXCEPT !.counterTransferOfferCid = TRUE,
                        !.counterTransferUpdateId = TRUE] \in Row
           /\ [o EXCEPT !.status = "main_locked",
                        !.counterTransferUpdateId = TRUE] \in Row
           /\ [o EXCEPT !.status = "main_locked", !.counterTransferOfferCid = FALSE,
                        !.counterTransferUpdateId = TRUE] \in Row
           /\ \A b \in BOOLEAN :
                [o EXCEPT !.status = "failed", !.evmFloatReserved = FALSE,
                          !.counterTransferOfferCid = b /\ @] \in Row
  <1> USE DEF Row, Status
  <1>1. /\ [o EXCEPT !.counterTransferOfferCid = TRUE] \in Row
        /\ [o EXCEPT !.counterTransferUpdateId = TRUE] \in Row
        /\ [o EXCEPT !.counterTransferOfferCid = TRUE,
                     !.counterTransferUpdateId = TRUE] \in Row
    OBVIOUS
  <1>2. /\ [o EXCEPT !.status = "main_locked",
                     !.counterTransferUpdateId = TRUE] \in Row
        /\ [o EXCEPT !.status = "main_locked", !.counterTransferOfferCid = FALSE,
                     !.counterTransferUpdateId = TRUE] \in Row
    OBVIOUS
  <1>3. \A b \in BOOLEAN :
          [o EXCEPT !.status = "failed", !.evmFloatReserved = FALSE,
                    !.counterTransferOfferCid = b /\ @] \in Row
    OBVIOUS
  <1> QED BY <1>1, <1>2, <1>3, Zenon

\* The writes that record a lock gone, a reveal, a payment or a refund.
LEMMA SettlementWrites ==
    ASSUME NEW o \in Row
    PROVE  /\ [o EXCEPT !.evmFloatReserved = FALSE, !.status = "main_locked",
                        !.counterLockTx = 0] \in Row
           /\ [o EXCEPT !.status = "counter_claimed", !.revealedPreimage = TRUE] \in Row
           /\ [o EXCEPT !.status = "counter_claimed", !.revealedPreimage = TRUE,
                        !.mainClaimTx = "claim"] \in Row
           /\ [o EXCEPT !.status = "main_claimed", !.evmFloatReserved = FALSE,
                        !.counterClaimUpdateId = "claim"] \in Row
           /\ [o EXCEPT !.status = "refunded",
                        !.counterClaimUpdateId = "refund"] \in Row
  <1>1. 0 \in 0..MaxLocks
    BY EscrowAssumption
  <1> USE <1>1 DEF Row, Status
  <1>2. /\ [o EXCEPT !.evmFloatReserved = FALSE, !.status = "main_locked",
                     !.counterLockTx = 0] \in Row
        /\ [o EXCEPT !.status = "counter_claimed", !.revealedPreimage = TRUE] \in Row
    OBVIOUS
  <1>3. /\ [o EXCEPT !.status = "counter_claimed", !.revealedPreimage = TRUE,
                     !.mainClaimTx = "claim"] \in Row
        /\ [o EXCEPT !.status = "main_claimed", !.evmFloatReserved = FALSE,
                     !.counterClaimUpdateId = "claim"] \in Row
    OBVIOUS
  <1>4. [o EXCEPT !.status = "refunded", !.counterClaimUpdateId = "refund"] \in Row
    OBVIOUS
  <1> QED BY <1>2, <1>3, <1>4

\* The handler steps that end in a compare-and-set.
LEMMA CasStepsType ==
    ASSUME TypeOK, NEW w \in Workers,
           \/ LmPersist(w) \/ LmCommit(w) \/ RlCas(w) \/ CoDirect(w)
           \/ CoCommit(w) \/ CoFail(w) \/ CfCommit(w) \/ DkAbortCas(w)
           \/ RclCas(w) \/ PhCas(w) \/ RccCas(w) \/ CmCommit(w)
           \/ RfRollback(w) \/ RfCommit(w) \/ RkCas(w) \/ RkFail(w)
           \/ CancelCas(w)
    PROVE  HandlersTyped
  <1>1. snap[w] \in Row
    BY DEF TypeOK
  <1> USE <1>1, PutIfStatusType, LabelMembers DEF Status
  <1>2. CASE LmPersist(w)
    BY <1>2, RowWrites, Zenon DEF LmPersist
  <1>3. CASE LmCommit(w)
    BY <1>3, RowWrites, Zenon DEF LmCommit
  <1>4. CASE RlCas(w)
    BY <1>4, RowWrites, Zenon DEF RlCas
  <1>5. CASE CoDirect(w)
    BY <1>5, CustodyWrites, Zenon DEF CoDirect
  <1>6. CASE CoCommit(w)
    BY <1>6, RowWrites, Zenon DEF CoCommit
  <1>7. CASE CoFail(w)
    BY <1>7, CustodyWrites, Zenon DEF CoFail
  <1>8. CASE CfCommit(w)
    BY <1>8, RowWrites, Zenon DEF CfCommit
  <1>9. CASE DkAbortCas(w)
    BY <1>9, RowWrites, Zenon DEF DkAbortCas
  <1>10. CASE RclCas(w)
    <2>1. /\ [snap[w] EXCEPT !.status = "counter_locked",
                             !.evmFloatReserved = FALSE] \in Row
          /\ [snap[w] EXCEPT !.status = "counter_locking"] \in Row
      BY RowWrites, Zenon
    <2> QED BY <1>10, <2>1 DEF RclCas
  <1>11. CASE PhCas(w)
    BY <1>11, RowWrites, Zenon DEF PhCas
  <1>12. CASE RccCas(w)
    BY <1>12, SettlementWrites, Zenon DEF RccCas
  <1>13. CASE CmCommit(w)
    BY <1>13, SettlementWrites, Zenon DEF CmCommit
  <1>14. CASE RfRollback(w)
    BY <1>14, RowWrites, Zenon DEF RfRollback
  <1>15. CASE RfCommit(w)
    BY <1>15, SettlementWrites, Zenon DEF RfCommit
  <1>16. CASE RkCas(w)
    BY <1>16, RowWrites, Zenon DEF RkCas
  <1>17. CASE RkFail(w)
    BY <1>17, RowWrites, Zenon DEF RkFail
  <1>18. CASE CancelCas(w)
    BY <1>18, RowWrites, Zenon DEF CancelCas
  <1> QED BY <1>2, <1>3, <1>4, <1>5, <1>6, <1>7, <1>8, <1>9, <1>10, <1>11,
             <1>12, <1>13, <1>14, <1>15, <1>16, <1>17, <1>18

\* The handler steps that start, read, decide or give up.
LEMMA LocalStepsType ==
    ASSUME TypeOK, NEW w \in Workers,
           \/ LmStart(w) \/ RlRead(w) \/ RlScan(w) \/ RpStart(w) \/ RpList(w)
           \/ CoStart(w) \/ CoReread(w) \/ CfStart(w) \/ CfBound(w)
           \/ CfList(w) \/ DkStart(w) \/ DkSlot(w) \/ DkCheck(w) \/ DkSend(w)
           \/ DkAbort(w) \/ RclVerify(w) \/ PhStart(w) \/ PhRead(w)
           \/ RccStart(w) \/ CmStart(w) \/ RfStart(w) \/ RfGuard(w)
           \/ EfStart(w) \/ EfGuard(w) \/ RkStart(w) \/ CancelStart(w)
           \/ RsStart(w) \/ RsFresh(w) \/ LmSweep(w) \/ PhVerify(w)
           \/ \E tx \in 1..lockTxs : RclStart(w, tx)
    PROVE  HandlersTyped
  <1>1. snap[w] \in Row /\ row \in Row /\ lockTxs \in 0..MaxLocks /\ NewOrder \in Row
    BY NewOrderType DEF TypeOK, EscrowTypeOK
  <1> USE <1>1, MoveType, EndType, LabelMembers
  <1>2. CASE LmStart(w)
    BY <1>2 DEF LmStart, LockBranch
  <1>3. CASE RlRead(w)
    BY <1>3 DEF RlRead
  <1>4. CASE RlScan(w)
    <2>1. /\ [snap[w] EXCEPT !.status = "failed", !.evmFloatReserved = FALSE] \in Row
          /\ [snap[w] EXCEPT !.allocationCid = TRUE] \in Row
      BY RowWrites, Zenon DEF Status
    <2> QED BY <1>4, <2>1 DEF RlScan
  <1>5. CASE RpStart(w)
    BY <1>5 DEF RpStart
  <1>6. CASE RpList(w)
    BY <1>6, RowWrites, Zenon DEF RpList, Status
  <1>7. CASE CoStart(w)
    BY <1>7 DEF CoStart
  <1>8. CASE CoReread(w)
    BY <1>8, CustodyWrites, Zenon DEF CoReread
  <1>9. CASE CfStart(w)
    BY <1>9 DEF CfStart
  <1>10. CASE CfBound(w)
    BY <1>10, CustodyWrites, Zenon DEF CfBound
  <1>11. CASE CfList(w)
    BY <1>11 DEF CfList
  <1>12. CASE DkStart(w)
    BY <1>12 DEF DkStart
  <1>13. CASE DkSlot(w)
    BY <1>13 DEF DkSlot
  <1>14. CASE DkCheck(w)
    BY <1>14 DEF DkCheck
  <1>15. CASE DkSend(w)
    BY <1>15 DEF DkSend
  <1>16. CASE DkAbort(w)
    BY <1>16 DEF DkAbort
  <1>17. CASE RclVerify(w)
    BY <1>17 DEF RclVerify
  <1>18. CASE PhStart(w)
    BY <1>18 DEF PhStart
  <1>19. CASE PhRead(w)
    BY <1>19, RowWrites, Zenon DEF PhRead, Status
  <1>20. CASE RccStart(w)
    BY <1>20 DEF RccStart
  <1>21. CASE CmStart(w)
    BY <1>21, RowWrites, Zenon DEF CmStart, CmNext, Status
  <1>22. CASE RfStart(w)
    BY <1>22 DEF RfStart
  <1>23. CASE RfGuard(w)
    BY <1>23 DEF RfGuard
  <1>24. CASE EfStart(w)
    BY <1>24 DEF EfStart
  <1>25. CASE EfGuard(w)
    BY <1>25 DEF EfGuard
  <1>26. CASE RkStart(w)
    BY <1>26 DEF RkStart
  <1>27. CASE CancelStart(w)
    BY <1>27 DEF CancelStart
  <1>28. CASE RsStart(w)
    BY <1>28 DEF RsStart
  <1>29. CASE RsFresh(w)
    BY <1>29 DEF RsFresh, LockBranch
  <1>30. CASE LmSweep(w)
    BY <1>30 DEF LmSweep, LockBranch
  <1>31. CASE PhVerify(w)
    <2> DEFINE o == [snap[w] EXCEPT !.evmFloatReserved = FALSE]
    <2>1. o \in Row
      BY RowWrites, Zenon
    <2>2. [o EXCEPT !.mainClaimTx = "retake"] \in Row
      BY <2>1, RowWrites, Zenon
    <2>3. [o EXCEPT !.status = "main_locked", !.counterLockTx = 0] \in Row
      BY SettlementWrites, Zenon
    <2> HIDE DEF o
    <2> QED BY <1>31, <2>1, <2>2, <2>3 DEF PhVerify, o
  <1>32. CASE \E tx \in 1..lockTxs : RclStart(w, tx)
    <2>1. PICK tx \in 1..lockTxs : RclStart(w, tx)
      BY <1>32
    <2>2. tx \in 0..MaxLocks
      BY <2>1, EscrowAssumption
    <2>3. [row EXCEPT !.counterLockTx = tx] \in Row
      BY <2>2, RowWrites, Zenon
    <2> QED BY <2>1, <2>3 DEF RclStart
  <1> QED BY <1>2, <1>3, <1>4, <1>5, <1>6, <1>7, <1>8, <1>9, <1>10, <1>11,
             <1>12, <1>13, <1>14, <1>15, <1>16, <1>17, <1>18, <1>19, <1>20,
             <1>21, <1>22, <1>23, <1>24, <1>25, <1>26, <1>27, <1>28, <1>29,
             <1>30, <1>31, <1>32

\* The steps that write the row and go on, and those that move a contract.
LEMMA OtherStepsType ==
    ASSUME TypeOK, NEW w \in Workers,
           \/ RsReserve(w) \/ CoBind(w) \/ DkBegin(w) \/ CmReveal(w)
           \/ RfBegin(w) \/ LmAlloc(w) \/ LmCreate(w) \/ CoAccept(w)
           \/ CfAccept(w) \/ DkWait(w) \/ CmSubmit(w) \/ RfSubmit(w)
           \/ EfSubmit(w)
    PROVE  HandlersTyped
  <1>1. snap[w] \in Row /\ row \in Row /\ updatedAt \in Nat /\ NewOrder \in Row
    BY NewOrderType DEF TypeOK
  <1> USE <1>1, LabelMembers
  <1>2. CASE RsReserve(w)
    <2>1. [row EXCEPT !.status = "main_locking", !.evmFloatReserved = TRUE] \in Row
      BY RowWrites, Zenon DEF Status
    <2>2. row' \in Row /\ updatedAt' \in Nat
      BY <1>2, <2>1, PutType DEF RsReserve, orderVars
    <2>3. pc' \in [Workers -> Label] /\ snap' \in [Workers -> Row]
      BY <1>2, ProceedType, ReturnType DEF RsReserve
    <2> QED BY <2>2, <2>3 DEF HandlersTyped
  <1>3. CASE CoBind(w)
    <2>1. [snap[w] EXCEPT !.counterTransferOfferCid = TRUE] \in Row
      BY CustodyWrites, Zenon
    <2>2. row' \in Row /\ updatedAt' \in Nat
      BY <1>3, <2>1, PutType DEF CoBind, orderVars
    <2>3. pc' \in [Workers -> Label] /\ snap' \in [Workers -> Row]
      BY <1>3, <2>1, ProceedType, ReturnType DEF CoBind
    <2> QED BY <2>2, <2>3 DEF HandlersTyped
  <1>4. CASE DkBegin(w)
    <2>1. [row EXCEPT !.status = "counter_locking", !.evmFloatReserved = TRUE] \in Row
      BY RowWrites, Zenon DEF Status
    <2>2. row' \in Row /\ updatedAt' \in Nat
      BY <1>4, <2>1, PutType DEF DkBegin, orderVars
    <2>3. pc' \in [Workers -> Label] /\ snap' \in [Workers -> Row]
      BY <1>4, ProceedType, ReturnType DEF DkBegin
    <2> QED BY <2>2, <2>3 DEF HandlersTyped
  <1>5. CASE CmReveal(w)
    <2>1. [snap[w] EXCEPT !.status = "counter_claimed", !.revealedPreimage = TRUE] \in Row
      BY SettlementWrites, Zenon
    <2>2. row' \in Row /\ updatedAt' \in Nat
      BY <1>5, <2>1, PutType DEF CmReveal, orderVars
    <2>3. pc' \in [Workers -> Label] /\ snap' \in [Workers -> Row]
      BY <1>5, <2>1, ProceedType, ReturnType DEF CmReveal
    <2> QED BY <2>2, <2>3 DEF HandlersTyped
  <1>6. CASE RfBegin(w)
    <2> DEFINE o == IF pc[w] = "rfBegin" THEN [snap[w] EXCEPT !.evmFloatReserved = FALSE]
                                         ELSE snap[w]
    <2>1. o \in Row
      BY RowWrites, Zenon
    <2>2. [o EXCEPT !.status = "refunding"] \in Row
      BY <2>1, RowWrites, Zenon DEF Status
    <2>3. /\ UNCHANGED orderVars \/ Put([o EXCEPT !.status = "refunding"])
          /\ Return(w) \/ Proceed(w, "rfSubmit", o) \/ Proceed(w, "efSubmit", o)
      BY <1>6 DEF RfBegin
    <2> HIDE DEF o
    <2>4. row' \in Row /\ updatedAt' \in Nat
      BY <2>2, <2>3, PutType DEF orderVars
    <2>5. pc' \in [Workers -> Label] /\ snap' \in [Workers -> Row]
      BY <2>1, <2>3, ProceedType, ReturnType
    <2> QED BY <2>4, <2>5 DEF HandlersTyped
  <1>7. CASE LmAlloc(w)
    <2>1. [snap[w] EXCEPT !.allocationCid = TRUE] \in Row
      BY RowWrites, Zenon
    <2> QED BY <1>7, <2>1, MoveType, EndType DEF LmAlloc, AllocThrows,
       AllocRejected
  <1>8. CASE LmCreate(w)
    <2>1. [snap[w] EXCEPT !.htlcCid = 1] \in Row
      BY RowWrites, Zenon
    <2> QED BY <1>8, <2>1, MoveType, EndType DEF LmCreate
  <1>9. CASE CoAccept(w)
    BY <1>9, MoveType, EndType DEF CoAccept
  <1>10. CASE CfAccept(w)
    <2>1. [snap[w] EXCEPT !.counterTransferOfferCid = TRUE,
                          !.counterTransferUpdateId = TRUE] \in Row
      BY CustodyWrites, Zenon
    <2> QED BY <1>10, <2>1, MoveType, EndType DEF CfAccept
  <1>11. CASE DkWait(w)
    BY <1>11, MoveType, EndType DEF DkWait
  <1>12. CASE CmSubmit(w)
    BY <1>12, MoveType, EndType DEF CmSubmit
  <1>13. CASE RfSubmit(w)
    BY <1>13, MoveType, EndType DEF RfSubmit, RfRejected
  <1>14. CASE EfSubmit(w)
    BY <1>14, MoveType, EndType DEF EfSubmit
  <1> QED BY <1>2, <1>3, <1>4, <1>5, <1>6, <1>7, <1>8, <1>9, <1>10, <1>11,
     <1>12, <1>13, <1>14

\* The escrow and the chain keep their own types.
LEMMA EscrowStepType ==
    ASSUME TypeOK, [Next]_vars
    PROVE  EscrowTypeOK' /\ pendingLocks' \in Nat /\ claimedTx' \in 0..MaxLocks
  <1> USE EscrowAssumption, OrderAssumption
         DEF TypeOK, EscrowTypeOK, Slot, Emptied, EventName
  <1>1. CASE UserClaim
    BY <1>1 DEF UserClaim, Claim
  <1>2. CASE SolverRetake
    BY <1>2 DEF SolverRetake, Retake
  <1>3. CASE Chain
    <2>1. CASE Tick
      BY <1>3, <2>1 DEF Chain, Tick, escrowVars
    <2>2. CASE Finalize
      <3>1. slot.tx \in 1..MaxLocks
        BY <2>2 DEF Finalize
      <3> QED BY <1>3, <2>2, <3>1 DEF Chain, Finalize
    <2> QED BY <1>3, <2>1, <2>2 DEF Chain
  <1>4. ASSUME SolverLock PROVE EscrowTypeOK'
    BY <1>4 DEF SolverLock, Lock
  <1>5. CASE PendingLands
    <2>1. pendingLocks' \in Nat /\ claimedTx' \in 0..MaxLocks
      BY <1>5 DEF PendingLands
    <2>2. CASE UNCHANGED chainVars
      BY <2>1, <2>2 DEF chainVars, escrowVars
    <2> QED BY <1>4, <1>5, <2>1, <2>2 DEF PendingLands
  <1>6. ASSUME NEW w \in Workers, DkWait(w)
        PROVE  EscrowTypeOK' /\ pendingLocks' \in Nat /\ claimedTx' \in 0..MaxLocks
    <2>1. pendingLocks' \in Nat /\ claimedTx' \in 0..MaxLocks
      BY <1>6 DEF DkWait
    <2>2. CASE UNCHANGED chainVars
      BY <2>1, <2>2 DEF chainVars, escrowVars
    <2> QED BY <1>4, <1>6, <2>1, <2>2 DEF DkWait
  <1>7. CASE UNCHANGED evmVars
    BY <1>7 DEF evmVars, chainVars, escrowVars
  <1> QED BY <1>1, <1>2, <1>3, <1>5, <1>6, <1>7, EscrowFrame

\* So do the Canton contracts, the custody, and the bound on lost calls.
LEMMA CantonStepType ==
    ASSUME TypeOK, [Next]_vars
    PROVE  CantonTypeOK' /\ CustodyTypeOK'
  <1>1. CantonTypeOK'
    <2> USE DEF TypeOK, CantonTypeOK, AllocState, HtlcState, Allocate,
                CreateHtlcLock, HtlcClaim, HtlcRefund, cantonVars
    <2>1. CASE UNCHANGED cantonVars
      BY <2>1
    <2>2. ASSUME NEW w \in Workers, LmAlloc(w) \/ LmCreate(w) PROVE CantonTypeOK'
      BY <2>2 DEF LmAlloc, LmCreate
    <2>3. ASSUME NEW w \in Workers, CmSubmit(w) PROVE CantonTypeOK'
      BY <2>3 DEF CmSubmit
    <2>4. ASSUME NEW w \in Workers, RfSubmit(w) \/ EfSubmit(w) PROVE CantonTypeOK'
      BY <2>4 DEF RfSubmit, EfSubmit, RfRejected, RefundCommits, mainVars
    <2> QED BY <2>1, <2>2, <2>3, <2>4, CantonFrame
  <1>2. CustodyTypeOK'
    BY CustodyFrame, Zenon DEF TypeOK, CustodyTypeOK, CustodyState,
       UserTransfer, Offer, OfferLapses, Lapse, CoAccept, CfAccept,
       AcceptTransfer, RfSubmit, EfSubmit, RfRejected, RefundCommits,
       ReturnTransfer, mainVars
  <1> QED BY <1>1, <1>2

\* Lost calls and kills stay within their bound.
LEMMA FailsType ==
    ASSUME TypeOK, [Next]_vars
    PROVE  fails' \in 0..MaxFails
  <1> USE OrderAssumption DEF TypeOK, CallLost
  <1>1. fails' = fails \/ CallLost
    <2>1. CASE UNCHANGED vars \/ Environment \/ \E w \in Workers : Fail(w)
      BY <2>1 DEF vars, Environment, Accept, UserTransfer, OfferLapses,
                  UserClaim, SolverRetake, PendingLands, Chain, Fail
    <2>2. ASSUME NEW w \in Workers, StartRequest(w) PROVE fails' = fails
      BY <2>2 DEF StartRequest, RsStart, LmStart, LmSweep, RpStart, CoStart,
         CfStart, DkStart, PhStart, RccStart, CmStart, RfStart, EfStart,
         RkStart, RclStart
    <2>3. ASSUME NEW w \in Workers, Cancel(w) PROVE fails' = fails
      BY <2>3 DEF Cancel, CancelStart, CancelCas
    <2>4. ASSUME NEW w \in Workers, Resume(w) PROVE fails' = fails \/ CallLost
      BY <2>4 DEF Resume, RfRejected, AllocRejected, RefundCommits,
                  RsReserve, RsFresh, LmAlloc, LmPersist, LmCreate, LmCommit,
                  RlRead, RlScan, RlCas, RpList, CoDirect, CoBind, CoAccept,
                  CoReread, CoCommit, CoFail, CfBound, CfList, CfAccept,
                  CfCommit, DkSlot, DkBegin, DkCheck, DkSend, DkWait, DkAbort,
                  DkAbortCas, RclVerify, RclCas, PhRead, PhVerify, PhCas,
                  RccCas, CmReveal, CmSubmit, CmCommit, RfGuard, EfGuard,
                  RfBegin, RfSubmit, EfSubmit, RfRollback, RfCommit, RkCas,
                  RkFail
    <2> QED BY <2>1, <2>2, <2>3, <2>4 DEF Next
  <1> QED BY <1>1

\* Every step keeps the row and the workers' copies well typed.
LEMMA HandlersStayTyped ==
    ASSUME TypeOK, [Next]_vars
    PROVE  HandlersTyped
  <1>1. CASE UNCHANGED <<orderVars, pc, snap>>
    BY <1>1 DEF HandlersTyped, TypeOK, orderVars
  <1>2. CASE UNCHANGED vars
    BY <1>1, <1>2 DEF vars, orderVars
  <1>3. CASE Accept
    <2>1. [row EXCEPT !.status = "accepted"] \in Row
      BY RowWrites, Zenon DEF TypeOK, Status
    <2> QED BY <1>3, <2>1, PutType DEF Accept, HandlersTyped, TypeOK
  <1>4. CASE UserTransfer \/ OfferLapses \/ UserClaim \/ SolverRetake \/ PendingLands
             \/ Chain
    BY <1>1, <1>4 DEF UserTransfer, OfferLapses, UserClaim, SolverRetake,
                      PendingLands, Chain
  <1>5. ASSUME NEW w \in Workers, Fail(w) PROVE HandlersTyped
    BY <1>5, MoveType, EndType DEF Fail
  <1>6. ASSUME NEW w \in Workers, Cancel(w) \/ StartRequest(w) \/ Resume(w)
        PROVE  HandlersTyped
    BY <1>6, CasStepsType, LocalStepsType, OtherStepsType DEF Cancel,
       StartRequest, Resume
  <1> QED BY <1>2, <1>3, <1>4, <1>5, <1>6 DEF Next, Environment

\* Type correctness of the whole specification: every handler, sweep, wallet
\* step and contract call keeps the row, the copies and the ledgers well formed.
THEOREM ReverseTypeCorrect == Spec => []TypeOK
  <1>1. Init => TypeOK
    <2> SUFFICES ASSUME Init PROVE TypeOK
      OBVIOUS
    <2>1. EscrowTypeOK /\ pendingLocks \in Nat /\ claimedTx \in 0..MaxLocks
      BY EscrowAssumption DEF Init, EscrowInit, EscrowTypeOK, Slot
    <2>2. CantonTypeOK /\ CustodyTypeOK
      BY DEF Init, CantonInit, CantonTypeOK, AllocState, HtlcState,
         CustodyInit, CustodyTypeOK, CustodyState
    <2>3. /\ row \in Row /\ updatedAt \in Nat /\ fails \in 0..MaxFails
          /\ pc \in [Workers -> Label] /\ snap \in [Workers -> Row]
      BY NewOrderType, OrderAssumption DEF Init, OrderInit, Label
    <2> QED BY <2>1, <2>2, <2>3 DEF TypeOK
  <1>2. TypeOK /\ [Next]_vars => TypeOK'
    BY EscrowStepType, CantonStepType, FailsType, HandlersStayTyped
       DEF TypeOK, HandlersTyped
  <1> QED BY <1>1, <1>2, PTL DEF Spec

-----------------------------------------------------------------------------
(* The escrow (EscrowInv): the slot holds the daemon's newest lock, and the *)
(* log and claimedTx tell what became of the locks before it.              *)

\* Only a lock fills the slot, and only with the newest transaction.
LEMMA EscrowInductive ==
    ASSUME TypeOK, EscrowInv, [Next]_vars
    PROVE  EscrowInv'
  <1> USE OrderAssumption, EscrowAssumption
      DEF TypeOK, EscrowTypeOK, EscrowInv, Slot, Emptied
  <1>1. CASE UserClaim
    BY <1>1 DEF UserClaim, Claim
  <1>2. CASE SolverRetake
    BY <1>2 DEF SolverRetake, Retake
  <1>3. ASSUME SolverLock, claimedTx' = claimedTx PROVE EscrowInv'
    BY <1>3 DEF SolverLock, Lock
  <1>4. ASSUME UNCHANGED <<slot, events, lockTxs, claimedTx>> PROVE EscrowInv'
    BY <1>4
  <1>5. CASE Chain
    BY <1>4, <1>5 DEF Chain, Tick, Finalize, escrowVars
  <1>6. CASE PendingLands
    BY <1>3, <1>4, <1>6 DEF PendingLands, chainVars, escrowVars
  <1>7. ASSUME NEW w \in Workers, DkWait(w) PROVE EscrowInv'
    BY <1>3, <1>4, <1>7 DEF DkWait, chainVars, escrowVars
  <1>8. CASE UNCHANGED evmVars
    BY <1>4, <1>8 DEF evmVars, chainVars, escrowVars
  <1> QED BY <1>1, <1>2, <1>5, <1>6, <1>7, <1>8, EscrowFrame

\* The log agrees with the escrow's slot and with the lock transactions.
THEOREM EscrowInvariant == Spec => []EscrowInv
  <1>1. Init => EscrowInv
    BY DEF Init, EscrowInit, EscrowInv
  <1>2. TypeOK /\ EscrowInv /\ [Next]_vars => EscrowInv'
    BY EscrowInductive
  <1> QED BY <1>1, <1>2, ReverseTypeCorrect, PTL DEF Spec

-----------------------------------------------------------------------------
(* The row tells the truth (RowEvidenceTrue), and the solver takes the CBTC *)
(* last (CbtcAfterWbtc).  The argument: what a row can say are facts that, *)
(* once so on a ledger, stay so; every copy was true when it was read, so  *)
(* it still is when it is written back; and what a handler adds to its     *)
(* copy it has seen, or has the ledger's answer for.                       *)

\* Ledger facts are never taken back.
Grows(g, h) ==
    /\ g.events \subseteq h.events
    /\ g.mined \subseteq h.mined
    /\ g.final \subseteq h.final
    /\ g.alloc # "none" => h.alloc # "none"
    /\ g.alloc \in {"executed", "refunded"} => h.alloc = g.alloc
    /\ \A i \in 1..MaxWrap : g.htlc[i] # "none" => h.htlc[i] # "none"
    /\ g.custody \in {"held", "direct", "returned"}
         => h.custody \in {"held", "direct", "returned"}
    /\ g.custody = "returned" => h.custody = "returned"

\* No step of the user, the solver or the chain takes a ledger fact back.
LEMMA LedgersOnlyGrow ==
    ASSUME TypeOK, [Next]_vars
    PROVE  Grows(ledgers, ledgers')
  <1>1. events \subseteq events' /\ finalTxs \subseteq finalTxs'
    BY EscrowFrame DEF UserClaim, SolverRetake, Chain, PendingLands, DkWait,
       SolverLock, Lock, Claim, Retake, Tick, Finalize, evmVars, chainVars,
       escrowVars
  <1>2. /\ alloc # "none" => alloc' # "none"
        /\ alloc \in {"executed", "refunded"} => alloc' = alloc
    BY CantonFrame DEF LmAlloc, AllocRejected, LmCreate, CmSubmit, RfSubmit,
       EfSubmit, RfRejected, RefundCommits, Allocate, CreateHtlcLock,
       HtlcClaim, HtlcRefund, mainVars, cantonVars
  <1>3. \A i \in 1..MaxWrap : htlc[i] # "none" => htlc'[i] # "none"
    <2> USE DEF TypeOK, CantonTypeOK, HtlcState, Allocate, CreateHtlcLock,
                HtlcClaim, HtlcRefund, cantonVars
    <2>1. ASSUME NEW w \in Workers, LmAlloc(w) \/ LmCreate(w)
          PROVE  \A i \in 1..MaxWrap : htlc[i] # "none" => htlc'[i] # "none"
      BY <2>1 DEF LmAlloc, LmCreate
    <2>2. ASSUME NEW w \in Workers, CmSubmit(w)
          PROVE  \A i \in 1..MaxWrap : htlc[i] # "none" => htlc'[i] # "none"
      BY <2>2 DEF CmSubmit
    <2>3. ASSUME NEW w \in Workers, RfSubmit(w) \/ EfSubmit(w)
          PROVE  \A i \in 1..MaxWrap : htlc[i] # "none" => htlc'[i] # "none"
      BY <2>3 DEF RfSubmit, EfSubmit, RfRejected, RefundCommits, mainVars
    <2> QED BY <2>1, <2>2, <2>3, CantonFrame
  <1>4. /\ custody \in {"held", "direct", "returned"}
             => custody' \in {"held", "direct", "returned"}
        /\ custody = "returned" => custody' = "returned"
    BY CustodyFrame, Zenon DEF UserTransfer, Offer, OfferLapses, Lapse,
       CoAccept, CfAccept, AcceptTransfer, RfSubmit, EfSubmit, RfRejected,
       RefundCommits, ReturnTransfer, Held, mainVars
  <1>5. 1..lockTxs \subseteq 1..lockTxs'
    <2>1. lockTxs \in Nat
      BY EscrowAssumption DEF TypeOK, EscrowTypeOK
    <2>2. lockTxs' = lockTxs \/ lockTxs' = lockTxs + 1
      BY EscrowFrame DEF UserClaim, SolverRetake, Chain, PendingLands, DkWait,
         SolverLock, Lock, Claim, Retake, Tick, Finalize, evmVars, chainVars,
         escrowVars
    <2> QED BY <2>1, <2>2
  <1> QED BY <1>1, <1>2, <1>3, <1>4, <1>5 DEF Grows, ledgers

\* Hence what was true of a copy stays true of it.
LEMMA EvidenceKept ==
    ASSUME NEW g, NEW h, Grows(g, h), NEW o \in Row, NEW l
    PROVE  /\ SetAside(g) => SetAside(h)
           /\ Evidence(o, g) => Evidence(o, h)
           /\ LabelEvidence(l, o, g) => LabelEvidence(l, o, h)
  <1>1. SetAside(g) => SetAside(h)
    BY DEF Grows, SetAside
  <1>2. o.htlcCid # 0 => o.htlcCid \in 1..MaxWrap
    BY CantonAssumption DEF Row
  <1>3. Evidence(o, g) => Evidence(o, h)
    BY <1>1, <1>2 DEF Grows, Evidence
  <1>4. LabelEvidence(l, o, g) => LabelEvidence(l, o, h)
    BY <1>1 DEF Grows, LabelEvidence
  <1> QED BY <1>1, <1>3, <1>4

\* The handlers' part of EvidenceInv, after a step.
HandlersTruthful ==
    /\ Evidence(row', ledgers')
    /\ \A v \in Workers : /\ Evidence(snap'[v], ledgers')
                          /\ LabelEvidence(pc'[v], snap'[v], ledgers')

\* What holds of the row and of a worker's copy when a step of it ends.
LEMMA CopiesKept ==
    ASSUME TypeOK, EvidenceInv, [Next]_vars
    PROVE  /\ row \in Row /\ Evidence(row, ledgers')
           /\ \A v \in Workers : /\ snap[v] \in Row
                                 /\ Evidence(snap[v], ledgers')
                                 /\ LabelEvidence(pc[v], snap[v], ledgers')
  <1>1. row \in Row /\ \A v \in Workers : snap[v] \in Row
    BY DEF TypeOK
  <1> QED BY <1>1, LedgersOnlyGrow, EvidenceKept DEF EvidenceInv,
     RowEvidenceTrue

\* A worker that moves on with a truthful copy, past a point it may be at.
LEMMA ProceedTrue ==
    ASSUME TypeOK, EvidenceInv, [Next]_vars, NEW w \in Workers, NEW l, NEW o,
           Proceed(w, l, o), Evidence(row', ledgers'), Evidence(o, ledgers'),
           LabelEvidence(l, o, ledgers')
    PROVE  HandlersTruthful
  <1> SUFFICES ASSUME NEW v \in Workers
               PROVE  /\ Evidence(snap'[v], ledgers')
                      /\ LabelEvidence(pc'[v], snap'[v], ledgers')
    BY DEF HandlersTruthful
  <1>1. CASE v = w
    BY <1>1 DEF Proceed, TypeOK
  <1>2. CASE v # w
    <2>1. snap'[v] = snap[v] /\ pc'[v] = pc[v]
      BY <1>2 DEF Proceed, TypeOK
    <2> QED BY <2>1, CopiesKept
  <1> QED BY <1>1, <1>2

\* A worker that ends its handler.
LEMMA ReturnTrue ==
    ASSUME TypeOK, EvidenceInv, [Next]_vars, NEW w \in Workers, Return(w),
           Evidence(row', ledgers')
    PROVE  HandlersTruthful
  <1>1. Evidence(NewOrder, ledgers') /\ LabelEvidence("idle", NewOrder, ledgers')
    BY DEF Evidence, LabelEvidence, NewOrder
  <1> QED BY <1>1, ProceedTrue DEF Return

\* Workers that stay where they are.
LEMMA StayTrue ==
    ASSUME TypeOK, EvidenceInv, [Next]_vars, UNCHANGED <<pc, snap>>,
           Evidence(row', ledgers')
    PROVE  HandlersTruthful
  BY CopiesKept DEF HandlersTruthful

\* putIfStatus with a truthful copy.
LEMMA PutIfStatusTrue ==
    ASSUME TypeOK, EvidenceInv, [Next]_vars, NEW w \in Workers, NEW o,
           NEW expected, NEW next, PutIfStatus(w, o, expected, next),
           Evidence(o, ledgers'), LabelEvidence(next, o, ledgers')
    PROVE  HandlersTruthful
  <1>1. CASE row.status = expected
    BY <1>1, ProceedTrue, ReturnTrue DEF PutIfStatus, Put
  <1>2. CASE row.status # expected
    <2>1. Evidence(row', ledgers')
      BY <1>2, CopiesKept DEF PutIfStatus, orderVars
    <2> QED BY <1>2, <2>1, ReturnTrue DEF PutIfStatus
  <1> QED BY <1>1, <1>2

\* The places before which a worker needs to know nothing.
LEMMA FreeLabels ==
    ASSUME NEW o, NEW g
    PROVE  \A l \in {"idle", "cancelCas", "rsReserve", "rsFresh", "rlRead",
                     "rlKeepRead", "rlScan", "rlKeepScan", "rlPersist", "rlFail",
                     "rpList", "coBind", "coAccept", "coCommit", "coFail",
                     "cfFail", "cfBound", "cfSweepBound", "cfList",
                     "cfSweepList", "cfAccept", "dkAbort", "phClaimed", "phKeep",
                     "phRollback", "rfGuard", "efGuard", "rfBegin", "efBegin",
                     "rfSubmit", "efSubmit", "rfRollback", "rkNext"} :
             LabelEvidence(l, o, g)
  BY DEF LabelEvidence

\* A change of status to one that says nothing, with or without the float.
LEMMA QuietWrites ==
    ASSUME NEW o \in Row, NEW g, Evidence(o, g)
    PROVE  /\ \A s \in {"open", "accepted", "main_locking", "refunding",
                        "cancelled", "failed"} :
                /\ Evidence([o EXCEPT !.status = s], g)
                /\ \A b : Evidence([o EXCEPT !.status = s,
                                             !.evmFloatReserved = b], g)
           /\ \A b : Evidence([o EXCEPT !.evmFloatReserved = b], g)
           /\ \A b : Evidence([o EXCEPT !.counterTransferOfferCid = b], g)
           /\ \A b : Evidence([o EXCEPT !.status = "failed",
                                        !.evmFloatReserved = FALSE,
                                        !.counterTransferOfferCid = b /\ @], g)
  BY DEF Evidence, Row

\* A change of status to one that says that the CBTC is set aside.
LEMMA LockedWrites ==
    ASSUME NEW o \in Row, NEW g, Evidence(o, g), SetAside(g)
    PROVE  \A s \in {"main_locked", "counter_locking"} :
             /\ Evidence([o EXCEPT !.status = s], g)
             /\ \A b : Evidence([o EXCEPT !.status = s, !.evmFloatReserved = b], g)
  BY DEF Evidence, Row


\* Each direction keeps to its own kind of CBTC leg.
LEMMA OneKindOfLeg ==
    ASSUME TypeOK, EvidenceInv, [Next]_vars
    PROVE  /\ alloc' # "none" => ~Loop
           /\ custody' # "none" => Loop
  <1>1. alloc' # "none" => ~Loop
    BY CantonFrame DEF EvidenceInv, LabelEvidence, LmAlloc, AllocRejected,
       LmCreate, CmSubmit, RfSubmit, EfSubmit, RfRejected, RefundCommits,
       Allocate, CreateHtlcLock, HtlcClaim, HtlcRefund, mainVars, cantonVars
  <1>2. custody' # "none" => Loop
    BY CustodyFrame, Zenon DEF EvidenceInv, UserTransfer, OfferLapses, Lapse,
       CoAccept, CfAccept, AcceptTransfer, RfSubmit, EfSubmit, RfRejected,
       RefundCommits, ReturnTransfer, Held, mainVars
  <1> QED BY <1>1, <1>2

\* What a handler sees on a ledger is still so when its step ends.
LEMMA FactsStay ==
    ASSUME TypeOK, EscrowInv, EvidenceInv, [Next]_vars
    PROVE  /\ alloc # "none" => ledgers'.alloc # "none" /\ SetAside(ledgers')
           /\ alloc \in {"executed", "refunded"} => ledgers'.alloc = alloc
           /\ custody \in {"held", "direct", "returned"}
                => /\ ledgers'.custody \in {"held", "direct", "returned"}
                   /\ SetAside(ledgers')
           /\ custody = "returned" => ledgers'.custody = "returned"
           /\ "Claimed" \in events
                => "Claimed" \in ledgers'.events /\ SetAside(ledgers')
           /\ claimedTx # 0 => "Claimed" \in ledgers'.events /\ SetAside(ledgers')
           /\ "Retaken" \in events => "Retaken" \in ledgers'.events
           /\ \A tx \in finalTxs : tx \in ledgers'.final
           /\ htlc[1] # "none" => ledgers'.htlc[1] # "none"
           /\ SetAside(ledgers) => SetAside(ledgers')
  <1>1. Grows(ledgers, ledgers') /\ (SetAside(ledgers) => SetAside(ledgers'))
    BY LedgersOnlyGrow, EvidenceKept, NewOrderType
  <1>2. /\ alloc # "none" => SetAside(ledgers)
        /\ custody \in {"held", "direct", "returned"} => SetAside(ledgers)
        /\ "Claimed" \in events => SetAside(ledgers)
        /\ claimedTx # 0 <=> "Claimed" \in events
    BY DEF EvidenceInv, EscrowInv, SetAside, ledgers
  <1>3. 1 \in 1..MaxWrap
    BY ReverseAssumption
  <1> QED BY <1>1, <1>2, <1>3 DEF Grows, ledgers

\* What the copies and labels imply, in the terms of SetAside.
LEMMA EvidenceOfLeg ==
    ASSUME TypeOK, EscrowInv, EvidenceInv, [Next]_vars
    PROVE  /\ ledgers'.alloc # "none" => SetAside(ledgers')
           /\ ledgers'.custody \in {"held", "direct", "returned"} => SetAside(ledgers')
  BY OneKindOfLeg, FactsStay DEF SetAside, ledgers

\* A worker that moves on, or ends its handler, without writing the row.
LEMMA MoveTrue ==
    ASSUME TypeOK, EvidenceInv, [Next]_vars, NEW w \in Workers, NEW l, NEW o,
           UNCHANGED orderVars, Proceed(w, l, o), Evidence(o, ledgers'),
           LabelEvidence(l, o, ledgers')
    PROVE  HandlersTruthful
  BY CopiesKept, ProceedTrue DEF orderVars

\* A worker that ends its handler without writing the row.
LEMMA EndTrue ==
    ASSUME TypeOK, EvidenceInv, [Next]_vars, NEW w \in Workers,
           UNCHANGED orderVars, Return(w)
    PROVE  HandlersTruthful
  BY CopiesKept, ReturnTrue DEF orderVars

\* Nothing is claimed of a blank copy, or of a row copied as it is.
LEMMA CopyTrue ==
    ASSUME TypeOK, EvidenceInv, [Next]_vars, NEW w \in Workers
    PROVE  /\ row \in Row /\ snap[w] \in Row
           /\ Evidence(row, ledgers') /\ Evidence(snap[w], ledgers')
           /\ Evidence(NewOrder, ledgers')
           /\ LabelEvidence(pc[w], snap[w], ledgers')
  BY CopiesKept DEF Evidence, NewOrder

\* What a handler starts with, reads or decides is true.
LEMMA LocalStepsTrue ==
    ASSUME TypeOK, EscrowInv, EvidenceInv, [Next]_vars, NEW w \in Workers,
           \/ LmStart(w) \/ LmSweep(w) \/ RsFresh(w) \/ RlRead(w)
           \/ RlScan(w) \/ RpStart(w) \/ RpList(w) \/ CoStart(w)
           \/ CoReread(w) \/ CfStart(w) \/ CfBound(w) \/ CfList(w)
           \/ DkStart(w) \/ DkSlot(w) \/ DkCheck(w) \/ DkSend(w)
           \/ DkAbort(w) \/ RclVerify(w) \/ PhStart(w) \/ PhRead(w)
           \/ PhVerify(w) \/ RccStart(w) \/ CmStart(w) \/ RfStart(w)
           \/ RfGuard(w) \/ EfStart(w) \/ EfGuard(w) \/ RkStart(w)
           \/ CancelStart(w) \/ RsStart(w)
           \/ \E tx \in 1..lockTxs : RclStart(w, tx)
    PROVE  HandlersTruthful
  <1>1. /\ row \in Row /\ snap[w] \in Row
        /\ Evidence(row, ledgers') /\ Evidence(snap[w], ledgers')
        /\ Evidence(NewOrder, ledgers')
        /\ LabelEvidence(pc[w], snap[w], ledgers')
    BY CopyTrue
  <1> USE <1>1, MoveTrue, EndTrue
  <1>2. CASE LmStart(w)
    BY <1>2, FreeLabels DEF LmStart, LockBranch, LabelEvidence
  <1>3. CASE LmSweep(w)
    BY <1>3, FreeLabels DEF LmSweep, LockBranch, LabelEvidence
  <1>4. CASE RsFresh(w)
    BY <1>4, FreeLabels DEF RsFresh, LockBranch, LabelEvidence
  <1>5. CASE RlRead(w)
    BY <1>5, FreeLabels DEF RlRead
  <1>6. CASE RlScan(w)
    <2>1. alloc # "none" => Evidence([snap[w] EXCEPT !.allocationCid = TRUE], ledgers')
      BY FactsStay DEF Evidence, Row
    <2>2. Evidence([snap[w] EXCEPT !.status = "failed",
                                   !.evmFloatReserved = FALSE], ledgers')
      BY QuietWrites, Zenon
    <2> QED BY <1>6, <2>1, <2>2, FreeLabels DEF RlScan
  <1>7. CASE RpStart(w)
    BY <1>7, FreeLabels DEF RpStart
  <1>8. CASE RpList(w)
    <2>1. Evidence([snap[w] EXCEPT !.status = "failed",
                                   !.evmFloatReserved = FALSE], ledgers')
      BY QuietWrites, Zenon
    <2> QED BY <1>8, <2>1, FreeLabels DEF RpList
  <1>9. CASE CoStart(w)
    <2>1. custody = "direct" => LabelEvidence("coDirect", row, ledgers')
      BY FactsStay DEF LabelEvidence
    <2> QED BY <1>9, <2>1, FreeLabels DEF CoStart
  <1>10. CASE CoReread(w)
    <2>1. ledgers'.custody \in {"held", "direct", "returned"}
      BY <1>10 DEF CoReread, LabelEvidence
    <2>2. Evidence([row EXCEPT !.status = "main_locked",
                               !.counterTransferUpdateId = TRUE], ledgers')
      BY <2>1, EvidenceOfLeg DEF Evidence, Row
    <2> QED BY <1>10, <2>2, FreeLabels DEF CoReread
  <1>11. CASE CfStart(w)
    BY <1>11, FreeLabels DEF CfStart
  <1>12. CASE CfBound(w)
    <2> DEFINE o == [snap[w] EXCEPT !.counterTransferUpdateId = TRUE]
    <2>1. custody \in {"held", "returned"}
            => Evidence(o, ledgers') /\ LabelEvidence("cfCommit", o, ledgers')
      BY FactsStay DEF Evidence, LabelEvidence, Row
    <2> QED BY <1>12, <2>1, FreeLabels DEF CfBound
  <1>13. CASE CfList(w)
    BY <1>13, FreeLabels DEF CfList
  <1>14. CASE DkStart(w)
    BY <1>14, FreeLabels DEF DkStart, Evidence, LabelEvidence
  <1>15. CASE DkSlot(w)
    BY <1>15, FreeLabels DEF DkSlot, LabelEvidence
  <1>16. CASE DkCheck(w)
    BY <1>16, FreeLabels DEF DkCheck, LabelEvidence
  <1>17. CASE DkSend(w)
    BY <1>17, FreeLabels DEF DkSend, LabelEvidence
  <1>18. CASE DkAbort(w)
    BY <1>18, FreeLabels DEF DkAbort, Evidence, LabelEvidence
  <1>19. CASE RclVerify(w)
    <2>1. /\ LabelEvidence("rclKeep", snap[w], ledgers')
          /\ snap[w].counterLockTx \in finalTxs
               => LabelEvidence("rclCommit", snap[w], ledgers')
      BY <1>19, FactsStay DEF RclVerify, LabelEvidence
    <2> QED BY <1>19, <2>1 DEF RclVerify
  <1>20. CASE PhStart(w)
    BY <1>20, FreeLabels DEF PhStart, Evidence, LabelEvidence
  <1>21. CASE PhRead(w)
    <2>1. SetAside(ledgers') /\ LabelEvidence("phVerify", snap[w], ledgers')
      BY <1>21 DEF PhRead, LabelEvidence
    <2>2. ClaimSeen(snap[w])
            => Evidence([snap[w] EXCEPT !.status = "counter_claimed"], ledgers')
      BY <2>1, FactsStay DEF ClaimSeen, Evidence, Row
    <2> QED BY <1>21, <2>1, <2>2, FreeLabels DEF PhRead
  <1>22. CASE PhVerify(w)
    <2> DEFINE o == [snap[w] EXCEPT !.evmFloatReserved = FALSE]
    <2>1. SetAside(ledgers')
      BY <1>22 DEF PhVerify, LabelEvidence
    <2>2. o \in Row /\ Evidence(o, ledgers')
      BY QuietWrites, RowWrites
    <2>3. "Retaken" \in events
            => Evidence([o EXCEPT !.mainClaimTx = "retake"], ledgers')
      BY <2>2, FactsStay DEF Evidence, Row
    <2>4. Evidence([o EXCEPT !.status = "main_locked", !.counterLockTx = 0], ledgers')
      BY <2>1, <2>2 DEF Evidence, Row
    <2> HIDE DEF o
    <2> QED BY <1>22, <2>2, <2>3, <2>4, FreeLabels DEF PhVerify, o
  <1>23. CASE RccStart(w)
    <2>1. LabelEvidence("rccCas", row, ledgers')
      BY <1>23, FactsStay DEF RccStart, ClaimSeen, LabelEvidence
    <2> QED BY <1>23, <2>1 DEF RccStart
  <1>24. CASE CmStart(w)
    <2> DEFINE o == [row EXCEPT !.mainClaimTx = "claim"]
    <2>1. "Claimed" \in ledgers'.events
      BY <1>24, FactsStay DEF CmStart, ClaimSeen
    <2>2. Evidence(o, ledgers') /\ LabelEvidence(CmNext(row), o, ledgers')
      BY <2>1 DEF Evidence, LabelEvidence, CmNext, Row
    <2> QED BY <1>24, <2>2 DEF CmStart
  <1>25. CASE RfStart(w)
    BY <1>25, FreeLabels DEF RfStart
  <1>26. CASE RfGuard(w)
    BY <1>26, FreeLabels DEF RfGuard
  <1>27. CASE EfStart(w)
    BY <1>27, FreeLabels DEF EfStart
  <1>28. CASE EfGuard(w)
    BY <1>28, FreeLabels DEF EfGuard
  <1>29. CASE RkStart(w)
    <2>1. LabelEvidence("rkCas", row, ledgers')
      BY <1>29, FactsStay DEF RkStart, LabelEvidence
    <2> QED BY <1>29, <2>1 DEF RkStart
  <1>30. CASE CancelStart(w)
    BY <1>30, FreeLabels DEF CancelStart
  <1>31. CASE RsStart(w)
    BY <1>31, FreeLabels DEF RsStart
  <1>32. CASE \E tx \in 1..lockTxs : RclStart(w, tx)
    <2>1. PICK tx \in 1..lockTxs : RclStart(w, tx)
      BY <1>32
    <2> DEFINE o == [row EXCEPT !.counterLockTx = tx]
    <2>2. tx \in ledgers'.mined
      BY LedgersOnlyGrow DEF Grows, ledgers
    <2>3. Evidence(o, ledgers') /\ LabelEvidence("rclVerify", o, ledgers')
      BY <2>1, <2>2 DEF RclStart, Evidence, LabelEvidence, Row
    <2> QED BY <2>1, <2>3 DEF RclStart
  <1> QED BY <1>2, <1>3, <1>4, <1>5, <1>6, <1>7, <1>8, <1>9, <1>10, <1>11,
             <1>12, <1>13, <1>14, <1>15, <1>16, <1>17, <1>18, <1>19, <1>20,
             <1>21, <1>22, <1>23, <1>24, <1>25, <1>26, <1>27, <1>28, <1>29,
             <1>30, <1>31, <1>32
\* A claim that is in the log when a step ends is of a covered lock.
LEMMA ClaimedIsCovered ==
    ASSUME TypeOK, EscrowInv, EvidenceInv, [Next]_vars,
           "Claimed" \in ledgers'.events
    PROVE  SetAside(ledgers')
  <1>1. "Claimed" \in events'
    BY DEF ledgers
  <1>2. lockTxs > 0
    BY <1>1, EscrowFrame, EscrowAssumption DEF EscrowInv, TypeOK, EscrowTypeOK,
       UserClaim, SolverRetake, Chain, PendingLands, DkWait, SolverLock, Lock,
       Claim, Retake, Tick, Finalize, evmVars, chainVars, escrowVars, Slot
  <1> QED BY <1>2, FactsStay DEF EvidenceInv

\* What a compare-and-set writes is true.
LEMMA CasStepsTrue ==
    ASSUME TypeOK, EscrowInv, EvidenceInv, [Next]_vars, NEW w \in Workers,
           \/ LmPersist(w) \/ LmCommit(w) \/ RlCas(w) \/ CoDirect(w)
           \/ CoCommit(w) \/ CoFail(w) \/ CfCommit(w) \/ DkAbortCas(w)
           \/ RclCas(w) \/ PhCas(w) \/ RccCas(w) \/ CmCommit(w)
           \/ RfRollback(w) \/ RfCommit(w) \/ RkCas(w) \/ RkFail(w)
           \/ CancelCas(w)
    PROVE  HandlersTruthful
  <1>1. /\ row \in Row /\ snap[w] \in Row
        /\ Evidence(row, ledgers') /\ Evidence(snap[w], ledgers')
        /\ Evidence(NewOrder, ledgers')
        /\ LabelEvidence(pc[w], snap[w], ledgers')
    BY CopyTrue
  <1> USE <1>1, PutIfStatusTrue
  <1>2. CASE LmPersist(w)
    <2>1. LabelEvidence("lmCreate", snap[w], ledgers')
      BY <1>2 DEF LmPersist, LabelEvidence
    <2> QED BY <1>2, <2>1 DEF LmPersist
  <1>3. CASE LmCommit(w)
    <2>1. SetAside(ledgers')
      BY <1>3, EvidenceOfLeg DEF LmCommit, Evidence, LabelEvidence
    <2>2. Evidence([snap[w] EXCEPT !.status = "main_locked"], ledgers')
      BY <2>1, LockedWrites, Zenon
    <2> QED BY <1>3, <2>2, FreeLabels DEF LmCommit
  <1>4. CASE RlCas(w)
    BY <1>4, FreeLabels DEF RlCas
  <1>5. CASE CoDirect(w)
    <2> DEFINE o == [snap[w] EXCEPT !.status = "main_locked",
                                    !.counterTransferOfferCid = FALSE,
                                    !.counterTransferUpdateId = TRUE]
    <2>1. ledgers'.custody \in {"held", "direct", "returned"}
      BY <1>5 DEF CoDirect, LabelEvidence
    <2>2. Evidence(o, ledgers')
      BY <2>1, EvidenceOfLeg DEF Evidence, Row
    <2> QED BY <1>5, <2>2, FreeLabels DEF CoDirect
  <1>6. CASE CoCommit(w)
    BY <1>6, FreeLabels DEF CoCommit
  <1>7. CASE CoFail(w)
    <2>1. Evidence([snap[w] EXCEPT !.status = "failed", !.evmFloatReserved = FALSE,
                      !.counterTransferOfferCid = pc[w] = "cfFail" /\ @], ledgers')
      BY QuietWrites, Zenon
    <2> QED BY <1>7, <2>1, FreeLabels DEF CoFail
  <1>8. CASE CfCommit(w)
    <2>1. SetAside(ledgers')
      BY <1>8, EvidenceOfLeg DEF CfCommit, Evidence, LabelEvidence
    <2>2. Evidence([snap[w] EXCEPT !.status = "main_locked"], ledgers')
      BY <2>1, LockedWrites, Zenon
    <2> QED BY <1>8, <2>2, FreeLabels DEF CfCommit
  <1>9. CASE DkAbortCas(w)
    <2>1. SetAside(ledgers')
      BY <1>9 DEF DkAbortCas, LabelEvidence
    <2>2. Evidence([snap[w] EXCEPT !.status = "main_locked",
                                   !.evmFloatReserved = FALSE], ledgers')
      BY <2>1, LockedWrites, Zenon
    <2> QED BY <1>9, <2>2, FreeLabels DEF DkAbortCas
  <1>10. CASE RclCas(w)
    <2>1. /\ SetAside(ledgers')
          /\ pc[w] = "rclCommit" => snap[w].counterLockTx \in ledgers'.final
      BY <1>10 DEF RclCas, LabelEvidence
    <2>2. pc[w] = "rclCommit"
            => Evidence([snap[w] EXCEPT !.status = "counter_locked",
                                        !.evmFloatReserved = FALSE], ledgers')
      BY <2>1 DEF Evidence, Row
    <2>3. Evidence([snap[w] EXCEPT !.status = "counter_locking"], ledgers')
      BY <2>1, LockedWrites, Zenon
    <2> QED BY <1>10, <2>2, <2>3, FreeLabels DEF RclCas
  <1>11. CASE PhCas(w)
    BY <1>11, FreeLabels DEF PhCas
  <1>12. CASE RccCas(w)
    <2> DEFINE o == [snap[w] EXCEPT !.status = "counter_claimed",
                                    !.revealedPreimage = TRUE,
                                    !.mainClaimTx = "claim"]
    <2>1. "Claimed" \in ledgers'.events
      BY <1>12 DEF RccCas, LabelEvidence
    <2>2. Evidence(o, ledgers')
      BY <2>1, ClaimedIsCovered DEF Evidence, Row
    <2> QED BY <1>12, <2>2, FreeLabels DEF RccCas
  <1>13. CASE CmCommit(w)
    <2> DEFINE o == [snap[w] EXCEPT !.status = "main_claimed",
                                    !.evmFloatReserved = FALSE,
                                    !.counterClaimUpdateId = "claim"]
    <2>1. /\ "Claimed" \in ledgers'.events
          /\ Loop \/ ledgers'.alloc = "executed"
      BY <1>13 DEF CmCommit, LabelEvidence
    <2>2. Evidence(o, ledgers')
      BY <2>1, ClaimedIsCovered DEF Evidence, Row
    <2> QED BY <1>13, <2>2, FreeLabels DEF CmCommit
  <1>14. CASE RfRollback(w)
    BY <1>14, FreeLabels DEF RfRollback
  <1>15. CASE RfCommit(w)
    <2> DEFINE o == [snap[w] EXCEPT !.status = "refunded",
                                    !.counterClaimUpdateId = "refund"]
    <2>1. IF Loop THEN ledgers'.custody = "returned" ELSE ledgers'.alloc = "refunded"
      BY <1>15 DEF RfCommit, LabelEvidence
    <2>2. Evidence(o, ledgers')
      BY <2>1 DEF Evidence, Row
    <2> QED BY <1>15, <2>2, FreeLabels DEF RfCommit
  <1>16. CASE RkCas(w)
    <2>1. "Retaken" \in ledgers'.events
      BY <1>16 DEF RkCas, LabelEvidence
    <2>2. Evidence([snap[w] EXCEPT !.mainClaimTx = "retake",
                                   !.evmFloatReserved = FALSE], ledgers')
      BY <2>1 DEF Evidence, Row
    <2> QED BY <1>16, <2>2, FreeLabels DEF RkCas
  <1>17. CASE RkFail(w)
    <2>1. Evidence([snap[w] EXCEPT !.status = "failed"], ledgers')
      BY QuietWrites, Zenon
    <2> QED BY <1>17, <2>1, FreeLabels DEF RkFail
  <1>18. CASE CancelCas(w)
    <2>1. Evidence([snap[w] EXCEPT !.status = "cancelled"], ledgers')
      BY QuietWrites, Zenon
    <2> QED BY <1>18, <2>1, FreeLabels DEF CancelCas
  <1> QED BY <1>2, <1>3, <1>4, <1>5, <1>6, <1>7, <1>8, <1>9, <1>10, <1>11,
             <1>12, <1>13, <1>14, <1>15, <1>16, <1>17, <1>18

\* So is what a handler writes before it goes on, and what a ledger answers it.
LEMMA OtherStepsTrue ==
    ASSUME TypeOK, EscrowInv, EvidenceInv, [Next]_vars, NEW w \in Workers,
           \/ RsReserve(w) \/ CoBind(w) \/ DkBegin(w) \/ CmReveal(w)
           \/ RfBegin(w) \/ LmAlloc(w) \/ LmCreate(w) \/ CoAccept(w)
           \/ CfAccept(w) \/ DkWait(w) \/ CmSubmit(w) \/ RfSubmit(w)
           \/ EfSubmit(w)
    PROVE  HandlersTruthful
  <1>1. /\ row \in Row /\ snap[w] \in Row
        /\ Evidence(row, ledgers') /\ Evidence(snap[w], ledgers')
        /\ Evidence(NewOrder, ledgers')
        /\ LabelEvidence(pc[w], snap[w], ledgers')
    BY CopyTrue
  <1> USE <1>1, ProceedTrue, ReturnTrue
  <1>2. CASE RsReserve(w)
    <2>1. Evidence([row EXCEPT !.status = "main_locking",
                               !.evmFloatReserved = TRUE], ledgers')
      BY QuietWrites, Zenon
    <2>2. Evidence(row', ledgers')
      BY <1>2, <2>1 DEF RsReserve, Put, orderVars
    <2> QED BY <1>2, <2>2, FreeLabels DEF RsReserve
  <1>3. CASE CoBind(w)
    <2>1. Evidence([snap[w] EXCEPT !.counterTransferOfferCid = TRUE], ledgers')
      BY QuietWrites, Zenon
    <2>2. Evidence(row', ledgers')
      BY <1>3, <2>1 DEF CoBind, Put, orderVars
    <2> QED BY <1>3, <2>1, <2>2, FreeLabels DEF CoBind
  <1>4. CASE DkBegin(w)
    <2>1. SetAside(ledgers') /\ LabelEvidence("dkBegun", NewOrder, ledgers')
      BY <1>4 DEF DkBegin, LabelEvidence
    <2>2. Evidence([row EXCEPT !.status = "counter_locking",
                               !.evmFloatReserved = TRUE], ledgers')
      BY <2>1, LockedWrites, Zenon
    <2>3. Evidence(row', ledgers')
      BY <1>4, <2>2 DEF DkBegin, Put, orderVars
    <2> QED BY <1>4, <2>1, <2>3 DEF DkBegin
  <1>5. CASE CmReveal(w)
    <2> DEFINE o == [snap[w] EXCEPT !.status = "counter_claimed",
                                    !.revealedPreimage = TRUE]
    <2>1. "Claimed" \in ledgers'.events
      BY <1>5 DEF CmReveal, LabelEvidence
    <2>2. \A p : LabelEvidence("cmSubmit", p, ledgers')
      BY <2>1 DEF LabelEvidence
    <2>3. Evidence(o, ledgers')
      BY <2>1, ClaimedIsCovered DEF Evidence, Row
    <2>4. Evidence(row', ledgers')
      BY <1>5, <2>3 DEF CmReveal, Put, orderVars
    <2> HIDE DEF o
    <2> QED BY <1>5, <2>2, <2>3, <2>4 DEF CmReveal, o
  <1>6. CASE RfBegin(w)
    <2> DEFINE o == IF pc[w] = "rfBegin" THEN [snap[w] EXCEPT !.evmFloatReserved = FALSE]
                                         ELSE snap[w]
    <2>1. o \in Row /\ Evidence(o, ledgers')
      BY QuietWrites, RowWrites
    <2>2. Evidence([o EXCEPT !.status = "refunding"], ledgers')
      BY <2>1, QuietWrites, Zenon
    <2>3. /\ UNCHANGED orderVars \/ Put([o EXCEPT !.status = "refunding"])
          /\ Return(w) \/ Proceed(w, "rfSubmit", o) \/ Proceed(w, "efSubmit", o)
      BY <1>6 DEF RfBegin
    <2> HIDE DEF o
    <2>4. Evidence(row', ledgers')
      BY <2>2, <2>3 DEF Put, orderVars
    <2> QED BY <2>1, <2>3, <2>4, FreeLabels
  <1>7. CASE LmAlloc(w)
    <2> DEFINE o == [snap[w] EXCEPT !.allocationCid = TRUE]
    <2>1. ledgers'.alloc # "none"
            => Evidence(o, ledgers') /\ LabelEvidence("lmPersist", o, ledgers')
      BY DEF Evidence, LabelEvidence, Row
    <2>2. \/ ledgers'.alloc # "none" /\ Proceed(w, "lmPersist", o)
          \/ Return(w)
          \/ Proceed(w, "rlRead", NewOrder) \/ Proceed(w, "rlKeepRead", NewOrder)
      <3>1. alloc # "none" \/ alloc' = "locked" => ledgers'.alloc # "none"
        BY FactsStay DEF ledgers
      <3>2. AllocRejected(w) \/ AllocThrows(w, "rlKeepRead")
              => \/ Return(w) \/ Proceed(w, "rlRead", NewOrder)
                 \/ Proceed(w, "rlKeepRead", NewOrder)
        BY DEF AllocRejected, AllocThrows
      <3> QED BY <1>7, <3>1, <3>2 DEF LmAlloc, Allocate
    <2>3. UNCHANGED orderVars
      BY <1>7 DEF LmAlloc
    <2> HIDE DEF o
    <2> QED BY <2>1, <2>2, <2>3, MoveTrue, EndTrue, FreeLabels
  <1>8. CASE LmCreate(w)
    <2> DEFINE o == [snap[w] EXCEPT !.htlcCid = 1]
    <2>1. htlc'[1] # "none"
      <3>1. 1 \in 1..MaxWrap
        BY ReverseAssumption
      <3> QED BY <1>8, <3>1 DEF LmCreate, CreateHtlcLock, TypeOK, CantonTypeOK,
         cantonVars
    <2>2. Evidence(o, ledgers') /\ LabelEvidence("lmCommit", o, ledgers')
      BY <1>8, <2>1 DEF LmCreate, Evidence, LabelEvidence, Row, ledgers
    <2>3. UNCHANGED orderVars /\ Proceed(w, "lmCommit", o)
      BY <1>8 DEF LmCreate
    <2> HIDE DEF o
    <2> QED BY <2>2, <2>3, MoveTrue
  <1>9. CASE CoAccept(w)
    <2>1. AcceptTransfer => LabelEvidence("coReread", snap[w], ledgers')
      BY DEF AcceptTransfer, LabelEvidence, ledgers
    <2> QED BY <1>9, <2>1, MoveTrue, EndTrue, FreeLabels DEF CoAccept
  <1>10. CASE CfAccept(w)
    <2> DEFINE o == [snap[w] EXCEPT !.counterTransferOfferCid = TRUE,
                                    !.counterTransferUpdateId = TRUE]
    <2>1. AcceptTransfer
            => Evidence(o, ledgers') /\ LabelEvidence("cfCommit", o, ledgers')
      BY DEF AcceptTransfer, Evidence, LabelEvidence, Row, ledgers
    <2> HIDE DEF o
    <2> QED BY <1>10, <2>1, MoveTrue, EndTrue, FreeLabels DEF CfAccept, o
  <1>11. CASE DkWait(w)
    BY <1>11, MoveTrue, EndTrue, FreeLabels DEF DkWait
  <1>12. CASE CmSubmit(w)
    <2>1. "Claimed" \in ledgers'.events
      BY <1>12 DEF CmSubmit, LabelEvidence
    <2>2. \/ Return(w)
          \/ Proceed(w, "cmCommit", snap[w]) /\ (Loop \/ ledgers'.alloc = "executed")
      BY <1>12, FactsStay DEF CmSubmit, HtlcClaim, ledgers
    <2>3. Loop \/ ledgers'.alloc = "executed"
            => LabelEvidence("cmCommit", snap[w], ledgers')
      BY <2>1 DEF LabelEvidence
    <2>4. UNCHANGED orderVars
      BY <1>12 DEF CmSubmit
    <2> QED BY <2>2, <2>3, <2>4, MoveTrue, EndTrue
  <1>13. CASE RfSubmit(w)
    <2> DEFINE done == IF Loop THEN ledgers'.custody = "returned"
                               ELSE ledgers'.alloc = "refunded"
    <2>1. done \/ Proceed(w, "rfRollback", snap[w])
      BY <1>13, FactsStay DEF RfSubmit, RefundDone, RefundCommits, RfRejected,
         HtlcRefund, ReturnTransfer, ledgers
    <2>2. Proceed(w, "rfCommit", snap[w]) \/ Proceed(w, "rfRollback", snap[w])
      BY <1>13 DEF RfSubmit, RfRejected
    <2>3. done => LabelEvidence("rfCommit", snap[w], ledgers')
      BY DEF LabelEvidence
    <2>4. UNCHANGED orderVars
      BY <1>13 DEF RfSubmit
    <2> HIDE DEF done
    <2> QED BY <2>1, <2>2, <2>3, <2>4, MoveTrue, FreeLabels
  <1>14. CASE EfSubmit(w)
    <2> DEFINE done == IF Loop THEN ledgers'.custody = "returned"
                               ELSE ledgers'.alloc = "refunded"
    <2>1. done \/ Proceed(w, "rfRollback", snap[w])
      BY <1>14, FactsStay DEF EfSubmit, RefundDone, RefundCommits, RfRejected,
         HtlcRefund, ReturnTransfer, ledgers
    <2>2. Proceed(w, "rfCommit", snap[w]) \/ Proceed(w, "rfRollback", snap[w])
      BY <1>14 DEF EfSubmit, RfRejected
    <2>3. done => LabelEvidence("rfCommit", snap[w], ledgers')
      BY DEF LabelEvidence
    <2>4. UNCHANGED orderVars
      BY <1>14 DEF EfSubmit
    <2> HIDE DEF done
    <2> QED BY <2>1, <2>2, <2>3, <2>4, MoveTrue, FreeLabels
  <1> QED BY <1>2, <1>3, <1>4, <1>5, <1>6, <1>7, <1>8, <1>9, <1>10, <1>11,
             <1>12, <1>13, <1>14
-----------------------------------------------------------------------------
(* The steps together.                                                     *)

\* Whatever step is taken, row and copies say only what is so.
LEMMA HandlersStayTruthful ==
    ASSUME TypeOK, EscrowInv, EvidenceInv, [Next]_vars
    PROVE  HandlersTruthful
  <1>1. row \in Row /\ Evidence(row, ledgers')
    BY CopiesKept
  <1>2. ASSUME UNCHANGED <<orderVars, pc, snap>> PROVE HandlersTruthful
    BY <1>1, <1>2, StayTrue DEF orderVars
  <1>3. CASE UNCHANGED vars \/ UserTransfer \/ OfferLapses \/ UserClaim \/ SolverRetake
             \/ PendingLands \/ Chain
    BY <1>2, <1>3 DEF vars, orderVars, UserTransfer, OfferLapses, UserClaim,
                      SolverRetake, PendingLands, Chain
  <1>4. CASE Accept
    <2>1. Evidence([row EXCEPT !.status = "accepted"], ledgers')
      BY <1>1, QuietWrites, Zenon
    <2>2. UNCHANGED <<pc, snap>> /\ Evidence(row', ledgers')
      BY <1>4, <2>1 DEF Accept, Put
    <2> QED BY <2>2, StayTrue
  <1>5. ASSUME NEW w \in Workers, Fail(w) PROVE HandlersTruthful
    BY <1>5, EndTrue DEF Fail
  <1>6. ASSUME NEW w \in Workers, Cancel(w) \/ StartRequest(w) \/ Resume(w)
        PROVE  HandlersTruthful
    BY <1>6, CasStepsTrue, LocalStepsTrue, OtherStepsTrue
       DEF Cancel, StartRequest, Resume
  <1> QED BY <1>3, <1>4, <1>5, <1>6 DEF Next, Environment

\* Only claimMainAsSolver executes the Allocation, and it has seen the claim.
LEMMA ExecutedAfterClaim ==
    ASSUME TypeOK, EvidenceInv, [Next]_vars
    PROVE  CbtcAfterWbtc'
  <1>1. "Claimed" \in events => "Claimed" \in events'
    BY LedgersOnlyGrow DEF Grows, ledgers
  <1>2. alloc' = "executed" => "Claimed" \in events
    BY CantonFrame DEF EvidenceInv, CbtcAfterWbtc, LabelEvidence, ledgers,
       LmAlloc, AllocRejected, LmCreate, CmSubmit, RfSubmit, EfSubmit,
       RfRejected, RefundCommits, Allocate, CreateHtlcLock, HtlcClaim,
       HtlcRefund, mainVars, cantonVars
  <1> QED BY <1>1, <1>2 DEF CbtcAfterWbtc

\* A WBTC transaction is on its way only when the CBTC has been set aside.
LEMMA LockIsCovered ==
    ASSUME TypeOK, EscrowInv, EvidenceInv, [Next]_vars
    PROVE  pendingLocks' > 0 \/ lockTxs' > 0 => SetAside(ledgers')
  <1>1. /\ pendingLocks \in Nat /\ lockTxs \in Nat
        /\ pendingLocks > 0 \/ lockTxs > 0 => SetAside(ledgers')
    BY FactsStay, EscrowAssumption DEF EvidenceInv, TypeOK, EscrowTypeOK
  <1>2. ASSUME NEW w \in Workers, DkWait(w) PROVE SetAside(ledgers')
    BY <1>2, FactsStay DEF DkWait, EvidenceInv, LabelEvidence
  <1>3. CASE UserClaim \/ SolverRetake \/ PendingLands \/ Chain
    BY <1>1, <1>3 DEF UserClaim, SolverRetake, Claim, Retake, PendingLands,
                      Chain, Tick, Finalize, escrowVars
  <1>4. CASE UNCHANGED evmVars
    BY <1>1, <1>4 DEF evmVars, chainVars, escrowVars
  <1> QED BY <1>2, <1>3, <1>4, EscrowFrame

\* EvidenceInv is inductive.
LEMMA EvidenceInductive ==
    ASSUME TypeOK, EscrowInv, EvidenceInv, [Next]_vars
    PROVE  EvidenceInv'
  BY HandlersStayTruthful, ExecutedAfterClaim, OneKindOfLeg, LockIsCovered
     DEF EvidenceInv, RowEvidenceTrue, HandlersTruthful

\* Row, copies and labels tell the truth in every reachable state.
THEOREM ReverseEvidenceInvariant == Spec => []EvidenceInv
  <1>1. Init => EvidenceInv
    <2> SUFFICES ASSUME Init PROVE EvidenceInv
      OBVIOUS
    <2>1. Evidence(NewOrder, ledgers) /\ LabelEvidence("idle", NewOrder, ledgers)
      BY DEF Evidence, LabelEvidence, NewOrder
    <2>2. RowEvidenceTrue /\ \A w \in Workers : /\ Evidence(snap[w], ledgers)
                                                /\ LabelEvidence(pc[w], snap[w], ledgers)
      BY <2>1 DEF Init, OrderInit, RowEvidenceTrue
    <2> QED BY <2>2 DEF Init, EvidenceInv, CbtcAfterWbtc, EscrowInit,
       CantonInit, CustodyInit
  <1>2. TypeOK /\ EscrowInv /\ EvidenceInv /\ [Next]_vars => EvidenceInv'
    BY EvidenceInductive
  <1> QED BY <1>1, <1>2, ReverseTypeCorrect, EscrowInvariant, PTL DEF Spec

\* RowEvidenceTrue: what the database says of a reverse swap has happened, on
\* whichever ledger it names, whatever copy the writer wrote it from.
THEOREM RowTellsTheTruth == Spec => []RowEvidenceTrue
  <1>1. EvidenceInv => RowEvidenceTrue
    BY DEF EvidenceInv
  <1> QED BY <1>1, ReverseEvidenceInvariant, PTL

\* CbtcAfterWbtc: the solver never takes the user's CBTC before the user has
\* the WBTC, however many locks, retries, crashes and stale copies.
THEOREM SolverCollectsLast == Spec => []CbtcAfterWbtc
  <1>1. EvidenceInv => CbtcAfterWbtc
    BY DEF EvidenceInv
  <1> QED BY <1>1, ReverseEvidenceInvariant, PTL

-----------------------------------------------------------------------------
(* CounterCovered: no WBTC is locked against CBTC that is gone, or going.  *)

\* The ladder: the CBTC cannot be refunded before the WBTC has timed out.
LEMMA RefundIsLate ==
    ASSUME TypeOK, NEW i, NEW lt \in LedgerTime, HtlcRefund(i, lt)
    PROVE  now >= SolverTimelock
  BY OrderAssumption, ReverseAssumption, ReverseLadderAssumption
     DEF TypeOK, EscrowTypeOK, LedgerTime, HtlcRefund, ReverseLadder

\* The clock never goes back.
LEMMA ClockRuns ==
    ASSUME TypeOK, [Next]_vars
    PROVE  now \in Nat /\ now' \in Nat /\ now <= now'
  <1>1. now \in Nat
    BY DEF TypeOK, EscrowTypeOK
  <1> QED BY <1>1, EscrowFrame DEF UserClaim, SolverRetake, Chain,
     PendingLands, DkWait, SolverLock, Lock, Claim, Retake, Tick, Finalize,
     evmVars, chainVars

\* Who consumes the Allocation, and when.
LEMMA AllocMoves ==
    ASSUME TypeOK, [Next]_vars, alloc' # alloc
    PROVE  /\ UNCHANGED evmVars
           /\ \/ \E w \in Workers : LmAlloc(w) /\ alloc = "none" /\ alloc' = "locked"
              \/ \E w \in Workers : CmSubmit(w) /\ alloc = "locked" /\ alloc' = "executed"
              \/ \E w \in Workers : /\ RfSubmit(w) \/ EfSubmit(w)
                                    /\ alloc = "locked" /\ alloc' = "refunded"
                                    /\ now >= SolverTimelock
  <1>1. ASSUME NEW w \in Workers, LmAlloc(w)
        PROVE  UNCHANGED evmVars /\ alloc = "none" /\ alloc' = "locked"
    BY <1>1 DEF LmAlloc, Allocate, cantonVars
  <1>2. ~\E w \in Workers : LmCreate(w)
    BY DEF LmCreate, CreateHtlcLock, cantonVars
  <1>3. ASSUME NEW w \in Workers, CmSubmit(w)
        PROVE  UNCHANGED evmVars /\ alloc = "locked" /\ alloc' = "executed"
    BY <1>3 DEF CmSubmit, HtlcClaim, cantonVars
  <1>4. ASSUME NEW w \in Workers, RfSubmit(w) \/ EfSubmit(w)
        PROVE  /\ UNCHANGED evmVars /\ alloc = "locked" /\ alloc' = "refunded"
               /\ now >= SolverTimelock
    <2>1. UNCHANGED evmVars /\ RefundCommits(snap[w])
      BY <1>4 DEF RfSubmit, EfSubmit, RfRejected, mainVars, cantonVars
    <2>2. PICK lt \in LedgerTime : HtlcRefund(snap[w].htlcCid, lt)
      BY <2>1 DEF RefundCommits, cantonVars
    <2> QED BY <2>1, <2>2, RefundIsLate DEF HtlcRefund
  <1> QED BY <1>1, <1>2, <1>3, <1>4, CantonFrame DEF cantonVars

\* RefundLate is inductive.
LEMMA RefundLateInductive ==
    ASSUME TypeOK, RefundLate, [Next]_vars
    PROVE  RefundLate'
  <1>1. SolverTimelock \in Nat
    BY OrderAssumption
  <1>2. now \in Nat /\ now' \in Nat /\ now <= now'
    BY ClockRuns
  <1> QED BY <1>1, <1>2, AllocMoves DEF RefundLate

\* The CBTC of a managed order is not withdrawn, and goes back only after
\* solverTimelock.
THEOREM RefundsAreLate == Spec => []RefundLate
  <1>1. Init => RefundLate
    BY DEF Init, CantonInit, RefundLate
  <1>2. TypeOK /\ RefundLate /\ [Next]_vars => RefundLate'
    BY RefundLateInductive
  <1> QED BY <1>1, <1>2, ReverseTypeCorrect, PTL DEF Spec

\* What a step that locks WBTC looks like.
LEMMA LockStep ==
    ASSUME TypeOK, EvidenceInv, [Next]_vars, lockTxs' > lockTxs
    PROVE  /\ SolverLock /\ SetAside(ledgers) /\ UNCHANGED <<claimedTx, mainVars>>
           /\ lockTxs' = lockTxs + 1 /\ now < SolverTimelock /\ slot.amount = 0
           /\ UNCHANGED now
  <1>1. lockTxs \in Nat /\ pendingLocks \in Nat /\ now \in Nat
    BY EscrowAssumption DEF TypeOK, EscrowTypeOK
  <1>2. lockTxs' # lockTxs
    BY <1>1
  <1>3. /\ SolverLock /\ UNCHANGED <<claimedTx, mainVars>>
        /\ PendingLands \/ \E w \in Workers : DkWait(w)
    BY <1>2, EscrowFrame DEF UserClaim, SolverRetake, Chain, PendingLands,
       DkWait, Claim, Retake, Tick, Finalize, evmVars, chainVars, escrowVars
  <1>4. SetAside(ledgers)
    BY <1>1, <1>3 DEF PendingLands, DkWait, EvidenceInv, LabelEvidence
  <1>5. /\ lockTxs' = lockTxs + 1 /\ now < SolverTimelock /\ slot.amount = 0
        /\ UNCHANGED now
    BY <1>1, <1>3, OrderAssumption DEF SolverLock, Lock
  <1> QED BY <1>3, <1>4, <1>5

\* CounterCovered, for a managed user: whenever the solver's WBTC goes into
\* escrow the user's CBTC is locked for the solver or has been paid to it.
THEOREM WbtcOnlyAgainstCbtc ==
    ASSUME ~Loop
    PROVE  Spec => CounterCovered
  <1>1. ASSUME TypeOK, EvidenceInv, RefundLate, [Next]_vars, lockTxs' > lockTxs
        PROVE  alloc \in {"locked", "executed"}
    <2>1. SetAside(ledgers) /\ now < SolverTimelock /\ now \in Nat
      BY <1>1, LockStep DEF TypeOK, EscrowTypeOK
    <2>2. alloc # "none"
      BY <2>1 DEF SetAside, ledgers
    <2>3. alloc # "refunded" /\ alloc # "withdrawn"
      BY <1>1, <2>1, OrderAssumption DEF RefundLate
    <2> QED BY <1>1, <2>2, <2>3 DEF TypeOK, CantonTypeOK, AllocState
  <1>2. TypeOK /\ EvidenceInv /\ RefundLate /\ [Next]_vars
          => [lockTxs' > lockTxs =>
                IF Loop THEN Held ELSE alloc \in {"locked", "executed"}]_vars
    BY <1>1
  <1> QED BY <1>2, ReverseTypeCorrect, ReverseEvidenceInvariant,
     RefundsAreLate, PTL DEF Spec, CounterCovered

-----------------------------------------------------------------------------
(* NoRefundAfterClaim.                                                     *)

\* A worker stands before a refund's await only by way of the one before it.
LEMMA RefundPath ==
    ASSUME TypeOK, [Next]_vars, NEW v \in Workers,
           pc'[v] \in {"rfGuard", "rfBegin", "rfSubmit", "efGuard", "efBegin",
                       "efSubmit"}
    PROVE  pc'[v] = pc[v] \/ RfStart(v) \/ RfGuard(v) \/ EfStart(v) \/ EfGuard(v)
             \/ RfBegin(v)
  <1> USE DEF Proceed, Return
  <1>1. CASE UNCHANGED pc
    BY <1>1
  <1>2. CASE UNCHANGED vars \/ Environment
    BY <1>1, <1>2 DEF vars, Environment, Accept, UserTransfer, OfferLapses,
                      UserClaim, SolverRetake, PendingLands, Chain
  <1>3. ASSUME NEW w \in Workers, NEW l, NEW o, Proceed(w, l, o),
               l \notin {"rfGuard", "rfBegin", "rfSubmit", "efGuard", "efBegin",
                         "efSubmit"}
        PROVE  pc'[v] = pc[v]
    BY <1>3 DEF TypeOK
  <1>4. ASSUME NEW w \in Workers, Fail(w) \/ Cancel(w) PROVE pc'[v] = pc[v]
    BY <1>3, <1>4 DEF Fail, Cancel, CancelStart, CancelCas, PutIfStatus
  <1>5. ASSUME NEW w \in Workers, StartRequest(w), ~RfStart(w), ~EfStart(w)
        PROVE  pc'[v] = pc[v]
    BY <1>3, <1>5 DEF StartRequest, LockBranch, CmNext, RsStart, LmStart,
       LmSweep, RpStart, CoStart, CfStart, DkStart, PhStart, RccStart, CmStart,
       RkStart, RclStart
  <1>6. ASSUME NEW w \in Workers, Resume(w), ~RfGuard(w), ~EfGuard(w), ~RfBegin(w)
        PROVE  pc'[v] = pc[v]
    BY <1>3, <1>6 DEF Resume, PutIfStatus, LockBranch, AllocThrows,
       AllocRejected, RfRejected, RsReserve, RsFresh, LmAlloc, LmPersist,
       LmCreate, LmCommit, RlRead, RlScan, RlCas, RpList, CoDirect, CoBind,
       CoAccept, CoReread, CoCommit, CoFail, CfBound, CfList, CfAccept,
       CfCommit, DkSlot, DkBegin, DkCheck, DkSend, DkWait, DkAbort, DkAbortCas,
       RclVerify, RclCas, PhRead, PhVerify, PhCas, RccCas, CmReveal, CmSubmit,
       CmCommit, RfSubmit, EfSubmit, RfRollback, RfCommit, RkCas, RkFail
  <1>7. ASSUME NEW w \in Workers, w # v,
               RfStart(w) \/ EfStart(w) \/ RfGuard(w) \/ EfGuard(w) \/ RfBegin(w)
        PROVE  pc'[v] = pc[v]
    BY <1>7 DEF TypeOK, RfStart, EfStart, RfGuard, EfGuard, RfBegin
  <1> QED BY <1>2, <1>4, <1>5, <1>6, <1>7 DEF Next, StartRequest, Resume

\* Once the WBTC has timed out it is not claimed any more.
LEMMA NoClaimLate ==
    ASSUME TypeOK, EscrowInv, [Next]_vars, now >= SolverTimelock,
           "Claimed" \notin events
    PROVE  "Claimed" \notin events'
  <1>1. ~UserClaim
    BY OrderAssumption DEF TypeOK, EscrowTypeOK, Slot, EscrowInv, UserClaim,
       Claim
  <1> QED BY <1>1, EscrowFrame DEF SolverRetake, Retake, Chain, Tick, Finalize,
     PendingLands, DkWait, SolverLock, Lock, evmVars, chainVars, escrowVars

\* A claim empties the newest lock; only a lock after it would fill the slot.
LEMMA ClaimIsLast ==
    ASSUME TypeOK, EscrowInv, EvidenceInv, [Next]_vars,
           lockTxs' > lockTxs => "Claimed" \notin events,
           "Claimed" \in events => claimedTx = lockTxs /\ slot.amount = 0
    PROVE  "Claimed" \in events' => claimedTx' = lockTxs' /\ slot'.amount = 0
  <1>1. CASE UserClaim
    BY <1>1 DEF UserClaim, Claim, Emptied, EscrowInv, TypeOK, EscrowTypeOK,
       Slot
  <1>2. CASE SolverRetake
    BY <1>2 DEF SolverRetake, Retake
  <1>3. CASE Chain \/ UNCHANGED evmVars
    BY <1>3 DEF Chain, Tick, Finalize, evmVars, chainVars, escrowVars
  <1>4. ASSUME SolverLock PROVE "Claimed" \notin events'
    <2>1. lockTxs' > lockTxs
      BY <1>4, EscrowAssumption DEF SolverLock, Lock, TypeOK, EscrowTypeOK
    <2> QED BY <1>4, <2>1 DEF SolverLock, Lock
  <1>5. ASSUME NEW w \in Workers, DkWait(w), ~SolverLock
        PROVE  UNCHANGED chainVars /\ UNCHANGED claimedTx
    BY <1>5 DEF DkWait
  <1>6. ASSUME PendingLands, ~SolverLock
        PROVE  UNCHANGED chainVars /\ UNCHANGED claimedTx
    BY <1>6 DEF PendingLands
  <1> QED BY <1>1, <1>2, <1>3, <1>4, <1>5, <1>6, EscrowFrame DEF chainVars,
     escrowVars

\* RefundGuarded is kept by every step that locks nothing after a claim.
LEMMA RefundGuardedInductive ==
    ASSUME ~Loop, TypeOK, TypeOK', EscrowInv, EvidenceInv, RefundLate,
           RefundGuarded, [Next]_vars, lockTxs' > lockTxs => "Claimed" \notin events
    PROVE  RefundGuarded'
  <1>1. "Claimed" \in events' => claimedTx' = lockTxs' /\ slot'.amount = 0
    BY ClaimIsLast DEF RefundGuarded
  <1>2. ASSUME now >= UserTimelock PROVE now >= SolverTimelock /\ now' >= UserTimelock
    BY <1>2, ClockRuns, OrderAssumption, ReverseAssumption,
       ReverseLadderAssumption DEF ReverseLadder
  <1>3. alloc' = "refunded" => "Claimed" \notin events'
    <2>1. CASE alloc = "refunded"
      BY <2>1, NoClaimLate DEF RefundGuarded, RefundLate
    <2>2. CASE alloc # "refunded" /\ alloc' = "refunded"
      <3>1. PICK w \in Workers : RfSubmit(w) \/ EfSubmit(w)
        BY <2>2, AllocMoves
      <3>2. "Claimed" \notin events
        BY <3>1 DEF RefundGuarded, RfSubmit, EfSubmit
      <3> QED BY <2>2, <3>2, AllocMoves DEF evmVars, chainVars, escrowVars
    <2> QED BY <2>1, <2>2
  <1>4. ASSUME NEW w \in Workers
        PROVE  /\ pc'[w] \in {"rfGuard", "rfBegin", "rfSubmit"} => now' >= UserTimelock
               /\ pc'[w] \in {"rfBegin", "rfSubmit"} => "Claimed" \notin events'
               /\ pc'[w] \notin {"efGuard", "efBegin", "efSubmit"}
    <2>1. CASE pc'[w] = pc[w]
      BY <1>2, <2>1, NoClaimLate DEF RefundGuarded
    <2>2. CASE RfStart(w)
      <3>1. now >= UserTimelock /\ pc'[w] \in {"rfGuard", "idle"}
        BY <2>2 DEF RfStart, Refundable, Proceed, Return, TypeOK
      <3> QED BY <1>2, <3>1
    <2>3. CASE RfGuard(w)
      <3>1. snap[w] \in Row /\ Evidence(snap[w], ledgers) /\ lockTxs \in Nat
        BY EscrowAssumption DEF EvidenceInv, TypeOK, EscrowTypeOK
      <3>2. snap[w].counterLockTx <= lockTxs
        BY <3>1, EscrowAssumption DEF Evidence, ledgers, Row
      <3>3. "Claimed" \in events => ClaimSeen(snap[w])
        BY <3>2 DEF RefundGuarded, EscrowInv, ClaimSeen
      <3>4. /\ now >= UserTimelock /\ pc'[w] \in {"rfBegin", "idle"}
            /\ pc'[w] = "rfBegin" => ~ClaimSeen(snap[w])
        BY <2>3 DEF RfGuard, RefundGuarded, Proceed, Return, TypeOK
      <3> QED BY <1>2, <3>3, <3>4, NoClaimLate
    <2>4. CASE RfBegin(w)
      <3>1. pc[w] = "rfBegin" /\ pc'[w] \in {"rfSubmit", "idle"}
        BY <2>4 DEF RfBegin, RefundGuarded, Proceed, Return, TypeOK
      <3> QED BY <1>2, <3>1, NoClaimLate DEF RefundGuarded
    <2>5. ~EfStart(w) /\ ~EfGuard(w)
      BY DEF EfStart, EfGuard, RefundGuarded
    <2>6. pc'[w] \in {"rfGuard", "rfBegin", "rfSubmit", "efGuard", "efBegin", "efSubmit"}
            => pc'[w] = pc[w] \/ RfStart(w) \/ RfGuard(w) \/ RfBegin(w)
      BY <2>5, RefundPath
    <2> QED BY <2>1, <2>2, <2>3, <2>4, <2>6
  <1> QED BY <1>1, <1>3, <1>4 DEF RefundGuarded

\* NoRefundAfterClaim, for a managed user.  It needs one thing of the daemon
\* that the daemon does not always keep (README.md section 3, FundedOnce): no lock
\* after a claim.  Everything else, the stale copies, the retries, the late
\* transactions and the crashes, the handlers withstand.
THEOREM NobodyHasBothLegs ==
    ASSUME ~Loop
    PROVE  Spec /\ FundedOnce => []NoRefundAfterClaim
  <1>1. Init => RefundGuarded
    BY DEF Init, EscrowInit, CantonInit, OrderInit, RefundGuarded
  <1>2. /\ TypeOK /\ EscrowInv /\ EvidenceInv /\ RefundLate /\ RefundGuarded
        /\ TypeOK' /\ [Next]_vars /\ [lockTxs' > lockTxs => "Claimed" \notin events]_vars
        => RefundGuarded'
    <2> SUFFICES ASSUME TypeOK, EscrowInv, EvidenceInv, RefundLate, RefundGuarded,
                        TypeOK', [Next]_vars,
                        [lockTxs' > lockTxs => "Claimed" \notin events]_vars
                 PROVE  RefundGuarded'
      OBVIOUS
    <2>1. lockTxs' > lockTxs => "Claimed" \notin events
      <3>1. CASE UNCHANGED vars
        BY <3>1, EscrowAssumption DEF vars, escrowVars, TypeOK, EscrowTypeOK
      <3> QED BY <3>1
    <2> QED BY <2>1, RefundGuardedInductive
  <1>3. RefundGuarded => NoRefundAfterClaim
    BY DEF RefundGuarded, NoRefundAfterClaim, RefundDone
  <1> QED BY <1>1, <1>2, <1>3, ReverseTypeCorrect, EscrowInvariant,
             ReverseEvidenceInvariant, RefundsAreLate, PTL DEF Spec, FundedOnce

-----------------------------------------------------------------------------
(* ImplementsSwap: every step of a managed reverse swap is a step of       *)
(* CrossChainSwap, or changes neither asset.                               *)

\* What the step needs of the state it starts in.
SwapInv ==
    TypeOK /\ EscrowInv /\ EvidenceInv /\ RefundLate /\ RefundGuarded

\* A step of a managed swap locked once moves the assets as CrossChainSwap does.
LEMMA SwapStep ==
    ASSUME ~Loop, SwapInv, SwapInv', [Next]_vars, lockTxs' <= 1
    PROVE  [Swap!Next]_<<cbtcView, wbtcView>>
  <1> USE DEF SwapInv
  <1>1. /\ lockTxs \in Nat /\ lockTxs' \in Nat /\ now \in Nat
        /\ SolverTimelock \in Nat
        /\ alloc \in AllocState
    BY EscrowAssumption, OrderAssumption DEF TypeOK, EscrowTypeOK, CantonTypeOK
  <1>2. CASE lockTxs' > lockTxs
    <2>1. /\ SolverLock /\ alloc # "none" /\ UNCHANGED alloc
          /\ now < SolverTimelock /\ lockTxs = 0 /\ lockTxs' # 0
      BY <1>1, <1>2, LockStep DEF SetAside, ledgers, mainVars, cantonVars
    <2>2. "Claimed" \notin events /\ "Claimed" \notin events' /\ slot'.amount # 0
      BY <2>1, OrderAssumption DEF EscrowInv, SolverLock, Lock
    <2>3. alloc = "locked"
      BY <1>1, <2>1, <2>2 DEF EvidenceInv, CbtcAfterWbtc, RefundLate,
         AllocState
    <2>4. /\ cbtcView = "escrow" /\ cbtcView' = "escrow"
          /\ wbtcView = "free" /\ wbtcView' = "locked"
      BY <2>1, <2>2, <2>3 DEF cbtcView, wbtcView
    <2> QED BY <2>4 DEF Swap!Next, Swap!Reserve
  <1>3. CASE UserClaim
    <2>1. /\ slot.amount # 0 /\ now < SolverTimelock /\ lockTxs # 0
          /\ "Claimed" \notin events /\ "Claimed" \in events' /\ UNCHANGED alloc
      BY <1>3, <1>1 DEF UserClaim, Claim, EscrowInv, RefundGuarded, mainVars,
         cantonVars
    <2>2. alloc = "locked"
      BY <1>1, <2>1 DEF EvidenceInv, CbtcAfterWbtc, RefundLate, AllocState,
         SetAside, ledgers
    <2>3. /\ cbtcView = "escrow" /\ cbtcView' = "escrow"
          /\ wbtcView = "locked" /\ wbtcView' = "delivered"
      BY <2>1, <2>2 DEF cbtcView, wbtcView
    <2> QED BY <2>3 DEF Swap!Next, Swap!Release
  <1>4. CASE SolverRetake
    <2>1. /\ slot.amount # 0 /\ lockTxs # 0 /\ lockTxs' = lockTxs /\ slot'.amount = 0
          /\ "Claimed" \notin events /\ "Claimed" \notin events' /\ UNCHANGED alloc
      BY <1>4, <1>1 DEF SolverRetake, Retake, Emptied, TypeOK, EscrowTypeOK,
         Slot, EscrowInv, RefundGuarded, mainVars, cantonVars
    <2>2. cbtcView' = cbtcView /\ wbtcView = "locked" /\ wbtcView' = "returned"
      BY <2>1 DEF cbtcView, wbtcView
    <2> QED BY <2>2 DEF Swap!Next, Swap!Reclaim
  <1>5. CASE alloc' # alloc
    <2>1. UNCHANGED <<slot, events, lockTxs>>
      BY <1>5, AllocMoves DEF evmVars, chainVars, escrowVars
    <2>2. wbtcView' = wbtcView
      BY <2>1 DEF wbtcView
    <2>3. CASE alloc = "none" /\ alloc' = "locked"
      <3>1. cbtcView = "owner" /\ cbtcView' = "escrow"
        BY <2>3 DEF cbtcView, wbtcView
      <3> QED BY <2>2, <3>1 DEF Swap!Next, Swap!Deposit
    <2>4. CASE alloc = "locked" /\ alloc' = "executed"
      <3>1. "Claimed" \in events
        BY <2>1, <2>4 DEF EvidenceInv, CbtcAfterWbtc
      <3>2. cbtcView = "escrow" /\ cbtcView' = "settled" /\ wbtcView = "delivered"
        BY <2>4, <3>1 DEF cbtcView, wbtcView
      <3> QED BY <2>2, <3>2 DEF Swap!Next, Swap!Collect
    <2>5. CASE alloc = "locked" /\ alloc' = "refunded"
      <3>1. cbtcView = "escrow" /\ cbtcView' = "owner"
        BY <2>5 DEF cbtcView, wbtcView
      <3> QED BY <2>2, <3>1 DEF Swap!Next, Swap!Return
    <2> QED BY <1>5, <2>3, <2>4, <2>5, AllocMoves
  <1>6. CASE /\ ~(lockTxs' > lockTxs) /\ ~UserClaim /\ ~SolverRetake
             /\ alloc' = alloc
    <2>1. \/ SolverLock
          \/ UNCHANGED <<slot, events, lockTxs>>
      BY <1>6, EscrowFrame DEF Chain, Tick, Finalize, PendingLands, DkWait,
         evmVars, chainVars, escrowVars
    <2>2. ~SolverLock
      BY <1>1, <1>6 DEF SolverLock, Lock
    <2>3. cbtcView' = cbtcView
      BY <1>6 DEF cbtcView
    <2>4. wbtcView' = wbtcView
      BY <2>1, <2>2 DEF wbtcView
    <2> QED BY <2>3, <2>4
  <1> QED BY <1>2, <1>3, <1>4, <1>5, <1>6

\* While one lock at most has been mined, none is mined after a claim.
LEMMA OneLockGuarded ==
    ASSUME ~Loop, TypeOK, TypeOK', EscrowInv, EvidenceInv, RefundLate,
           RefundGuarded, [Next]_vars, lockTxs' <= 1
    PROVE  RefundGuarded'
  <1>1. lockTxs' > lockTxs => "Claimed" \notin events
    BY EscrowAssumption DEF TypeOK, EscrowTypeOK, EscrowInv
  <1> QED BY <1>1, RefundGuardedInductive

\* ImplementsSwap: the managed reverse swap in which the WBTC is locked once
\* implements the abstract swap of two assets, CrossChainSwap.
THEOREM ReverseImplementsSwap ==
    ASSUME ~Loop
    PROVE  Spec /\ [](lockTxs <= 1) => ImplementsSwap
  <1>1. Init => RefundGuarded
    BY DEF Init, EscrowInit, CantonInit, OrderInit, RefundGuarded
  <1>2. /\ TypeOK /\ EscrowInv /\ EvidenceInv /\ RefundLate /\ RefundGuarded
        /\ TypeOK' /\ [Next]_vars /\ (lockTxs <= 1)'
        => RefundGuarded'
    BY OneLockGuarded
  <1>3. Spec /\ [](lockTxs <= 1) => []SwapInv
    BY <1>1, <1>2, ReverseTypeCorrect, EscrowInvariant,
       ReverseEvidenceInvariant, RefundsAreLate, PTL DEF Spec, SwapInv
  <1>4. Init => Swap!Init
    BY DEF Init, EscrowInit, CantonInit, cbtcView, wbtcView, Swap!Init
  <1>5. SwapInv /\ SwapInv' /\ [Next]_vars /\ (lockTxs <= 1)'
          => [Swap!Next]_<<cbtcView, wbtcView>>
    BY SwapStep
  <1> QED BY <1>3, <1>4, <1>5, PTL DEF Spec, Swap!Spec, ImplementsSwap
=============================================================================
