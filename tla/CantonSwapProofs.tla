------------------------- MODULE CantonSwapProofs -------------------------
(***************************************************************************)
(* Proofs about CantonSwap, for any number of overlapping handlers, lost   *)
(* calls and reissues.  Only the last result, that the asset is delivered  *)
(* once, needs handlers that end within the cooldown: without them it does *)
(* not hold.                                                               *)
(***************************************************************************)
EXTENDS CantonSwap, FiniteSetTheorems, TLAPS

-----------------------------------------------------------------------------
(* Who moves what.                                                         *)

\* The order's mode never changes, and its deadline stays passed.
LEMMA ModeFixed ==
    ASSUME [Next]_vars
    PROVE  mode' = mode
  <1>1. CASE UNCHANGED vars \/ Environment \/ \E w \in Workers : Kill(w)
    BY <1>1 DEF vars, envVars, Environment, CreateOrder, SellOffered, SellCloses,
       DeadlinePasses, CooldownPasses, FeesSwitchedOff, Land, OfferEnds, Kill
  <1>2. ASSUME NEW w \in Workers, Start(w) \/ Sweep(w) PROVE mode' = mode
    BY <1>2 DEF envVars, Start, Sweep, Cancel, SettleStart, ConfirmStart,
       FillStart, MarkAccepted, RepairStart, CounterStart, ExpireStart, FeeStart
  <1>3. ASSUME NEW w \in Workers, Step(w) PROVE mode' = mode
    BY <1>3 DEF envVars, Step, AskFloat, SettleReserve, SettleJoin, SettleFee,
       SettleOffer, SettleOffered, ConfirmReserve, ConfirmReject, FillReserve,
       FillReserved, FillBegin, FillRepair, FillCheck, FillSubmit, FillRecover,
       RecordResult, BookFee, UnmarkFee, SettleCaught, FillCaught, FillInFlight,
       CatchReject, LastPut, SweepRepair, CounterLook, CounterFresh,
       CounterRelook, ReissueReserve, ReissueReserved, Reissue, ReissueRecord,
       ExpireRepair, ExpireReject, FeeBook
  <1> QED BY <1>1, <1>2, <1>3 DEF Next

\* The ledger changes only by the user, by a submission that lands, and by the
\* six steps that submit.
LEMMA LedgerFrame ==
    ASSUME [Next]_vars
    PROVE  \/ UNCHANGED ledgerVars
           \/ SellOffered \/ SellCloses
           \/ \E k \in Leg : Land(k) \/ OfferEnds(k)
           \/ \E w \in Workers : \/ ConfirmReject(w) \/ SettleOffer(w)
                                 \/ FillSubmit(w) \/ CatchReject(w)
                                 \/ Reissue(w) \/ ExpireReject(w)
  <1>1. CASE UNCHANGED vars \/ Environment \/ \E w \in Workers : Kill(w)
    BY <1>1 DEF vars, ledgerVars, Environment, CreateOrder, DeadlinePasses,
                CooldownPasses, FeesSwitchedOff, Kill
  <1>2. ASSUME NEW w \in Workers, Start(w) \/ Sweep(w)
        PROVE  UNCHANGED ledgerVars
    BY <1>2 DEF Start, Sweep, Cancel, SettleStart, ConfirmStart, FillStart,
       MarkAccepted, RepairStart, CounterStart, ExpireStart, FeeStart
  <1>3. ASSUME NEW w \in Workers, Step(w)
        PROVE  \/ UNCHANGED ledgerVars
               \/ ConfirmReject(w) \/ SettleOffer(w) \/ FillSubmit(w)
               \/ CatchReject(w) \/ Reissue(w) \/ ExpireReject(w)
    BY <1>3 DEF Step, AskFloat, SettleReserve, SettleJoin, SettleFee,
       SettleOffered, ConfirmReserve, FillReserve, FillReserved, FillBegin,
       FillRepair, FillCheck, FillRecover, RecordResult, BookFee, UnmarkFee,
       SettleCaught, FillCaught, FillInFlight, LastPut, SweepRepair,
       CounterLook, CounterFresh, CounterRelook, ReissueReserve,
       ReissueReserved, ReissueRecord, ExpireRepair, FeeBook
  <1> QED BY <1>1, <1>2, <1>3 DEF Next

\* The row is written by the insert, the reservation RPC, the conditional
\* writes, the fee's write, and the clock that ages its cooldown stamp.
LEMMA RowFrame ==
    ASSUME [Next]_vars
    PROVE  \/ UNCHANGED row
           \/ CreateOrder \/ CooldownPasses
           \/ \E w \in Workers :
                \/ SettleReserve(w) \/ ConfirmReserve(w) \/ FillReserve(w)
                \/ ReissueReserve(w) \/ SettleFee(w) \/ SettleOffered(w)
                \/ FillBegin(w) \/ RecordResult(w) \/ LastPut(w)
                \/ ReissueRecord(w)
  <1>1. CASE UNCHANGED vars \/ Environment \/ \E w \in Workers : Kill(w)
    BY <1>1 DEF vars, Environment, SellOffered, SellCloses, DeadlinePasses,
                FeesSwitchedOff, Land, OfferEnds, Kill
  <1>2. ASSUME NEW w \in Workers, Start(w) \/ Sweep(w) PROVE UNCHANGED row
    BY <1>2 DEF Start, Sweep, Cancel, SettleStart, ConfirmStart, FillStart,
       MarkAccepted, RepairStart, CounterStart, ExpireStart, FeeStart
  <1>3. ASSUME NEW w \in Workers, Step(w)
        PROVE  \/ UNCHANGED row
               \/ SettleReserve(w) \/ ConfirmReserve(w) \/ FillReserve(w)
               \/ ReissueReserve(w) \/ SettleFee(w) \/ SettleOffered(w)
               \/ FillBegin(w) \/ RecordResult(w) \/ LastPut(w)
               \/ ReissueRecord(w)
    BY <1>3 DEF Step, SettleJoin, SettleOffer, ConfirmReject, FillReserved,
       FillRepair, FillCheck, FillSubmit, FillRecover, BookFee, UnmarkFee,
       SettleCaught, FillCaught, FillInFlight, CatchReject, SweepRepair,
       CounterLook, CounterFresh, CounterRelook, ReissueReserved, Reissue,
       ExpireRepair, ExpireReject, FeeBook
  <1> QED BY <1>1, <1>2, <1>3 DEF Next

\* The fee ledger gets its entry in two places.
LEMMA BookedFrame ==
    ASSUME [Next]_vars
    PROVE  \/ UNCHANGED booked
           \/ booked' = TRUE /\ \E w \in Workers : BookFee(w) \/ FeeBook(w)
  <1>1. CASE UNCHANGED vars \/ Environment \/ \E w \in Workers : Kill(w)
    BY <1>1 DEF vars, Environment, CreateOrder, SellOffered, SellCloses,
       DeadlinePasses, CooldownPasses, FeesSwitchedOff, Land, OfferEnds, Kill
  <1>2. ASSUME NEW w \in Workers, Start(w) \/ Sweep(w) PROVE UNCHANGED booked
    BY <1>2 DEF Start, Sweep, Cancel, SettleStart, ConfirmStart, FillStart,
       MarkAccepted, RepairStart, CounterStart, ExpireStart, FeeStart
  <1>3. ASSUME NEW w \in Workers, Step(w), ~BookFee(w), ~FeeBook(w)
        PROVE  UNCHANGED booked
    BY <1>3 DEF Step, AskFloat, SettleReserve, SettleJoin, SettleFee,
       SettleOffer, SettleOffered, ConfirmReserve, ConfirmReject, FillReserve,
       FillReserved, FillBegin, FillRepair, FillCheck, FillSubmit, FillRecover,
       RecordResult, UnmarkFee, SettleCaught, FillCaught, FillInFlight,
       CatchReject, LastPut, SweepRepair, CounterLook, CounterFresh,
       CounterRelook, ReissueReserve, ReissueReserved, Reissue, ReissueRecord,
       ExpireRepair, ExpireReject
  <1>4. ASSUME NEW w \in Workers, BookFee(w) \/ FeeBook(w)
        PROVE  UNCHANGED booked \/ booked' = TRUE
    BY <1>4 DEF BookFee, FeeBook
  <1> QED BY <1>1, <1>2, <1>3, <1>4 DEF Next

-----------------------------------------------------------------------------
(* Type correctness.                                                       *)

Job == [at : Label, o : Row, was : Status, cid : 0..MaxLegs, err : Err]

\* The places a worker may be sent to, one by one.
LEMMA LabelMembers ==
    /\ "idle" \in Label /\ "reserve" \in Label /\ "joined" \in Label
    /\ "confirm" \in Label /\ "unconfirmed" \in Label
    /\ "reserveFill" \in Label /\ "reservedFill" \in Label
    /\ "begin" \in Label /\ "fee" \in Label /\ "offer" \in Label
    /\ "offered" \in Label /\ "repair" \in Label /\ "check" \in Label
    /\ "submit" \in Label /\ "recover" \in Label /\ "result" \in Label
    /\ "book" \in Label /\ "unmark" \in Label /\ "caught" \in Label
    /\ "reject" \in Label /\ "inFlight" \in Label
    /\ "sweepRepair" \in Label /\ "look" \in Label /\ "fresh" \in Label
    /\ "relook" \in Label /\ "reserveReissue" \in Label
    /\ "reservedReissue" \in Label /\ "reissue" \in Label
    /\ "reissued" \in Label /\ "expire" \in Label
    /\ "expireReject" \in Label /\ "feeBook" \in Label /\ "put" \in Label
  BY DEF Label

\* The statuses a handler may write or expect.
LEMMA StatusMembers ==
    /\ "none" \in Status /\ "open" \in Status /\ "user_locked" \in Status
    /\ "settling" \in Status /\ "filling" \in Status /\ "filled" \in Status
    /\ "failed" \in Status /\ "expired" \in Status /\ "cancelled" \in Status
  BY DEF Status

\* The blank row is a row, and the idle worker a worker.
LEMMA IdleType == NewOrder \in Row /\ Idle \in Job
  <1>1. NewOrder \in Row
    BY CantonSwapAssumption DEF NewOrder, Row, Status
  <1>2. 0 \in 0..MaxLegs
    BY CantonSwapAssumption
  <1> QED BY <1>1, <1>2, LabelMembers, StatusMembers DEF Idle, Job, Err

\* What the handlers make of a copy of the row is a row.
LEMMA FillWrites ==
    ASSUME NEW o \in Row
    PROVE  /\ FillResult(o, Offered(1)) \in Row
           /\ FillResult(o, FALSE) \in Row
           /\ \A kind : FillResult(o, kind = "pending") \in Row
  <1>1. 1 \in 0..MaxLegs
    BY CantonSwapAssumption
  <1> QED BY <1>1 DEF FillResult, Row, Status

\* What a reissue makes of a copy is a row,
LEMMA ReissueWrites ==
    ASSUME NEW o \in Row, NEW k \in Leg
    PROVE  /\ ReissueResult(o, k, Offered(k)) \in Row
           /\ \A kind : ReissueResult(o, k, kind = "pending") \in Row
  <1>1. 0 \in 0..MaxLegs /\ k \in 0..MaxLegs /\ k - 1 \in 0..MaxLegs
    BY CantonSwapAssumption DEF Leg
  <1> QED BY <1>1 DEF ReissueResult, Row, Status

\* so are what a failure, an expiry, a receipt or the clock makes of it,
LEMMA OutcomeWrites ==
    ASSUME NEW o \in Row
    PROVE  /\ Failed(o) \in Row /\ ExpiredRow(o) \in Row
           /\ Received(o) \in Row /\ Aged(o) \in Row
           /\ [o EXCEPT !.status = "cancelled", !.floatReserved = FALSE] \in Row
           /\ [NewOrder EXCEPT !.status = "open", !.networkFeeCc = feesOn] \in Row
                \/ feesOn \notin BOOLEAN
  BY IdleType DEF Failed, ExpiredRow, Received, Aged, Row, Status

\* and a copy with one of the fields set that handlers set.
LEMMA FieldWrites ==
    ASSUME NEW o \in Row
    PROVE  /\ \A s \in Status : [o EXCEPT !.status = s] \in Row
           /\ \A s \in Status, b \in BOOLEAN :
                [o EXCEPT !.status = s, !.fillInFlight = b] \in Row
           /\ [o EXCEPT !.userLegOfferCid = TRUE] \in Row
           /\ [o EXCEPT !.networkFeeAccountingPending = FALSE] \in Row
           /\ \A c \in {"none", "recent"} :
                [o EXCEPT !.counterPendingClearedAt = c] \in Row
           /\ \A b, c \in BOOLEAN :
                [o EXCEPT !.networkFeeSettlementUpdateId = b,
                          !.networkFeeAccountingPending = c] \in Row
  <1> USE DEF Row
  <1>1. /\ \A s \in Status : [o EXCEPT !.status = s] \in Row
        /\ \A s \in Status, b \in BOOLEAN :
             [o EXCEPT !.status = s, !.fillInFlight = b] \in Row
    BY Zenon
  <1>2. /\ [o EXCEPT !.userLegOfferCid = TRUE] \in Row
        /\ [o EXCEPT !.networkFeeAccountingPending = FALSE] \in Row
        /\ \A c \in {"none", "recent"} :
                [o EXCEPT !.counterPendingClearedAt = c] \in Row
    OBVIOUS
  <1>3. \A b, c \in BOOLEAN :
                [o EXCEPT !.networkFeeSettlementUpdateId = b,
                          !.networkFeeAccountingPending = c] \in Row
    OBVIOUS
  <1> QED BY <1>1, <1>2, <1>3, Zenon

\* The handlers' part of the state, after a step.
HandlersTyped == row' \in Row /\ job' \in [Workers -> Job]

\* A worker that goes on with a worker's record stays one.
LEMMA BecomeType ==
    ASSUME TypeOK, NEW w \in Workers, NEW j \in Job, Become(w, j)
    PROVE  job' \in [Workers -> Job]
  BY DEF TypeOK, Become, Job

\* So does one that returns,
LEMMA ReturnType ==
    ASSUME TypeOK, NEW w \in Workers, Return(w)
    PROVE  job' \in [Workers -> Job]
  BY IdleType, BecomeType DEF Return

\* one that goes on with another copy,
LEMMA CarryType ==
    ASSUME TypeOK, NEW w \in Workers, NEW l \in Label, NEW o \in Row,
           NEW s \in Status, Carry(w, l, o, s)
    PROVE  job' \in [Workers -> Job]
  BY BecomeType DEF Carry, TypeOK, Job

\* one that goes on with its own,
LEMMA GotoType ==
    ASSUME TypeOK, NEW w \in Workers, NEW l \in Label, Goto(w, l)
    PROVE  job' \in [Workers -> Job]
  BY BecomeType DEF Goto, TypeOK, Job

\* one that gives up with it,
LEMMA FailType ==
    ASSUME TypeOK, NEW w \in Workers, NEW e \in Err, Fail(w, e)
    PROVE  job' \in [Workers -> Job]
  BY BecomeType, LabelMembers DEF Fail, TypeOK, Job

\* and one that reads the row.
LEMMA ReadType ==
    ASSUME TypeOK, NEW w \in Workers, NEW l \in Label, Read(w, l)
    PROVE  job' \in [Workers -> Job]
  <1>1. row \in Row /\ row.status \in Status /\ row.counterLegOfferCid \in 0..MaxLegs
    BY DEF TypeOK, Row
  <1>2. [Idle EXCEPT !.at = l, !.o = row, !.was = row.status,
                     !.cid = row.counterLegOfferCid] \in Job
    BY <1>1, IdleType DEF Job
  <1> QED BY <1>2, BecomeType DEF Read

\* The store's write leaves a row.
LEMMA PutType ==
    ASSUME TypeOK, NEW o \in Row, Put(o)
    PROVE  row' \in Row
  BY DEF TypeOK, Put, Row

\* The reservation RPC does,
LEMMA ReserveType ==
    ASSUME TypeOK, NEW s, NEW next \in Status, NEW b \in BOOLEAN,
           Reserve(s, next, b)
    PROVE  row' \in Row
  BY DEF TypeOK, Reserve, Row

\* and a worker that calls it stays a worker.
LEMMA AskFloatType ==
    ASSUME TypeOK, NEW w \in Workers, NEW next \in Status, NEW b \in BOOLEAN,
           NEW l \in Label, NEW m \in Label, AskFloat(w, next, b, l, m)
    PROVE  HandlersTyped
  BY ReserveType, GotoType DEF AskFloat, HandlersTyped, TypeOK

\* The steps that start a handler, and those that read the row and decide.
LEMMA LocalStepsType ==
    ASSUME TypeOK, NEW w \in Workers,
           \/ Start(w) \/ Sweep(w) \/ SettleJoin(w) \/ ConfirmReject(w)
           \/ FillReserved(w) \/ FillCheck(w) \/ BookFee(w) \/ UnmarkFee(w)
           \/ FillInFlight(w) \/ CounterFresh(w) \/ ReissueReserved(w)
           \/ Kill(w)
    PROVE  job' \in [Workers -> Job] /\ UNCHANGED row
  <1>1. row \in Row /\ row.status \in Status /\ row.counterLegOfferCid \in 0..MaxLegs
    BY DEF TypeOK, Row
  <1> USE <1>1, LabelMembers, StatusMembers, ReturnType, ReadType
  <1>2. CASE Cancel(w)
    <2>1. [row EXCEPT !.status = "cancelled", !.floatReserved = FALSE] \in Row
      BY OutcomeWrites, Zenon
    <2>2. [Idle EXCEPT !.at = "put", !.was = "open", !.cid = row.counterLegOfferCid,
             !.o = [row EXCEPT !.status = "cancelled", !.floatReserved = FALSE]] \in Job
      BY <2>1, IdleType DEF Job
    <2> QED BY <1>2, <2>2, BecomeType DEF Cancel
  <1>3. CASE MarkAccepted(w)
    <2>1. Received(row) \in Row
      BY OutcomeWrites, Zenon
    <2>2. [Idle EXCEPT !.at = "put", !.was = "user_locked", !.o = Received(row)] \in Job
      BY <2>1, IdleType DEF Job
    <2> QED BY <1>3, <2>2, BecomeType DEF MarkAccepted
  <1>4. CASE UnmarkFee(w)
    <2>1. [row EXCEPT !.networkFeeAccountingPending = FALSE] \in Row
      BY FieldWrites, Zenon
    <2>2. [Idle EXCEPT !.at = "put", !.was = row.status,
             !.o = [row EXCEPT !.networkFeeAccountingPending = FALSE]] \in Job
      BY <2>1, IdleType DEF Job
    <2> QED BY <1>4, <2>2, BecomeType DEF UnmarkFee
  <1>5. CASE SettleStart(w)
    BY <1>5 DEF SettleStart
  <1>6. CASE ConfirmStart(w) \/ RepairStart(w) \/ CounterStart(w) \/ ExpireStart(w)
             \/ FeeStart(w) \/ SettleJoin(w) \/ FillReserved(w)
    BY <1>6 DEF ConfirmStart, RepairStart, CounterStart, ExpireStart, FeeStart,
                SettleJoin, FillReserved
  <1>7. CASE FillStart(w)
    BY <1>7 DEF FillStart
  <1>8. CASE ConfirmReject(w) \/ Kill(w)
    BY <1>8 DEF ConfirmReject, Kill
  <1>9. CASE FillCheck(w)
    BY <1>9, GotoType, FailType DEF FillCheck, Err
  <1>10. CASE BookFee(w)
    BY <1>10, GotoType DEF BookFee
  <1>11. CASE FillInFlight(w)
    <2>1. [row EXCEPT !.status = "user_locked", !.fillInFlight = TRUE] \in Row
      BY FieldWrites, Zenon
    <2> QED BY <1>11, <2>1, CarryType DEF FillInFlight
  <1>12. CASE CounterFresh(w) \/ ReissueReserved(w)
    BY <1>12 DEF CounterFresh, ReissueReserved
  <1> QED BY <1>2, <1>3, <1>4, <1>5, <1>6, <1>7, <1>8, <1>9, <1>10, <1>11,
             <1>12 DEF Start, Sweep

\* The steps that go on with another copy of the row, to be written later.
LEMMA CarryStepsType ==
    ASSUME TypeOK, NEW w \in Workers,
           \/ SettleOffer(w) \/ FillRepair(w) \/ FillSubmit(w)
           \/ FillRecover(w) \/ SettleCaught(w) \/ FillCaught(w)
           \/ CatchReject(w) \/ SweepRepair(w) \/ CounterLook(w)
           \/ CounterRelook(w) \/ Reissue(w) \/ ExpireRepair(w)
           \/ ExpireReject(w) \/ FeeBook(w)
    PROVE  job' \in [Workers -> Job] /\ UNCHANGED row
  <1> DEFINE o == job[w].o
  <1>1. o \in Row /\ o.status \in Status /\ job[w].was \in Status
    BY DEF TypeOK, Row
  <1> USE <1>1, LabelMembers, StatusMembers, ReturnType, GotoType, CarryType, FailType
  <1>2. CASE SettleOffer(w)
    <2>1. [o EXCEPT !.userLegOfferCid = TRUE] \in Row
      BY FieldWrites, Zenon
    <2> QED BY <1>2, <2>1 DEF SettleOffer, Err
  <1>3. CASE FillRepair(w)
    BY <1>3, FillWrites, Zenon DEF FillRepair
  <1>4. CASE FillSubmit(w)
    <2>1. ASSUME NEW kind PROVE FillSubmitted(w, kind) \in Row
      <3> DEFINE p == FillResult(o, kind = "pending")
      <3>1. p \in Row
        BY FillWrites
      <3>2. /\ (p.networkFeeSettlementUpdateId \/ WithFee(w)) \in BOOLEAN
            /\ (p.networkFeeAccountingPending \/ WithFee(w)) \in BOOLEAN
        OBVIOUS
      <3> HIDE DEF p
      <3>3. [p EXCEPT !.networkFeeSettlementUpdateId = @ \/ WithFee(w),
                      !.networkFeeAccountingPending = @ \/ WithFee(w)] \in Row
        BY <3>1, <3>2, FieldWrites, Zenon
      <3> QED BY <3>3, Zenon DEF FillSubmitted, p, o
    <2> QED BY <1>4, <2>1 DEF FillSubmit, Err
  <1>5. CASE FillRecover(w)
    BY <1>5, FillWrites, Zenon DEF FillRecover, Err
  <1>6. CASE SettleCaught(w)
    <2>1. Failed(o) \in Row /\ [o EXCEPT !.status = "settling"] \in Row
      BY OutcomeWrites, FieldWrites, Zenon
    <2> QED BY <1>6, <2>1, FillWrites DEF SettleCaught
  <1>7. CASE FillCaught(w)
    <2>1. /\ Failed(o) \in Row
          /\ [o EXCEPT !.status = "user_locked", !.fillInFlight = FALSE] \in Row
      BY OutcomeWrites, FieldWrites, Zenon
    <2> QED BY <1>7, <2>1 DEF FillCaught
  <1>8. CASE CatchReject(w)
    <2>1. Failed(o) \in Row /\ [o EXCEPT !.status = "settling"] \in Row
      BY OutcomeWrites, FieldWrites, Zenon
    <2> QED BY <1>8, <2>1 DEF CatchReject
  <1>9. CASE SweepRepair(w)
    <2>1. [o EXCEPT !.status = "user_locked", !.fillInFlight = TRUE] \in Row
      BY FieldWrites, Zenon
    <2> QED BY <1>9, <2>1, FillWrites, Zenon DEF SweepRepair
  <1>10. CASE CounterLook(w)
    <2>1. /\ Received(o) \in Row
          /\ [o EXCEPT !.counterPendingClearedAt = "none"] \in Row
          /\ [o EXCEPT !.counterPendingClearedAt = "recent"] \in Row
      BY OutcomeWrites, FieldWrites, Zenon
    <2> QED BY <1>10, <2>1 DEF CounterLook
  <1>11. CASE CounterRelook(w)
    <2>1. /\ Received(o) \in Row
          /\ [o EXCEPT !.counterPendingClearedAt = "none"] \in Row
      BY OutcomeWrites, FieldWrites, Zenon
    <2> QED BY <1>11, <2>1 DEF CounterRelook
  <1>12. CASE Reissue(w)
    BY <1>12, ReissueWrites, Zenon DEF Reissue
  <1>13. CASE ExpireRepair(w)
    <2>1. ExpiredRow(o) \in Row
      BY OutcomeWrites, Zenon
    <2> QED BY <1>13, <2>1, FillWrites DEF ExpireRepair, ExpireOrLeave
  <1>14. CASE ExpireReject(w)
    <2>1. ExpiredRow(o) \in Row
      BY OutcomeWrites, Zenon
    <2> QED BY <1>14, <2>1 DEF ExpireReject, ExpireOrLeave
  <1>15. CASE FeeBook(w)
    <2>1. [o EXCEPT !.networkFeeAccountingPending = FALSE] \in Row
      BY FieldWrites, Zenon
    <2> QED BY <1>15, <2>1 DEF FeeBook
  <1> QED BY <1>2, <1>3, <1>4, <1>5, <1>6, <1>7, <1>8, <1>9, <1>10, <1>11,
             <1>12, <1>13, <1>14, <1>15

\* The steps that write the row.
LEMMA WriteStepsType ==
    ASSUME TypeOK, NEW w \in Workers,
           \/ SettleReserve(w) \/ ConfirmReserve(w) \/ FillReserve(w)
           \/ ReissueReserve(w) \/ SettleFee(w) \/ SettleOffered(w)
           \/ FillBegin(w) \/ RecordResult(w) \/ LastPut(w)
           \/ ReissueRecord(w)
    PROVE  HandlersTyped
  <1> DEFINE o == job[w].o
  <1>1. /\ o \in Row /\ job[w].was \in Status
        /\ row \in Row /\ row.counterLegOfferCid \in 0..MaxLegs
    BY DEF TypeOK, Row
  <1> USE <1>1, LabelMembers, StatusMembers, ReturnType, GotoType, CarryType,
          FailType, PutType
  <1>2. CASE SettleReserve(w)
    BY <1>2, AskFloatType DEF SettleReserve
  <1>3. CASE ConfirmReserve(w) \/ FillReserve(w) \/ ReissueReserve(w)
    BY <1>3, AskFloatType DEF ConfirmReserve, FillReserve, ReissueReserve
  <1>4. CASE SettleFee(w)
    BY <1>4 DEF SettleFee, HandlersTyped, Err
  <1>5. CASE SettleOffered(w)
    <2>1. [job[w] EXCEPT !.at = "caught", !.o = row, !.err = "other"] \in Job
      BY DEF TypeOK, Job, Err
    <2> QED BY <1>5, <2>1, BecomeType DEF SettleOffered, HandlersTyped
  <1>6. CASE FillBegin(w)
    <2>1. [o EXCEPT !.status = "filling"] \in Row
      BY FieldWrites, Zenon
    <2> QED BY <1>6, <2>1 DEF FillBegin, HandlersTyped
  <1>7. CASE RecordResult(w)
    BY <1>7 DEF RecordResult, HandlersTyped, Err
  <1>8. CASE LastPut(w)
    BY <1>8 DEF LastPut, HandlersTyped
  <1>9. CASE ReissueRecord(w)
    BY <1>9 DEF ReissueRecord, HandlersTyped
  <1> QED BY <1>2, <1>3, <1>4, <1>5, <1>6, <1>7, <1>8, <1>9

\* Every step keeps the row and the workers' copies well typed.
LEMMA HandlersStayTyped ==
    ASSUME TypeOK, [Next]_vars
    PROVE  HandlersTyped
  <1>1. row \in Row /\ job \in [Workers -> Job]
    BY DEF TypeOK, Job
  <1>2. ASSUME UNCHANGED <<row, job>> PROVE HandlersTyped
    BY <1>1, <1>2 DEF HandlersTyped
  <1>3. CASE UNCHANGED vars
    BY <1>2, <1>3 DEF vars
  <1>4. CASE CreateOrder
    <2>1. [NewOrder EXCEPT !.status = "open", !.networkFeeCc = feesOn] \in Row
      BY OutcomeWrites, IdleType, Zenon DEF TypeOK
    <2> QED BY <1>1, <1>4, <2>1 DEF CreateOrder, HandlersTyped
  <1>5. CASE CooldownPasses
    <2>1. ASSUME NEW w \in Workers
          PROVE  [job[w] EXCEPT !.o = Aged(job[w].o)] \in Job
      BY <1>1, OutcomeWrites, Zenon DEF Job
    <2> QED BY <1>1, <1>5, <2>1, OutcomeWrites, Zenon DEF CooldownPasses, HandlersTyped
  <1>6. CASE Environment /\ ~CreateOrder /\ ~CooldownPasses
    BY <1>2, <1>6 DEF Environment, SellOffered, SellCloses, DeadlinePasses,
                      FeesSwitchedOff, Land, OfferEnds
  <1>7. ASSUME NEW w \in Workers, Start(w) \/ Sweep(w) \/ Step(w) \/ Kill(w)
        PROVE  HandlersTyped
    BY <1>1, <1>7, LocalStepsType, CarryStepsType, WriteStepsType
       DEF Step, HandlersTyped
  <1> QED BY <1>3, <1>4, <1>5, <1>6, <1>7 DEF Next

\* The sell offer and the vault's commands.
LedgerTyped ==
    /\ sell' \in {"none", "pending", "accepted", "closed"}
    /\ legs' \in [Leg -> {"none", "flying", "direct", "pending", "accepted", "closed"}]
    /\ feeLeg' \in BOOLEAN

\* Executing a leg, or losing its answer, keeps the ledger well typed.
LEMMA SubmitType ==
    ASSUME TypeOK, NEW k \in Leg
    PROVE  /\ \A kind \in Kinds : Execute(k, kind) =>
                /\ sell' \in {"none", "pending", "accepted", "closed"}
                /\ legs' \in [Leg -> {"none", "flying", "direct", "pending",
                                      "accepted", "closed"}]
           /\ Vanishes(k) =>
                /\ sell' \in {"none", "pending", "accepted", "closed"}
                /\ legs' \in [Leg -> {"none", "flying", "direct", "pending",
                                      "accepted", "closed"}]
  <1>1. ASSUME NEW kind \in Kinds, Execute(k, kind)
        PROVE  /\ sell' \in {"none", "pending", "accepted", "closed"}
               /\ legs' \in [Leg -> {"none", "flying", "direct", "pending",
                                     "accepted", "closed"}]
    BY <1>1 DEF TypeOK, Execute, Kinds
  <1>2. ASSUME Vanishes(k)
        PROVE  /\ sell' \in {"none", "pending", "accepted", "closed"}
               /\ legs' \in [Leg -> {"none", "flying", "direct", "pending",
                                     "accepted", "closed"}]
    BY <1>1, <1>2 DEF Vanishes, TypeOK
  <1> QED BY <1>1, <1>2

\* Every step keeps the sell offer and the commands well typed.
LEMMA LedgerStaysTyped ==
    ASSUME TypeOK, [Next]_vars
    PROVE  LedgerTyped
  <1>1. 1 \in Leg
    BY CantonSwapAssumption DEF Leg
  <1> USE DEF TypeOK, LedgerTyped
  <1>2. CASE UNCHANGED ledgerVars \/ SellOffered \/ SellCloses
    BY <1>2 DEF ledgerVars, SellOffered, SellCloses
  <1>3. ASSUME NEW k \in Leg, Land(k) \/ OfferEnds(k) PROVE LedgerTyped
    BY <1>3, SubmitType DEF Land, OfferEnds
  <1>4. ASSUME NEW w \in Workers, ConfirmReject(w) \/ SettleOffer(w)
                                  \/ CatchReject(w) \/ ExpireReject(w)
        PROVE  LedgerTyped
    BY <1>4 DEF ConfirmReject, SettleOffer, CatchReject, ExpireReject
  <1>5. ASSUME NEW w \in Workers, FillSubmit(w) PROVE LedgerTyped
    BY <1>1, <1>5, SubmitType DEF FillSubmit, WithFee, ledgerVars
  <1>6. ASSUME NEW w \in Workers, Reissue(w) PROVE LedgerTyped
    BY <1>6, SubmitType DEF Reissue
  <1> QED BY <1>2, <1>3, <1>4, <1>5, <1>6, LedgerFrame

\* The rest: the mode, the switches, the fee ledger's entry and the bound.
LEMMA RestStaysTyped ==
    ASSUME TypeOK, [Next]_vars
    PROVE  mode' = mode /\ {feesOn', booked', late'} \subseteq BOOLEAN
           /\ fails' \in 0..MaxFails
  <1>1. fails' = fails \/ CallLost
    <2>1. CASE UNCHANGED vars \/ Environment \/ \E w \in Workers : Kill(w)
      BY <2>1 DEF vars, Environment, CreateOrder, SellOffered, SellCloses,
         DeadlinePasses, CooldownPasses, FeesSwitchedOff, Land, OfferEnds, Kill
    <2>2. ASSUME NEW w \in Workers, Start(w) \/ Sweep(w) PROVE fails' = fails
      BY <2>2 DEF Start, Sweep, Cancel, SettleStart, ConfirmStart, FillStart,
         MarkAccepted, RepairStart, CounterStart, ExpireStart, FeeStart
    <2>3. ASSUME NEW w \in Workers, Step(w) PROVE fails' = fails \/ CallLost
      BY <2>3 DEF Step, AskFloat, SettleReserve, SettleJoin, SettleFee,
         SettleOffer, SettleOffered, ConfirmReserve, ConfirmReject,
         FillReserve, FillReserved, FillBegin, FillRepair, FillCheck,
         FillSubmit, Vanishes, FillRecover, RecordResult, BookFee, UnmarkFee,
         SettleCaught, FillCaught, FillInFlight, CatchReject, LastPut,
         SweepRepair, CounterLook, CounterFresh, CounterRelook,
         ReissueReserve, ReissueReserved, Reissue, ReissueRecord,
         ExpireRepair, ExpireReject, FeeBook
    <2> QED BY <2>1, <2>2, <2>3 DEF Next
  <1>2. fails' \in 0..MaxFails
    BY <1>1, CantonSwapAssumption DEF TypeOK, CallLost
  <1>3. {feesOn', late'} \subseteq BOOLEAN
    <2>1. CASE UNCHANGED envVars
      BY <2>1 DEF envVars, TypeOK
    <2>2. CASE UNCHANGED vars \/ Environment \/ \E w \in Workers : Kill(w)
      BY <2>2 DEF vars, envVars, Environment, CreateOrder, SellOffered,
         SellCloses, DeadlinePasses, CooldownPasses, FeesSwitchedOff, Land,
         OfferEnds, Kill, TypeOK
    <2>3. ASSUME NEW w \in Workers, Start(w) \/ Sweep(w) PROVE UNCHANGED envVars
      BY <2>3 DEF Start, Sweep, Cancel, SettleStart, ConfirmStart, FillStart,
         MarkAccepted, RepairStart, CounterStart, ExpireStart, FeeStart
    <2>4. ASSUME NEW w \in Workers, Step(w) PROVE UNCHANGED envVars
      BY <2>4 DEF Step, AskFloat, SettleReserve, SettleJoin, SettleFee,
         SettleOffer, SettleOffered, ConfirmReserve, ConfirmReject,
         FillReserve, FillReserved, FillBegin, FillRepair, FillCheck,
         FillSubmit, FillRecover, RecordResult, BookFee, UnmarkFee,
         SettleCaught, FillCaught, FillInFlight, CatchReject, LastPut,
         SweepRepair, CounterLook, CounterFresh, CounterRelook,
         ReissueReserve, ReissueReserved, Reissue, ReissueRecord,
         ExpireRepair, ExpireReject, FeeBook
    <2> QED BY <2>1, <2>2, <2>3, <2>4 DEF Next
  <1>4. booked' \in BOOLEAN
    BY BookedFrame DEF TypeOK
  <1> QED BY <1>2, <1>3, <1>4, ModeFixed

\* Type correctness of the whole specification: every handler, sweep and
\* ledger step keeps the row, the copies and the ledger well formed.
THEOREM CantonSwapTypeCorrect == Spec => []TypeOK
  <1>1. Init => TypeOK
    <2> SUFFICES ASSUME Init PROVE TypeOK
      OBVIOUS
    <2>1. NewOrder \in Row /\ Idle \in Job
      BY IdleType
    <2>2. job \in [Workers -> Job] /\ fails \in 0..MaxFails
      BY <2>1, CantonSwapAssumption DEF Init
    <2>3. {feesOn, feeLeg, booked, late} \subseteq BOOLEAN
      BY DEF Init
    <2> QED BY <2>1, <2>2, <2>3, ModesAssumption DEF Init, TypeOK, Job
  <1>2. TypeOK /\ [Next]_vars => TypeOK'
    BY HandlersStayTyped, LedgerStaysTyped, RestStaysTyped
       DEF TypeOK, HandlersTyped, LedgerTyped, Job
  <1> QED BY <1>1, <1>2, PTL DEF Spec

-----------------------------------------------------------------------------
(* The row tells the truth (EvidenceInv).  The argument: what a row may say *)
(* are facts that stay so once they are so; every copy was true when it    *)
(* was read, so it still is when it is written back; and what a handler    *)
(* adds to its copy it has seen, or has the ledger's answer for.  A copy   *)
(* that would put a status back is refused by its compare-and-set.         *)

\* Facts are never taken back.
Grows(f, g) ==
    /\ f.filled => g.filled
    /\ f.fee => g.fee
    /\ f.paid => g.paid
    /\ f.offers \subseteq g.offers
    /\ f.made => g.made
    /\ f.gone => g.gone
    /\ f.begun => g.begun
    /\ f.past => g.past

\* A command that has committed stays committed, as what it was or as what
\* became of its offer; and the sell offer does not come back.
LEMMA LegsGrow ==
    ASSUME TypeOK, [Next]_vars
    PROVE  /\ \A k \in Leg : /\ Committed(k) => Committed(k)'
                             /\ Delivered(k) => Delivered(k)'
                             /\ Offered(k) => Offered(k)'
           /\ sell # "none" => sell' # "none"
           /\ sell \in {"accepted", "closed"} => sell' \in {"accepted", "closed"}
           /\ Committed(1) => feeLeg' = feeLeg
  <1> DEFINE Kept ==
        /\ \A k \in Leg : /\ Committed(k) => Committed(k)'
                          /\ Delivered(k) => Delivered(k)'
                          /\ Offered(k) => Offered(k)'
        /\ sell # "none" => sell' # "none"
        /\ sell \in {"accepted", "closed"} => sell' \in {"accepted", "closed"}
  <1> USE DEF TypeOK, Committed, Delivered, Offered
  <1>1. 1 \in Leg
    BY CantonSwapAssumption DEF Leg
  <1>2. CASE UNCHANGED ledgerVars \/ SellOffered \/ SellCloses
    BY <1>2 DEF ledgerVars, SellOffered, SellCloses
  <1>3. ASSUME NEW k \in Leg, legs[k] \in {"none", "flying"},
               NEW kind \in Kinds, Execute(k, kind)
        PROVE  Kept
    BY <1>3 DEF Execute, Kinds
  <1>4. ASSUME NEW k \in Leg, Vanishes(k) PROVE Kept
    BY <1>3, <1>4 DEF Vanishes
  <1>5. ASSUME NEW k \in Leg, Land(k) \/ OfferEnds(k)
        PROVE  Kept /\ feeLeg' = feeLeg
    BY <1>3, <1>5 DEF Land, OfferEnds
  <1>6. ASSUME NEW w \in Workers, ConfirmReject(w) \/ SettleOffer(w)
                                  \/ CatchReject(w) \/ ExpireReject(w)
        PROVE  Kept /\ feeLeg' = feeLeg
    BY <1>6 DEF ConfirmReject, SettleOffer, CatchReject, ExpireReject
  <1>7. ASSUME NEW w \in Workers, FillSubmit(w)
        PROVE  Kept /\ (Committed(1) => feeLeg' = feeLeg)
    <2>1. CASE UNCHANGED ledgerVars
      BY <2>1 DEF ledgerVars
    <2>2. CASE legs[1] = "none" /\ \E kind \in Kinds : Execute(1, kind)
      BY <1>1, <1>3, <2>2
    <2>3. CASE Vanishes(1)
      BY <1>1, <1>4, <2>3 DEF Vanishes
    <2> QED BY <1>7, <2>1, <2>2, <2>3 DEF FillSubmit
  <1>8. ASSUME NEW w \in Workers, Reissue(w)
        PROVE  Kept /\ feeLeg' = feeLeg
    BY <1>3, <1>4, <1>8 DEF Reissue
  <1> HIDE DEF Kept
  <1>9. Kept /\ (Committed(1) => feeLeg' = feeLeg)
    <2>1. CASE UNCHANGED ledgerVars \/ SellOffered \/ SellCloses
      BY <1>2, <2>1 DEF Kept, ledgerVars, SellOffered, SellCloses
    <2> QED BY <2>1, <1>5, <1>6, <1>7, <1>8, LedgerFrame
  <1> QED BY <1>9 DEF Kept

\* What a worker is about to write where the status is still s.
Written(o, s, f) ==
    /\ Evidence(o, f)
    /\ o.status = "expired" /\ Rejectable(o) =>
         f.gone \/ (s = "settling" /\ f.past)
    /\ o.status \in {"none", "open", "settling"} => s = o.status

\* The labels at which a worker is about to write its copy.
LEMMA WriterCopies ==
    ASSUME NEW j, NEW f, JobEvidence(j, f),
           j.at \in {"put", "result", "offered", "reissued", "feeBook"}
    PROVE  Written(j.o, j.was, f)
  BY DEF JobEvidence, Written

\* An order that has been taken up stays taken up, and does not go back to
\* settling.
LEMMA StatusGrows ==
    ASSUME TypeOK, EvidenceInv, [Next]_vars
    PROVE  /\ row.status \notin {"none", "open"} => row'.status \notin {"none", "open"}
           /\ row.status \notin {"none", "open", "settling"}
                => row'.status \notin {"none", "open", "settling"}
  <1> DEFINE Kept ==
        /\ row.status \notin {"none", "open"} => row'.status \notin {"none", "open"}
        /\ row.status \notin {"none", "open", "settling"}
             => row'.status \notin {"none", "open", "settling"}
  <1>0. row \in Row
    BY DEF TypeOK
  <1>1. CASE UNCHANGED row
    BY <1>1
  <1>2. CASE CreateOrder
    BY <1>2 DEF CreateOrder
  <1>3. CASE CooldownPasses
    BY <1>0, <1>3 DEF CooldownPasses, Aged, Row
  <1>4. ASSUME NEW o \in Row, Put(o),
               o.status \in {"none", "open", "settling"} => row.status = o.status
        PROVE  Kept
    BY <1>4 DEF Put, Row
  <1>5. ASSUME NEW w \in Workers, RecordResult(w) \/ LastPut(w)
                                  \/ ReissueRecord(w) \/ SettleOffered(w)
        PROVE  Kept
    <2>1. job[w].o \in Row /\ JobEvidence(job[w], facts)
      BY DEF TypeOK, EvidenceInv
    <2>2. Written(job[w].o, job[w].was, facts)
      BY <1>5, <2>1, WriterCopies DEF RecordResult, LastPut, ReissueRecord,
                                      SettleOffered, At
    <2>3. UNCHANGED row \/ (CanPut(w) /\ Put(job[w].o))
      BY <1>5 DEF RecordResult, LastPut, ReissueRecord, SettleOffered
    <2> QED BY <1>4, <2>1, <2>2, <2>3 DEF Written, CanPut
  <1>6. ASSUME NEW w \in Workers, SettleFee(w) PROVE Kept
    <2>1. job[w].o \in Row /\ JobEvidence(job[w], facts)
      BY DEF TypeOK, EvidenceInv
    <2>2. job[w].o.status \notin {"none", "open"}
      BY <1>6, <2>1 DEF SettleFee, At, JobEvidence
    <2>3. UNCHANGED row \/ (row.status = "settling" /\ Put(job[w].o))
      BY <1>6 DEF SettleFee
    <2> QED BY <2>1, <2>2, <2>3 DEF Put, Row
  <1>7. ASSUME NEW w \in Workers, FillBegin(w) PROVE Kept
    <2>1. job[w].o \in Row
      BY DEF TypeOK
    <2> QED BY <1>7, <2>1 DEF FillBegin, Put, Row
  <1>8. ASSUME NEW w \in Workers, SettleReserve(w) PROVE Kept
    <2>1. job[w].was \in {"open", "settling"}
      BY <1>8 DEF SettleReserve, At, EvidenceInv, JobEvidence
    <2> QED BY <1>0, <1>8, <2>1 DEF SettleReserve, AskFloat, Reserve, Row
  <1>9. ASSUME NEW w \in Workers, ConfirmReserve(w) \/ FillReserve(w)
                                  \/ ReissueReserve(w)
        PROVE  Kept
    BY <1>0, <1>9 DEF ConfirmReserve, FillReserve, ReissueReserve, AskFloat,
                      Reserve, Row
  <1> QED BY <1>1, <1>2, <1>3, <1>5, <1>6, <1>7, <1>8, <1>9, RowFrame

\* No step takes a fact back.
LEMMA FactsGrow ==
    ASSUME TypeOK, EvidenceInv, [Next]_vars
    PROVE  Grows(facts, facts')
  <1>1. 1 \in Leg
    BY CantonSwapAssumption DEF Leg
  <1>2. /\ Committed(1) => Committed(1)'
        /\ Committed(1) /\ feeLeg => Committed(1)' /\ feeLeg'
        /\ (\E k \in Leg : Delivered(k)) => (\E k \in Leg : Delivered(k))'
        /\ {k \in Leg : Offered(k)} \subseteq {k \in Leg : Offered(k)}'
    BY <1>1, LegsGrow
  <1>3. /\ facts.filled = Committed(1) /\ facts'.filled = Committed(1)'
        /\ facts.fee = (Committed(1) /\ feeLeg)
        /\ facts'.fee = (Committed(1)' /\ feeLeg')
        /\ facts.paid = (\E k \in Leg : Delivered(k))
        /\ facts'.paid = (\E k \in Leg : Delivered(k))'
        /\ facts.offers = {k \in Leg : Offered(k)}
        /\ facts'.offers = {k \in Leg : Offered(k)}'
    BY DEF facts
  <1>4. /\ facts.made = (sell # "none") /\ facts'.made = (sell' # "none")
        /\ facts.gone = (sell \in {"accepted", "closed"})
        /\ facts'.gone = (sell' \in {"accepted", "closed"})
        /\ facts.begun = (row.status \notin {"none", "open"})
        /\ facts'.begun = (row'.status \notin {"none", "open"})
        /\ facts.past = (row.status \notin {"none", "open", "settling"})
        /\ facts'.past = (row'.status \notin {"none", "open", "settling"})
    BY DEF facts
  <1> QED BY <1>2, <1>3, <1>4, LegsGrow, StatusGrows DEF Grows

\* Hence what was true of a copy, and of what a worker knows, stays true.
LEMMA EvidenceKept ==
    ASSUME NEW f, NEW g, Grows(f, g)
    PROVE  /\ \A o \in Row : Evidence(o, f) => Evidence(o, g)
           /\ \A j \in Job : JobEvidence(j, f) => JobEvidence(j, g)
           /\ \A o \in Row, s \in Status : Written(o, s, f) => Written(o, s, g)
  <1>1. ASSUME NEW o \in Row, Evidence(o, f) PROVE Evidence(o, g)
    BY <1>1 DEF Grows, Evidence
  <1>2. ASSUME NEW j \in Job, JobEvidence(j, f) PROVE JobEvidence(j, g)
    <2>1. Evidence(j.o, g)
      BY <1>1, <1>2 DEF JobEvidence, Job
    <2> QED BY <1>2, <2>1 DEF Grows, JobEvidence
  <1>3. ASSUME NEW o \in Row, NEW s \in Status, Written(o, s, f) PROVE Written(o, s, g)
    BY <1>1, <1>3 DEF Grows, Written
  <1> QED BY <1>1, <1>2, <1>3

\* An expired row whose sell offer could be rejected has seen it go.
RowTrue(o, f) == Evidence(o, f) /\ (o.status = "expired" /\ Rejectable(o) => f.gone)

\* The handlers' part of EvidenceInv, after a step.
HandlersTruthful ==
    /\ RowTrue(row', facts')
    /\ \A v \in Workers : JobEvidence(job'[v], facts')

\* What holds of the row and of every worker when a step of one of them ends.
LEMMA CopiesKept ==
    ASSUME TypeOK, EvidenceInv, [Next]_vars
    PROVE  /\ row \in Row /\ RowTrue(row, facts) /\ RowTrue(row, facts')
           /\ \A v \in Workers : /\ job[v] \in Job /\ job[v].o \in Row
                                 /\ job[v].was \in Status
                                 /\ JobEvidence(job[v], facts)
                                 /\ JobEvidence(job[v], facts')
  <1>1. row \in Row /\ \A v \in Workers : job[v] \in Job
    BY DEF TypeOK, Job
  <1>2. Grows(facts, facts')
    BY FactsGrow
  <1>3. RowTrue(row, facts)
    BY DEF EvidenceInv, RowTrue, ExpiredReleasesOffer, Evidence, Rejectable,
           facts, TypeOK
  <1>4. RowTrue(row, facts')
    BY <1>1, <1>2, <1>3, EvidenceKept DEF RowTrue, Grows
  <1>5. \A v \in Workers : JobEvidence(job[v], facts) /\ JobEvidence(job[v], facts')
    BY <1>1, <1>2, EvidenceKept DEF EvidenceInv
  <1> QED BY <1>1, <1>3, <1>4, <1>5 DEF Job

\* A worker that goes on knowing something true leaves all workers truthful.
LEMMA BecomeTrue ==
    ASSUME TypeOK, EvidenceInv, [Next]_vars,
           NEW w \in Workers, NEW j, JobEvidence(j, facts'), Become(w, j)
    PROVE  \A v \in Workers : JobEvidence(job'[v], facts')
  BY CopiesKept DEF Become, TypeOK

\* So does one that returns,
LEMMA ReturnTrue ==
    ASSUME TypeOK, EvidenceInv, [Next]_vars, NEW w \in Workers, Return(w)
    PROVE  \A v \in Workers : JobEvidence(job'[v], facts')
  <1>1. JobEvidence(Idle, facts')
    BY DEF JobEvidence, Evidence, Idle, NewOrder, Rejectable
  <1> QED BY <1>1, BecomeTrue DEF Return

\* one that is about to write a truthful copy,
LEMMA CarryTrue ==
    ASSUME TypeOK, EvidenceInv, [Next]_vars, NEW w \in Workers,
           NEW l \in {"put", "reissued"}, NEW o \in Row,
           NEW s \in Status, Written(o, s, facts'), Carry(w, l, o, s)
    PROVE  \A v \in Workers : JobEvidence(job'[v], facts')
  <1>1. job[w] \in Job
    BY CopiesKept
  <1>2. JobEvidence([job[w] EXCEPT !.at = l, !.o = o, !.was = s], facts')
    BY <1>1 DEF JobEvidence, Written, Job
  <1> QED BY <1>2, BecomeTrue DEF Carry

\* one whose fill has committed,
LEMMA ResultTrue ==
    ASSUME TypeOK, EvidenceInv, [Next]_vars, NEW w \in Workers,
           At(w, "submit") \/ At(w, "recover"), NEW o \in Row,
           o.settlementUpdateId, o.status \notin {"none", "open", "settling"},
           Written(o, job[w].was, facts'), Carry(w, "result", o, job[w].was)
    PROVE  \A v \in Workers : JobEvidence(job'[v], facts')
  <1>1. job[w] \in Job /\ JobEvidence(job[w], facts')
    BY CopiesKept
  <1>2. JobEvidence([job[w] EXCEPT !.at = "result", !.o = o, !.was = job[w].was],
                    facts')
    BY <1>1 DEF JobEvidence, Written, Job, At
  <1> QED BY <1>2, BecomeTrue DEF Carry

\* one that reads the row to go on where nothing more need be known,
LEMMA ReadTrue ==
    ASSUME TypeOK, EvidenceInv, [Next]_vars, NEW w \in Workers, NEW l,
           Read(w, l),
           l \in {"unconfirmed", "reserveFill", "reservedFill", "sweepRepair",
                  "expire", "feeBook", "begin", "confirm", "look", "relook",
                  "reissue", "reserve", "fee"},
           l = "feeBook" => facts'.fee,
           l = "begin" => row.floatReserved \/ row.settlementUpdateId,
           l = "confirm" => facts'.made,
           l \in {"look", "relook", "reissue"} =>
             row.counterLegOfferCid # 0 /\ row.status # "settling",
           l \in {"reserveFill", "reservedFill", "begin"} => mode = "loop",
           l = "reserve" => row.status \in {"open", "settling"} /\ mode = "managed",
           l = "fee" => row.status = "settling" /\ mode = "managed" /\ facts'.begun
    PROVE  \A v \in Workers : JobEvidence(job'[v], facts')
  <1> DEFINE j == [Idle EXCEPT !.at = l, !.o = row, !.was = row.status,
                               !.cid = row.counterLegOfferCid]
  <1>1. /\ j.at = l /\ j.o = row /\ j.was = row.status
        /\ j.cid = row.counterLegOfferCid
    BY DEF Idle
  <1>2. RowTrue(row, facts')
    BY CopiesKept
  <1>3. JobEvidence(j, facts')
    <2> HIDE DEF j
    <2> QED BY <1>1, <1>2 DEF JobEvidence, RowTrue, Evidence
  <1> QED BY <1>3, BecomeTrue DEF Read

\* What a fill that has committed lets a handler write, whatever its copy said.
LEMMA FillTrue ==
    ASSUME TypeOK, NEW f, Grows(facts, f), Committed(1),
           NEW o \in Row, Evidence(o, f)
    PROVE  /\ \A s \in Status : Written(FillResult(o, Offered(1)), s, f)
           /\ ~Offered(1) => \A s \in Status : Written(FillResult(o, FALSE), s, f)
  <1>1. 1 \in Leg /\ 0 # 1
    BY CantonSwapAssumption DEF Leg
  <1>2. f.filled /\ (Offered(1) => 1 \in f.offers) /\ (~Offered(1) => f.paid)
    BY <1>1 DEF Grows, facts, Committed, Offered, Delivered, TypeOK
  <1>3. ASSUME Offered(1), NEW s \in Status
        PROVE  Written(FillResult(o, Offered(1)), s, f)
    BY <1>1, <1>2, <1>3 DEF FillResult, Written, Evidence, Rejectable, Row
  <1>4. ASSUME ~Offered(1), NEW s \in Status
        PROVE  /\ Written(FillResult(o, Offered(1)), s, f)
               /\ Written(FillResult(o, FALSE), s, f)
    BY <1>1, <1>2, <1>4 DEF FillResult, Written, Evidence, Rejectable, Row
  <1> QED BY <1>3, <1>4

\* A copy that knows a counter offer is one of a Loop order taken up.
LEMMA OfferIsLoops ==
    ASSUME TypeOK, EvidenceInv, [Next]_vars, NEW o \in Row, Evidence(o, facts),
           o.counterLegOfferCid # 0
    PROVE  o.status \notin {"none", "open", "settling"}
  BY DEF Evidence, EvidenceInv, facts

\* The steps that start a handler, and those that read the row and decide.
LEMMA LocalStepsTrue ==
    ASSUME TypeOK, EvidenceInv, [Next]_vars, NEW w \in Workers,
           \/ Start(w) \/ Sweep(w) \/ SettleJoin(w) \/ ConfirmReject(w)
           \/ FillReserved(w) \/ FillCheck(w) \/ BookFee(w) \/ UnmarkFee(w)
           \/ FillInFlight(w) \/ CounterFresh(w) \/ ReissueReserved(w)
           \/ Kill(w)
    PROVE  \A v \in Workers : JobEvidence(job'[v], facts')
  <1> DEFINE Told == \A v \in Workers : JobEvidence(job'[v], facts')
  <1>1. /\ row \in Row /\ row.status \in Status /\ RowTrue(row, facts)
        /\ RowTrue(row, facts') /\ job[w] \in Job
        /\ JobEvidence(job[w], facts) /\ JobEvidence(job[w], facts')
        /\ Grows(facts, facts')
    BY CopiesKept, FactsGrow DEF Row
  <1>2. ASSUME Return(w) PROVE Told
    BY <1>2, ReturnTrue
  <1>3. ASSUME NEW j \in Job, j.at = "put", Become(w, j), Written(j.o, j.was, facts')
        PROVE  Told
    <2>1. JobEvidence(j, facts')
      BY <1>3 DEF JobEvidence, Written
    <2> QED BY <1>3, <2>1, BecomeTrue
  <1>4. CASE Cancel(w)
    <2> DEFINE o == [row EXCEPT !.status = "cancelled", !.floatReserved = FALSE]
               j == [Idle EXCEPT !.at = "put", !.was = "open",
                                 !.cid = row.counterLegOfferCid, !.o = o]
    <2>1. o \in Row
      BY <1>1, OutcomeWrites, Zenon
    <2>2. Written(o, "open", facts')
      BY <1>1 DEF Written, Evidence, RowTrue, Rejectable, Row
    <2> HIDE DEF o
    <2>3. j \in Job /\ j.at = "put" /\ j.o = o /\ j.was = "open"
      BY <1>1, <2>1, IdleType, LabelMembers, StatusMembers DEF Job, Row
    <2>4. Become(w, j)
      BY <1>4 DEF Cancel, o
    <2> HIDE DEF j
    <2> QED BY <1>3, <2>2, <2>3, <2>4
  <1>5. CASE MarkAccepted(w)
    <2> DEFINE j == [Idle EXCEPT !.at = "put", !.was = "user_locked",
                                 !.o = Received(row)]
    <2>1. Received(row) \in Row
      BY <1>1, OutcomeWrites, Zenon
    <2>2. facts.paid
      BY <1>1, <1>5 DEF MarkAccepted, PendingCounterAccept, ReceiptProved,
         RowTrue, Evidence, facts, Delivered, Row, Leg
    <2>3. Written(Received(row), "user_locked", facts')
      BY <1>1, <2>2 DEF Received, Written, Evidence, RowTrue, Rejectable, Grows, Row
    <2>4. j \in Job /\ j.at = "put" /\ j.o = Received(row) /\ j.was = "user_locked"
      BY <1>1, <2>1, IdleType, LabelMembers, StatusMembers DEF Job
    <2>5. Become(w, j)
      BY <1>5 DEF MarkAccepted
    <2> HIDE DEF j
    <2> QED BY <1>3, <2>3, <2>4, <2>5
  <1>6. CASE UnmarkFee(w)
    <2> DEFINE o == [row EXCEPT !.networkFeeAccountingPending = FALSE]
               j == [Idle EXCEPT !.at = "put", !.was = row.status, !.o = o]
    <2>1. o \in Row
      BY <1>1, FieldWrites, Zenon
    <2>2. Written(o, row.status, facts')
      BY <1>1 DEF Written, Evidence, RowTrue, Rejectable, Row
    <2> HIDE DEF o
    <2>3. j \in Job /\ j.at = "put" /\ j.o = o /\ j.was = row.status
      BY <1>1, <2>1, IdleType, LabelMembers DEF Job
    <2>4. Become(w, j)
      BY <1>6 DEF UnmarkFee, o
    <2> HIDE DEF j
    <2> QED BY <1>3, <2>2, <2>3, <2>4
  <1>7. CASE SettleStart(w)
    <2>1. row.status = "settling" => facts'.begun
      BY <1>1 DEF Grows, facts
    <2>2. \/ row.status \in {"open", "settling"} /\ Read(w, "reserve")
          \/ row.status = "settling" /\ Read(w, "fee")
      BY <1>7 DEF SettleStart
    <2>3. mode = "managed"
      BY <1>7 DEF SettleStart
    <2> QED BY <2>1, <2>2, <2>3, ReadTrue
  <1>8. CASE ConfirmStart(w)
    <2>1. facts'.made
      BY <1>1, <1>8 DEF ConfirmStart, Grows, facts
    <2> QED BY <1>8, <2>1, ReadTrue DEF ConfirmStart
  <1>9. CASE FillStart(w)
    BY <1>9, ReadTrue DEF FillStart
  <1>10. CASE RepairStart(w) \/ ExpireStart(w)
    BY <1>10, ReadTrue DEF RepairStart, ExpireStart
  <1>11. CASE CounterStart(w)
    BY <1>11, ReadTrue, Zenon DEF CounterStart, PendingCounterAccept
  <1>12. CASE FeeStart(w)
    <2>1. facts'.fee
      BY <1>1, <1>12 DEF FeeStart, RowTrue, Evidence
    <2> QED BY <1>12, <2>1, ReadTrue DEF FeeStart
  <1>13. CASE SettleJoin(w)
    <2>1. row.status = "settling" => facts'.begun
      BY <1>1 DEF Grows, facts
    <2>2. mode = "managed"
      BY <1>1, <1>13 DEF SettleJoin, JobEvidence, At
    <2> QED BY <1>2, <1>13, <2>1, <2>2, ReadTrue DEF SettleJoin
  <1>14. CASE ConfirmReject(w) \/ Kill(w)
    BY <1>2, <1>14 DEF ConfirmReject, Kill
  <1>15. CASE FillReserved(w)
    <2>1. mode = "loop"
      BY <1>1, <1>15 DEF FillReserved, At, JobEvidence
    <2> QED BY <1>2, <1>15, <2>1, ReadTrue DEF FillReserved
  <1>16. CASE FillCheck(w)
    <2>1. ASSUME Goto(w, "submit") PROVE Told
      <3>1. JobEvidence([job[w] EXCEPT !.at = "submit"], facts')
        BY <1>1, <1>16 DEF FillCheck, At, JobEvidence, Job
      <3> QED BY <2>1, <3>1, BecomeTrue DEF Goto
    <2>2. ASSUME NEW e, Fail(w, e) PROVE Told
      <3>1. JobEvidence([job[w] EXCEPT !.at = "caught", !.err = e], facts')
        BY <1>1, <1>16 DEF FillCheck, At, JobEvidence, Job
      <3> QED BY <2>2, <3>1, BecomeTrue DEF Fail
    <2> QED BY <1>16, <2>1, <2>2 DEF FillCheck
  <1>17. CASE BookFee(w)
    <2>1. JobEvidence([job[w] EXCEPT !.at = "unmark"], facts')
      BY <1>1 DEF JobEvidence, Job
    <2> QED BY <1>17, <2>1, BecomeTrue DEF BookFee, Goto
  <1>18. CASE FillInFlight(w)
    <2> DEFINE o == [row EXCEPT !.status = "user_locked", !.fillInFlight = TRUE]
    <2>1. o \in Row
      BY <1>1, FieldWrites, StatusMembers, Zenon
    <2>2. Written(o, "filling", facts')
      BY <1>1 DEF Written, Evidence, RowTrue, Rejectable, Row
    <2>3. Return(w) \/ Carry(w, "put", o, "filling")
      BY <1>18 DEF FillInFlight
    <2> HIDE DEF o
    <2> QED BY <1>2, <2>1, <2>2, <2>3, CarryTrue, StatusMembers
  <1>19. CASE CounterFresh(w) \/ ReissueReserved(w)
    <2>1. row.counterLegOfferCid = job[w].cid => row.counterLegOfferCid # 0
      BY <1>1, <1>19 DEF CounterFresh, ReissueReserved, JobEvidence, At
    <2>2. row.counterLegOfferCid # 0 => row.status # "settling"
      BY <1>1, OfferIsLoops DEF RowTrue
    <2> QED BY <1>2, <1>19, <2>1, <2>2, ReadTrue DEF CounterFresh, ReissueReserved
  <1> QED BY <1>4, <1>5, <1>6, <1>7, <1>8, <1>9, <1>10, <1>11, <1>12, <1>13,
             <1>14, <1>15, <1>16, <1>17, <1>18, <1>19 DEF Start, Sweep

\* A managed order's fill delivers directly: no counter offer is ever made.
LEMMA ManagedIsDirect ==
    ASSUME TypeOK, EvidenceInv, [Next]_vars, mode = "managed"
    PROVE  \A k \in Leg : ~Offered(k)'
  <1>0. Kinds = {"direct"} /\ \A k \in Leg : ~Offered(k)
    BY DEF Kinds, EvidenceInv
  <1> DEFINE Kept == \A k \in Leg : ~Offered(k)'
  <1> USE DEF TypeOK, Offered
  <1>1. 1 \in Leg
    BY CantonSwapAssumption DEF Leg
  <1>2. CASE UNCHANGED ledgerVars \/ SellOffered \/ SellCloses
    BY <1>0, <1>2 DEF ledgerVars, SellOffered, SellCloses
  <1>3. ASSUME NEW k \in Leg, NEW kind \in Kinds, Execute(k, kind) PROVE Kept
    BY <1>0, <1>3 DEF Execute
  <1>4. ASSUME NEW k \in Leg, Vanishes(k) PROVE Kept
    BY <1>0, <1>3, <1>4 DEF Vanishes
  <1>5. ASSUME NEW k \in Leg, Land(k) \/ OfferEnds(k) PROVE Kept
    BY <1>0, <1>3, <1>5 DEF Land, OfferEnds
  <1>6. ASSUME NEW w \in Workers, ConfirmReject(w) \/ SettleOffer(w)
                                  \/ CatchReject(w) \/ ExpireReject(w)
        PROVE  Kept
    BY <1>0, <1>6 DEF ConfirmReject, SettleOffer, CatchReject, ExpireReject
  <1>7. ASSUME NEW w \in Workers, FillSubmit(w) PROVE Kept
    BY <1>1, <1>2, <1>3, <1>4, <1>7 DEF FillSubmit
  <1>8. ASSUME NEW w \in Workers, Reissue(w) PROVE Kept
    BY <1>0, <1>3, <1>4, <1>8 DEF Reissue
  <1> QED BY <1>2, <1>5, <1>6, <1>7, <1>8, LedgerFrame

\* What the catch blocks, the sweeps and the expiry make of a truthful copy.
LEMMA OutcomeTrue ==
    ASSUME NEW o \in Row, NEW f, Evidence(o, f), NEW s \in Status
    PROVE  /\ Written(Failed(o), s, f)
           /\ \A b \in BOOLEAN :
                Written([o EXCEPT !.status = "user_locked", !.fillInFlight = b], s, f)
           /\ f.paid => Written(Received(o), s, f)
           /\ (Rejectable(o) => f.gone) => Written(ExpiredRow(o), s, f)
  BY DEF Failed, Received, ExpiredRow, Written, Evidence, Rejectable, Row

\* A managed copy may be put back to settling when it holds a reservation or
\* knows of the fill, or when the row has left settling: then the compare-and-set
\* refuses it.
LEMMA SettlingTrue ==
    ASSUME NEW o \in Row, NEW f, Evidence(o, f), mode = "managed",
           \/ o.status = "settling" /\ o.floatReserved
           \/ o.settlementUpdateId
           \/ f.past,
           o.status \notin {"none", "open"}
    PROVE  Written([o EXCEPT !.status = "settling"], "settling", f)
  BY DEF Written, Evidence, Rejectable, Row

\* The steps that go on with another copy of the row, to be written later.
LEMMA CarryStepsTrue ==
    ASSUME TypeOK, EvidenceInv, [Next]_vars, NEW w \in Workers,
           \/ SettleOffer(w) \/ FillRepair(w) \/ FillRecover(w)
           \/ SettleCaught(w) \/ FillCaught(w) \/ CatchReject(w)
           \/ SweepRepair(w) \/ CounterLook(w) \/ CounterRelook(w)
           \/ ExpireRepair(w) \/ ExpireReject(w) \/ FeeBook(w)
    PROVE  \A v \in Workers : JobEvidence(job'[v], facts')
  <1> DEFINE Told == \A v \in Workers : JobEvidence(job'[v], facts')
             o == job[w].o
             f == facts'
  <1>1. /\ o \in Row /\ o.status \in Status /\ job[w].was \in Status
        /\ job[w] \in Job /\ JobEvidence(job[w], facts) /\ JobEvidence(job[w], f)
        /\ Grows(facts, f) /\ Evidence(o, facts) /\ Evidence(o, f)
    BY CopiesKept, FactsGrow DEF Row, JobEvidence
  <1>2. ASSUME Return(w) PROVE Told
    BY <1>2, ReturnTrue
  <1>3. ASSUME NEW p \in Row, NEW s \in Status, Written(p, s, f), Carry(w, "put", p, s)
        PROVE  Told
    BY <1>3, CarryTrue
  <1> HIDE DEF f
  <1>4. CASE SettleOffer(w)
    <2>1. mode = "managed" /\ At(w, "offer")
      BY <1>1, <1>4 DEF SettleOffer, At, JobEvidence
    <2>2. ASSUME Goto(w, "check") PROVE Told
      <3>1. JobEvidence([job[w] EXCEPT !.at = "check"], f)
        BY <1>1, <2>1 DEF JobEvidence, At, Job
      <3> QED BY <2>2, <3>1, BecomeTrue DEF Goto, f
    <2>3. ASSUME sell' # "none",
                 Carry(w, "offered", [o EXCEPT !.userLegOfferCid = TRUE], "settling")
          PROVE  Told
      <3> DEFINE p == [o EXCEPT !.userLegOfferCid = TRUE]
                 j == [job[w] EXCEPT !.at = "offered", !.o = p, !.was = "settling"]
      <3>1. f.made
        BY <2>3 DEF f, facts
      <3>2. Evidence(p, f) /\ p.status = o.status /\ p.floatReserved = o.floatReserved
            /\ p.settlementUpdateId = o.settlementUpdateId
        BY <1>1, <2>1, <3>1 DEF JobEvidence, At, Evidence, Row
      <3>3. j.at = "offered" /\ j.o = p /\ j.was = "settling"
        BY <1>1 DEF Job
      <3>4. JobEvidence(j, f)
        <4> HIDE DEF p, j
        <4> QED BY <1>1, <2>1, <3>2, <3>3 DEF JobEvidence, At, Rejectable
      <3> QED BY <2>3, <3>4, BecomeTrue DEF Carry, f
    <2>4. ASSUME Fail(w, "other") PROVE Told
      <3>1. JobEvidence([job[w] EXCEPT !.at = "caught", !.err = "other"], f)
        BY <1>1, <2>1 DEF JobEvidence, At, Job
      <3> QED BY <2>4, <3>1, BecomeTrue DEF Fail, f
    <2> QED BY <1>4, <2>2, <2>3, <2>4 DEF SettleOffer, o
  <1>5. ASSUME Committed(1), NEW s \in Status,
               Carry(w, "put", FillResult(o, Offered(1)), s)
        PROVE  Told
    <2>1. FillResult(o, Offered(1)) \in Row /\ Written(FillResult(o, Offered(1)), s, f)
      BY <1>1, <1>5, FillTrue, FillWrites, Zenon
    <2> QED BY <1>3, <1>5, <2>1
  <1>6. ASSUME Committed(1), mode = "managed", NEW s \in Status,
               Carry(w, "put", FillResult(o, FALSE), s)
        PROVE  Told
    <2>1. ~Offered(1)
      BY <1>6, CantonSwapAssumption DEF EvidenceInv, Leg
    <2>2. FillResult(o, FALSE) \in Row /\ Written(FillResult(o, FALSE), s, f)
      BY <1>1, <1>6, <2>1, FillTrue, FillWrites, Zenon
    <2> QED BY <1>3, <1>6, <2>2
  <1>7. CASE FillRepair(w)
    <2>1. ASSUME Goto(w, "check") PROVE Told
      <3>1. mode = "loop"
        BY <1>1, <1>7 DEF FillRepair, At, JobEvidence
      <3>2. JobEvidence([job[w] EXCEPT !.at = "check"], f)
        BY <1>1, <1>7, <3>1 DEF FillRepair, JobEvidence, At, Job
      <3> QED BY <2>1, <3>2, BecomeTrue DEF Goto, f
    <2> QED BY <1>5, <1>7, <2>1, StatusMembers, Zenon DEF FillRepair, o
  <1>8. CASE FillRecover(w)
    <2>1. Committed(1)
      BY <1>1, <1>8 DEF FillRecover, At, JobEvidence, facts
    <2>2. ASSUME Fail(w, "lost") PROVE Told
      <3>1. JobEvidence([job[w] EXCEPT !.at = "caught", !.err = "lost"], f)
        BY <1>1, <1>8 DEF FillRecover, JobEvidence, At, Job
      <3> QED BY <2>2, <3>1, BecomeTrue DEF Fail, f
    <2>3. ASSUME Carry(w, "result", FillResult(o, Offered(1)), job[w].was) PROVE Told
      <3> DEFINE p == FillResult(o, Offered(1))
      <3>1. p \in Row /\ Written(p, job[w].was, f)
        BY <1>1, <2>1, FillTrue, FillWrites, Zenon
      <3>2. p.settlementUpdateId /\ p.status \notin {"none", "open", "settling"}
        BY <1>1 DEF FillResult, Row
      <3> HIDE DEF p
      <3>3. Carry(w, "result", p, job[w].was)
        BY <2>3, Zenon DEF p
      <3> QED BY <1>8, <3>1, <3>2, <3>3, ResultTrue DEF FillRecover, f
    <2> QED BY <1>8, <2>2, <2>3, Zenon DEF FillRecover, o
  <1>9. CASE SettleCaught(w)
    <2>1. mode = "managed" /\ At(w, "caught")
      BY <1>9 DEF SettleCaught
    <2>2. Written([o EXCEPT !.status = "settling"], "settling", f)
          /\ [o EXCEPT !.status = "settling"] \in Row
      BY <1>1, <2>1, SettlingTrue, FieldWrites, StatusMembers, Zenon DEF JobEvidence, At
    <2>3. Written(Failed(o), "settling", f) /\ Failed(o) \in Row
      BY <1>1, OutcomeTrue, OutcomeWrites, StatusMembers, Zenon
    <2>4. ASSUME Goto(w, "reject") PROVE Told
      <3>1. JobEvidence([job[w] EXCEPT !.at = "reject"], f)
        BY <1>1, <2>1 DEF JobEvidence, At, Job
      <3> QED BY <2>4, <3>1, BecomeTrue DEF Goto, f
    <2>5. \/ Committed(1) /\ Carry(w, "put", FillResult(o, FALSE), o.status)
          \/ Return(w)
          \/ Carry(w, "put", [o EXCEPT !.status = "settling"], "settling")
          \/ Goto(w, "reject")
          \/ Carry(w, "put", Failed(o), "settling")
      BY <1>9, Zenon DEF SettleCaught, o
    <2> HIDE DEF o
    <2> QED BY <1>1, <1>2, <1>3, <1>6, <2>1, <2>2, <2>3, <2>4, <2>5,
               StatusMembers, Zenon
  <1>10. CASE FillCaught(w)
    <2>1. Written([o EXCEPT !.status = "user_locked", !.fillInFlight = FALSE],
                  "filling", f)
          /\ [o EXCEPT !.status = "user_locked", !.fillInFlight = FALSE] \in Row
      BY <1>1, OutcomeTrue, FieldWrites, StatusMembers, Zenon
    <2>2. Written(Failed(o), "filling", f) /\ Failed(o) \in Row
      BY <1>1, OutcomeTrue, OutcomeWrites, StatusMembers, Zenon
    <2>3. ASSUME NEW l \in {"inFlight", "reject"}, Goto(w, l) PROVE Told
      <3>1. JobEvidence([job[w] EXCEPT !.at = l], f)
        BY <1>1, <1>10, <2>3 DEF FillCaught, JobEvidence, At, Job
      <3> QED BY <2>3, <3>1, BecomeTrue DEF Goto, f
    <2>4. \/ Return(w) \/ Goto(w, "inFlight") \/ Goto(w, "reject")
          \/ Carry(w, "put", [o EXCEPT !.status = "user_locked",
                                       !.fillInFlight = FALSE], "filling")
          \/ Carry(w, "put", Failed(o), "filling")
      BY <1>10, Zenon DEF FillCaught, o
    <2> HIDE DEF o
    <2> QED BY <1>2, <1>3, <2>1, <2>2, <2>3, <2>4, StatusMembers
  <1>11. CASE CatchReject(w)
    <2>1. Written(Failed(o), job[w].was, f) /\ Failed(o) \in Row
      BY <1>1, OutcomeTrue, OutcomeWrites, Zenon
    <2>2. mode = "managed" =>
            /\ Written([o EXCEPT !.status = "settling"], job[w].was, f)
            /\ [o EXCEPT !.status = "settling"] \in Row
      BY <1>1, <1>11, SettlingTrue, FieldWrites, StatusMembers, Zenon
         DEF CatchReject, JobEvidence, At
    <2>3. \/ Carry(w, "put", Failed(o), job[w].was)
          \/ mode = "managed"
             /\ Carry(w, "put", [o EXCEPT !.status = "settling"], job[w].was)
      BY <1>11, Zenon DEF CatchReject, o
    <2> HIDE DEF o
    <2> QED BY <1>1, <1>3, <2>1, <2>2, <2>3
  <1>12. CASE SweepRepair(w)
    <2>1. Written([o EXCEPT !.status = "user_locked", !.fillInFlight = TRUE],
                  "failed", f)
          /\ [o EXCEPT !.status = "user_locked", !.fillInFlight = TRUE] \in Row
      BY <1>1, OutcomeTrue, FieldWrites, StatusMembers, Zenon
    <2>2. \/ Committed(1) /\ Carry(w, "put", FillResult(o, Offered(1)), job[w].was)
          \/ Return(w)
          \/ Carry(w, "put", [o EXCEPT !.status = "user_locked",
                                       !.fillInFlight = TRUE], "failed")
      BY <1>12, Zenon DEF SweepRepair, o
    <2> HIDE DEF o
    <2> QED BY <1>1, <1>2, <1>3, <1>5, <2>1, <2>2, StatusMembers, Zenon
  <1>13. ASSUME o.counterLegOfferCid # 0, ReceiptProved(o)
         PROVE  f.paid
    BY <1>1, <1>13 DEF ReceiptProved, Evidence, Grows, facts, Delivered, Row, Leg
  <1>14. ASSUME o.counterLegOfferCid # 0, job[w].was # "settling"
         PROVE  /\ Written(o, "user_locked", f)
                /\ \A c \in {"none", "recent"} :
                     Written([o EXCEPT !.counterPendingClearedAt = c], "user_locked", f)
    <2>1. o.status \notin {"none", "open", "settling"}
      BY <1>1, <1>14, OfferIsLoops
    <2>2. o.status = "expired" /\ Rejectable(o) => f.gone
      BY <1>1, <1>14 DEF JobEvidence
    <2> QED BY <1>1, <2>1, <2>2 DEF Written, Evidence, Rejectable, Row
  <1>15. CASE CounterLook(w)
    <2>1. o.counterLegOfferCid # 0 /\ job[w].was # "settling"
          /\ job[w].cid = o.counterLegOfferCid
      BY <1>1, <1>15 DEF CounterLook, JobEvidence, At
    <2>2. ReceiptProved(o) => Written(Received(o), "user_locked", f)
      BY <1>1, <1>13, <2>1, OutcomeTrue, StatusMembers, Zenon
    <2>3. /\ Received(o) \in Row
          /\ \A c \in {"none", "recent"} : [o EXCEPT !.counterPendingClearedAt = c] \in Row
      BY <1>1, OutcomeWrites, FieldWrites, Zenon
    <2>4. ASSUME Goto(w, "fresh") PROVE Told
      <3>1. JobEvidence([job[w] EXCEPT !.at = "fresh"], f)
        BY <1>1, <2>1 DEF JobEvidence, Job
      <3> QED BY <2>4, <3>1, BecomeTrue DEF Goto, f
    <2>5. \/ ReceiptProved(o) /\ Carry(w, "put", Received(o), "user_locked")
          \/ Return(w) \/ Goto(w, "fresh")
          \/ \E c \in {"none", "recent"} :
               Carry(w, "put", [o EXCEPT !.counterPendingClearedAt = c], "user_locked")
          \/ Carry(w, "put", o, "user_locked")
      BY <1>15 DEF CounterLook, o
    <2> HIDE DEF o
    <2> QED BY <1>1, <1>2, <1>3, <1>14, <2>1, <2>2, <2>3, <2>4, <2>5, StatusMembers
  <1>16. CASE CounterRelook(w)
    <2>1. o.counterLegOfferCid # 0 /\ job[w].was # "settling"
          /\ job[w].cid = o.counterLegOfferCid
      BY <1>1, <1>16 DEF CounterRelook, JobEvidence, At
    <2>2. ReceiptProved(o) => Written(Received(o), "user_locked", f)
      BY <1>1, <1>13, <2>1, OutcomeTrue, StatusMembers, Zenon
    <2>3. Received(o) \in Row /\ [o EXCEPT !.counterPendingClearedAt = "none"] \in Row
      BY <1>1, OutcomeWrites, FieldWrites, Zenon
    <2>4. ASSUME NEW l \in {"reissue", "reserveReissue"}, Carry(w, l, o, "user_locked")
          PROVE  Told
      <3> DEFINE j == [job[w] EXCEPT !.at = l, !.o = o, !.was = "user_locked"]
      <3>1. j.at = l /\ j.o = o /\ j.was = "user_locked" /\ j.cid = job[w].cid
        BY <1>1 DEF Job
      <3>2. o.status = "expired" /\ Rejectable(o) => f.gone
        BY <1>1, <2>1 DEF JobEvidence
      <3>3. JobEvidence(j, f)
        <4> HIDE DEF j, o
        <4> QED BY <1>1, <2>1, <2>4, <3>1, <3>2 DEF JobEvidence
      <3> QED BY <2>4, <3>3, BecomeTrue DEF Carry, f
    <2>5. \/ ReceiptProved(o) /\ Carry(w, "put", Received(o), "user_locked")
          \/ Carry(w, "put", [o EXCEPT !.counterPendingClearedAt = "none"], "user_locked")
          \/ Carry(w, "reissue", o, "user_locked")
          \/ Carry(w, "reserveReissue", o, "user_locked")
          \/ Carry(w, "put", o, "user_locked")
      BY <1>16 DEF CounterRelook, o
    <2> HIDE DEF o
    <2> QED BY <1>1, <1>2, <1>3, <1>14, <2>1, <2>2, <2>3, <2>4, <2>5, StatusMembers
  <1>17. ASSUME ExpireOrLeave(w), Rejectable(o) => f.gone PROVE Told
    <2>1. Written(ExpiredRow(o), job[w].was, f) /\ ExpiredRow(o) \in Row
      BY <1>1, <1>17, OutcomeTrue, OutcomeWrites, Zenon
    <2>2. Return(w) \/ Carry(w, "put", ExpiredRow(o), job[w].was)
      BY <1>17 DEF ExpireOrLeave
    <2> QED BY <1>1, <1>2, <1>3, <2>1, <2>2
  <1>18. CASE ExpireRepair(w)
    <2>1. Rejectable(o) => o.status # "open"
      BY <1>1 DEF Evidence, Rejectable
    <2>2. ASSUME Goto(w, "expireReject") PROVE Told
      <3>1. JobEvidence([job[w] EXCEPT !.at = "expireReject"], f)
        BY <1>1 DEF JobEvidence, Job
      <3> QED BY <2>2, <3>1, BecomeTrue DEF Goto, f
    <2>3. \/ /\ mode = "managed" /\ Committed(1)
             /\ Carry(w, "put", FillResult(o, FALSE), o.status)
          \/ Goto(w, "expireReject")
          \/ ~Rejectable(o) /\ ExpireOrLeave(w)
      BY <1>18, <2>1, Zenon DEF ExpireRepair, o
    <2> HIDE DEF o
    <2> QED BY <1>1, <1>6, <1>17, <2>2, <2>3, Zenon
  <1>19. CASE ExpireReject(w)
    <2>1. Return(w) \/ (sell' = (IF sell = "pending" THEN "closed" ELSE sell)
                        /\ ExpireOrLeave(w))
      BY <1>19 DEF ExpireReject
    <2>2. Rejectable(o) => sell # "none"
      BY <1>1 DEF Evidence, Rejectable, facts
    <2>3. sell' = (IF sell = "pending" THEN "closed" ELSE sell) /\ sell # "none" => f.gone
      BY DEF f, facts, TypeOK
    <2> QED BY <1>2, <1>17, <2>1, <2>2, <2>3
  <1>20. CASE FeeBook(w)
    <2> DEFINE p == [o EXCEPT !.networkFeeAccountingPending = FALSE]
    <2>1. Written(o, job[w].was, f)
      BY <1>1, <1>20, WriterCopies DEF FeeBook, At
    <2>2. Written(p, job[w].was, f)
      BY <1>1, <2>1 DEF Written, Evidence, Rejectable, Row
    <2>3. p \in Row
      BY <1>1, FieldWrites, Zenon
    <2>4. Return(w) \/ Carry(w, "put", p, job[w].was)
      BY <1>20 DEF FeeBook
    <2> HIDE DEF p
    <2> QED BY <1>1, <1>2, <1>3, <2>2, <2>3, <2>4
  <1> QED BY <1>4, <1>7, <1>8, <1>9, <1>10, <1>11, <1>12, <1>15, <1>16, <1>18,
             <1>19, <1>20

\* The fill's submission: what it commits is what its answer lets it write.
LEMMA FillSubmitTrue ==
    ASSUME TypeOK, EvidenceInv, [Next]_vars, NEW w \in Workers, FillSubmit(w)
    PROVE  \A v \in Workers : JobEvidence(job'[v], facts')
  <1> DEFINE Told == \A v \in Workers : JobEvidence(job'[v], facts')
             o == job[w].o
  <1>1. /\ o \in Row /\ job[w].was \in Status /\ job[w] \in Job
        /\ JobEvidence(job[w], facts) /\ JobEvidence(job[w], facts')
        /\ Evidence(o, facts) /\ Evidence(o, facts') /\ At(w, "submit")
    BY CopiesKept DEF FillSubmit, JobEvidence
  <1>2. ASSUME NEW kind \in Kinds, legs[1] = "none", Execute(1, kind),
               Carry(w, "result", FillSubmitted(w, kind), job[w].was),
               feeLeg' = WithFee(w)
        PROVE  Told
    <2> DEFINE p == FillSubmitted(w, kind)
               f == facts'
    <2>1. 1 \in Leg /\ 0 # 1
      BY CantonSwapAssumption DEF Leg
    <2>2. legs'[1] = kind /\ kind \in {"direct", "pending"}
      BY <1>2, <2>1 DEF Execute, Kinds, TypeOK
    <2>3. /\ f.filled /\ (kind = "direct" => f.paid)
          /\ (kind = "pending" => 1 \in f.offers)
          /\ (WithFee(w) => f.fee)
      BY <1>2, <2>1, <2>2 DEF facts, Committed, Delivered, Offered
    <2>4. ~o.networkFeeSettlementUpdateId /\ ~o.networkFeeAccountingPending
      BY <1>1, <1>2 DEF Evidence, facts, Committed
    <2>0. Evidence(o, f)
      BY <1>1
    <2> HIDE DEF f
    <2> DEFINE q == FillResult(o, kind = "pending")
    <2>5. q \in Row
      BY <1>1, FillWrites, Zenon
    <2>6. /\ q.status = IF kind = "pending" THEN "user_locked" ELSE "filled"
          /\ q.counterLegOfferCid = IF kind = "pending" THEN 1 ELSE o.counterLegOfferCid
          /\ q.userLegOfferCid = o.userLegOfferCid
      BY <1>1 DEF FillResult, Row
    <2>7. q.settlementUpdateId = TRUE
      BY <1>1 DEF FillResult, Row
    <2>8. q.counterReceiptUpdateId => kind # "pending"
      BY <1>1 DEF FillResult, Row
    <2>9. ~q.networkFeeSettlementUpdateId /\ ~q.networkFeeAccountingPending
      BY <1>1, <2>4 DEF FillResult, Row
    <2>10. p = [q EXCEPT !.networkFeeSettlementUpdateId = @ \/ WithFee(w),
                         !.networkFeeAccountingPending = @ \/ WithFee(w)]
      BY Zenon DEF FillSubmitted
    <2> HIDE DEF q, p
    <2>11. (q.networkFeeSettlementUpdateId \/ WithFee(w)) \in BOOLEAN
           /\ (q.networkFeeAccountingPending \/ WithFee(w)) \in BOOLEAN
      OBVIOUS
    <2>12. p \in Row
      BY <2>5, <2>10, <2>11, FieldWrites, Zenon
    <2>13. /\ p.status = q.status /\ p.counterLegOfferCid = q.counterLegOfferCid
           /\ p.userLegOfferCid = q.userLegOfferCid
           /\ p.settlementUpdateId = q.settlementUpdateId
           /\ p.counterReceiptUpdateId = q.counterReceiptUpdateId
      BY <2>5, <2>10 DEF Row
    <2>14. /\ p.networkFeeSettlementUpdateId => WithFee(w)
           /\ p.networkFeeAccountingPending => WithFee(w)
      BY <2>5, <2>9, <2>10, Zenon DEF Row
    <2>15. Evidence(p, f)
      <3>1. p.networkFeeSettlementUpdateId \/ p.networkFeeAccountingPending => f.fee
        BY <2>3, <2>14, Zenon
      <3>2. p.status = "filled" \/ p.counterReceiptUpdateId => f.paid
        BY <2>2, <2>3, <2>6, <2>8, <2>13
      <3>3. p.userLegOfferCid => f.made
        BY <2>0, <2>6, <2>13 DEF Evidence
      <3>4. p.counterLegOfferCid # 0 => p.counterLegOfferCid \in f.offers
        BY <2>0, <2>3, <2>6, <2>13 DEF Evidence
      <3> QED BY <2>3, <2>6, <2>13, <3>1, <3>2, <3>3, <3>4 DEF Evidence
    <2>16. Written(p, job[w].was, f)
      BY <2>6, <2>13, <2>15 DEF Written
    <2> QED BY <1>1, <1>2, <2>6, <2>7, <2>12, <2>13, <2>16, ResultTrue DEF p, f
  <1>3. ASSUME NEW e, Fail(w, e) PROVE Told
    <2>1. JobEvidence([job[w] EXCEPT !.at = "caught", !.err = e], facts')
      BY <1>1 DEF JobEvidence, At, Job
    <2> QED BY <1>3, <2>1, BecomeTrue DEF Fail
  <1>4. ASSUME Committed(1), Goto(w, "recover") PROVE Told
    <2>1. facts'.filled
      BY <1>4, FactsGrow DEF Grows, facts
    <2>2. JobEvidence([job[w] EXCEPT !.at = "recover"], facts')
      BY <1>1, <2>1 DEF JobEvidence, At, Job
    <2> QED BY <1>4, <2>2, BecomeTrue DEF Goto
  <1> QED BY <1>2, <1>3, <1>4 DEF FillSubmit

\* A reissue's submission, likewise.
LEMMA ReissueTrue ==
    ASSUME TypeOK, EvidenceInv, [Next]_vars, NEW w \in Workers, Reissue(w)
    PROVE  \A v \in Workers : JobEvidence(job'[v], facts')
  <1> DEFINE Told == \A v \in Workers : JobEvidence(job'[v], facts')
             o == job[w].o
             k == ReissueLeg(o)
             f == facts'
  <1>1. /\ o \in Row /\ job[w] \in Job /\ JobEvidence(job[w], facts)
        /\ JobEvidence(job[w], f) /\ Evidence(o, facts) /\ Evidence(o, f)
        /\ At(w, "reissue") /\ k \in Leg
    BY CopiesKept DEF Reissue, JobEvidence
  <1>2. /\ o.status \notin {"none", "open", "settling"}
        /\ o.status = "expired" /\ Rejectable(o) => f.gone
    BY <1>1, OfferIsLoops DEF At, JobEvidence
  <1>3. k # 0
    BY <1>1, CantonSwapAssumption DEF Leg
  <1> HIDE DEF k, f, o
  <1>4. ASSUME k \in f.offers, NEW p \in Row, p = ReissueResult(o, k, TRUE)
        PROVE  Written(p, "user_locked", f)
    BY <1>1, <1>2, <1>3, <1>4 DEF ReissueResult, Written, Evidence, Rejectable, Row
  <1>5. ASSUME f.paid, NEW p \in Row, p = ReissueResult(o, k, FALSE)
        PROVE  Written(p, "user_locked", f)
    BY <1>1, <1>5 DEF ReissueResult, Written, Evidence, Rejectable, Row
  <1>6. ASSUME NEW kind \in Kinds, legs[k] = "none", Execute(k, kind),
               Carry(w, "reissued", ReissueResult(o, k, kind = "pending"), "user_locked")
        PROVE  Told
    <2>1. legs'[k] = kind /\ kind \in {"direct", "pending"}
      BY <1>1, <1>6 DEF Execute, Kinds, TypeOK
    <2>2. /\ kind = "direct" => f.paid
          /\ kind = "pending" => k \in f.offers
      BY <1>1, <2>1 DEF f, facts, Delivered, Offered
    <2> DEFINE p == ReissueResult(o, k, kind = "pending")
    <2>3. p \in Row
      BY <1>1, ReissueWrites, Zenon
    <2>4. p = IF kind = "pending" THEN ReissueResult(o, k, TRUE)
                                  ELSE ReissueResult(o, k, FALSE)
      BY DEF ReissueResult
    <2> HIDE DEF p
    <2>5. Written(p, "user_locked", f)
      BY <1>4, <1>5, <2>1, <2>2, <2>3, <2>4
    <2> QED BY <1>6, <2>3, <2>5, CarryTrue, StatusMembers DEF p, f
  <1>7. ASSUME Committed(k),
               Carry(w, "reissued", ReissueResult(o, k, Offered(k)), "user_locked")
        PROVE  Told
    <2>1. /\ Offered(k) => k \in f.offers
          /\ ~Offered(k) => f.paid
      BY <1>1, <1>7, FactsGrow DEF f, facts, Grows, Committed, Delivered, Offered, TypeOK
    <2> DEFINE p == ReissueResult(o, k, Offered(k))
    <2>2. p \in Row
      BY <1>1, ReissueWrites, Zenon
    <2>3. p = IF Offered(k) THEN ReissueResult(o, k, TRUE)
                            ELSE ReissueResult(o, k, FALSE)
      BY DEF ReissueResult
    <2>4. Carry(w, "reissued", p, "user_locked")
      BY <1>7, Zenon
    <2> HIDE DEF p
    <2>5. Written(p, "user_locked", f)
      BY <1>4, <1>5, <2>1, <2>2, <2>3
    <2> QED BY <2>2, <2>4, <2>5, CarryTrue, StatusMembers DEF f
  <1>8. ASSUME Return(w) PROVE Told
    BY <1>8, ReturnTrue
  <1> QED BY <1>6, <1>7, <1>8, Zenon DEF Reissue, o, k

\* A conditional write of a truthful copy leaves a truthful row.
LEMMA PutTrue ==
    ASSUME TypeOK, EvidenceInv, [Next]_vars, NEW o \in Row,
           Written(o, row.status, facts), Put(o)
    PROVE  RowTrue(row', facts')
  <1>1. /\ row \in Row /\ RowTrue(row, facts) /\ RowTrue(row, facts')
        /\ Grows(facts, facts')
    BY CopiesKept, FactsGrow
  <1>2. row.status = "settling" => ~facts.past
    BY DEF facts
  <1>3. RowTrue(o, facts')
    <2>1. RowTrue(o, facts)
      BY <1>2 DEF Written, RowTrue
    <2> QED BY <1>1, <2>1, EvidenceKept DEF RowTrue, Grows
  <1>4. /\ row'.status = o.status /\ row'.floatReserved = o.floatReserved
        /\ row'.userLegOfferCid = o.userLegOfferCid
        /\ row'.settlementUpdateId = o.settlementUpdateId
        /\ row'.counterLegOfferCid = o.counterLegOfferCid
        /\ row'.counterReceiptUpdateId = o.counterReceiptUpdateId
    BY DEF Put, Row
  <1>5. /\ row'.networkFeeSettlementUpdateId =>
             o.networkFeeSettlementUpdateId \/ row.networkFeeSettlementUpdateId
        /\ row'.networkFeeAccountingPending =>
             o.networkFeeAccountingPending \/ row.networkFeeAccountingPending
    BY <1>1 DEF Put, Row
  <1> QED BY <1>1, <1>3, <1>4, <1>5 DEF RowTrue, Evidence, Rejectable

\* The reservation RPC: what it adds to the row as it stands.
LEMMA ReserveTrue ==
    ASSUME TypeOK, EvidenceInv, [Next]_vars, NEW next \in Status, NEW b \in BOOLEAN,
           Reserve(row.status, next, b),
           b => facts.made /\ next = "user_locked",
           next = "settling" => mode = "managed",
           next \in {"settling", "user_locked", row.status}
    PROVE  RowTrue(row', facts')
  <1>1. /\ row \in Row /\ RowTrue(row, facts) /\ RowTrue(row, facts')
        /\ Grows(facts, facts')
    BY CopiesKept, FactsGrow
  <1>2. /\ row'.status = next /\ row'.floatReserved
        /\ row'.userLegOfferCid => row.userLegOfferCid \/ b
        /\ row'.settlementUpdateId = row.settlementUpdateId
        /\ row'.counterLegOfferCid = row.counterLegOfferCid
        /\ row'.counterReceiptUpdateId = row.counterReceiptUpdateId
        /\ row'.networkFeeSettlementUpdateId = row.networkFeeSettlementUpdateId
        /\ row'.networkFeeAccountingPending = row.networkFeeAccountingPending
    BY <1>1 DEF Reserve, Row
  <1>3. row'.status = "expired" => row.status = "expired" /\ ~b
    BY <1>2
  <1>4. Evidence(row', facts')
    <2>1. row'.userLegOfferCid => facts'.made
      BY <1>1, <1>2 DEF RowTrue, Evidence, Grows
    <2>2. /\ row'.userLegOfferCid => row'.status \notin {"none", "open"}
          /\ row'.counterLegOfferCid # 0 => row'.status \notin {"none", "open"}
      BY <1>1, <1>2 DEF RowTrue, Evidence
    <2>3. row'.status = "filled" => facts'.paid
      BY <1>1, <1>2 DEF RowTrue, Evidence
    <2>4. row'.status = "settling" => mode = "managed"
      BY <1>1, <1>2 DEF RowTrue, Evidence
    <2> QED BY <1>1, <1>2, <2>1, <2>2, <2>3, <2>4 DEF RowTrue, Evidence
  <1> QED BY <1>1, <1>2, <1>3, <1>4 DEF RowTrue, Rejectable

\* Asking for the float leaves a truthful row, and a worker at the label that
\* it was granted or refused for.
LEMMA AskFloatTrue ==
    ASSUME TypeOK, EvidenceInv, [Next]_vars, NEW w \in Workers,
           NEW next \in Status, NEW b \in BOOLEAN, NEW l, NEW m,
           AskFloat(w, next, b, l, m),
           b => facts.made /\ next = "user_locked",
           next = "settling" /\ row.status = job[w].was => mode = "managed",
           next \in {"settling", "user_locked", job[w].was},
           \A n \in {l, m} : JobEvidence([job[w] EXCEPT !.at = n], facts')
    PROVE  HandlersTruthful
  <1>1. RowTrue(row', facts')
    <2>1. CASE UNCHANGED row
      BY <2>1, CopiesKept
    <2>2. CASE Reserve(job[w].was, next, b)
      <3>1. row.status = job[w].was
        BY <2>2 DEF Reserve
      <3> QED BY <2>2, <3>1, ReserveTrue
    <2> QED BY <2>1, <2>2 DEF AskFloat
  <1>2. \A v \in Workers : JobEvidence(job'[v], facts')
    BY BecomeTrue DEF AskFloat, Goto
  <1> QED BY <1>1, <1>2 DEF HandlersTruthful

\* The steps that write the row.
LEMMA WriteStepsTrue ==
    ASSUME TypeOK, EvidenceInv, [Next]_vars, NEW w \in Workers,
           \/ SettleReserve(w) \/ ConfirmReserve(w) \/ FillReserve(w)
           \/ ReissueReserve(w) \/ SettleFee(w) \/ SettleOffered(w)
           \/ FillBegin(w) \/ RecordResult(w) \/ LastPut(w)
           \/ ReissueRecord(w)
    PROVE  HandlersTruthful
  <1> DEFINE Told == \A v \in Workers : JobEvidence(job'[v], facts')
             o == job[w].o
             f == facts'
  <1>1. /\ o \in Row /\ job[w].was \in Status /\ job[w] \in Job
        /\ JobEvidence(job[w], facts) /\ JobEvidence(job[w], f)
        /\ Grows(facts, f) /\ row \in Row /\ RowTrue(row, facts) /\ RowTrue(row, f)
    BY CopiesKept, FactsGrow
  <1>2. ASSUME Return(w) PROVE Told
    BY <1>2, ReturnTrue
  <1>3. ASSUME UNCHANGED row PROVE RowTrue(row', f)
    BY <1>1, <1>3
  <1> HIDE DEF f
  <1>4. CASE SettleReserve(w)
    <2>1. mode = "managed"
      BY <1>1, <1>4 DEF SettleReserve, At, JobEvidence
    <2>2. \A n \in {"joined", "idle"} : JobEvidence([job[w] EXCEPT !.at = n], f)
      BY <1>1, <2>1 DEF JobEvidence, Job
    <2> QED BY <1>4, <2>1, <2>2, AskFloatTrue, StatusMembers DEF SettleReserve, f
  <1>5. CASE ConfirmReserve(w)
    <2>1. facts.made
      BY <1>1, <1>5 DEF ConfirmReserve, At, JobEvidence
    <2>2. \A n \in {"idle", "unconfirmed"} : JobEvidence([job[w] EXCEPT !.at = n], f)
      BY <1>1 DEF JobEvidence, Job
    <2> QED BY <1>5, <2>1, <2>2, AskFloatTrue, StatusMembers DEF ConfirmReserve, f
  <1>6. CASE FillReserve(w)
    <2>1. mode = "loop"
      BY <1>1, <1>6 DEF FillReserve, At, JobEvidence
    <2>2. \A n \in {"reservedFill", "idle"} : JobEvidence([job[w] EXCEPT !.at = n], f)
      BY <1>1, <2>1 DEF JobEvidence, Job
    <2>3. job[w].was # "settling" \/ row.status # job[w].was
      BY <1>1, <2>1 DEF RowTrue, Evidence
    <2> QED BY <1>1, <1>6, <2>2, <2>3, AskFloatTrue DEF FillReserve, f
  <1>7. CASE ReissueReserve(w)
    <2>1. \A n \in {"reservedReissue", "idle"} : JobEvidence([job[w] EXCEPT !.at = n], f)
      BY <1>1, <1>7 DEF ReissueReserve, At, JobEvidence, Job
    <2> QED BY <1>7, <2>1, AskFloatTrue, StatusMembers DEF ReissueReserve, f
  <1>8. ASSUME At(w, "fee") \/ At(w, "offered") \/ At(w, "offer")
        PROVE  /\ mode = "managed" /\ job[w].was = "settling" /\ facts.begun
               /\ o.status \notin {"none", "open"}
               /\ \/ o.status = "settling" /\ o.floatReserved
                  \/ o.settlementUpdateId
                  \/ facts.past
    BY <1>1, <1>8 DEF JobEvidence, At
  <1>9. row.status # "settling" /\ facts.begun => f.past
    BY <1>1 DEF Grows, facts
  <1>10. CASE SettleFee(w)
    <2>1. At(w, "fee")
      BY <1>10 DEF SettleFee
    <2>2. ASSUME Carry(w, "offer", o, "settling") PROVE Told
      <3>1. JobEvidence([job[w] EXCEPT !.at = "offer", !.o = o, !.was = "settling"], f)
        BY <1>1, <1>8, <2>1 DEF JobEvidence, At, Job
      <3> QED BY <2>2, <3>1, BecomeTrue DEF Carry, f
    <2>3. ASSUME row.status # "settling", Carry(w, "offer", row, "settling") PROVE Told
      <3>1. row.status \notin {"none", "open"}
        BY <1>8, <2>1 DEF facts
      <3>2. JobEvidence([job[w] EXCEPT !.at = "offer", !.o = row, !.was = "settling"], f)
        BY <1>1, <1>8, <1>9, <2>1, <2>3, <3>1 DEF JobEvidence, RowTrue, Grows, Job
      <3> QED BY <2>3, <3>2, BecomeTrue DEF Carry, f
    <2>4. ASSUME Fail(w, "other") PROVE Told
      <3>1. JobEvidence([job[w] EXCEPT !.at = "caught", !.err = "other"], f)
        BY <1>1, <1>8, <2>1 DEF JobEvidence, At, Job
      <3> QED BY <2>4, <3>1, BecomeTrue DEF Fail, f
    <2>5. ASSUME row.status = "settling", Put(o) PROVE RowTrue(row', f)
      <3>1. Written(o, "settling", facts)
        BY <1>1, <1>8, <2>1 DEF JobEvidence, Written
      <3> QED BY <1>1, <2>5, <3>1, PutTrue DEF f
    <2>6. \/ Carry(w, "offer", o, "settling") /\ UNCHANGED row
          \/ row.status = "settling" /\ Carry(w, "offer", o, "settling") /\ Put(o)
          \/ row.status # "settling" /\ Carry(w, "offer", row, "settling") /\ UNCHANGED row
          \/ Fail(w, "other") /\ UNCHANGED row
      BY <1>10, Zenon DEF SettleFee, o
    <2> HIDE DEF o
    <2> QED BY <1>3, <2>2, <2>3, <2>4, <2>5, <2>6 DEF HandlersTruthful, f
  <1>11. ASSUME CanPut(w), Put(o), At(w, "put") \/ At(w, "result") \/ At(w, "offered")
                                   \/ At(w, "reissued")
         PROVE  RowTrue(row', f)
    <2>1. Written(o, row.status, facts)
      BY <1>1, <1>11, WriterCopies DEF CanPut, At
    <2> QED BY <1>1, <1>11, <2>1, PutTrue DEF f
  <1>12. CASE SettleOffered(w)
    <2>1. At(w, "offered")
      BY <1>12 DEF SettleOffered
    <2>2. ASSUME Goto(w, "check") PROVE Told
      <3>1. JobEvidence([job[w] EXCEPT !.at = "check"], f)
        BY <1>1, <2>1 DEF JobEvidence, At, Job
      <3> QED BY <2>2, <3>1, BecomeTrue DEF Goto, f
    <2>3. ASSUME ~CanPut(w), NEW l \in {"check", "caught"}, NEW e,
                 Become(w, [job[w] EXCEPT !.at = l, !.o = row, !.was = "settling",
                                          !.err = e])
          PROVE  Told
      <3>1. row.status # "settling"
        BY <1>8, <2>1, <2>3 DEF CanPut, At
      <3>2. row.status \notin {"none", "open"}
        BY <1>8, <2>1 DEF facts
      <3>3. JobEvidence([job[w] EXCEPT !.at = l, !.o = row, !.was = "settling",
                                       !.err = e], f)
        BY <1>1, <1>8, <1>9, <2>1, <2>3, <3>1, <3>2 DEF JobEvidence, RowTrue, Grows, Job
      <3> QED BY <2>3, <3>3, BecomeTrue DEF f
    <2>4. Carry(w, "check", row, "settling") =>
            Become(w, [job[w] EXCEPT !.at = "check", !.o = row, !.was = "settling",
                                     !.err = job[w].err])
      BY <1>1 DEF Carry, Become, Job
    <2>5. Become(w, [job[w] EXCEPT !.at = "caught", !.o = row, !.err = "other"]) =>
            Become(w, [job[w] EXCEPT !.at = "caught", !.o = row, !.was = "settling",
                                     !.err = "other"])
      BY <1>1, <1>8, <2>1 DEF Become, Job
    <2> QED BY <1>3, <1>11, <1>12, <2>1, <2>2, <2>3, <2>4, <2>5, Zenon
            DEF SettleOffered, HandlersTruthful, f
  <1>13. CASE FillBegin(w)
    <2> DEFINE p == [o EXCEPT !.status = "filling"]
    <2>1. mode = "loop" /\ (o.floatReserved \/ o.settlementUpdateId)
      BY <1>1, <1>13 DEF FillBegin, At, JobEvidence
    <2>2. p \in Row
      BY <1>1, FieldWrites, StatusMembers, Zenon
    <2>3. /\ Evidence(p, facts) /\ Evidence(p, f) /\ p.status = "filling"
      BY <1>1, <2>1 DEF JobEvidence, Evidence, Row
    <2>4. \/ Carry(w, "repair", p, "filling") /\ UNCHANGED row
          \/ CanPut(w) /\ Put(p) /\ Carry(w, "repair", p, "filling")
          \/ Return(w) /\ UNCHANGED row
      BY <1>13 DEF FillBegin
    <2> HIDE DEF p
    <2>5. ASSUME Carry(w, "repair", p, "filling") PROVE Told
      <3>1. JobEvidence([job[w] EXCEPT !.at = "repair", !.o = p, !.was = "filling"], f)
        BY <1>1, <2>1, <2>3 DEF JobEvidence, Job
      <3> QED BY <2>5, <3>1, BecomeTrue DEF Carry, f
    <2>6. Put(p) => RowTrue(row', f)
      BY <2>2, <2>3, PutTrue DEF Written, f
    <2> QED BY <1>2, <1>3, <2>4, <2>5, <2>6 DEF HandlersTruthful, f
  <1>14. CASE RecordResult(w)
    <2>1. At(w, "result")
      BY <1>14 DEF RecordResult
    <2>2. ASSUME o.networkFeeAccountingPending, Goto(w, "book") PROVE Told
      <3>1. JobEvidence([job[w] EXCEPT !.at = "book"], f)
        BY <1>1, <2>2 DEF JobEvidence, Evidence, Job
      <3> QED BY <2>2, <3>1, BecomeTrue DEF Goto, f
    <2>3. ASSUME Fail(w, "other") PROVE Told
      <3>1. JobEvidence([job[w] EXCEPT !.at = "caught", !.err = "other"], f)
        BY <1>1, <2>1 DEF JobEvidence, At, Job
      <3> QED BY <2>3, <3>1, BecomeTrue DEF Fail, f
    <2> QED BY <1>2, <1>3, <1>11, <1>14, <2>1, <2>2, <2>3
            DEF RecordResult, HandlersTruthful, f
  <1>15. CASE LastPut(w) \/ ReissueRecord(w)
    BY <1>2, <1>3, <1>11, <1>15 DEF LastPut, ReissueRecord, HandlersTruthful, f
  <1> QED BY <1>4, <1>5, <1>6, <1>7, <1>10, <1>12, <1>13, <1>14, <1>15

\* Every step leaves the row and the workers truthful.
LEMMA HandlersStayTruthful ==
    ASSUME TypeOK, EvidenceInv, [Next]_vars
    PROVE  HandlersTruthful
  <1>1. /\ row \in Row /\ RowTrue(row, facts')
        /\ \A v \in Workers : job[v] \in Job /\ JobEvidence(job[v], facts')
    BY CopiesKept
  <1>2. ASSUME UNCHANGED <<row, job>> PROVE HandlersTruthful
    BY <1>1, <1>2 DEF HandlersTruthful
  <1>3. CASE CreateOrder
    <2>1. Evidence(row', facts') /\ row'.status = "open"
      BY <1>3 DEF CreateOrder, NewOrder, Evidence
    <2> QED BY <1>1, <1>3, <2>1 DEF CreateOrder, HandlersTruthful, RowTrue
  <1>4. CASE CooldownPasses
    <2>1. ASSUME NEW p \in Row, RowTrue(p, facts') PROVE RowTrue(Aged(p), facts')
      BY <2>1 DEF RowTrue, Evidence, Aged, Rejectable, Row
    <2>2. ASSUME NEW v \in Workers
          PROVE  JobEvidence([job[v] EXCEPT !.o = Aged(job[v].o)], facts')
      <3> DEFINE j == job[v]
                 a == Aged(j.o)
      <3>1. j \in Job /\ j.o \in Row /\ JobEvidence(j, facts')
        BY <1>1 DEF Job
      <3>2. /\ a.status = j.o.status /\ a.floatReserved = j.o.floatReserved
            /\ a.userLegOfferCid = j.o.userLegOfferCid
            /\ a.settlementUpdateId = j.o.settlementUpdateId
            /\ a.counterLegOfferCid = j.o.counterLegOfferCid
            /\ a.counterReceiptUpdateId = j.o.counterReceiptUpdateId
            /\ a.networkFeeSettlementUpdateId = j.o.networkFeeSettlementUpdateId
            /\ a.networkFeeAccountingPending = j.o.networkFeeAccountingPending
        BY <3>1 DEF Aged, Row
      <3> HIDE DEF j, a
      <3>3. JobEvidence([j EXCEPT !.o = a], facts')
        BY <3>1, <3>2 DEF JobEvidence, Evidence, Rejectable, Job
      <3> QED BY <3>3 DEF j, a
    <2>3. RowTrue(row', facts')
      BY <1>1, <1>4, <2>1 DEF CooldownPasses
    <2> QED BY <1>4, <2>2, <2>3 DEF CooldownPasses, HandlersTruthful
  <1>5. CASE UNCHANGED vars \/ (Environment /\ ~CreateOrder /\ ~CooldownPasses)
    BY <1>2, <1>5 DEF vars, Environment, SellOffered, SellCloses, DeadlinePasses,
                      FeesSwitchedOff, Land, OfferEnds
  <1>6. ASSUME NEW w \in Workers, Start(w) \/ Sweep(w) \/ Step(w) \/ Kill(w)
        PROVE  HandlersTruthful
    <2>1. ASSUME UNCHANGED row, \A v \in Workers : JobEvidence(job'[v], facts')
          PROVE  HandlersTruthful
      BY <1>1, <2>1 DEF HandlersTruthful
    <2>2. CASE Start(w) \/ Sweep(w) \/ SettleJoin(w) \/ ConfirmReject(w)
               \/ FillReserved(w) \/ FillCheck(w) \/ BookFee(w) \/ UnmarkFee(w)
               \/ FillInFlight(w) \/ CounterFresh(w) \/ ReissueReserved(w)
               \/ Kill(w)
      BY <2>1, <2>2, LocalStepsTrue, LocalStepsType
    <2>3. CASE SettleOffer(w) \/ FillRepair(w) \/ FillRecover(w)
               \/ SettleCaught(w) \/ FillCaught(w) \/ CatchReject(w)
               \/ SweepRepair(w) \/ CounterLook(w) \/ CounterRelook(w)
               \/ ExpireRepair(w) \/ ExpireReject(w) \/ FeeBook(w)
      BY <2>1, <2>3, CarryStepsTrue, CarryStepsType
    <2>4. CASE FillSubmit(w) \/ Reissue(w)
      BY <2>1, <2>4, FillSubmitTrue, ReissueTrue, CarryStepsType
    <2> QED BY <1>6, <2>2, <2>3, <2>4, WriteStepsTrue DEF Step
  <1> QED BY <1>3, <1>4, <1>5, <1>6 DEF Next

\* A fee is booked only by the two steps that know the fill carried it.
LEMMA BookedTrue ==
    ASSUME TypeOK, EvidenceInv, [Next]_vars
    PROVE  BookedFeeWasCollected'
  <1>1. facts.fee => facts'.fee
    BY FactsGrow DEF Grows
  <1>2. booked' => facts.fee
    <2>1. booked => facts.fee
      BY DEF EvidenceInv, BookedFeeWasCollected, facts
    <2>2. ASSUME NEW w \in Workers, BookFee(w) \/ FeeBook(w) PROVE facts.fee
      BY <2>2, CopiesKept DEF BookFee, FeeBook, At, JobEvidence
    <2> QED BY <2>1, <2>2, BookedFrame
  <1> QED BY <1>1, <1>2 DEF BookedFeeWasCollected, facts

\* The inductive invariant: the row, and everything a handler at an await has
\* in its hands, agree with the ledger.
THEOREM SwapEvidenceInvariant == Spec => []EvidenceInv
  <1>1. Init => EvidenceInv
    <2> SUFFICES ASSUME Init PROVE EvidenceInv
      OBVIOUS
    <2>1. Evidence(row, facts) /\ ExpiredReleasesOffer /\ BookedFeeWasCollected
      BY DEF Init, NewOrder, Evidence, Rejectable, ExpiredReleasesOffer,
             BookedFeeWasCollected
    <2>2. \A w \in Workers : JobEvidence(job[w], facts)
      BY DEF Init, Idle, NewOrder, JobEvidence, Evidence, Rejectable
    <2>3. \A k \in Leg : ~Offered(k)
      BY DEF Init, Offered
    <2> QED BY <2>1, <2>2, <2>3 DEF EvidenceInv
  <1>2. TypeOK /\ EvidenceInv /\ [Next]_vars => EvidenceInv'
    <2> SUFFICES ASSUME TypeOK, EvidenceInv, [Next]_vars PROVE EvidenceInv'
      OBVIOUS
    <2>1. mode' = mode /\ HandlersTruthful
      BY ModeFixed, HandlersStayTruthful
    <2>2. Evidence(row, facts)' /\ \A w \in Workers : JobEvidence(job[w], facts)'
      BY <2>1 DEF HandlersTruthful, RowTrue, Evidence, JobEvidence
    <2>3. ExpiredReleasesOffer'
      BY <2>1 DEF HandlersTruthful, RowTrue, ExpiredReleasesOffer, facts, Rejectable
    <2>4. mode' = "managed" => \A k \in Leg : ~Offered(k)'
      BY <2>1, ManagedIsDirect
    <2> QED BY <2>2, <2>3, <2>4, BookedTrue DEF EvidenceInv
  <1> QED BY <1>1, <1>2, CantonSwapTypeCorrect, PTL DEF Spec

\* Fee revenue is booked only for a fill that carried the fee leg
\* (recordNetworkFeeCollected, reconcileNetworkFeeAccounting).
THEOREM FeeRevenueIsReal == Spec => []BookedFeeWasCollected
  <1>1. EvidenceInv => BookedFeeWasCollected
    BY DEF EvidenceInv
  <1> QED BY <1>1, SwapEvidenceInvariant, PTL

\* A row that says filled is right: the user has the bought asset.
THEOREM FilledRowsArePaid == Spec => []FilledIsPaid
  <1>1. EvidenceInv => FilledIsPaid
    BY DEF EvidenceInv, Evidence, FilledIsPaid, facts
  <1> QED BY <1>1, SwapEvidenceInvariant, PTL

\* An order that may be filled and has no fill on record holds a reservation.
THEOREM FillsAreReserved == Spec => []FillIsReserved
  <1>1. EvidenceInv => FillIsReserved
    BY DEF EvidenceInv, Evidence, FillIsReserved, facts
  <1> QED BY <1>1, SwapEvidenceInvariant, PTL

\* An expired order leaves no sell offer pending that it knows of.
THEOREM ExpiryReleasesTheOffer == Spec => []ExpiredReleasesOffer
  <1>1. EvidenceInv => ExpiredReleasesOffer
    BY DEF EvidenceInv
  <1> QED BY <1>1, SwapEvidenceInvariant, PTL

-----------------------------------------------------------------------------
(* The bought asset is delivered once (OnceInv).  The argument: a reissue   *)
(* names the leg after the one its copy of the row knows, and is sent only  *)
(* when that one was seen closed, which it then stays.  For that the copy   *)
(* must know the latest leg.  Until the first cooldown has passed there is  *)
(* only the fill (Early); a handler that read the row before it has ended   *)
(* by then, so that every copy taken since is of a settled order (Late),    *)
(* and what is written back never names an older offer than the row.        *)

\* What the evidence says of a copy's counter offer, and of a managed order.
LEMMA OffersKnown ==
    ASSUME TypeOK, EvidenceInv
    PROVE  /\ 1 \in Leg /\ row \in Row
           /\ row.settlementUpdateId => Committed(1)
           /\ row.counterLegOfferCid # 0 =>
                /\ Offered(row.counterLegOfferCid) /\ row.counterLegOfferCid \in Leg
                /\ row.status \notin {"none", "open"}
           /\ row.status = "settling" => mode = "managed"
           /\ mode = "managed" => \A k \in Leg : ~Offered(k)
           /\ \A w \in Workers : LET j == job[w] IN
                /\ j \in Job /\ j.o \in Row
                /\ j.o.counterLegOfferCid # 0 =>
                     /\ Offered(j.o.counterLegOfferCid)
                     /\ j.o.counterLegOfferCid \in Leg
                /\ j.at \in (Reissuing \ {"reissued"}) \cup {"look"} =>
                     /\ j.o.counterLegOfferCid # 0
                     /\ j.cid = j.o.counterLegOfferCid
  <1>1. 1 \in Leg /\ row \in Row /\ \A w \in Workers : job[w] \in Job
    BY CantonSwapAssumption DEF Leg, TypeOK, Job
  <1>2. ASSUME NEW w \in Workers
        PROVE  /\ job[w] \in Job /\ job[w].o \in Row
               /\ Evidence(job[w].o, facts) /\ JobEvidence(job[w], facts)
    BY <1>1, <1>2 DEF EvidenceInv, JobEvidence, Job
  <1> QED BY <1>1, <1>2 DEF EvidenceInv, Evidence, JobEvidence, facts, Reissuing

\* How a command of the vault moves.
Moves(k, v) ==
    /\ legs' = [legs EXCEPT ![k] = v]
    /\ \/ legs[k] = "flying"
       \/ legs[k] = "pending" /\ v \in {"accepted", "closed"}
       \/ legs[k] = "none" /\ (k = 1 \/ k - 1 \in ended)

\* A leg is sent only where the leg before it is closed for good.
LEMMA LegMoves ==
    ASSUME TypeOK, EvidenceInv, OnceInv, [Next]_vars
    PROVE  UNCHANGED legs \/ \E k \in Leg : \E v : Moves(k, v)
  <1> DEFINE Goal == UNCHANGED legs \/ \E k \in Leg : \E v : Moves(k, v)
  <1>1. ASSUME NEW k \in Leg, k = 1 \/ k - 1 \in ended,
               legs[k] = "none", \/ \E kind \in Kinds : Execute(k, kind)
                                 \/ Vanishes(k)
        PROVE  Goal
    <2>1. ASSUME NEW kind \in Kinds, Execute(k, kind) PROVE Moves(k, kind)
      BY <1>1, <2>1 DEF Execute, Moves
    <2>2. CASE legs' = [legs EXCEPT ![k] = "flying"]
      BY <1>1, <2>2 DEF Moves
    <2> QED BY <1>1, <2>1, <2>2 DEF Vanishes
  <1>2. ASSUME NEW k \in Leg, Land(k) PROVE Goal
    <2>1. ASSUME NEW kind \in Kinds, Execute(k, kind) PROVE Moves(k, kind)
      BY <1>2, <2>1 DEF Land, Execute, Moves
    <2>2. CASE legs' = [legs EXCEPT ![k] = "none"]
      BY <1>2, <2>2 DEF Land, Moves
    <2> QED BY <1>2, <2>1, <2>2 DEF Land
  <1>3. ASSUME NEW k \in Leg, OfferEnds(k) PROVE Goal
    BY <1>3 DEF OfferEnds, Moves
  <1>4. ASSUME NEW w \in Workers, FillSubmit(w) PROVE Goal
    <2>1. 1 \in Leg
      BY OffersKnown
    <2> QED BY <1>1, <1>4, <2>1 DEF FillSubmit, Vanishes, ledgerVars
  <1>5. ASSUME NEW w \in Workers, Reissue(w) PROVE Goal
    <2> DEFINE o == job[w].o
               k == ReissueLeg(o)
    <2>1. LateJob(job[w], row.status, ended)
      BY <1>5 DEF Reissue, At, OnceInv, Early, EarlyJob, Reissuing, Late
    <2>2. /\ o \in Row /\ o.counterLegOfferCid = o.counterReissueAttempt + 1
          /\ o.counterLegOfferCid \in ended
      BY <1>5, <2>1, OffersKnown DEF Reissue, At, LateJob, LateCopy, Reissuing
    <2>3. k - 1 \in ended
      BY <2>2 DEF ReissueLeg, Row
    <2>4. /\ k \in Leg
          /\ \/ legs[k] = "none" /\ \E kind \in Kinds : Execute(k, kind)
             \/ legs[k] = "none" /\ Vanishes(k)
             \/ UNCHANGED legs
      BY <1>5, Zenon DEF Reissue, Vanishes
    <2> HIDE DEF k, o
    <2> QED BY <1>1, <2>3, <2>4
  <1> HIDE DEF Goal
  <1>6. ASSUME UNCHANGED legs PROVE Goal
    BY <1>6 DEF Goal
  <1>7. ASSUME \/ UNCHANGED ledgerVars \/ SellOffered \/ SellCloses
               \/ \E w \in Workers : ConfirmReject(w) \/ SettleOffer(w)
                                     \/ CatchReject(w) \/ ExpireReject(w)
        PROVE  Goal
    BY <1>6, <1>7 DEF ledgerVars, SellOffered, SellCloses, ConfirmReject,
                      SettleOffer, CatchReject, ExpireReject
  <1>8. Goal
    BY <1>2, <1>3, <1>4, <1>5, <1>7, LedgerFrame
  <1> QED BY <1>8 DEF Goal

\* So the legs go on to be sent in turn, and what has ended stays so.
LEMMA TurnKept ==
    ASSUME TypeOK, EvidenceInv, OnceInv, [Next]_vars
    PROVE  SentInTurn' /\ ended \subseteq ended'
  <1>1. CASE UNCHANGED legs
    BY <1>1 DEF OnceInv, SentInTurn, ended
  <1>2. ASSUME NEW k \in Leg, NEW v, Moves(k, v)
        PROVE  SentInTurn' /\ ended \subseteq ended'
    <2>1. /\ k \in Nat /\ \A i \in Leg : i \in Nat
          /\ \A i \in Leg : legs'[i] = IF i = k THEN v ELSE legs[i]
      BY <1>2 DEF Moves, Leg, TypeOK
    <2>2. legs[k] # "closed" /\ SentInTurn
      BY <1>2 DEF Moves, OnceInv
    <2>3. ended \subseteq ended'
      BY <2>1, <2>2 DEF ended
    <2>4. ASSUME NEW i \in Leg, NEW m \in Leg, i < m, legs'[m] # "none"
          PROVE  legs'[i] = "closed"
      <3>1. CASE m # k
        BY <2>1, <2>2, <2>4, <3>1 DEF SentInTurn
      <3>2. CASE m = k /\ legs[k] # "none"
        BY <2>1, <2>2, <2>4, <3>2 DEF SentInTurn
      <3>3. CASE m = k /\ legs[k] = "none"
        <4>1. k - 1 \in ended
          BY <1>2, <2>1, <2>4, <3>3 DEF Moves, Leg
        <4>2. k - 1 \in Leg /\ legs[k - 1] = "closed"
          BY <4>1 DEF ended
        <4>3. i = k - 1 \/ i < k - 1
          BY <2>1, <2>4, <3>3
        <4> QED BY <2>1, <2>2, <2>4, <3>3, <4>2, <4>3 DEF SentInTurn
      <3> QED BY <3>1, <3>2, <3>3
    <2> QED BY <2>3, <2>4 DEF SentInTurn
  <1> QED BY <1>1, <1>2, LegMoves

\* Until the first cooldown: what a handler makes of an early copy is early,
LEMMA EarlyWrites ==
    ASSUME NEW o \in Row, EarlyCopy(o)
    PROVE  /\ EarlyCopy(Failed(o)) /\ EarlyCopy(ExpiredRow(o)) /\ EarlyCopy(Received(o))
           /\ EarlyCopy(FillResult(o, Offered(1))) /\ EarlyCopy(FillResult(o, FALSE))
           /\ \A kind : EarlyCopy(FillResult(o, kind = "pending"))
           /\ \A s \in Status : EarlyCopy([o EXCEPT !.status = s])
           /\ \A s \in Status, b \in BOOLEAN :
                /\ EarlyCopy([o EXCEPT !.status = s, !.fillInFlight = b])
                /\ EarlyCopy([o EXCEPT !.status = s, !.floatReserved = b])
           /\ EarlyCopy([o EXCEPT !.userLegOfferCid = TRUE])
           /\ EarlyCopy([o EXCEPT !.networkFeeAccountingPending = FALSE])
           /\ EarlyCopy([o EXCEPT !.counterPendingClearedAt = "none"])
           /\ \A b, c : EarlyCopy([o EXCEPT !.networkFeeSettlementUpdateId = b,
                                            !.networkFeeAccountingPending = c])
  <1> USE DEF EarlyCopy, Row
  <1>1. /\ EarlyCopy(Failed(o)) /\ EarlyCopy(ExpiredRow(o)) /\ EarlyCopy(Received(o))
        /\ \A s \in Status : EarlyCopy([o EXCEPT !.status = s])
        /\ \A s \in Status, b \in BOOLEAN :
             /\ EarlyCopy([o EXCEPT !.status = s, !.fillInFlight = b])
             /\ EarlyCopy([o EXCEPT !.status = s, !.floatReserved = b])
    BY DEF Failed, ExpiredRow, Received
  <1>2. /\ EarlyCopy(FillResult(o, Offered(1))) /\ EarlyCopy(FillResult(o, FALSE))
        /\ \A kind : EarlyCopy(FillResult(o, kind = "pending"))
    BY DEF FillResult
  <1>3. /\ EarlyCopy([o EXCEPT !.userLegOfferCid = TRUE])
        /\ EarlyCopy([o EXCEPT !.networkFeeAccountingPending = FALSE])
        /\ EarlyCopy([o EXCEPT !.counterPendingClearedAt = "none"])
        /\ \A b, c : EarlyCopy([o EXCEPT !.networkFeeSettlementUpdateId = b,
                                         !.networkFeeAccountingPending = c])
    OBVIOUS
  <1> QED BY <1>1, <1>2, <1>3, Zenon

\* a worker that goes on with an early copy leaves all workers early,
LEMMA BecomeEarly ==
    ASSUME TypeOK, Early, NEW w \in Workers, NEW j, EarlyJob(j), Become(w, j)
    PROVE  \A v \in Workers : EarlyJob(job'[v])
  BY DEF Become, TypeOK, Early

\* so does one that reads the row,
LEMMA ReadEarly ==
    ASSUME TypeOK, Early, NEW w \in Workers, NEW l, l \notin Reissuing,
           l = "look" => row.settlementUpdateId, Read(w, l)
    PROVE  \A v \in Workers : EarlyJob(job'[v])
  <1>1. EarlyJob([Idle EXCEPT !.at = l, !.o = row, !.was = row.status,
                              !.cid = row.counterLegOfferCid])
    BY DEF Idle, EarlyJob, Early
  <1> QED BY <1>1, BecomeEarly DEF Read

\* goes on with its copy,
LEMMA GotoEarly ==
    ASSUME TypeOK, Early, NEW w \in Workers, NEW l,
           l \notin Reissuing \cup {"look"}, Goto(w, l)
    PROVE  \A v \in Workers : EarlyJob(job'[v])
  <1>1. job[w] \in Job /\ EarlyJob(job[w])
    BY DEF TypeOK, Job, Early
  <1>2. EarlyJob([job[w] EXCEPT !.at = l])
    BY <1>1 DEF EarlyJob, Job
  <1> QED BY <1>2, BecomeEarly DEF Goto

\* gives up with it,
LEMMA FailEarly ==
    ASSUME TypeOK, Early, NEW w \in Workers, NEW e, Fail(w, e)
    PROVE  \A v \in Workers : EarlyJob(job'[v])
  <1>1. job[w] \in Job /\ EarlyJob(job[w])
    BY DEF TypeOK, Job, Early
  <1>2. EarlyJob([job[w] EXCEPT !.at = "caught", !.err = e])
    BY <1>1 DEF EarlyJob, Job, Reissuing
  <1> QED BY <1>2, BecomeEarly DEF Fail

\* goes on with another,
LEMMA CarryEarly ==
    ASSUME TypeOK, Early, NEW w \in Workers, NEW l, NEW o, NEW s,
           l \notin Reissuing \cup {"look"}, EarlyCopy(o), Carry(w, l, o, s)
    PROVE  \A v \in Workers : EarlyJob(job'[v])
  <1>1. job[w] \in Job /\ EarlyJob(job[w])
    BY DEF TypeOK, Job, Early
  <1>2. EarlyJob([job[w] EXCEPT !.at = l, !.o = o, !.was = s])
    BY <1>1 DEF EarlyJob, Job
  <1> QED BY <1>2, BecomeEarly DEF Carry

\* and one that returns.
LEMMA ReturnEarly ==
    ASSUME TypeOK, Early, NEW w \in Workers, Return(w)
    PROVE  \A v \in Workers : EarlyJob(job'[v])
  <1>1. EarlyJob(Idle)
    BY CantonSwapAssumption DEF Idle, NewOrder, EarlyJob, EarlyCopy, Reissuing
  <1> QED BY <1>1, BecomeEarly DEF Return

\* The steps that start a handler, and those that read the row and decide.
LEMMA LocalStepsEarly ==
    ASSUME TypeOK, Early, NEW w \in Workers,
           \/ Start(w) \/ Sweep(w) \/ SettleJoin(w) \/ ConfirmReject(w)
           \/ FillReserved(w) \/ FillCheck(w) \/ BookFee(w) \/ UnmarkFee(w)
           \/ FillInFlight(w) \/ CounterFresh(w) \/ ReissueReserved(w)
           \/ Kill(w)
    PROVE  \A v \in Workers : EarlyJob(job'[v])
  <1>1. row \in Row /\ EarlyCopy(row) /\ EarlyJob(job[w])
    BY DEF TypeOK, Early
  <1>2. ASSUME NEW l, l \in {"put", "feeBook", "check", "submit", "caught", "unmark",
                             "reserve", "fee", "confirm", "begin", "reserveFill",
                             "sweepRepair", "expire", "look"}
        PROVE  l \notin Reissuing
    BY <1>2 DEF Reissuing
  <1> USE <1>1, <1>2, ReturnEarly, ReadEarly, GotoEarly, FailEarly,
          CarryEarly, StatusMembers
  <1>3. CASE Cancel(w) \/ MarkAccepted(w) \/ UnmarkFee(w)
    <2>1. ASSUME NEW j, Become(w, j), j.at = "put", EarlyCopy(j.o)
          PROVE  \A v \in Workers : EarlyJob(job'[v])
      BY <2>1, BecomeEarly DEF EarlyJob
    <2>2. /\ EarlyCopy([row EXCEPT !.status = "cancelled", !.floatReserved = FALSE])
          /\ EarlyCopy(Received(row))
          /\ EarlyCopy([row EXCEPT !.networkFeeAccountingPending = FALSE])
      BY EarlyWrites, Zenon
    <2> QED BY <1>3, <2>1, <2>2 DEF Cancel, MarkAccepted, UnmarkFee, Idle
  <1>4. CASE SettleStart(w) \/ ConfirmStart(w) \/ FillStart(w) \/ RepairStart(w)
             \/ CounterStart(w) \/ ExpireStart(w) \/ FeeStart(w)
    BY <1>4 DEF SettleStart, ConfirmStart, FillStart, RepairStart, CounterStart,
                ExpireStart, FeeStart, PendingCounterAccept
  <1>5. CASE SettleJoin(w) \/ FillReserved(w) \/ ConfirmReject(w) \/ Kill(w)
    BY <1>5 DEF SettleJoin, FillReserved, ConfirmReject, Kill
  <1>6. CASE FillCheck(w) \/ BookFee(w)
    BY <1>6 DEF FillCheck, BookFee
  <1>7. CASE FillInFlight(w)
    <2>1. EarlyCopy([row EXCEPT !.status = "user_locked", !.fillInFlight = TRUE])
      BY EarlyWrites, Zenon
    <2> QED BY <1>7, <2>1 DEF FillInFlight
  <1>8. ~CounterFresh(w) /\ ~ReissueReserved(w)
    BY DEF CounterFresh, ReissueReserved, At, EarlyJob, Reissuing
  <1> QED BY <1>3, <1>4, <1>5, <1>6, <1>7, <1>8 DEF Start, Sweep

\* The steps that go on with another copy of the row, to be written later.
LEMMA CarryStepsEarly ==
    ASSUME TypeOK, EvidenceInv, Early, NEW w \in Workers,
           \/ SettleOffer(w) \/ FillRepair(w) \/ FillSubmit(w)
           \/ FillRecover(w) \/ SettleCaught(w) \/ FillCaught(w)
           \/ CatchReject(w) \/ SweepRepair(w) \/ CounterLook(w)
           \/ CounterRelook(w) \/ Reissue(w) \/ ExpireRepair(w)
           \/ ExpireReject(w) \/ FeeBook(w)
    PROVE  \A v \in Workers : EarlyJob(job'[v])
  <1> DEFINE o == job[w].o
  <1>1. o \in Row /\ EarlyCopy(o) /\ EarlyJob(job[w])
    BY DEF TypeOK, Early, EarlyJob
  <1>2. ASSUME NEW l, l \in {"put", "check", "caught", "offered", "result", "recover",
                             "reject", "inFlight", "expireReject"}
        PROVE  l \notin Reissuing \cup {"look"}
    BY <1>2 DEF Reissuing
  <1> USE <1>1, <1>2, ReturnEarly, GotoEarly, FailEarly, CarryEarly, StatusMembers
  <1>3. /\ EarlyCopy(Failed(o)) /\ EarlyCopy(ExpiredRow(o)) /\ EarlyCopy(Received(o))
        /\ EarlyCopy(FillResult(o, Offered(1))) /\ EarlyCopy(FillResult(o, FALSE))
        /\ EarlyCopy([o EXCEPT !.status = "settling"])
        /\ EarlyCopy([o EXCEPT !.status = "user_locked", !.fillInFlight = TRUE])
        /\ EarlyCopy([o EXCEPT !.status = "user_locked", !.fillInFlight = FALSE])
        /\ EarlyCopy([o EXCEPT !.userLegOfferCid = TRUE])
        /\ EarlyCopy([o EXCEPT !.networkFeeAccountingPending = FALSE])
        /\ EarlyCopy([o EXCEPT !.counterPendingClearedAt = "none"])
    BY EarlyWrites, Zenon
  <1>4. CASE SettleOffer(w)
    BY <1>3, <1>4 DEF SettleOffer
  <1>5. CASE FillRepair(w) \/ FillRecover(w) \/ SweepRepair(w)
    BY <1>3, <1>5, Zenon DEF FillRepair, FillRecover, SweepRepair
  <1>6. CASE FillSubmit(w)
    <2>1. ASSUME NEW kind PROVE EarlyCopy(FillSubmitted(w, kind))
      <3>1. FillResult(o, kind = "pending") \in Row
            /\ EarlyCopy(FillResult(o, kind = "pending"))
        BY FillWrites, EarlyWrites, Zenon
      <3> QED BY <3>1, EarlyWrites, Zenon DEF FillSubmitted, o
    <2> QED BY <1>6, <2>1 DEF FillSubmit
  <1>7. CASE SettleCaught(w)
    BY <1>3, <1>7 DEF SettleCaught
  <1>8. CASE FillCaught(w)
    BY <1>3, <1>8 DEF FillCaught
  <1>9. CASE CatchReject(w)
    BY <1>3, <1>9 DEF CatchReject
  <1>10. CASE CounterLook(w)
    <2>1. o.settlementUpdateId /\ o.counterLegOfferCid = 1
      BY <1>10, OffersKnown DEF CounterLook, At, EarlyJob, EarlyCopy
    <2>2. EarlyCopy([o EXCEPT !.counterPendingClearedAt = "recent"])
      BY <2>1 DEF EarlyCopy, Row
    <2>3. o.counterPendingClearedAt \in {"none", "recent"}
      BY DEF EarlyCopy, Row
    <2> QED BY <1>3, <1>10, <2>2, <2>3 DEF CounterLook
  <1>11. CASE ExpireRepair(w) \/ ExpireReject(w)
    BY <1>3, <1>11 DEF ExpireRepair, ExpireReject, ExpireOrLeave
  <1>12. CASE FeeBook(w)
    BY <1>3, <1>12 DEF FeeBook
  <1>13. ~CounterRelook(w) /\ ~Reissue(w)
    BY DEF CounterRelook, Reissue, At, EarlyJob, Reissuing
  <1> QED BY <1>4, <1>5, <1>6, <1>7, <1>8, <1>9, <1>10, <1>11, <1>12, <1>13

\* The steps that write the row.
LEMMA WriteStepsEarly ==
    ASSUME TypeOK, Early, NEW w \in Workers,
           \/ SettleReserve(w) \/ ConfirmReserve(w) \/ FillReserve(w)
           \/ ReissueReserve(w) \/ SettleFee(w) \/ SettleOffered(w)
           \/ FillBegin(w) \/ RecordResult(w) \/ LastPut(w)
           \/ ReissueRecord(w)
    PROVE  EarlyCopy(row') /\ \A v \in Workers : EarlyJob(job'[v])
  <1> DEFINE o == job[w].o
  <1>1. /\ o \in Row /\ EarlyCopy(o) /\ EarlyJob(job[w])
        /\ row \in Row /\ EarlyCopy(row)
    BY DEF TypeOK, Early, EarlyJob
  <1>2. ASSUME NEW l, l \in {"idle", "joined", "unconfirmed", "reservedFill", "offer",
                             "check", "repair", "book", "caught"}
        PROVE  l \notin Reissuing \cup {"look"}
    BY <1>2 DEF Reissuing
  <1> USE <1>1, <1>2, ReturnEarly, GotoEarly, FailEarly, CarryEarly, StatusMembers
  <1>3. ASSUME NEW p \in Row, EarlyCopy(p), Put(p) PROVE EarlyCopy(row')
    BY <1>3 DEF Put, EarlyCopy, Row
  <1>4. ASSUME NEW next, NEW b, NEW l \in {"joined", "idle", "reservedFill"},
               NEW m \in {"joined", "idle", "unconfirmed"},
               AskFloat(w, next, b, l, m)
        PROVE  EarlyCopy(row') /\ \A v \in Workers : EarlyJob(job'[v])
    <2>1. ASSUME NEW s, Reserve(s, next, b) PROVE EarlyCopy(row')
      BY <2>1 DEF Reserve, EarlyCopy, Row
    <2> QED BY <1>4, <2>1 DEF AskFloat
  <1>5. CASE SettleReserve(w)
    BY <1>4, <1>5 DEF SettleReserve
  <1>6. CASE ConfirmReserve(w) \/ FillReserve(w)
    BY <1>4, <1>6 DEF ConfirmReserve, FillReserve
  <1>7. CASE SettleFee(w)
    BY <1>3, <1>7 DEF SettleFee
  <1>8. CASE SettleOffered(w)
    <2>1. EarlyJob([job[w] EXCEPT !.at = "caught", !.o = row, !.err = "other"])
      BY DEF EarlyJob, TypeOK, Reissuing
    <2> QED BY <1>3, <1>8, <2>1, BecomeEarly DEF SettleOffered
  <1>9. CASE FillBegin(w)
    <2>1. [o EXCEPT !.status = "filling"] \in Row
          /\ EarlyCopy([o EXCEPT !.status = "filling"])
      BY FieldWrites, EarlyWrites, Zenon
    <2> QED BY <1>3, <1>9, <2>1 DEF FillBegin
  <1>10. CASE RecordResult(w) \/ LastPut(w)
    BY <1>3, <1>10 DEF RecordResult, LastPut
  <1>11. ~ReissueReserve(w) /\ ~ReissueRecord(w)
    BY DEF ReissueReserve, ReissueRecord, At, EarlyJob, Reissuing
  <1> QED BY <1>5, <1>6, <1>7, <1>8, <1>9, <1>10, <1>11

\* Only the fill is sent while no handler reissues.
LEMMA FillIsOnlyLeg ==
    ASSUME TypeOK, Early, [Next]_vars
    PROVE  \A k \in Leg : k > 1 => legs'[k] = "none"
  <1> USE DEF TypeOK, Early
  <1>1. 1 \in Leg /\ \A k \in Leg : k \in Nat
    BY CantonSwapAssumption DEF Leg
  <1>2. ASSUME NEW k \in Leg, NEW v, k = 1 \/ legs[k] # "none",
               legs' = [legs EXCEPT ![k] = v]
        PROVE  \A m \in Leg : m > 1 => legs'[m] = "none"
    BY <1>1, <1>2
  <1>3. CASE UNCHANGED legs
    BY <1>3
  <1>4. ASSUME NEW k \in Leg, Land(k) \/ OfferEnds(k)
        PROVE  \A m \in Leg : m > 1 => legs'[m] = "none"
    BY <1>2, <1>4 DEF Land, Execute, OfferEnds
  <1>5. ASSUME NEW w \in Workers, FillSubmit(w)
        PROVE  \A m \in Leg : m > 1 => legs'[m] = "none"
    BY <1>1, <1>2, <1>3, <1>5 DEF FillSubmit, Execute, Vanishes, ledgerVars
  <1>6. ASSUME NEW w \in Workers, Reissue(w) PROVE FALSE
    BY <1>6 DEF Reissue, At, EarlyJob, Reissuing
  <1>7. ASSUME \/ UNCHANGED ledgerVars \/ SellOffered \/ SellCloses
               \/ \E w \in Workers : ConfirmReject(w) \/ SettleOffer(w)
                                     \/ CatchReject(w) \/ ExpireReject(w)
        PROVE  UNCHANGED legs
    BY <1>7 DEF ledgerVars, SellOffered, SellCloses, ConfirmReject,
                SettleOffer, CatchReject, ExpireReject
  <1> QED BY <1>3, <1>4, <1>5, <1>6, <1>7, LedgerFrame

\* The first cooldown ends when every handler has returned, and only for an
\* order whose fill left a counter offer.
LEMMA EarlyEnds ==
    ASSUME TypeOK, EvidenceInv, Early, ~SlowHandlers, CooldownPasses
    PROVE  Late'
  <1>1. /\ row \in Row /\ row.settlementUpdateId /\ row.counterLegOfferCid = 1
        /\ row.counterReissueAttempt = 0
    BY OffersKnown DEF CooldownPasses, Early, EarlyCopy
  <1>2. mode = "loop" /\ Offered(1)
    BY <1>1, OffersKnown DEF TypeOK
  <1>3. mode' = mode /\ legs' = legs
    BY DEF CooldownPasses, envVars, ledgerVars
  <1>4. LateCopy(row')
    BY <1>1 DEF CooldownPasses, Aged, LateCopy, Row
  <1>5. ASSUME NEW w \in Workers PROVE job'[w].at = "idle"
    <2>1. job[w] \in Job /\ job[w].at = "idle"
      BY OffersKnown DEF CooldownPasses, At
    <2> QED BY <2>1 DEF CooldownPasses, Job
  <1> QED BY <1>2, <1>3, <1>4, <1>5 DEF Late, Offered, At

\* Before it ends, every step leaves the order early.
LEMMA EarlyKept ==
    ASSUME TypeOK, EvidenceInv, Early, [Next]_vars, ~CooldownPasses
    PROVE  Early'
  <1>1. \A k \in Leg : k > 1 => legs'[k] = "none"
    BY FillIsOnlyLeg
  <1>2. EarlyCopy(row') /\ \A v \in Workers : EarlyJob(job'[v])
    <2>1. EarlyCopy(row) /\ \A v \in Workers : EarlyJob(job[v])
      BY DEF Early
    <2>2. CASE UNCHANGED vars \/ (Environment /\ ~CreateOrder)
      BY <2>1, <2>2 DEF vars, Environment, SellOffered, SellCloses, DeadlinePasses,
                        FeesSwitchedOff, Land, OfferEnds
    <2>3. CASE CreateOrder
      BY <2>1, <2>3, CantonSwapAssumption DEF CreateOrder, NewOrder, EarlyCopy
    <2>4. ASSUME NEW w \in Workers, Start(w) \/ Sweep(w) \/ Step(w) \/ Kill(w)
          PROVE  EarlyCopy(row') /\ \A v \in Workers : EarlyJob(job'[v])
      <3>1. ASSUME UNCHANGED row, \A v \in Workers : EarlyJob(job'[v])
            PROVE  EarlyCopy(row') /\ \A v \in Workers : EarlyJob(job'[v])
        BY <2>1, <3>1
      <3>2. CASE Start(w) \/ Sweep(w) \/ SettleJoin(w) \/ ConfirmReject(w)
                 \/ FillReserved(w) \/ FillCheck(w) \/ BookFee(w) \/ UnmarkFee(w)
                 \/ FillInFlight(w) \/ CounterFresh(w) \/ ReissueReserved(w)
                 \/ Kill(w)
        BY <3>1, <3>2, LocalStepsEarly, LocalStepsType
      <3>3. CASE SettleOffer(w) \/ FillRepair(w) \/ FillSubmit(w)
                 \/ FillRecover(w) \/ SettleCaught(w) \/ FillCaught(w)
                 \/ CatchReject(w) \/ SweepRepair(w) \/ CounterLook(w)
                 \/ CounterRelook(w) \/ Reissue(w) \/ ExpireRepair(w)
                 \/ ExpireReject(w) \/ FeeBook(w)
        BY <3>1, <3>3, CarryStepsEarly, CarryStepsType
      <3> QED BY <2>4, <3>2, <3>3, WriteStepsEarly DEF Step
    <2> QED BY <2>2, <2>3, <2>4 DEF Next
  <1> QED BY <1>1, <1>2 DEF Early, EarlyCopy, EarlyJob

-----------------------------------------------------------------------------
(* Once the first cooldown has passed.                                     *)

\* The handlers' part of Late, after a step.
WorkersLate ==
    \A v \in Workers : job'[v].at = "idle" \/ LateJob(job'[v], row'.status, ended')

\* A row that waits for the accept, or that is filled, stays one of the two.
Held == row.status \in {"user_locked", "filled"}
            => row'.status \in {"user_locked", "filled"}

\* What a late worker knows of the row and of the legs stays true.
LEMMA LateJobKept ==
    ASSUME NEW j, NEW s, NEW gone, NEW t, NEW more, LateJob(j, s, gone),
           s \in {"user_locked", "filled"} => t \in {"user_locked", "filled"},
           gone \subseteq more
    PROVE  LateJob(j, t, more)
  BY DEF LateJob

\* A worker that goes on as a late one leaves all workers late,
LEMMA BecomeLate ==
    ASSUME TypeOK, EvidenceInv, OnceInv, Late, [Next]_vars, Held,
           NEW w \in Workers, NEW j, Become(w, j),
           j.at = "idle" \/ LateJob(j, row'.status, ended')
    PROVE  WorkersLate
  <1>1. ended \subseteq ended'
    BY TurnKept
  <1>2. ASSUME NEW v \in Workers, v # w
        PROVE  job'[v].at = "idle" \/ LateJob(job'[v], row'.status, ended')
    BY <1>1, <1>2, LateJobKept DEF Become, TypeOK, Late, At, Held
  <1> QED BY <1>2 DEF Become, TypeOK, WorkersLate

\* so does one that returns,
LEMMA ReturnLate ==
    ASSUME TypeOK, EvidenceInv, OnceInv, Late, [Next]_vars, Held,
           NEW w \in Workers, Return(w)
    PROVE  WorkersLate
  BY BecomeLate DEF Return, Idle

\* one that goes on with another late copy,
LEMMA CarryLate ==
    ASSUME TypeOK, EvidenceInv, OnceInv, Late, [Next]_vars, Held,
           NEW w \in Workers, NEW l, NEW o, NEW s, Carry(w, l, o, s),
           LateCopy(o),
           \/ l = "put" /\ (s \in {"user_locked", "filled"}
                              => o.status \in {"user_locked", "filled"})
           \/ /\ l \in {"repair", "check", "result"}
              /\ o.counterReissueAttempt = 0 /\ o.status # "filled"
              /\ s \notin {"user_locked", "filled"}
    PROVE  WorkersLate
  <1>1. job[w] \in Job
    BY OffersKnown
  <1>2. LateJob([job[w] EXCEPT !.at = l, !.o = o, !.was = s], row'.status, ended')
    BY <1>1 DEF LateJob, Job, Filling, Reissuing
  <1> QED BY <1>2, BecomeLate DEF Carry

\* and one that reads the row, at the statuses at which the sweeps read it.
LEMMA ReadLate ==
    ASSUME TypeOK, EvidenceInv, OnceInv, Late, [Next]_vars, UNCHANGED row,
           NEW w \in Workers, NEW l, Read(w, l),
           \/ l = "feeBook"
           \/ l = "begin" /\ row.status = "filling"
           \/ l \in {"sweepRepair", "expire"} /\ row.status \in {"filling", "failed"}
           \/ l \in {"look", "relook"} /\ row.status \in {"user_locked", "filled"}
           \/ /\ l = "reissue" /\ row.status = "user_locked"
              /\ row.counterLegOfferCid \in ended
    PROVE  WorkersLate
  <1>1. LateCopy(row) /\ ended \subseteq ended' /\ Held
    BY TurnKept DEF Late, Held
  <1>2. LateJob([Idle EXCEPT !.at = l, !.o = row, !.was = row.status,
                             !.cid = row.counterLegOfferCid], row'.status, ended')
    BY <1>1 DEF LateJob, Idle, LateCopy, Filling, Reissuing
  <1> QED BY <1>1, <1>2, BecomeLate DEF Read

\* Where no late worker stands.
LEMMA LateLabels ==
    ASSUME TypeOK, EvidenceInv, Late, NEW w \in Workers
    PROVE  /\ LateJob(job[w], row.status, ended) \/ At(w, "idle")
           /\ ~At(w, "reserve") /\ ~At(w, "joined") /\ ~At(w, "confirm")
           /\ ~At(w, "unconfirmed") /\ ~At(w, "reserveFill") /\ ~At(w, "reservedFill")
           /\ ~At(w, "fee") /\ ~At(w, "offer") /\ ~At(w, "offered")
           /\ ~At(w, "reject") /\ ~At(w, "inFlight") /\ ~At(w, "expireReject")
           /\ mode = "loop" /\ Committed(1) /\ Offered(1)
           /\ row.status \notin {"none", "open", "settling"}
           /\ row.status = "user_locked" => PendingCounterAccept(row)
  <1>1. LateJob(job[w], row.status, ended) \/ At(w, "idle")
    BY DEF Late
  <1>2. mode = "loop" /\ Committed(1) /\ Offered(1)
    BY OffersKnown DEF Late, Committed, Offered
  <1>3. /\ row.status \notin {"none", "open", "settling"}
        /\ row.status = "user_locked" => PendingCounterAccept(row)
    BY <1>2, OffersKnown DEF Late, LateCopy, PendingCounterAccept
  <1> QED BY <1>1, <1>2, <1>3 DEF LateJob, At, Filling, Reissuing

\* A row that waits for the accept is not put back, and is still late when
\* anything has been written.
LEMMA RowStaysLate ==
    ASSUME TypeOK, EvidenceInv, OnceInv, Late, [Next]_vars
    PROVE  Held /\ LateCopy(row')
  <1>1. row \in Row /\ LateCopy(row)
    BY OffersKnown DEF Late
  <1>2. CASE UNCHANGED row
    BY <1>1, <1>2 DEF Held
  <1>3. CASE CreateOrder
    BY <1>1, <1>3, OffersKnown DEF CreateOrder, LateCopy
  <1>4. CASE CooldownPasses
    BY <1>1, <1>4 DEF CooldownPasses, Aged, Held, LateCopy, Row
  <1>5. ASSUME NEW w \in Workers, SettleReserve(w) \/ ConfirmReserve(w)
                                  \/ FillReserve(w) \/ SettleFee(w) \/ SettleOffered(w)
        PROVE  FALSE
    BY <1>5, LateLabels DEF SettleReserve, ConfirmReserve, FillReserve, SettleFee,
                            SettleOffered
  <1>6. ASSUME NEW w \in Workers, FillBegin(w) PROVE UNCHANGED row
    BY <1>6, LateLabels DEF FillBegin, LateJob, At, Filling
  <1>7. ASSUME NEW w \in Workers, ReissueReserve(w) PROVE Held /\ LateCopy(row')
    <2>1. job[w].was = "user_locked"
      BY <1>7, LateLabels DEF ReissueReserve, LateJob, At
    <2> QED BY <1>1, <1>7, <2>1
            DEF ReissueReserve, AskFloat, Reserve, Held, LateCopy, Row
  <1>8. ASSUME NEW w \in Workers, RecordResult(w) \/ LastPut(w) \/ ReissueRecord(w)
        PROVE  Held /\ LateCopy(row')
    <2> DEFINE o == job[w].o
    <2>1. o \in Row /\ LateJob(job[w], row.status, ended)
      BY <1>8, LateLabels, OffersKnown DEF RecordResult, LastPut, ReissueRecord, At
    <2>2. UNCHANGED row \/ (row.status = job[w].was /\ Put(o))
      BY <1>8 DEF RecordResult, LastPut, ReissueRecord, CanPut
    <2>3. job[w].was \in {"user_locked", "filled"}
            => o.status \in {"user_locked", "filled"}
      BY <1>8, <2>1 DEF RecordResult, LastPut, ReissueRecord, At, LateJob, Filling
    <2>4. Put(o) => row'.status = o.status /\ LateCopy(row')
      BY <2>1 DEF Put, LateJob, LateCopy, Row
    <2> QED BY <1>1, <2>2, <2>3, <2>4 DEF Held
  <1> QED BY <1>2, <1>3, <1>4, <1>5, <1>6, <1>7, <1>8, RowFrame

\* The steps that start a handler, and those that read the row and decide.
LEMMA LocalStepsLate ==
    ASSUME TypeOK, EvidenceInv, OnceInv, Late, [Next]_vars, UNCHANGED row,
           NEW w \in Workers,
           \/ Start(w) \/ Sweep(w) \/ SettleJoin(w) \/ ConfirmReject(w)
           \/ FillReserved(w) \/ FillCheck(w) \/ BookFee(w) \/ UnmarkFee(w)
           \/ FillInFlight(w) \/ CounterFresh(w) \/ ReissueReserved(w)
           \/ Kill(w)
    PROVE  WorkersLate
  <1>1. /\ row \in Row /\ LateCopy(row) /\ Held /\ mode = "loop"
        /\ row.status \notin {"none", "open", "settling"}
        /\ row.status = "user_locked" => PendingCounterAccept(row)
        /\ LateJob(job[w], row.status, ended) \/ At(w, "idle")
    BY LateLabels, RowStaysLate, OffersKnown DEF Late
  <1>2. ended \subseteq ended'
    BY TurnKept
  <1> USE <1>1, <1>2
  <1>3. ~Cancel(w) /\ ~SettleStart(w) /\ ~ConfirmStart(w) /\ ~SettleJoin(w)
        /\ ~ConfirmReject(w) /\ ~FillReserved(w) /\ ~FillInFlight(w)
    BY LateLabels DEF Cancel, SettleStart, ConfirmStart, SettleJoin,
                      ConfirmReject, FillReserved, FillInFlight
  <1>4. CASE MarkAccepted(w)
    <2>1. LateJob([Idle EXCEPT !.at = "put", !.was = "user_locked",
                               !.o = Received(row)], row'.status, ended')
      BY DEF Idle, Received, LateJob, LateCopy, Filling, Reissuing, Row
    <2> QED BY <1>4, <2>1, BecomeLate DEF MarkAccepted
  <1>5. CASE UnmarkFee(w)
    <2>1. LateJob([Idle EXCEPT !.at = "put", !.was = row.status,
                     !.o = [row EXCEPT !.networkFeeAccountingPending = FALSE]],
                  row'.status, ended')
      BY DEF Idle, LateJob, LateCopy, Filling, Reissuing, Row
    <2> QED BY <1>5, <2>1, BecomeLate DEF UnmarkFee
  <1>6. CASE FillStart(w)
    <2>1. Read(w, "begin") /\ row.status = "filling"
      BY <1>6 DEF FillStart, LateCopy
    <2> QED BY <2>1, ReadLate
  <1>7. CASE RepairStart(w)
    BY <1>7, ReadLate DEF RepairStart
  <1>8. CASE ExpireStart(w)
    BY <1>8, ReadLate DEF ExpireStart
  <1>9. CASE FeeStart(w) \/ CounterStart(w)
    BY <1>9, ReadLate DEF FeeStart, CounterStart, PendingCounterAccept
  <1>10. CASE Kill(w)
    BY <1>10, ReturnLate DEF Kill
  <1>11. CASE FillCheck(w)
    <2> DEFINE j == job[w]
    <2>1. j \in Job /\ LateJob(j, row.status, ended) /\ j.at = "check"
      BY <1>11, OffersKnown DEF FillCheck, At
    <2>2. LateJob([j EXCEPT !.at = "submit"], row'.status, ended')
      BY <2>1 DEF LateJob, Filling, Reissuing, Job
    <2>3. ASSUME NEW e \in {"retry", "other"}
          PROVE  LateJob([j EXCEPT !.at = "caught", !.err = e], row'.status, ended')
      BY <2>1, <2>3 DEF LateJob, Filling, Reissuing, Job
    <2> QED BY <1>11, <2>2, <2>3, BecomeLate DEF FillCheck, Goto, Fail
  <1>12. CASE BookFee(w)
    <2> DEFINE j == job[w]
    <2>1. j \in Job /\ LateJob(j, row.status, ended)
      BY <1>12, OffersKnown DEF BookFee, At
    <2>2. LateJob([j EXCEPT !.at = "unmark"], row'.status, ended')
      BY <2>1 DEF LateJob, Filling, Reissuing, Job
    <2> QED BY <1>12, <2>2, BecomeLate DEF BookFee, Goto
  <1>13. CASE CounterFresh(w)
    <2>1. row.status \in {"user_locked", "filled"}
      BY <1>13 DEF CounterFresh, At, LateJob, Reissuing
    <2> QED BY <1>13, <2>1, ReadLate, ReturnLate DEF CounterFresh
  <1>14. CASE ReissueReserved(w)
    <2>1. job[w].o.counterLegOfferCid \in ended
          /\ job[w].cid = job[w].o.counterLegOfferCid
      BY <1>14, OffersKnown DEF ReissueReserved, At, LateJob, Reissuing
    <2> QED BY <1>14, <2>1, ReadLate, ReturnLate DEF ReissueReserved
  <1> QED BY <1>3, <1>4, <1>5, <1>6, <1>7, <1>8, <1>9, <1>10, <1>11, <1>12,
             <1>13, <1>14 DEF Start, Sweep

\* The steps that go on with another copy of the row, to be written later.
LEMMA CarryStepsLate ==
    ASSUME TypeOK, EvidenceInv, OnceInv, Late, [Next]_vars, UNCHANGED row,
           NEW w \in Workers,
           \/ SettleOffer(w) \/ FillRepair(w) \/ FillSubmit(w)
           \/ FillRecover(w) \/ SettleCaught(w) \/ FillCaught(w)
           \/ CatchReject(w) \/ SweepRepair(w) \/ CounterLook(w)
           \/ CounterRelook(w) \/ ExpireRepair(w)
           \/ ExpireReject(w) \/ FeeBook(w)
    PROVE  WorkersLate
  <1> DEFINE j == job[w]
             o == j.o
  <1>1. /\ j \in Job /\ o \in Row /\ Held /\ mode = "loop"
        /\ Committed(1) /\ Offered(1)
        /\ LateJob(j, row.status, ended) \/ At(w, "idle")
    BY LateLabels, RowStaysLate, OffersKnown
  <1>2. ended \subseteq ended'
    BY TurnKept
  <1> USE <1>1, <1>2
  <1>3. ~SettleOffer(w) /\ ~SettleCaught(w) /\ ~CatchReject(w) /\ ~ExpireReject(w)
    BY LateLabels DEF SettleOffer, SettleCaught, CatchReject, ExpireReject
  <1>4. ASSUME j.at \in Filling
        PROVE  /\ LateJob(j, row.status, ended)
               /\ o.settlementUpdateId /\ o.counterLegOfferCid # 0
               /\ o.counterReissueAttempt = 0 /\ o.status # "filled"
               /\ j.was \notin {"user_locked", "filled"}
               /\ LET p == FillResult(o, Offered(1))
                  IN LateCopy(p) /\ p.counterReissueAttempt = 0 /\ p.status # "filled"
    <2>1. LateJob(j, row.status, ended)
      BY <1>4 DEF At, Filling
    <2> QED BY <1>4, <2>1 DEF LateJob, LateCopy, FillResult, Row
  <1>5. ASSUME NEW l, Goto(w, l), LateJob([j EXCEPT !.at = l], row'.status, ended')
        PROVE  WorkersLate
    BY <1>5, BecomeLate DEF Goto
  <1>6. ASSUME NEW e, Fail(w, e), j.at \in Filling, e # "flight" PROVE WorkersLate
    <2>1. LateJob([j EXCEPT !.at = "caught", !.err = e], row'.status, ended')
      BY <1>4, <1>6 DEF LateJob, Filling, Reissuing, Job
    <2> QED BY <1>6, <2>1, BecomeLate DEF Fail
  <1>7. CASE FillRepair(w)
    <2>1. j.at \in Filling
      BY <1>7 DEF FillRepair, At, Filling
    <2>2. LateJob([j EXCEPT !.at = "check"], row'.status, ended')
      BY <1>4, <2>1 DEF LateJob, Filling, Reissuing, Job
    <2> QED BY <1>4, <1>5, <1>7, <2>1, <2>2, CarryLate DEF FillRepair
  <1>8. CASE FillSubmit(w)
    <2>1. j.at \in Filling
      BY <1>8 DEF FillSubmit, At, Filling
    <2>2. LateJob([j EXCEPT !.at = "recover"], row'.status, ended')
      BY <1>4, <2>1 DEF LateJob, Filling, Reissuing, Job
    <2> QED BY <1>5, <1>8, <2>2 DEF FillSubmit, Committed, Vanishes
  <1>9. CASE FillRecover(w)
    <2>1. j.at \in Filling
      BY <1>9 DEF FillRecover, At, Filling
    <2> QED BY <1>4, <1>6, <1>9, <2>1, CarryLate DEF FillRecover
  <1>10. CASE FillCaught(w)
    <2>1. j.at \in Filling /\ j.err # "flight"
      BY <1>10 DEF FillCaught, At, Filling, LateJob
    <2>2. ~Rejectable(o) /\ LateCopy(Failed(o))
          /\ LateCopy([o EXCEPT !.status = "user_locked", !.fillInFlight = FALSE])
      BY <1>4, <2>1 DEF Rejectable, Failed, LateJob, LateCopy, Row
    <2> QED BY <1>10, <2>1, <2>2, CarryLate, ReturnLate DEF FillCaught
  <1>11. CASE SweepRepair(w)
    <2>1. j.at \in Filling
      BY <1>11 DEF SweepRepair, At, Filling
    <2>2. LateCopy([o EXCEPT !.status = "user_locked", !.fillInFlight = TRUE])
      BY <1>4, <2>1 DEF LateJob, LateCopy, Row
    <2> QED BY <1>4, <1>11, <2>1, <2>2, CarryLate, ReturnLate DEF SweepRepair
  <1>12. CASE ExpireRepair(w)
    <2>1. j.at \in Filling
      BY <1>12 DEF ExpireRepair, At, Filling
    <2>2. ~Rejectable(o) /\ LateCopy(ExpiredRow(o))
      BY <1>4, <2>1 DEF Rejectable, ExpiredRow, LateJob, LateCopy, Row
    <2> QED BY <1>4, <1>12, <2>1, <2>2, CarryLate, ReturnLate
            DEF ExpireRepair, ExpireOrLeave
  <1>13. CASE FeeBook(w)
    <2>1. LateJob(j, row.status, ended) /\ j.at = "feeBook"
      BY <1>13 DEF FeeBook, At
    <2>2. LET p == [o EXCEPT !.networkFeeAccountingPending = FALSE]
          IN LateCopy(p) /\ p.status = o.status
      BY <2>1 DEF LateJob, LateCopy, Row
    <2>3. j.was \in {"user_locked", "filled"} => o.status \in {"user_locked", "filled"}
      BY <2>1 DEF LateJob
    <2> QED BY <1>13, <2>2, <2>3, CarryLate, ReturnLate DEF FeeBook
  <1>14. CASE CounterLook(w)
    <2>1. /\ LateJob(j, row.status, ended) /\ j.at = "look"
          /\ o.status \in {"user_locked", "filled"} /\ LateCopy(o)
      BY <1>14 DEF CounterLook, At, LateJob, Reissuing
    <2>2. ASSUME NEW p, Carry(w, "put", p, "user_locked"), LateCopy(p),
                 p.status \in {"user_locked", "filled"}
          PROVE  WorkersLate
      BY <2>2, CarryLate
    <2>3. /\ LateCopy(Received(o)) /\ Received(o).status = "filled"
          /\ \A c \in {"none", "recent"} :
               LET p == [o EXCEPT !.counterPendingClearedAt = c]
               IN LateCopy(p) /\ p.status \in {"user_locked", "filled"}
      BY <2>1 DEF Received, LateCopy, Row
    <2>4. LateJob([j EXCEPT !.at = "fresh"], row'.status, ended')
      BY <2>1 DEF LateJob, Filling, Reissuing, Job
    <2> QED BY <1>5, <1>14, <2>1, <2>2, <2>3, <2>4, ReturnLate DEF CounterLook
  <1>15. CASE CounterRelook(w)
    <2>1. /\ LateJob(j, row.status, ended) /\ j.at = "relook"
          /\ o.status \in {"user_locked", "filled"} /\ LateCopy(o)
      BY <1>15 DEF CounterRelook, At, LateJob, Reissuing
    <2>2. o.counterLegOfferCid \in Leg /\ Offered(o.counterLegOfferCid)
      BY <2>1, OffersKnown DEF Reissuing
    <2>3. LET p == [o EXCEPT !.counterPendingClearedAt = "none"]
          IN /\ LateCopy(p) /\ p.status \in {"user_locked", "filled"}
             /\ LateCopy(Received(o)) /\ Received(o).status = "filled"
      BY <2>1 DEF Received, LateCopy, Row
    <2>4. ASSUME ~ReceiptProved(o), legs[o.counterLegOfferCid] # "pending",
                 NEW l \in {"reissue", "reserveReissue"}, Carry(w, l, o, "user_locked")
          PROVE  WorkersLate
      <3>1. o.counterLegOfferCid \in ended
        BY <2>2, <2>4 DEF ReceiptProved, Offered, ended
      <3>2. LateJob([j EXCEPT !.at = l, !.o = o, !.was = "user_locked"],
                    row'.status, ended')
        BY <2>1, <3>1 DEF LateJob, Filling, Reissuing, Job
      <3> QED BY <2>4, <3>2, BecomeLate DEF Carry
    <2>5. ReceiptProved(o) => WorkersLate
      BY <1>15, <2>3, CarryLate DEF CounterRelook
    <2>6. ~ReceiptProved(o) /\ legs[o.counterLegOfferCid] = "pending" => WorkersLate
      BY <1>15, <2>3, CarryLate DEF CounterRelook
    <2>7. ~ReceiptProved(o) /\ legs[o.counterLegOfferCid] # "pending" =>
            \/ \E l \in {"reissue", "reserveReissue"} : Carry(w, l, o, "user_locked")
            \/ Carry(w, "put", o, "user_locked")
      BY <1>15 DEF CounterRelook
    <2>8. Carry(w, "put", o, "user_locked") => WorkersLate
      BY <2>1, CarryLate
    <2> QED BY <2>4, <2>5, <2>6, <2>7, <2>8
  <1> QED BY <1>3, <1>7, <1>8, <1>9, <1>10, <1>11, <1>12, <1>13, <1>14, <1>15

\* A reissue records the attempt and the offer it made.
LEMMA ReissueLate ==
    ASSUME TypeOK, EvidenceInv, OnceInv, Late, [Next]_vars, UNCHANGED row,
           NEW w \in Workers, Reissue(w)
    PROVE  WorkersLate
  <1> DEFINE j == job[w]
             o == j.o
             k == ReissueLeg(o)
  <1>1. /\ j \in Job /\ o \in Row /\ Held /\ j.at = "reissue"
        /\ LateJob(j, row.status, ended)
    BY LateLabels, RowStaysLate, OffersKnown DEF Reissue, At
  <1>2. row'.status \in {"user_locked", "filled"}
        /\ o.status \in {"user_locked", "filled"} /\ o.settlementUpdateId
    BY <1>1 DEF LateJob, LateCopy, Reissuing
  <1>3. k \in Leg /\ k \in Nat /\ k # 0 /\ k = (k - 1) + 1
    BY <1>1 DEF Reissue, Leg
  <1> HIDE DEF k
  <1>4. ASSUME NEW offered,
               Carry(w, "reissued", ReissueResult(o, k, offered), "user_locked")
        PROVE  WorkersLate
    <2> DEFINE p == ReissueResult(o, k, offered)
    <2>1. LateCopy(p) /\ p.status \in {"user_locked", "filled"}
      BY <1>1, <1>2, <1>3 DEF ReissueResult, LateCopy, Row
    <2>2. Carry(w, "reissued", p, "user_locked")
      BY <1>4, Zenon
    <2> HIDE DEF p
    <2>3. LateJob([j EXCEPT !.at = "reissued", !.o = p, !.was = "user_locked"],
                  row'.status, ended')
      BY <1>1, <1>2, <2>1 DEF LateJob, Filling, Reissuing, Job
    <2> QED BY <1>1, <2>2, <2>3, BecomeLate DEF Carry
  <1>5. \/ \E kind : Carry(w, "reissued", ReissueResult(o, k, kind = "pending"),
                           "user_locked")
        \/ Carry(w, "reissued", ReissueResult(o, k, Offered(k)), "user_locked")
        \/ Return(w)
    BY Zenon DEF Reissue, k, o, j
  <1> QED BY <1>1, <1>4, <1>5, ReturnLate, Zenon

\* The steps that write the row.
LEMMA WriteStepsLate ==
    ASSUME TypeOK, EvidenceInv, OnceInv, Late, [Next]_vars, NEW w \in Workers,
           \/ SettleReserve(w) \/ ConfirmReserve(w) \/ FillReserve(w)
           \/ ReissueReserve(w) \/ SettleFee(w) \/ SettleOffered(w)
           \/ FillBegin(w) \/ RecordResult(w) \/ LastPut(w)
           \/ ReissueRecord(w)
    PROVE  WorkersLate
  <1> DEFINE j == job[w]
             o == j.o
  <1>1. /\ j \in Job /\ o \in Row /\ Held
        /\ LateJob(j, row.status, ended) \/ At(w, "idle")
        /\ ended \subseteq ended'
    BY LateLabels, RowStaysLate, OffersKnown, TurnKept
  <1> USE <1>1
  <1>2. ~SettleReserve(w) /\ ~ConfirmReserve(w) /\ ~FillReserve(w) /\ ~SettleFee(w)
        /\ ~SettleOffered(w)
    BY LateLabels DEF SettleReserve, ConfirmReserve, FillReserve, SettleFee,
                      SettleOffered
  <1>3. CASE LastPut(w) \/ ReissueRecord(w)
    BY <1>3, ReturnLate DEF LastPut, ReissueRecord
  <1>4. CASE RecordResult(w)
    <2>1. LateJob(j, row.status, ended) /\ j.at = "result"
      BY <1>4 DEF RecordResult, At
    <2>2. /\ LateJob([j EXCEPT !.at = "book"], row'.status, ended')
          /\ LateJob([j EXCEPT !.at = "caught", !.err = "other"], row'.status, ended')
      BY <2>1 DEF LateJob, Filling, Reissuing, Job, Held
    <2> QED BY <1>4, <2>2, BecomeLate, ReturnLate DEF RecordResult, Goto, Fail
  <1>5. CASE FillBegin(w)
    <2>1. LateJob(j, row.status, ended) /\ j.at = "begin" /\ j.was = "filling"
      BY <1>5 DEF FillBegin, At, LateJob
    <2>2. LET p == [o EXCEPT !.status = "filling"]
          IN LateCopy(p) /\ p.counterReissueAttempt = 0 /\ p.status # "filled"
      BY <2>1 DEF LateJob, LateCopy, Filling, Row
    <2>3. Carry(w, "repair", [o EXCEPT !.status = "filling"], "filling")
      BY <1>5, <2>1 DEF FillBegin
    <2> QED BY <2>2, <2>3, CarryLate
  <1>6. CASE ReissueReserve(w)
    <2>1. LateJob(j, row.status, ended) /\ j.at = "reserveReissue"
      BY <1>6 DEF ReissueReserve, At
    <2>2. /\ LateJob([j EXCEPT !.at = "reservedReissue"], row'.status, ended')
          /\ [j EXCEPT !.at = "idle"].at = "idle"
      BY <2>1 DEF LateJob, Filling, Reissuing, Job, Held
    <2> QED BY <1>6, <2>2, BecomeLate DEF ReissueReserve, AskFloat, Goto
  <1> QED BY <1>2, <1>3, <1>4, <1>5, <1>6

\* Late stays so for good.
LEMMA LateKept ==
    ASSUME TypeOK, EvidenceInv, OnceInv, Late, [Next]_vars
    PROVE  Late'
  <1>1. mode' = mode /\ Held /\ LateCopy(row') /\ ended \subseteq ended'
    BY ModeFixed, RowStaysLate, TurnKept
  <1>2. Offered(1)'
    BY OffersKnown, LegsGrow DEF Late
  <1>3. WorkersLate
    <2>1. ASSUME UNCHANGED job PROVE WorkersLate
      BY <1>1, <2>1, LateJobKept DEF Late, Held, At, WorkersLate
    <2>2. CASE UNCHANGED vars \/ (Environment /\ ~CooldownPasses)
      BY <2>1, <2>2 DEF vars, Environment, CreateOrder, SellOffered, SellCloses,
                        DeadlinePasses, FeesSwitchedOff, Land, OfferEnds
    <2>3. CASE CooldownPasses
      <3>1. ASSUME NEW v \in Workers, job[v].at # "idle"
            PROVE  LateJob([job[v] EXCEPT !.o = Aged(job[v].o)], row'.status, ended')
        <4> DEFINE j == job[v]
                   a == Aged(j.o)
        <4>1. j \in Job /\ j.o \in Row /\ LateJob(j, row'.status, ended')
          BY <1>1, <3>1, LateJobKept, OffersKnown DEF Late, Held, At
        <4>2. /\ a.status = j.o.status /\ a.settlementUpdateId = j.o.settlementUpdateId
              /\ a.counterLegOfferCid = j.o.counterLegOfferCid
              /\ a.counterReissueAttempt = j.o.counterReissueAttempt
          BY <4>1 DEF Aged, Row
        <4> HIDE DEF j, a
        <4>3. LateJob([j EXCEPT !.o = a], row'.status, ended')
          BY <4>1, <4>2 DEF LateJob, LateCopy, Job
        <4> QED BY <4>3 DEF j, a
      <3>2. ASSUME NEW v \in Workers, job[v].at = "idle"
            PROVE  [job[v] EXCEPT !.o = Aged(job[v].o)].at = "idle"
        BY <3>2, OffersKnown DEF Job
      <3> QED BY <2>3, <3>1, <3>2 DEF CooldownPasses, WorkersLate
    <2>4. ASSUME NEW w \in Workers, Start(w) \/ Sweep(w) \/ Step(w) \/ Kill(w)
          PROVE  WorkersLate
      <3>1. CASE Start(w) \/ Sweep(w) \/ SettleJoin(w) \/ ConfirmReject(w)
                 \/ FillReserved(w) \/ FillCheck(w) \/ BookFee(w) \/ UnmarkFee(w)
                 \/ FillInFlight(w) \/ CounterFresh(w) \/ ReissueReserved(w)
                 \/ Kill(w)
        BY <3>1, LocalStepsLate, LocalStepsType
      <3>2. CASE SettleOffer(w) \/ FillRepair(w) \/ FillSubmit(w)
                 \/ FillRecover(w) \/ SettleCaught(w) \/ FillCaught(w)
                 \/ CatchReject(w) \/ SweepRepair(w) \/ CounterLook(w)
                 \/ CounterRelook(w) \/ ExpireRepair(w)
                 \/ ExpireReject(w) \/ FeeBook(w)
        BY <3>2, CarryStepsLate, CarryStepsType
      <3>3. CASE Reissue(w)
        BY <3>3, ReissueLate, CarryStepsType
      <3> QED BY <2>4, <3>1, <3>2, <3>3, WriteStepsLate DEF Step
    <2> QED BY <2>2, <2>3, <2>4 DEF Next
  <1> QED BY <1>1, <1>2, <1>3 DEF Late, WorkersLate, At, LateJob, LateCopy, ended

\* The inductive invariant behind PaidOnce, when no handler outlives the cooldown.
THEOREM LegsSentInTurn == ~SlowHandlers => (Spec => []OnceInv)
  <1> SUFFICES ASSUME ~SlowHandlers PROVE Spec => []OnceInv
    OBVIOUS
  <1>1. Init => OnceInv
    <2> SUFFICES ASSUME Init PROVE OnceInv
      OBVIOUS
    <2>1. EarlyCopy(row) /\ \A w \in Workers : EarlyJob(job[w])
      BY CantonSwapAssumption DEF Init, Idle, NewOrder, EarlyJob, EarlyCopy, Reissuing
    <2> QED BY <2>1 DEF Init, OnceInv, SentInTurn, Early
  <1>2. TypeOK /\ EvidenceInv /\ OnceInv /\ [Next]_vars => OnceInv'
    <2> SUFFICES ASSUME TypeOK, EvidenceInv, OnceInv, [Next]_vars PROVE OnceInv'
      OBVIOUS
    <2>1. SentInTurn'
      BY TurnKept
    <2>2. Early' \/ Late'
      BY EarlyEnds, EarlyKept, LateKept DEF OnceInv
    <2> QED BY <2>1, <2>2 DEF OnceInv
  <1> QED BY <1>1, <1>2, CantonSwapTypeCorrect, SwapEvidenceInvariant, PTL DEF Spec

\* The bought asset is delivered at most once, and never while another counter
\* offer can still be accepted (reconcileLoopCounters, reissueLoopCounterLeg):
\* with handlers that do not stand at one await for the whole cooldown.
THEOREM BoughtAssetPaidOnce == ~SlowHandlers => (Spec => []PaidOnce)
  <1>1. OnceInv => PaidOnce
    <2> SUFFICES ASSUME OnceInv PROVE PaidOnce
      OBVIOUS
    <2> DEFINE open == {k \in Leg : legs[k] \in {"pending", "direct", "accepted"}}
    <2>1. ASSUME NEW i \in open, NEW k \in open PROVE i = k
      <3>1. i \in Int /\ k \in Int /\ i \in Leg /\ k \in Leg
        BY DEF Leg
      <3>2. ~(i < k) /\ ~(k < i)
        BY <3>1 DEF OnceInv, SentInTurn
      <3> QED BY <3>1, <3>2
    <2> HIDE DEF open
    <2>2. Cardinality(open) \in {0, 1}
      <3>1. CASE open = {}
        BY <3>1, FS_EmptySet
      <3>2. ASSUME NEW i \in open PROVE Cardinality(open) = 1
        <4>1. open = {i}
          BY <2>1, <3>2
        <4> QED BY <4>1, FS_Singleton
      <3> QED BY <3>1, <3>2
    <2> QED BY <2>2 DEF PaidOnce, open
  <1> QED BY <1>1, LegsSentInTurn, PTL
=============================================================================
