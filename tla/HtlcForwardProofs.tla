------------------------- MODULE HtlcForwardProofs -------------------------
(***************************************************************************)
(* Proofs about HtlcForward, for any number of workers, crashes, lock      *)
(* transactions and HtlcLock contracts, and any timelocks on the ladder.   *)
(***************************************************************************)
EXTENDS HtlcForward, TLAPS

-----------------------------------------------------------------------------
(* Type correctness.                                                       *)

\* Moving a worker to a label with a well-typed copy keeps pc and snap typed.
LEMMA ProceedType ==
    ASSUME NEW w \in Workers, NEW l \in Label, NEW o \in Row,
           TypeOK, Proceed(w, l, o)
    PROVE  pc' \in [Workers -> Label] /\ snap' \in [Workers -> Row]
  BY DEF TypeOK, Proceed

\* The blank copy a returning handler leaves behind is well typed.
LEMMA NewOrderType == NewOrder \in Row
  BY EscrowAssumption, CantonAssumption DEF NewOrder, Row, Status

LEMMA ReturnType ==
    ASSUME NEW w \in Workers, TypeOK, Return(w)
    PROVE  pc' \in [Workers -> Label] /\ snap' \in [Workers -> Row]
  BY NewOrderType, ProceedType DEF Return, Label

LEMMA PutType ==
    ASSUME NEW o \in Row, TypeOK, Put(o)
    PROVE  row' \in Row /\ updatedAt' \in Nat
  BY DEF TypeOK, EscrowTypeOK, Put

\* putIfStatus keeps the row, its timestamp and the worker well typed.
LEMMA PutIfStatusType ==
    ASSUME NEW w \in Workers, NEW o \in Row, NEW expected, NEW next \in Label,
           TypeOK, PutIfStatus(w, o, expected, next)
    PROVE  /\ row' \in Row /\ updatedAt' \in Nat
           /\ pc' \in [Workers -> Label] /\ snap' \in [Workers -> Row]
  BY ProceedType, ReturnType, PutType DEF PutIfStatus, TypeOK, orderVars

\* The escrow and the chain keep their own types.
LEMMA EscrowStepKeeps ==
    ASSUME EscrowTypeOK,
           \/ UserLock \/ UserRetake \/ Chain \/ Claim(Solver)
           \/ UNCHANGED chainVars
    PROVE  EscrowTypeOK'
  <1> USE EscrowAssumption, OrderAssumption, ForwardAssumption
         DEF EscrowTypeOK, Slot, Emptied, EventName
  <1>1. CASE UserLock
    BY <1>1 DEF UserLock, Lock
  <1>2. CASE UserRetake
    BY <1>2 DEF UserRetake, Retake
  <1>3. CASE Chain
    <2>1. CASE Tick
      BY <2>1 DEF Tick, escrowVars
    <2>2. CASE Finalize
      <3>1. slot.tx \in 1..MaxLocks
        BY <2>2 DEF Finalize
      <3> QED BY <2>2, <3>1 DEF Finalize
    <2>3. CASE Reorg
      BY <2>3 DEF Reorg
    <2> QED BY <1>3, <2>1, <2>2, <2>3 DEF Chain
  <1>4. CASE Claim(Solver)
    BY <1>4 DEF Claim
  <1>5. CASE UNCHANGED chainVars
    BY <1>5 DEF chainVars, escrowVars
  <1> QED BY <1>1, <1>2, <1>3, <1>4, <1>5

LEMMA EscrowStepType ==
    ASSUME TypeOK,
           \/ UserLock \/ UserRetake \/ Chain \/ Claim(Solver)
           \/ UNCHANGED chainVars
    PROVE  EscrowTypeOK'
  BY EscrowStepKeeps DEF TypeOK

\* The Canton contracts likewise.
LEMMA CantonStepType ==
    ASSUME TypeOK,
           \/ \E lt, before : Allocate(lt, before)
           \/ \E i \in 1..MaxWrap : CreateHtlcLock(i)
           \/ \E i, lt : HtlcClaim(i, lt) \/ HtlcRefund(i, lt)
           \/ AllocationWithdraw
           \/ UNCHANGED cantonVars
    PROVE  CantonTypeOK'
  BY DEF TypeOK, CantonTypeOK, AllocState, HtlcState, Allocate, CreateHtlcLock,
         HtlcClaim, HtlcRefund, AllocationWithdraw, cantonVars

\* The copies the handlers build from a row are rows.
LEMMA RowWrites ==
    ASSUME NEW o \in Row
    PROVE  /\ \A s \in Status : [o EXCEPT !.status = s] \in Row
           /\ \A s \in Status : [o EXCEPT !.status = s, !.mainLockTx = 0] \in Row
           /\ \A tx \in 0..MaxLocks : [o EXCEPT !.mainLockTx = tx] \in Row
           /\ [o EXCEPT !.allocationCid = TRUE] \in Row
           /\ \A i \in 1..MaxWrap : [o EXCEPT !.htlcCid = i] \in Row
           /\ [o EXCEPT !.status = "counter_claimed", !.revealedPreimage = TRUE,
                        !.counterClaimUpdateId = "claim"] \in Row
           /\ [o EXCEPT !.status = "main_claimed", !.mainClaimTx = "claim"] \in Row
           /\ [o EXCEPT !.status = "refunded",
                        !.counterClaimUpdateId = "refund"] \in Row
           /\ [o EXCEPT !.mainClaimTx = "retake"] \in Row
           /\ [o EXCEPT !.status = "main_claimed",
                        !.mainClaimTx = IF @ = "none" THEN "claim" ELSE @] \in Row
  <1>1. 0 \in 0..MaxLocks /\ 1..MaxWrap \subseteq 0..MaxWrap
    BY EscrowAssumption, CantonAssumption
  <1> USE DEF Row
  <1>2. \A s \in Status : [o EXCEPT !.status = s] \in Row
    OBVIOUS
  <1>3. \A s \in Status : [o EXCEPT !.status = s, !.mainLockTx = 0] \in Row
    BY <1>1
  <1>4. /\ \A tx \in 0..MaxLocks : [o EXCEPT !.mainLockTx = tx] \in Row
        /\ [o EXCEPT !.allocationCid = TRUE] \in Row
        /\ \A i \in 1..MaxWrap : [o EXCEPT !.htlcCid = i] \in Row
        /\ [o EXCEPT !.mainClaimTx = "retake"] \in Row
    BY <1>1
  <1>5. /\ [o EXCEPT !.status = "counter_claimed", !.revealedPreimage = TRUE,
                     !.counterClaimUpdateId = "claim"] \in Row
        /\ [o EXCEPT !.status = "main_claimed", !.mainClaimTx = "claim"] \in Row
        /\ [o EXCEPT !.status = "refunded",
                     !.counterClaimUpdateId = "refund"] \in Row
    BY DEF Status
  <1>6. [o EXCEPT !.status = "main_claimed",
                  !.mainClaimTx = IF @ = "none" THEN "claim" ELSE @] \in Row
    BY DEF Status
  <1> QED BY <1>2, <1>3, <1>4, <1>5, <1>6

\* A step that only moves the worker on, or ends its handler.
LEMMA LocalType ==
    ASSUME TypeOK, NEW w \in Workers,
           \/ \E l \in Label, o \in Row : Proceed(w, l, o)
           \/ Return(w),
           UNCHANGED <<chainVars, cantonVars, orderVars>>,
           UNCHANGED fails \/ CallLost
    PROVE  TypeOK'
  <1>1. EscrowTypeOK' /\ CantonTypeOK'
    BY EscrowStepType, CantonStepType
  <1>2. row' \in Row /\ updatedAt' \in Nat /\ fails' \in 0..MaxFails
    BY OrderAssumption, ForwardAssumption DEF TypeOK, orderVars, CallLost
  <1>3. pc' \in [Workers -> Label] /\ snap' \in [Workers -> Row]
    BY ProceedType, ReturnType
  <1> QED BY <1>1, <1>2, <1>3 DEF TypeOK

\* A step that is one putIfStatus.
LEMMA CasType ==
    ASSUME TypeOK, NEW w \in Workers, NEW o \in Row, NEW expected,
           NEW next \in Label, PutIfStatus(w, o, expected, next),
           UNCHANGED <<chainVars, cantonVars, fails>>
    PROVE  TypeOK'
  <1>1. EscrowTypeOK' /\ CantonTypeOK'
    BY EscrowStepType, CantonStepType
  <1>2. fails' \in 0..MaxFails
    BY DEF TypeOK
  <1>3. /\ row' \in Row /\ updatedAt' \in Nat
        /\ pc' \in [Workers -> Label] /\ snap' \in [Workers -> Row]
    BY PutIfStatusType
  <1> QED BY <1>1, <1>2, <1>3 DEF TypeOK

\* The handler steps that end in a compare-and-set.
LEMMA CasStepsType ==
    ASSUME TypeOK, NEW w \in Workers,
           \/ CancelCas(w) \/ RmlRollback(w) \/ RmlCommit(w) \/ LcPersist(w)
           \/ LcCommit(w) \/ ClCommit(w) \/ DmCommit(w) \/ RtCas(w)
           \/ RcBegin(w) \/ RcRollback(w) \/ RcCommit(w) \/ ExRecover(w)
           \/ ExCancel(w) \/ RfCas(w)
    PROVE  TypeOK'
  <1>1. snap[w] \in Row
    BY DEF TypeOK
  <1> USE <1>1, CasType, RowWrites DEF Label, Status
  <1>2. CASE CancelCas(w)
    BY <1>2 DEF CancelCas
  <1>3. CASE RmlRollback(w)
    BY <1>3 DEF RmlRollback
  <1>4. CASE RmlCommit(w)
    BY <1>4 DEF RmlCommit
  <1>5. CASE LcPersist(w)
    BY <1>5 DEF LcPersist
  <1>6. CASE LcCommit(w)
    BY <1>6 DEF LcCommit
  <1>7. CASE ClCommit(w)
    BY <1>7 DEF ClCommit
  <1>8. CASE DmCommit(w)
    BY <1>8 DEF DmCommit
  <1>9. CASE RcBegin(w)
    BY <1>9 DEF RcBegin
  <1>10. CASE RcRollback(w)
    BY <1>10 DEF RcRollback
  <1>11. CASE RcCommit(w)
    BY <1>11 DEF RcCommit
  <1>12. CASE ExRecover(w)
    BY <1>12 DEF ExRecover
  <1>13. CASE ExCancel(w)
    BY <1>13 DEF ExCancel
  <1>14. CASE RfCas(w)
    BY <1>14 DEF RfCas
  <1>15. CASE RtCas(w)
    <2> DEFINE o == [snap[w] EXCEPT !.mainClaimTx = "retake"]
    <2>1. o \in Row
      OBVIOUS
    <2>2. \A s \in Status : [o EXCEPT !.status = s] \in Row
      BY <2>1
    <2>3. [o EXCEPT !.status = IF @ = "counter_claimed" THEN "failed"
                                                        ELSE "refunded"] \in Row
      BY <2>2
    <2> QED BY <1>15, <2>1, <2>3 DEF RtCas
  <1> QED BY <1>2, <1>3, <1>4, <1>5, <1>6, <1>7, <1>8, <1>9, <1>10, <1>11,
     <1>12, <1>13, <1>14, <1>15

\* The handler steps that start, read, decide or give up.
LEMMA LocalStepsType ==
    ASSUME TypeOK, NEW w \in Workers,
           \/ StartRequest(w)
           \/ RmlVerify(w) \/ LcVerify(w) \/ ClVerify(w) \/ ClDuplicate(w)
           \/ DmRecord(w) \/ ExRead(w) \/ CuCheck(w)
    PROVE  TypeOK'
  <1>1. snap[w] \in Row /\ row \in Row /\ lockTxs \in 0..MaxLocks
    BY DEF TypeOK, EscrowTypeOK
  <1> USE <1>1, LocalType, NewOrderType DEF Label
  <1>2. CASE CancelStart(w)
    BY <1>2 DEF CancelStart
  <1>3. CASE LcStart(w)
    BY <1>3 DEF LcStart, LcBranch
  <1>4. CASE ClStart(w)
    BY <1>4 DEF ClStart
  <1>5. CASE DmStart(w)
    BY <1>5 DEF DmStart
  <1>6. CASE RtStart(w)
    BY <1>6 DEF RtStart
  <1>7. CASE RcStart(w)
    BY <1>7 DEF RcStart
  <1>8. CASE ExStart(w)
    BY <1>8 DEF ExStart
  <1>9. CASE RfStart(w)
    BY <1>9, RowWrites DEF RfStart
  <1>10. CASE CuStart(w)
    BY <1>10 DEF CuStart
  <1>11. CASE RmlVerify(w)
    BY <1>11 DEF RmlVerify
  <1>12. CASE LcVerify(w)
    BY <1>12 DEF LcVerify
  <1>13. CASE ClVerify(w)
    BY <1>13 DEF ClVerify
  <1>14. CASE ClDuplicate(w)
    BY <1>14 DEF ClDuplicate
  <1>15. CASE DmRecord(w)
    BY <1>15 DEF DmRecord
  <1>16. CASE ExRead(w)
    BY <1>16 DEF ExRead
  <1>17. CASE CuCheck(w)
    BY <1>17 DEF CuCheck
  <1>18. CASE \E tx \in 1..lockTxs : RmlStart(w, tx)
    <2>1. PICK tx \in 1..lockTxs : RmlStart(w, tx)
      BY <1>18
    <2>2. tx \in 0..MaxLocks
      BY <2>1, EscrowAssumption
    <2>3. [row EXCEPT !.mainLockTx = tx] \in Row
      BY <2>2, RowWrites
    <2> QED BY <2>1, <2>3 DEF RmlStart
  <1> QED BY <1>2, <1>3, <1>4, <1>5, <1>6, <1>7, <1>8, <1>9, <1>10, <1>11,
     <1>12, <1>13, <1>14, <1>15, <1>16, <1>17, <1>18 DEF StartRequest

\* The handler steps that move a contract, and the two that go on after a
\* compare-and-set with another copy than the one written.
LEMMA ContractStepsType ==
    ASSUME TypeOK, NEW w \in Workers,
           \/ RmlBegin(w) \/ LcBegin(w) \/ LcAlloc(w) \/ LcCreate(w)
           \/ ClSubmit(w) \/ DmClaim(w) \/ RcSubmit(w) \/ CuWithdraw(w)
    PROVE  TypeOK'
  <1>1. /\ snap[w] \in Row /\ row \in Row /\ updatedAt \in Nat
        /\ fails \in 0..MaxFails
    BY DEF TypeOK
  <1>2. CASE RmlBegin(w)
    <2>1. /\ [snap[w] EXCEPT !.status = "main_locking", !.mainLockTx = 0] \in Row
          /\ [snap[w] EXCEPT !.status = "main_locking"] \in Row
      BY <1>1, RowWrites DEF Status
    <2>2. EscrowTypeOK' /\ CantonTypeOK' /\ fails' \in 0..MaxFails
      BY <1>1, <1>2, EscrowStepType, CantonStepType DEF RmlBegin
    <2>3. row' \in Row /\ updatedAt' \in Nat
      BY <1>1, <1>2, <2>1, PutType DEF RmlBegin, orderVars
    <2>4. pc' \in [Workers -> Label] /\ snap' \in [Workers -> Row]
      BY <1>2, <2>1, ProceedType, ReturnType DEF RmlBegin, Label
    <2> QED BY <2>2, <2>3, <2>4 DEF TypeOK
  <1>3. CASE LcBegin(w)
    <2> DEFINE o == [snap[w] EXCEPT !.status = "counter_locking"]
    <2>1. o \in Row
      BY <1>1, RowWrites DEF Status
    <2>2. EscrowTypeOK' /\ CantonTypeOK' /\ fails' \in 0..MaxFails
      BY <1>1, <1>3, EscrowStepType, CantonStepType DEF LcBegin
    <2>3. row' \in Row /\ updatedAt' \in Nat
      BY <1>1, <1>3, <2>1, PutType DEF LcBegin, orderVars
    <2>4. LcBranch(o) \in Label /\ LcBranch(row) \in Label
      BY DEF LcBranch, Label
    <2>5. pc' \in [Workers -> Label] /\ snap' \in [Workers -> Row]
      <3> HIDE DEF o
      <3>1. \/ Proceed(w, LcBranch(o), o)
            \/ Return(w) \/ Proceed(w, LcBranch(row), row)
        BY <1>3 DEF LcBegin, o
      <3> QED BY <1>1, <2>1, <2>4, <3>1, ProceedType, ReturnType
    <2> QED BY <2>2, <2>3, <2>5 DEF TypeOK
  <1>4. CASE LcAlloc(w)
    <2>1. [snap[w] EXCEPT !.allocationCid = TRUE] \in Row
      BY <1>1, RowWrites
    <2>2. EscrowTypeOK' /\ CantonTypeOK'
      BY <1>4, EscrowStepType, CantonStepType DEF LcAlloc, AllocRejected
    <2>3. row' \in Row /\ updatedAt' \in Nat /\ fails' \in 0..MaxFails
      BY <1>1, <1>4 DEF LcAlloc, orderVars
    <2>4. pc' \in [Workers -> Label] /\ snap' \in [Workers -> Row]
      BY <1>4, <2>1, ProceedType, ReturnType DEF LcAlloc, AllocRejected, Label
    <2> QED BY <2>2, <2>3, <2>4 DEF TypeOK
  <1>5. CASE LcCreate(w)
    <2>1. \A i \in 1..MaxWrap : [snap[w] EXCEPT !.htlcCid = i] \in Row
      BY <1>1, RowWrites
    <2>2. EscrowTypeOK' /\ CantonTypeOK'
      BY <1>5, EscrowStepType, CantonStepType DEF LcCreate
    <2>3. row' \in Row /\ updatedAt' \in Nat /\ fails' \in 0..MaxFails
      BY <1>1, <1>5 DEF LcCreate, orderVars
    <2>4. pc' \in [Workers -> Label] /\ snap' \in [Workers -> Row]
      BY <1>5, <2>1, ProceedType DEF LcCreate, Label
    <2> QED BY <2>2, <2>3, <2>4 DEF TypeOK
  <1>6. CASE ClSubmit(w)
    <2>2. EscrowTypeOK' /\ CantonTypeOK'
      BY <1>6, EscrowStepType, CantonStepType DEF ClSubmit, ClaimRejected
    <2>3. row' \in Row /\ updatedAt' \in Nat /\ fails' \in 0..MaxFails
      BY <1>1, <1>6 DEF ClSubmit, orderVars
    <2>4. pc' \in [Workers -> Label] /\ snap' \in [Workers -> Row]
      BY <1>1, <1>6, ProceedType, ReturnType DEF ClSubmit, ClaimRejected, Label
    <2> QED BY <2>2, <2>3, <2>4 DEF TypeOK
  <1>7. CASE DmClaim(w)
    <2>2. EscrowTypeOK' /\ CantonTypeOK'
      BY <1>7, EscrowStepType, CantonStepType DEF DmClaim
    <2>3. row' \in Row /\ updatedAt' \in Nat /\ fails' \in 0..MaxFails
      BY <1>1, <1>7 DEF DmClaim, orderVars
    <2>4. pc' \in [Workers -> Label] /\ snap' \in [Workers -> Row]
      BY <1>1, <1>7, ProceedType, ReturnType DEF DmClaim, Label
    <2> QED BY <2>2, <2>3, <2>4 DEF TypeOK
  <1>8. CASE RcSubmit(w)
    <2>2. EscrowTypeOK' /\ CantonTypeOK'
      BY <1>8, EscrowStepType, CantonStepType DEF RcSubmit, CallLost,
         RefundRejected
    <2>3. row' \in Row /\ updatedAt' \in Nat
      BY <1>1, <1>8 DEF RcSubmit, orderVars
    <2>4. fails' \in 0..MaxFails
      BY <1>1, <1>8, OrderAssumption, ForwardAssumption DEF RcSubmit, CallLost,
         RefundRejected
    <2>5. pc' \in [Workers -> Label] /\ snap' \in [Workers -> Row]
      BY <1>1, <1>8, ProceedType DEF RcSubmit, RefundRejected, Label
    <2> QED BY <2>2, <2>3, <2>4, <2>5 DEF TypeOK
  <1>9. CASE CuWithdraw(w)
    <2>2. EscrowTypeOK' /\ CantonTypeOK'
      BY <1>9, EscrowStepType, CantonStepType DEF CuWithdraw
    <2>3. row' \in Row /\ updatedAt' \in Nat /\ fails' \in 0..MaxFails
      BY <1>1, <1>9 DEF CuWithdraw, orderVars
    <2>4. pc' \in [Workers -> Label] /\ snap' \in [Workers -> Row]
      BY <1>9, ReturnType DEF CuWithdraw
    <2> QED BY <2>2, <2>3, <2>4 DEF TypeOK
  <1> QED BY <1>2, <1>3, <1>4, <1>5, <1>6, <1>7, <1>8, <1>9

\* The user, the chain, the accept transaction and crashes.
LEMMA EnvironmentType ==
    ASSUME TypeOK, Environment \/ \E w \in Workers : Fail(w)
    PROVE  TypeOK'
  <1>1. CASE Accept
    <2>1. \A s \in Status : [row EXCEPT !.status = s] \in Row
      BY RowWrites DEF TypeOK
    <2>2. row' \in Row /\ updatedAt' \in Nat
      BY <1>1, <2>1, PutType DEF Accept, Status
    <2>3. EscrowTypeOK' /\ CantonTypeOK'
      BY <1>1, EscrowStepType, CantonStepType DEF Accept
    <2> QED BY <1>1, <2>2, <2>3 DEF Accept, TypeOK
  <1>2. CASE UserLock \/ UserRetake \/ Chain
    <2>1. EscrowTypeOK'
      BY <1>2, EscrowStepType
    <2>2. UNCHANGED <<cantonVars, orderVars, pc, snap, fails>>
      BY <1>2 DEF UserLock, UserRetake, Chain
    <2>3. CantonTypeOK'
      BY <2>2, CantonStepType
    <2> QED BY <2>1, <2>2, <2>3 DEF TypeOK, orderVars
  <1>3. CASE \E w \in Workers : Fail(w)
    <2>1. PICK w \in Workers : Fail(w)
      BY <1>3
    <2>2. EscrowTypeOK' /\ CantonTypeOK'
      BY <2>1, EscrowStepType, CantonStepType DEF Fail
    <2>3. row' \in Row /\ updatedAt' \in Nat
      BY <2>1 DEF Fail, TypeOK, orderVars
    <2>4. fails' \in 0..MaxFails
      BY <2>1, OrderAssumption, ForwardAssumption DEF Fail, CallLost, TypeOK
    <2>5. pc' \in [Workers -> Label] /\ snap' \in [Workers -> Row]
      BY <2>1, ReturnType DEF Fail
    <2> QED BY <2>2, <2>3, <2>4, <2>5 DEF TypeOK
  <1> QED BY <1>1, <1>2, <1>3 DEF Environment

\* Type correctness of the whole specification: every handler, sweep and
\* contract call keeps the row, the copies and the ledgers well formed.
THEOREM TypeCorrect == Spec => []TypeOK
  <1>1. Init => TypeOK
    <2> SUFFICES ASSUME Init PROVE TypeOK
      OBVIOUS
    <2>1. EscrowTypeOK
      BY EscrowAssumption DEF Init, OrderInit, EscrowInit, EscrowTypeOK, Slot
    <2>2. CantonTypeOK
      BY DEF Init, OrderInit, CantonInit, CantonTypeOK, AllocState, HtlcState
    <2>3. /\ row \in Row /\ updatedAt \in Nat /\ fails \in 0..MaxFails
          /\ pc \in [Workers -> Label] /\ snap \in [Workers -> Row]
      BY NewOrderType, OrderAssumption, ForwardAssumption DEF Init, OrderInit,
         Label
    <2> QED BY <2>1, <2>2, <2>3 DEF TypeOK
  <1>2. TypeOK /\ [Next]_vars => TypeOK'
    <2> SUFFICES ASSUME TypeOK, [Next]_vars PROVE TypeOK'
      OBVIOUS
    <2>1. CASE UNCHANGED vars
      <3>1. UNCHANGED <<chainVars, cantonVars, orderVars, pc, snap, fails>>
        BY <2>1 DEF vars, chainVars, orderVars, cantonVars, escrowVars
      <3>2. EscrowTypeOK' /\ CantonTypeOK'
        BY <3>1, EscrowStepType, CantonStepType
      <3> QED BY <3>1, <3>2 DEF TypeOK, orderVars
    <2>2. CASE Environment \/ \E w \in Workers : Fail(w)
      BY <2>2, EnvironmentType
    <2>3. ASSUME NEW w \in Workers, StartRequest(w) \/ Resume(w)
          PROVE  TypeOK'
      BY <2>3, CasStepsType, LocalStepsType, ContractStepsType DEF Resume
    <2> QED BY <2>1, <2>2, <2>3 DEF Next
  <1> QED BY <1>1, <1>2, PTL DEF Spec

-----------------------------------------------------------------------------
(* Who moves what.                                                         *)

\* The escrow and the clock change only by the user, the chain and the
\* daemon's claim.
LEMMA EscrowFrame ==
    ASSUME [Next]_vars
    PROVE  \/ UserLock \/ UserRetake \/ Chain \/ \E w \in Workers : DmClaim(w)
           \/ UNCHANGED chainVars
  <1>1. CASE UNCHANGED vars \/ Environment \/ \E w \in Workers : Fail(w)
    BY <1>1 DEF vars, Environment, Accept, Fail, chainVars, escrowVars
  <1>2. ASSUME NEW w \in Workers, StartRequest(w) PROVE UNCHANGED chainVars
    BY <1>2 DEF StartRequest, CancelStart, RmlStart, LcStart, ClStart, DmStart,
                RtStart, RcStart, ExStart, RfStart, CuStart
  <1>3. ASSUME NEW w \in Workers, Resume(w), ~DmClaim(w)
        PROVE  UNCHANGED chainVars
    BY <1>3 DEF Resume, CancelCas, RmlBegin, RmlVerify, RmlRollback, RmlCommit,
                LcBegin, LcVerify, LcAlloc, LcPersist, LcCreate, LcCommit,
                ClVerify, ClSubmit, ClDuplicate, ClCommit, DmRecord, DmCommit,
                RtCas, RcBegin, RcSubmit, RcRollback, RcCommit, ExRead,
                ExRecover, ExCancel, RfCas, CuCheck, CuWithdraw
  <1> QED BY <1>1, <1>2, <1>3 DEF Next

\* The Canton contracts change only by the five steps that submit a command.
LEMMA CantonFrame ==
    ASSUME [Next]_vars
    PROVE  \/ UNCHANGED cantonVars
           \/ \E w \in Workers : \/ LcAlloc(w) \/ LcCreate(w) \/ ClSubmit(w)
                                 \/ RcSubmit(w) \/ CuWithdraw(w)
  <1>1. CASE UNCHANGED vars \/ Environment \/ \E w \in Workers : Fail(w)
    BY <1>1 DEF vars, Environment, Accept, UserLock, UserRetake, Chain, Fail,
                cantonVars
  <1>2. ASSUME NEW w \in Workers, StartRequest(w) PROVE UNCHANGED cantonVars
    BY <1>2 DEF StartRequest, CancelStart, RmlStart, LcStart, ClStart, DmStart,
                RtStart, RcStart, ExStart, RfStart, CuStart
  <1>3. ASSUME NEW w \in Workers, Resume(w)
        PROVE  \/ UNCHANGED cantonVars
               \/ LcAlloc(w) \/ LcCreate(w) \/ ClSubmit(w) \/ RcSubmit(w)
               \/ CuWithdraw(w)
    BY <1>3 DEF Resume, CancelCas, RmlBegin, RmlVerify, RmlRollback, RmlCommit,
       LcBegin, LcVerify, LcPersist, LcCommit, ClVerify, ClDuplicate, ClCommit,
       DmClaim, DmRecord, DmCommit, RtCas, RcBegin, RcRollback, RcCommit,
       ExRead, ExRecover, ExCancel, RfCas, CuCheck
  <1> QED BY <1>1, <1>2, <1>3 DEF Next

-----------------------------------------------------------------------------
(* The row tells the truth (RowEvidenceTrue), and the solver is paid last  *)
(* (WbtcAfterCbtc).  The argument: what the row can claim are facts that,  *)
(* once true on a ledger, stay true; every copy of the row was true when   *)
(* it was read, so it still is when it is written back.                    *)

\* Ledger facts are never taken back.
LedgerGrows ==
    /\ alloc \in {"executed", "refunded"} => alloc' = alloc
    /\ events \subseteq events'

LEMMA LedgerOnlyGrows ==
    ASSUME TypeOK, [Next]_vars
    PROVE  LedgerGrows
  <1>1. events \subseteq events'
    BY EscrowFrame DEF UserLock, UserRetake, Chain, Lock, Retake, Tick,
       Finalize, Reorg, DmClaim, Claim, chainVars, escrowVars
  <1>2. alloc \in {"executed", "refunded"} => alloc' = alloc
    BY CantonFrame DEF LcAlloc, AllocRejected, LcCreate, ClSubmit,
       ClaimRejected, RcSubmit, RefundRejected, CuWithdraw, Allocate,
       CreateHtlcLock, HtlcClaim, HtlcRefund, AllocationWithdraw, cantonVars
  <1> QED BY <1>1, <1>2 DEF LedgerGrows

\* Hence what was true of a copy stays true of it.
LEMMA EvidenceKept ==
    ASSUME LedgerGrows, NEW o
    PROVE  /\ Evidence(o, alloc, events) => Evidence(o, alloc', events')
           /\ LabelEvidence(o, alloc, events) => LabelEvidence(o, alloc', events')
  BY DEF LedgerGrows, Evidence, LabelEvidence

\* The workers' part of EvidenceInv, after a step.
WorkersTrue ==
    \A v \in Workers : /\ Evidence(snap'[v], alloc', events')
                       /\ LabelEvidence(pc'[v], alloc', events')

\* A worker that moves on with a truthful copy, past a point it may be at.
LEMMA ProceedTrue ==
    ASSUME TypeOK, EvidenceInv, LedgerGrows, NEW w \in Workers, NEW l, NEW o,
           Proceed(w, l, o), Evidence(o, alloc', events'),
           LabelEvidence(l, alloc', events')
    PROVE  WorkersTrue
  <1> SUFFICES ASSUME NEW v \in Workers
               PROVE  /\ Evidence(snap'[v], alloc', events')
                      /\ LabelEvidence(pc'[v], alloc', events')
    BY DEF WorkersTrue
  <1>1. CASE v = w
    BY <1>1 DEF Proceed, TypeOK
  <1>2. CASE v # w
    <2>1. snap'[v] = snap[v] /\ pc'[v] = pc[v]
      BY <1>2 DEF Proceed, TypeOK
    <2> QED BY <2>1, EvidenceKept DEF EvidenceInv
  <1> QED BY <1>1, <1>2

LEMMA ReturnTrue ==
    ASSUME TypeOK, EvidenceInv, LedgerGrows, NEW w \in Workers, Return(w)
    PROVE  WorkersTrue
  <1>1. Evidence(NewOrder, alloc', events') /\ LabelEvidence("idle", alloc', events')
    BY DEF Evidence, LabelEvidence, NewOrder
  <1> QED BY <1>1, ProceedTrue DEF Return

\* Workers that stay where they are.
LEMMA StayTrue ==
    ASSUME EvidenceInv, LedgerGrows, UNCHANGED <<pc, snap>>
    PROVE  WorkersTrue
  BY EvidenceKept DEF WorkersTrue, EvidenceInv

\* putIfStatus with a truthful copy.
LEMMA PutIfStatusTrue ==
    ASSUME TypeOK, EvidenceInv, LedgerGrows, NEW w \in Workers, NEW o,
           NEW expected, NEW next, PutIfStatus(w, o, expected, next),
           Evidence(o, alloc', events'), LabelEvidence(next, alloc', events')
    PROVE  Evidence(row', alloc', events') /\ WorkersTrue
  <1>1. CASE row.status = expected
    BY <1>1, ProceedTrue, ReturnTrue DEF PutIfStatus, Put
  <1>2. CASE row.status # expected
    <2>1. row' = row
      BY <1>2 DEF PutIfStatus, orderVars
    <2>2. Evidence(row', alloc', events')
      BY <2>1, EvidenceKept DEF EvidenceInv, RowEvidenceTrue
    <2> QED BY <1>2, <2>2, ReturnTrue DEF PutIfStatus
  <1> QED BY <1>1, <1>2

\* The handler steps that end in a compare-and-set.
LEMMA CasStepsTrue ==
    ASSUME TypeOK, EvidenceInv, LedgerGrows, NEW w \in Workers,
           \/ CancelCas(w) \/ RmlRollback(w) \/ RmlCommit(w) \/ LcPersist(w)
           \/ LcCommit(w) \/ ClCommit(w) \/ DmCommit(w) \/ RtCas(w)
           \/ RcBegin(w) \/ RcRollback(w) \/ RcCommit(w) \/ ExRecover(w)
           \/ ExCancel(w) \/ RfCas(w)
    PROVE  Evidence(row', alloc', events') /\ WorkersTrue
  <1>1. /\ snap[w] \in Row
        /\ Evidence(snap[w], alloc', events')
        /\ LabelEvidence(pc[w], alloc', events')
    BY EvidenceKept DEF EvidenceInv, TypeOK
  <1>2. \A s \in Status \ {"counter_claimed", "main_claimed"} :
          /\ Evidence([snap[w] EXCEPT !.status = s], alloc', events')
          /\ Evidence([snap[w] EXCEPT !.status = s, !.mainLockTx = 0],
                      alloc', events')
    BY <1>1 DEF Evidence, Row
  <1>3. \A l \in {"idle", "lcCreate", "rcSubmit", "rtRefund"} :
          LabelEvidence(l, alloc', events')
    BY DEF LabelEvidence
  <1>4. CASE CancelCas(w)
    BY <1>2, <1>3, <1>4, PutIfStatusTrue DEF CancelCas, Status
  <1>5. CASE RmlRollback(w)
    BY <1>2, <1>3, <1>5, PutIfStatusTrue DEF RmlRollback, Status
  <1>6. CASE RmlCommit(w)
    BY <1>2, <1>3, <1>6, PutIfStatusTrue DEF RmlCommit, Status
  <1>7. CASE LcPersist(w)
    BY <1>1, <1>3, <1>7, PutIfStatusTrue DEF LcPersist
  <1>8. CASE LcCommit(w)
    BY <1>2, <1>3, <1>8, PutIfStatusTrue DEF LcCommit, Status
  <1>9. CASE RcBegin(w)
    BY <1>2, <1>3, <1>9, PutIfStatusTrue DEF RcBegin, Status
  <1>10. CASE RcRollback(w)
    BY <1>2, <1>3, <1>10, PutIfStatusTrue DEF RcRollback, Status
  <1>11. CASE ExRecover(w)
    BY <1>2, <1>3, <1>11, PutIfStatusTrue DEF ExRecover, Status
  <1>12. CASE ExCancel(w)
    BY <1>2, <1>3, <1>12, PutIfStatusTrue DEF ExCancel, Status
  <1>13. CASE RfCas(w)
    BY <1>1, <1>3, <1>13, PutIfStatusTrue DEF RfCas
  <1>14. CASE ClCommit(w)
    <2>1. Evidence([snap[w] EXCEPT !.status = "counter_claimed",
                                   !.revealedPreimage = TRUE,
                                   !.counterClaimUpdateId = "claim"],
                   alloc', events')
      BY <1>1, <1>14 DEF ClCommit, Evidence, LabelEvidence, Row
    <2> QED BY <1>3, <1>14, <2>1, PutIfStatusTrue DEF ClCommit
  <1>15. CASE DmCommit(w)
    <2>1. Evidence([snap[w] EXCEPT !.status = "main_claimed",
                                   !.mainClaimTx = "claim"], alloc', events')
      BY <1>1, <1>15 DEF DmCommit, Evidence, LabelEvidence, Row
    <2> QED BY <1>3, <1>15, <2>1, PutIfStatusTrue DEF DmCommit
  <1>16. CASE RcCommit(w)
    <2>1. Evidence([snap[w] EXCEPT !.status = "refunded",
                                   !.counterClaimUpdateId = "refund"],
                   alloc', events')
      BY <1>1, <1>16 DEF RcCommit, Evidence, LabelEvidence, Row
    <2> QED BY <1>3, <1>16, <2>1, PutIfStatusTrue DEF RcCommit
  <1>17. CASE RtCas(w)
    <2> DEFINE o == [snap[w] EXCEPT !.mainClaimTx = "retake"]
               q == [o EXCEPT !.status = IF @ = "counter_claimed" THEN "failed"
                                                                  ELSE "refunded"]
    <2>1. Evidence(o, alloc', events')
      BY <1>1, <1>17 DEF RtCas, Evidence, LabelEvidence, Row
    <2>2. Evidence(q, alloc', events')
      BY <1>1, <2>1 DEF Evidence, Row
    <2>3. \/ PutIfStatus(w, o, "counter_locked", "rtRefund")
          \/ PutIfStatus(w, q, o.status, "idle")
      BY <1>17 DEF RtCas
    <2> HIDE DEF o, q
    <2> QED BY <1>3, <2>1, <2>2, <2>3, PutIfStatusTrue
  <1> QED BY <1>4, <1>5, <1>6, <1>7, <1>8, <1>9, <1>10, <1>11, <1>12, <1>13,
             <1>14, <1>15, <1>16, <1>17

\* The handler steps that start, read, decide or give up: the row stays, and
\* the copy is the worker's own or a fresh one.
LEMMA LocalStepsTrue ==
    ASSUME TypeOK, EvidenceInv, LedgerGrows, NEW w \in Workers,
           \/ StartRequest(w)
           \/ RmlVerify(w) \/ LcVerify(w) \/ ClVerify(w) \/ ClDuplicate(w)
           \/ DmRecord(w) \/ ExRead(w) \/ CuCheck(w)
    PROVE  Evidence(row', alloc', events') /\ WorkersTrue
  <1>1. /\ snap[w] \in Row /\ row \in Row
        /\ Evidence(snap[w], alloc', events') /\ Evidence(row, alloc', events')
        /\ LabelEvidence(pc[w], alloc', events')
    BY EvidenceKept DEF EvidenceInv, RowEvidenceTrue, TypeOK
  <1>2. /\ Evidence(NewOrder, alloc', events')
        /\ \A tx : Evidence([row EXCEPT !.mainLockTx = tx], alloc', events')
    BY <1>1 DEF Evidence, NewOrder, Row
  <1>3. row' = row /\ UNCHANGED <<alloc, events>>
    BY DEF StartRequest, CancelStart, RmlStart, LcStart, ClStart, DmStart,
           RtStart, RcStart, ExStart, RfStart, CuStart, RmlVerify, LcVerify,
           ClVerify, ClDuplicate, DmRecord, ExRead, CuCheck, orderVars,
           chainVars, escrowVars, cantonVars
  <1>4. \A l \in Label \ {"clCommit", "clDuplicate", "dmClaim", "dmRecord",
                          "dmCommit", "rcCommit", "rtCas"} :
          LabelEvidence(l, alloc', events')
    BY DEF LabelEvidence
  <1> USE DEF Label
  <1>5. CASE CancelStart(w)
    BY <1>1, <1>2, <1>3, <1>4, <1>5, ProceedTrue, ReturnTrue DEF CancelStart
  <1>6. CASE LcStart(w)
    BY <1>1, <1>2, <1>3, <1>4, <1>6, ProceedTrue, ReturnTrue DEF LcStart,
       LcBranch
  <1>7. CASE ClStart(w)
    BY <1>1, <1>2, <1>3, <1>4, <1>7, ProceedTrue, ReturnTrue DEF ClStart
  <1>8. CASE RcStart(w)
    BY <1>1, <1>2, <1>3, <1>4, <1>8, ProceedTrue, ReturnTrue DEF RcStart
  <1>9. CASE ExStart(w)
    BY <1>1, <1>2, <1>3, <1>4, <1>9, ProceedTrue, ReturnTrue DEF ExStart
  <1>10. CASE CuStart(w)
    BY <1>1, <1>2, <1>3, <1>4, <1>10, ProceedTrue, ReturnTrue DEF CuStart
  <1>11. CASE RmlVerify(w)
    BY <1>1, <1>2, <1>3, <1>4, <1>11, ProceedTrue, ReturnTrue DEF RmlVerify
  <1>12. CASE LcVerify(w)
    BY <1>1, <1>2, <1>3, <1>4, <1>12, ProceedTrue, ReturnTrue DEF LcVerify
  <1>13. CASE ClVerify(w)
    BY <1>1, <1>2, <1>3, <1>4, <1>13, ProceedTrue, ReturnTrue DEF ClVerify
  <1>14. CASE ExRead(w)
    BY <1>1, <1>2, <1>3, <1>4, <1>14, ProceedTrue, ReturnTrue DEF ExRead
  <1>15. CASE CuCheck(w)
    BY <1>1, <1>2, <1>3, <1>4, <1>15, ProceedTrue, ReturnTrue DEF CuCheck
  <1>16. CASE \E tx \in 1..lockTxs : RmlStart(w, tx)
    BY <1>1, <1>2, <1>3, <1>4, <1>16, ProceedTrue DEF RmlStart
  <1>17. CASE DmStart(w)
    <2>1. /\ LabelEvidence("dmClaim", alloc', events')
          /\ LabelEvidence("dmRecord", alloc', events')
      BY <1>1, <1>3, <1>17 DEF DmStart, LabelEvidence, Evidence
    <2> QED BY <1>1, <1>3, <1>17, <2>1, ProceedTrue DEF DmStart
  <1>18. CASE RtStart(w)
    <2>1. LabelEvidence("rtCas", alloc', events')
      BY <1>3, <1>18 DEF RtStart, LabelEvidence
    <2> QED BY <1>1, <1>3, <1>18, <2>1, ProceedTrue DEF RtStart
  <1>19. CASE RfStart(w)
    <2> DEFINE o == [row EXCEPT !.status = "main_claimed",
                     !.mainClaimTx = IF @ = "none" THEN "claim" ELSE @]
    <2>1. Evidence(o, alloc', events')
      BY <1>1, <1>3, <1>19 DEF RfStart, Evidence, Row
    <2>2. Proceed(w, "rfCas", o)
      BY <1>19 DEF RfStart
    <2> HIDE DEF o
    <2> QED BY <1>1, <1>3, <1>4, <2>1, <2>2, ProceedTrue
  <1>20. CASE ClDuplicate(w)
    <2>1. LabelEvidence("clCommit", alloc', events')
      BY <1>1, <1>20 DEF ClDuplicate, LabelEvidence
    <2> QED BY <1>1, <1>3, <1>20, <2>1, ProceedTrue, ReturnTrue DEF ClDuplicate
  <1>21. CASE DmRecord(w)
    <2>1. "Claimed" \in events => LabelEvidence("dmCommit", alloc', events')
      BY <1>1, <1>3, <1>21 DEF DmRecord, LabelEvidence
    <2> QED BY <1>1, <1>3, <1>21, <2>1, ProceedTrue, ReturnTrue DEF DmRecord
  <1> QED BY <1>5, <1>6, <1>7, <1>8, <1>9, <1>10, <1>11, <1>12, <1>13,
             <1>14, <1>15, <1>16, <1>17, <1>18, <1>19, <1>20, <1>21 DEF
             StartRequest

\* The handler steps that move a contract, and the two that go on after a
\* compare-and-set with another copy than the one written.
LEMMA ContractStepsTrue ==
    ASSUME TypeOK, EvidenceInv, LedgerGrows, NEW w \in Workers,
           \/ RmlBegin(w) \/ LcBegin(w) \/ LcAlloc(w) \/ LcCreate(w)
           \/ ClSubmit(w) \/ DmClaim(w) \/ RcSubmit(w) \/ CuWithdraw(w)
    PROVE  Evidence(row', alloc', events') /\ WorkersTrue
  <1>1. /\ snap[w] \in Row /\ row \in Row
        /\ Evidence(snap[w], alloc', events') /\ Evidence(row, alloc', events')
        /\ LabelEvidence(pc[w], alloc', events')
    BY EvidenceKept DEF EvidenceInv, RowEvidenceTrue, TypeOK
  <1>2. \A l \in Label \ {"clCommit", "clDuplicate", "dmClaim", "dmRecord",
                          "dmCommit", "rcCommit", "rtCas"} :
          LabelEvidence(l, alloc', events')
    BY DEF LabelEvidence
  <1>3. /\ Evidence([snap[w] EXCEPT !.allocationCid = TRUE], alloc', events')
        /\ \A i : Evidence([snap[w] EXCEPT !.htlcCid = i], alloc', events')
        /\ \A s \in Status \ {"counter_claimed", "main_claimed"} :
             /\ Evidence([snap[w] EXCEPT !.status = s], alloc', events')
             /\ Evidence([snap[w] EXCEPT !.status = s, !.mainLockTx = 0],
                         alloc', events')
    BY <1>1 DEF Evidence, Row
  <1>4. CASE RmlBegin(w)
    <2>1. Evidence(row', alloc', events')
      BY <1>1, <1>3, <1>4 DEF RmlBegin, Put, orderVars, Status
    <2> QED BY <1>2, <1>3, <1>4, <2>1, ProceedTrue, ReturnTrue
            DEF RmlBegin, Label, Status
  <1>5. CASE LcBegin(w)
    <2> DEFINE o == [snap[w] EXCEPT !.status = "counter_locking"]
    <2>1. Evidence(o, alloc', events')
      BY <1>3 DEF Status
    <2>2. Evidence(row', alloc', events')
      BY <1>1, <1>5, <2>1 DEF LcBegin, Put, orderVars
    <2>3. /\ LabelEvidence(LcBranch(o), alloc', events')
          /\ LabelEvidence(LcBranch(row), alloc', events')
      BY <1>2 DEF LcBranch, Label
    <2>4. \/ Proceed(w, LcBranch(o), o)
          \/ Return(w) \/ Proceed(w, LcBranch(row), row)
      BY <1>5 DEF LcBegin
    <2> HIDE DEF o
    <2> QED BY <1>1, <2>1, <2>2, <2>3, <2>4, ProceedTrue, ReturnTrue
  <1>6. CASE LcAlloc(w)
    BY <1>1, <1>2, <1>3, <1>6, ProceedTrue, ReturnTrue
       DEF LcAlloc, AllocRejected, orderVars, Label
  <1>7. CASE LcCreate(w)
    BY <1>1, <1>2, <1>3, <1>7, ProceedTrue DEF LcCreate, orderVars, Label
  <1>8. CASE ClSubmit(w)
    <2>1. alloc' = "executed" =>
            /\ LabelEvidence("clCommit", alloc', events')
            /\ LabelEvidence("clDuplicate", alloc', events')
      BY DEF LabelEvidence
    <2>2. row' = row
      BY <1>8 DEF ClSubmit, orderVars
    <2> QED BY <1>1, <1>8, <2>1, <2>2, ProceedTrue, ReturnTrue
            DEF ClSubmit, ClaimRejected, HtlcClaim, cantonVars
  <1>9. CASE DmClaim(w)
    <2>1. LabelEvidence("dmRecord", alloc', events')
      BY <1>1, <1>9 DEF DmClaim, LabelEvidence
    <2> QED BY <1>1, <1>9, <2>1, ProceedTrue, ReturnTrue DEF DmClaim, orderVars
  <1>10. CASE RcSubmit(w)
    <2>1. alloc' = "refunded" => LabelEvidence("rcCommit", alloc', events')
      BY DEF LabelEvidence
    <2>2. LabelEvidence("rcRollback", alloc', events')
      BY <1>2 DEF Label
    <2>3. row' = row
      BY <1>10 DEF RcSubmit, orderVars
    <2> QED BY <1>1, <1>10, <2>1, <2>2, <2>3, ProceedTrue
            DEF RcSubmit, RefundRejected, HtlcRefund, cantonVars
  <1>11. CASE CuWithdraw(w)
    BY <1>1, <1>11, ReturnTrue DEF CuWithdraw, orderVars
  <1> QED BY <1>4, <1>5, <1>6, <1>7, <1>8, <1>9, <1>10, <1>11

\* The solver's claim is the only source of Claimed, and the daemon makes it
\* only once it has seen the reveal recorded.
LEMMA ClaimNeedsRelease ==
    ASSUME TypeOK, EvidenceInv, [Next]_vars
    PROVE  WbtcAfterCbtc'
  <1>1. CASE events' = events
    BY <1>1, LedgerOnlyGrows DEF LedgerGrows, EvidenceInv, WbtcAfterCbtc
  <1>2. CASE UserLock \/ UserRetake
    BY <1>2 DEF EvidenceInv, WbtcAfterCbtc, UserLock, UserRetake, Lock, Retake,
                cantonVars
  <1>3. ASSUME NEW w \in Workers, DmClaim(w) PROVE WbtcAfterCbtc'
    BY <1>3 DEF DmClaim, EvidenceInv, LabelEvidence, WbtcAfterCbtc, cantonVars
  <1>4. CASE Chain \/ UNCHANGED chainVars
    BY <1>1, <1>4 DEF Chain, Tick, Finalize, Reorg, chainVars, escrowVars
  <1> QED BY <1>2, <1>3, <1>4, EscrowFrame

\* EvidenceInv is inductive.
LEMMA EvidenceInductive ==
    ASSUME TypeOK, EvidenceInv, [Next]_vars
    PROVE  EvidenceInv'
  <1>1. LedgerGrows
    BY LedgerOnlyGrows
  <1>2. Evidence(row', alloc', events') /\ WorkersTrue
    <2>1. CASE UNCHANGED <<pc, snap, row>>
      <3>1. Evidence(row', alloc', events')
        BY <1>1, <2>1, EvidenceKept DEF EvidenceInv, RowEvidenceTrue
      <3> QED BY <1>1, <2>1, <3>1, StayTrue
    <2>2. CASE Accept
      <3>1. row \in Row /\ Evidence(row, alloc', events')
        BY <1>1, EvidenceKept DEF EvidenceInv, RowEvidenceTrue, TypeOK
      <3>2. Evidence(row', alloc', events')
        BY <2>2, <3>1 DEF Accept, Put, Evidence, Row
      <3> QED BY <1>1, <2>2, <3>2, StayTrue DEF Accept
    <2>3. ASSUME NEW w \in Workers, Fail(w)
          PROVE  Evidence(row', alloc', events') /\ WorkersTrue
      <3>1. Evidence(row', alloc', events')
        BY <1>1, <2>3, EvidenceKept DEF EvidenceInv, RowEvidenceTrue, Fail,
           orderVars
      <3> QED BY <1>1, <2>3, <3>1, ReturnTrue DEF Fail
    <2>4. ASSUME NEW w \in Workers, StartRequest(w) \/ Resume(w)
          PROVE  Evidence(row', alloc', events') /\ WorkersTrue
      BY <1>1, <2>4, CasStepsTrue, LocalStepsTrue, ContractStepsTrue DEF Resume
    <2>5. CASE UNCHANGED vars
      BY <2>1, <2>5 DEF vars
    <2>6. CASE UserLock \/ UserRetake \/ Chain
      BY <2>1, <2>6 DEF UserLock, UserRetake, Chain, orderVars
    <2> QED BY <2>2, <2>3, <2>4, <2>5, <2>6 DEF Next, Environment
  <1>3. WbtcAfterCbtc'
    BY ClaimNeedsRelease
  <1> QED BY <1>2, <1>3 DEF EvidenceInv, RowEvidenceTrue, WorkersTrue

\* EvidenceInv holds throughout: the row and every copy of it are truthful.
THEOREM EvidenceInvariant == Spec => []EvidenceInv
  <1>1. Init => EvidenceInv
    BY DEF Init, OrderInit, EscrowInit, CantonInit, EvidenceInv, WbtcAfterCbtc,
           RowEvidenceTrue, Evidence, LabelEvidence, NewOrder
  <1>2. TypeOK /\ EvidenceInv /\ [Next]_vars => EvidenceInv'
    BY EvidenceInductive
  <1> QED BY <1>1, <1>2, TypeCorrect, PTL DEF Spec

\* The solver never collects the user's WBTC before the user has the CBTC,
\* whatever the handlers' interleaving, crashes, retries and stale copies.
THEOREM SolverPaidLast == Spec => []WbtcAfterCbtc
  <1>1. EvidenceInv => WbtcAfterCbtc
    BY DEF EvidenceInv
  <1> QED BY <1>1, EvidenceInvariant, PTL

\* The order row never claims a settlement, refund or retake that has not
\* happened on its ledger.
THEOREM RowTellsTheTruth == Spec => []RowEvidenceTrue
  <1>1. EvidenceInv => RowEvidenceTrue
    BY DEF EvidenceInv
  <1> QED BY <1>1, EvidenceInvariant, PTL

-----------------------------------------------------------------------------
(* CBTC moves only against the user's WBTC (CbtcReserveCovered,            *)
(* CbtcReleaseCovered), on a chain without reorgs.  The argument: once     *)
(* verifyEvmLock has passed, the deposit can leave the escrow only to the  *)
(* solver, after the release, or back to the user, not before              *)
(* userTimelock - BindTol; and by then the Canton deadlines have passed.   *)

\* What verifyEvmLock has seen.
LEMMA VerifiedIsSecured ==
    ASSUME TypeOK, NEW o, VerifyEvmLock(o)
    PROVE  Secured
  BY OrderAssumption, ForwardAssumption DEF TypeOK, EscrowTypeOK, Slot,
     VerifyEvmLock, EvmLockSafeForReveal, AbsDiff, Secured, Backed

\* Secured is stable: the deposit leaves only after the release or too late.
LEMMA SecuredStable ==
    ASSUME TypeOK, EvidenceInv, ~Reorgs, Secured, [Next]_vars
    PROVE  Secured'
  <1> USE OrderAssumption, ForwardAssumption DEF TypeOK, EscrowTypeOK, Slot, Secured, Backed
  <1>1. CASE alloc = "executed"
    BY <1>1, LedgerOnlyGrows DEF LedgerGrows
  <1>2. CASE UserLock
    BY <1>1, <1>2 DEF UserLock, Lock
  <1>3. CASE UserRetake
    BY <1>1, <1>3 DEF UserRetake, Retake
  <1>4. CASE Chain
    BY <1>1, <1>4 DEF Chain, Tick, Finalize, escrowVars
  <1>5. ASSUME NEW w \in Workers, DmClaim(w) PROVE Secured'
    BY <1>1, <1>5 DEF DmClaim, EvidenceInv, LabelEvidence
  <1>6. CASE UNCHANGED chainVars
    BY <1>1, <1>6 DEF chainVars, escrowVars
  <1> QED BY <1>2, <1>3, <1>4, <1>5, <1>6, EscrowFrame

\* A step of worker w moves w, to some label with some copy.
LEMMA StepMoves ==
    ASSUME NEW w \in Workers, StartRequest(w) \/ Resume(w) \/ Fail(w)
    PROVE  \E l, o : Proceed(w, l, o)
  <1> USE DEF Return, PutIfStatus
  <1>1. CASE Fail(w)
    BY <1>1 DEF Fail
  <1>2. CASE StartRequest(w)
    BY <1>2 DEF StartRequest, CancelStart, RmlStart, LcStart, ClStart, DmStart,
                RtStart, RcStart, ExStart, RfStart, CuStart
  <1>3. CASE \/ CancelCas(w) \/ RmlBegin(w) \/ RmlVerify(w) \/ RmlRollback(w)
             \/ RmlCommit(w) \/ LcBegin(w) \/ LcVerify(w) \/ LcAlloc(w)
             \/ LcPersist(w) \/ LcCreate(w) \/ LcCommit(w) \/ ClVerify(w)
    BY <1>3 DEF CancelCas, RmlBegin, RmlVerify, RmlRollback, RmlCommit,
       LcBegin, LcVerify, LcAlloc, AllocRejected, LcPersist, LcCreate,
       LcCommit, ClVerify
  <1>4. CASE \/ ClSubmit(w) \/ ClDuplicate(w) \/ ClCommit(w) \/ DmClaim(w)
             \/ DmRecord(w) \/ DmCommit(w) \/ RtCas(w) \/ RcBegin(w)
             \/ RcSubmit(w) \/ RcRollback(w) \/ RcCommit(w)
    BY <1>4 DEF ClSubmit, ClaimRejected, ClDuplicate, ClCommit, DmClaim,
                DmRecord, DmCommit, RtCas, RcBegin, RcSubmit, RefundRejected,
                RcRollback, RcCommit
  <1>5. CASE \/ ExRead(w) \/ ExRecover(w) \/ ExCancel(w) \/ RfCas(w)
             \/ CuCheck(w) \/ CuWithdraw(w)
    BY <1>5 DEF ExRead, ExRecover, ExCancel, RfCas, CuCheck, CuWithdraw
  <1> QED BY <1>1, <1>2, <1>3, <1>4, <1>5 DEF Resume

\* Hence a worker changes place only by a step of its own.
LEMMA OwnStep ==
    ASSUME TypeOK, [Next]_vars, NEW v \in Workers, pc'[v] # pc[v]
    PROVE  StartRequest(v) \/ Resume(v) \/ Fail(v)
  <1>1. ~ UNCHANGED vars /\ ~Environment
    BY DEF vars, Environment, Accept, UserLock, UserRetake, Chain
  <1>2. PICK w \in Workers : StartRequest(w) \/ Resume(w) \/ Fail(w)
    BY <1>1 DEF Next
  <1>3. PICK l, o : Proceed(w, l, o)
    BY <1>2, StepMoves
  <1>4. w = v
    BY <1>3 DEF Proceed, TypeOK
  <1> QED BY <1>2, <1>4

\* Only the two checks lead to allocate() and to the claim.
LEMMA CheckedStep ==
    ASSUME TypeOK, NEW w \in Workers, StartRequest(w) \/ Resume(w) \/ Fail(w),
           pc'[w] \in {"lcAlloc", "clSubmit"}
    PROVE  LcVerify(w) \/ ClVerify(w)
  <1> USE DEF Return, PutIfStatus, Proceed, TypeOK
  <1>1. CASE Fail(w)
    BY <1>1 DEF Fail
  <1>2. CASE StartRequest(w)
    BY <1>2 DEF StartRequest, CancelStart, RmlStart, LcStart, LcBranch,
       ClStart, DmStart, RtStart, RcStart, ExStart, RfStart, CuStart
  <1>3. CASE \/ CancelCas(w) \/ RmlBegin(w) \/ RmlVerify(w) \/ RmlRollback(w)
             \/ RmlCommit(w) \/ LcBegin(w) \/ LcAlloc(w)
             \/ LcPersist(w) \/ LcCreate(w) \/ LcCommit(w)
    BY <1>3 DEF CancelCas, RmlBegin, RmlVerify, RmlRollback, RmlCommit,
       LcBegin, LcBranch, LcAlloc, AllocRejected, LcPersist, LcCreate, LcCommit
  <1>4. CASE \/ ClSubmit(w) \/ ClDuplicate(w) \/ ClCommit(w) \/ DmClaim(w)
             \/ DmRecord(w) \/ DmCommit(w) \/ RtCas(w) \/ RcBegin(w)
             \/ RcSubmit(w) \/ RcRollback(w) \/ RcCommit(w)
    BY <1>4 DEF ClSubmit, ClaimRejected, ClDuplicate, ClCommit, DmClaim,
                DmRecord, DmCommit, RtCas, RcBegin, RcSubmit, RefundRejected,
                RcRollback, RcCommit
  <1>5. CASE \/ ExRead(w) \/ ExRecover(w) \/ ExCancel(w) \/ RfCas(w)
             \/ CuCheck(w) \/ CuWithdraw(w)
    BY <1>5 DEF ExRead, ExRecover, ExCancel, RfCas, CuCheck, CuWithdraw
  <1> QED BY <1>1, <1>2, <1>3, <1>4, <1>5 DEF Resume

\* CoverInv is inductive, given EvidenceInv.
LEMMA CoverInductive ==
    ASSUME TypeOK, EvidenceInv, CoverInv, ~Reorgs, [Next]_vars
    PROVE  CoverInv'
  <1> SUFFICES ASSUME NEW v \in Workers, pc'[v] \in {"lcAlloc", "clSubmit"}
               PROVE  Secured'
    BY DEF CoverInv
  <1>1. CASE pc[v] \in {"lcAlloc", "clSubmit"}
    BY <1>1, SecuredStable DEF CoverInv
  <1>2. CASE pc[v] \notin {"lcAlloc", "clSubmit"}
    <2>1. LcVerify(v) \/ ClVerify(v)
      BY <1>2, OwnStep, CheckedStep
    <2>2. VerifyEvmLock(snap[v])
      BY <1>2, <2>1 DEF LcVerify, ClVerify, Return, Proceed, TypeOK
    <2> QED BY <2>2, VerifiedIsSecured, SecuredStable
  <1> QED BY <1>1, <1>2

\* On a chain without reorgs CoverInv holds throughout.
THEOREM CoverInvariant ==
    ASSUME ~Reorgs PROVE Spec => []CoverInv
  <1>1. Init => CoverInv
    BY DEF Init, OrderInit, CoverInv
  <1>2. TypeOK /\ EvidenceInv /\ CoverInv /\ [Next]_vars => CoverInv'
    BY CoverInductive
  <1> QED BY <1>1, <1>2, TypeCorrect, EvidenceInvariant, PTL DEF Spec

\* The two steps that move CBTC towards the user.
LEMMA ReserveStep ==
    ASSUME TypeOK, EvidenceInv, CoverInv, [Next]_vars,
           alloc = "none", alloc' = "locked"
    PROVE  Backed
  <1>1. PICK w \in Workers : LcAlloc(w)
    BY CantonFrame DEF LcCreate, ClSubmit, ClaimRejected, RcSubmit,
       RefundRejected, CuWithdraw, CreateHtlcLock, HtlcClaim, HtlcRefund,
       AllocationWithdraw, cantonVars
  <1>2. PICK lt \in LedgerTime : Allocate(lt, SolverTimelock - AllocLead)
    BY <1>1 DEF LcAlloc, AllocRejected, cantonVars
  <1>3. now < UserTimelock - BindTol
    BY <1>2, OrderAssumption, ForwardAssumption, LadderAssumption
       DEF Allocate, LedgerTime, ForwardLadder, TypeOK, EscrowTypeOK
  <1>4. Secured
    BY <1>1 DEF LcAlloc, CoverInv
  <1> QED BY <1>3, <1>4, OrderAssumption, ForwardAssumption DEF Secured,
     TypeOK, EscrowTypeOK

LEMMA ReleaseStep ==
    ASSUME TypeOK, EvidenceInv, CoverInv, [Next]_vars,
           alloc = "locked", alloc' = "executed"
    PROVE  Backed /\ slot.unlockTime - now >= Margin
  <1>1. PICK w \in Workers : ClSubmit(w)
    BY CantonFrame DEF LcAlloc, AllocRejected, LcCreate, RcSubmit,
       RefundRejected, CuWithdraw, Allocate, CreateHtlcLock, HtlcRefund,
       AllocationWithdraw, cantonVars
  <1>2. PICK lt \in LedgerTime : HtlcClaim(snap[w].htlcCid, lt)
    BY <1>1 DEF ClSubmit, ClaimRejected, cantonVars
  <1>3. now + Margin < UserTimelock - BindTol
    BY <1>2, OrderAssumption, ForwardAssumption, LadderAssumption
       DEF HtlcClaim, LedgerTime, ForwardLadder, TypeOK, EscrowTypeOK
  <1>4. Secured
    BY <1>1 DEF ClSubmit, CoverInv
  <1> QED BY <1>3, <1>4, OrderAssumption, ForwardAssumption
          DEF Secured, TypeOK, EscrowTypeOK, Slot

\* The solver ties up CBTC only while the user's WBTC is in escrow for it.
THEOREM ReserveIsCovered ==
    ASSUME ~Reorgs PROVE Spec => CbtcReserveCovered
  <1>1. TypeOK /\ EvidenceInv /\ CoverInv /\ [Next]_vars => [ReserveCovered]_vars
    BY ReserveStep DEF ReserveCovered
  <1> QED BY <1>1, TypeCorrect, EvidenceInvariant, CoverInvariant, PTL
          DEF Spec, CbtcReserveCovered

\* The CBTC is released only while the user's WBTC is in escrow for the solver
\* with the claim margin left, however old the check that allowed it.
THEOREM ReleaseIsCovered ==
    ASSUME ~Reorgs PROVE Spec => CbtcReleaseCovered
  <1>1. TypeOK /\ EvidenceInv /\ CoverInv /\ [Next]_vars => [ReleaseCovered]_vars
    BY ReleaseStep DEF ReleaseCovered
  <1> QED BY <1>1, TypeCorrect, EvidenceInvariant, CoverInvariant, PTL
          DEF Spec, CbtcReleaseCovered

-----------------------------------------------------------------------------
(* Where a row and its Allocation stand (StageInv), for all constants.     *)

\* An Allocation, once created, has been created.
LEMMA AllocStays ==
    ASSUME [Next]_vars, alloc # "none"
    PROVE  alloc' # "none"
  BY CantonFrame DEF LcAlloc, AllocRejected, LcCreate, ClSubmit, ClaimRejected,
     RcSubmit, RefundRejected, CuWithdraw, Allocate, CreateHtlcLock, HtlcClaim,
     HtlcRefund, AllocationWithdraw, cantonVars

LEMMA StagedKept ==
    ASSUME NEW o, Staged(o, alloc), [Next]_vars
    PROVE  Staged(o, alloc')
  BY AllocStays DEF Staged

\* The workers' part of StageInv, after a step.
WorkersStaged ==
    \A v \in Workers : Staged(snap'[v], alloc') /\ LabelStage(pc'[v], snap'[v])

\* A worker that moves on with a copy fit for where it goes.
LEMMA ProceedStaged ==
    ASSUME TypeOK, StageInv, [Next]_vars, NEW w \in Workers, NEW l, NEW o,
           Proceed(w, l, o), Staged(o, alloc'), LabelStage(l, o)
    PROVE  WorkersStaged
  <1> SUFFICES ASSUME NEW v \in Workers
               PROVE  Staged(snap'[v], alloc') /\ LabelStage(pc'[v], snap'[v])
    BY DEF WorkersStaged
  <1>1. CASE v = w
    <2>1. snap'[v] = o /\ pc'[v] = l
      BY <1>1 DEF Proceed, TypeOK
    <2> QED BY <2>1
  <1>2. CASE v # w
    <2>1. snap'[v] = snap[v] /\ pc'[v] = pc[v]
      BY <1>2 DEF Proceed, TypeOK
    <2>2. Staged(snap[v], alloc) /\ LabelStage(pc[v], snap[v])
      BY DEF StageInv
    <2>3. Staged(snap[v], alloc')
      BY <2>2, StagedKept
    <2> QED BY <2>1, <2>2, <2>3
  <1> QED BY <1>1, <1>2

LEMMA ReturnStaged ==
    ASSUME TypeOK, StageInv, [Next]_vars, NEW w \in Workers, Return(w)
    PROVE  WorkersStaged
  <1>1. Staged(NewOrder, alloc') /\ LabelStage("idle", NewOrder)
    BY DEF Staged, LabelStage, NewOrder, Committing
  <1> QED BY <1>1, ProceedStaged DEF Return

LEMMA StayStaged ==
    ASSUME StageInv, [Next]_vars, UNCHANGED <<pc, snap>>
    PROVE  WorkersStaged
  BY StagedKept DEF WorkersStaged, StageInv

\* putIfStatus with such a copy.
LEMMA PutIfStatusStaged ==
    ASSUME TypeOK, StageInv, [Next]_vars, NEW w \in Workers, NEW o,
           NEW expected, NEW next, PutIfStatus(w, o, expected, next),
           row.status = expected => Staged(o, alloc') /\ LabelStage(next, o)
    PROVE  Staged(row', alloc') /\ WorkersStaged
  <1>1. CASE row.status = expected
    <2>1. row' = o /\ (Proceed(w, next, o) \/ Return(w))
      BY <1>1 DEF PutIfStatus, Put
    <2> QED BY <1>1, <2>1, ProceedStaged, ReturnStaged
  <1>2. CASE row.status # expected
    <2>1. row' = row /\ Return(w)
      BY <1>2 DEF PutIfStatus, orderVars
    <2>2. Staged(row', alloc')
      BY <2>1, StagedKept DEF StageInv
    <2> QED BY <2>1, <2>2, ReturnStaged
  <1> QED BY <1>1, <1>2

\* The labels of which LabelStage says nothing.
OtherLabel == {"idle", "lcBegin", "clVerify", "clSubmit", "clDuplicate",
              "clCommit", "dmClaim", "dmRecord", "dmCommit", "rtRefund",
              "cuCheck", "cuWithdraw"}

LEMMA OtherLabelStage ==
    ASSUME NEW l \in OtherLabel, NEW o
    PROVE  LabelStage(l, o)
  BY DEF OtherLabel, LabelStage, Committing

\* The handler steps that end in a compare-and-set.
LEMMA CasStepsStaged ==
    ASSUME TypeOK, StageInv, [Next]_vars, NEW w \in Workers,
           \/ CancelCas(w) \/ RmlRollback(w) \/ RmlCommit(w) \/ LcPersist(w)
           \/ LcCommit(w) \/ ClCommit(w) \/ DmCommit(w) \/ RtCas(w)
           \/ RcBegin(w) \/ RcRollback(w) \/ RcCommit(w) \/ ExRecover(w)
           \/ ExCancel(w) \/ RfCas(w)
    PROVE  Staged(row', alloc') /\ WorkersStaged
  <1>1. /\ snap[w] \in Row
        /\ Staged(snap[w], alloc') /\ LabelStage(pc[w], snap[w])
    BY StagedKept DEF StageInv, TypeOK
  <1>3. \A o : LabelStage("idle", o) /\ LabelStage("rtRefund", o)
    BY OtherLabelStage DEF OtherLabel
  <1> USE <1>1, <1>3
  <1>4. CASE CancelCas(w)
    <2>1. Staged([snap[w] EXCEPT !.status = "cancelled"], alloc')
      BY <1>4 DEF CancelCas, LabelStage, Staged, Uncommitted, Row
    <2> QED BY <1>4, <2>1, PutIfStatusStaged DEF CancelCas
  <1>5. CASE RmlRollback(w)
    <2>1. Staged([snap[w] EXCEPT !.status = "accepted", !.mainLockTx = 0], alloc')
      BY <1>5 DEF RmlRollback, LabelStage, Staged, Uncommitted, Row
    <2> QED BY <1>5, <2>1, PutIfStatusStaged DEF RmlRollback
  <1>6. CASE RmlCommit(w)
    <2>1. Staged([snap[w] EXCEPT !.status = "main_locked"], alloc')
      BY <1>6 DEF RmlCommit, LabelStage, Staged, Uncommitted, Row
    <2> QED BY <1>6, <2>1, PutIfStatusStaged DEF RmlCommit
  <1>7. CASE LcPersist(w)
    <2>1. LabelStage("lcCreate", snap[w])
      BY <1>7 DEF LcPersist, LabelStage, Committing
    <2> QED BY <1>7, <2>1, PutIfStatusStaged DEF LcPersist
  <1>8. CASE LcCommit(w)
    <2>1. Staged([snap[w] EXCEPT !.status = "counter_locked"], alloc')
      BY <1>8 DEF LcCommit, LabelStage, Committing, Staged, Uncommitted, Row
    <2> QED BY <1>8, <2>1, PutIfStatusStaged DEF LcCommit
  <1>9. CASE RcBegin(w)
    <2>1. /\ Staged([snap[w] EXCEPT !.status = "refunding"], alloc')
          /\ LabelStage("rcSubmit", [snap[w] EXCEPT !.status = "refunding"])
      BY <1>9 DEF RcBegin, LabelStage, Committing, Staged, Uncommitted, Row
    <2> QED BY <1>9, <2>1, PutIfStatusStaged DEF RcBegin
  <1>10. CASE RcRollback(w)
    <2>1. Staged([snap[w] EXCEPT !.status = "counter_locked"], alloc')
      BY <1>10 DEF RcRollback, LabelStage, Staged, Uncommitted, Row
    <2> QED BY <1>10, <2>1, PutIfStatusStaged DEF RcRollback
  <1>11. CASE RcCommit(w)
    <2>1. Staged([snap[w] EXCEPT !.status = "refunded",
                                 !.counterClaimUpdateId = "refund"], alloc')
      BY DEF Staged, Uncommitted, Row
    <2> QED BY <1>11, <2>1, PutIfStatusStaged DEF RcCommit
  <1>12. CASE ExRecover(w)
    <2>1. Staged([snap[w] EXCEPT !.status = "main_locked"], alloc')
      BY <1>12 DEF ExRecover, LabelStage, Staged, Uncommitted, Row
    <2> QED BY <1>12, <2>1, PutIfStatusStaged DEF ExRecover
  <1>13. CASE ExCancel(w)
    <2>1. Staged([snap[w] EXCEPT !.status = "cancelled"], alloc')
      BY <1>13 DEF ExCancel, LabelStage, Staged, Uncommitted, Row
    <2> QED BY <1>13, <2>1, PutIfStatusStaged DEF ExCancel
  <1>14. CASE RfCas(w)
    BY <1>14, PutIfStatusStaged DEF RfCas
  <1>15. CASE ClCommit(w)
    <2>1. Staged([snap[w] EXCEPT !.status = "counter_claimed",
                                 !.revealedPreimage = TRUE,
                                 !.counterClaimUpdateId = "claim"], alloc')
      BY DEF Staged, Uncommitted, Row
    <2> QED BY <1>15, <2>1, PutIfStatusStaged DEF ClCommit
  <1>16. CASE DmCommit(w)
    <2>1. Staged([snap[w] EXCEPT !.status = "main_claimed",
                                 !.mainClaimTx = "claim"], alloc')
      BY DEF Staged, Uncommitted, Row
    <2> QED BY <1>16, <2>1, PutIfStatusStaged DEF DmCommit
  <1>17. CASE RtCas(w)
    <2> DEFINE o == [snap[w] EXCEPT !.mainClaimTx = "retake"]
               q == [o EXCEPT !.status = IF @ = "counter_claimed" THEN "failed"
                                                                  ELSE "refunded"]
    <2>1. Staged(o, alloc') /\ Staged(q, alloc')
      BY DEF Staged, Row, Uncommitted
    <2>2. \/ PutIfStatus(w, o, "counter_locked", "rtRefund")
          \/ PutIfStatus(w, q, o.status, "idle")
      BY <1>17 DEF RtCas
    <2> HIDE DEF o, q
    <2> QED BY <2>1, <2>2, PutIfStatusStaged
  <1> QED BY <1>4, <1>5, <1>6, <1>7, <1>8, <1>9, <1>10, <1>11, <1>12, <1>13,
             <1>14, <1>15, <1>16, <1>17

\* The steps that read, decide or give up: the row stays.
LEMMA LocalStepsStaged ==
    ASSUME TypeOK, StageInv, [Next]_vars, NEW w \in Workers,
           \/ StartRequest(w)
           \/ RmlVerify(w) \/ LcVerify(w) \/ ClVerify(w) \/ ClDuplicate(w)
           \/ DmRecord(w) \/ ExRead(w) \/ CuCheck(w)
    PROVE  Staged(row', alloc') /\ WorkersStaged
  <1>1. /\ snap[w] \in Row /\ row \in Row
        /\ Staged(snap[w], alloc') /\ LabelStage(pc[w], snap[w])
        /\ Staged(row, alloc') /\ Staged(row, alloc)
    BY StagedKept DEF StageInv, TypeOK
  <1>2. /\ Staged(NewOrder, alloc')
        /\ \A tx : Staged([row EXCEPT !.mainLockTx = tx], alloc')
    BY <1>1 DEF Staged, NewOrder, Row
  <1>3. row' = row
    BY DEF StartRequest, CancelStart, RmlStart, LcStart, ClStart, DmStart,
           RtStart, RcStart, ExStart, RfStart, CuStart, RmlVerify, LcVerify,
           ClVerify, ClDuplicate, DmRecord, ExRead, CuCheck, orderVars
  <1>4. \A l \in OtherLabel : \A o : LabelStage(l, o)
    BY OtherLabelStage
  <1> USE <1>1, <1>3
  <1>5. CASE CancelStart(w)
    <2>1. LabelStage("cancelCas", row)
      BY <1>5 DEF CancelStart, LabelStage, Committing
    <2> QED BY <1>5, <2>1, ProceedStaged DEF CancelStart
  <1>6. CASE \E tx \in 1..lockTxs : RmlStart(w, tx)
    <2>1. PICK tx \in 1..lockTxs : RmlStart(w, tx)
      BY <1>6
    <2>2. \A l \in {"rmlBegin", "rmlVerify"} :
            LabelStage(l, [row EXCEPT !.mainLockTx = tx])
      BY <2>1 DEF RmlStart, LabelStage, Committing, Uncommitted, Row
    <2> QED BY <1>2, <2>1, <2>2, ProceedStaged DEF RmlStart
  <1>7. CASE LcStart(w)
    <2>1. CASE row.status = "main_locked"
      BY <1>4, <1>7, <2>1, ProceedStaged DEF LcStart, OtherLabel
    <2>2. CASE row.status = "counter_locking"
      <3>1. LabelStage(LcBranch(row), row)
        BY <2>2 DEF LcBranch, LabelStage, Committing, Uncommitted
      <3> QED BY <1>7, <2>2, <3>1, ProceedStaged DEF LcStart
    <2> QED BY <1>7, <2>1, <2>2 DEF LcStart
  <1>8. CASE ClStart(w)
    BY <1>4, <1>8, ProceedStaged DEF ClStart, OtherLabel
  <1>9. CASE DmStart(w)
    BY <1>4, <1>9, ProceedStaged DEF DmStart, OtherLabel
  <1>10. CASE RtStart(w)
    <2>1. LabelStage("rtCas", row)
      BY <1>10 DEF RtStart, LabelStage, Committing
    <2> QED BY <1>10, <2>1, ProceedStaged DEF RtStart
  <1>11. CASE RcStart(w)
    <2>1. Refundable(row) => LabelStage("rcBegin", row)
      BY DEF Refundable, LabelStage, Committing
    <2> QED BY <1>11, <2>1, ProceedStaged, ReturnStaged DEF RcStart
  <1>12. CASE ExStart(w)
    <2>1. LabelStage("exRead", row)
      BY <1>12 DEF ExStart, LabelStage, Committing, Uncommitted
    <2> QED BY <1>12, <2>1, ProceedStaged DEF ExStart
  <1>13. CASE RfStart(w)
    <2> DEFINE o == [row EXCEPT !.status = "main_claimed",
                                !.mainClaimTx = IF @ = "none" THEN "claim" ELSE @]
    <2>1. Staged(o, alloc') /\ LabelStage("rfCas", o)
      BY DEF Staged, Row, Uncommitted, LabelStage, Committing
    <2>2. Proceed(w, "rfCas", o)
      BY <1>13 DEF RfStart
    <2> HIDE DEF o
    <2> QED BY <2>1, <2>2, ProceedStaged
  <1>14. CASE CuStart(w)
    BY <1>2, <1>4, <1>14, ProceedStaged DEF CuStart, OtherLabel
  <1>15. CASE RmlVerify(w)
    <2>1. LabelStage("rmlCommit", snap[w]) /\ LabelStage("rmlRollback", snap[w])
      BY <1>15 DEF RmlVerify, LabelStage, Committing
    <2> QED BY <1>15, <2>1, ProceedStaged DEF RmlVerify
  <1>16. CASE LcVerify(w)
    <2>1. /\ pc[w] = "lcVerify" => LabelStage("lcAlloc", snap[w])
          /\ pc[w] = "lcReverify" => LabelStage("lcCreate", snap[w])
      BY DEF LabelStage, Committing
    <2> QED BY <1>16, <2>1, ProceedStaged, ReturnStaged DEF LcVerify
  <1>17. CASE ClVerify(w)
    BY <1>4, <1>17, ProceedStaged, ReturnStaged DEF ClVerify, OtherLabel
  <1>18. CASE ClDuplicate(w)
    BY <1>4, <1>18, ProceedStaged, ReturnStaged DEF ClDuplicate, OtherLabel
  <1>19. CASE DmRecord(w)
    BY <1>4, <1>19, ProceedStaged, ReturnStaged DEF DmRecord, OtherLabel
  <1>20. CASE ExRead(w)
    <2>1. LabelStage("exCancel", snap[w]) /\ LabelStage("exRecover", snap[w])
      BY <1>20 DEF ExRead, LabelStage, Committing
    <2> QED BY <1>20, <2>1, ProceedStaged, ReturnStaged DEF ExRead
  <1>21. CASE CuCheck(w)
    BY <1>2, <1>4, <1>21, ProceedStaged, ReturnStaged DEF CuCheck, OtherLabel
  <1> QED BY <1>5, <1>6, <1>7, <1>8, <1>9, <1>10, <1>11, <1>12, <1>13, <1>14,
             <1>15, <1>16, <1>17, <1>18, <1>19, <1>20, <1>21 DEF StartRequest

\* The steps that move a contract, and the two that go on after a
\* compare-and-set with another copy than the one written.
LEMMA ContractStepsStaged ==
    ASSUME TypeOK, StageInv, [Next]_vars, NEW w \in Workers,
           \/ RmlBegin(w) \/ LcBegin(w) \/ LcAlloc(w) \/ LcCreate(w)
           \/ ClSubmit(w) \/ DmClaim(w) \/ RcSubmit(w) \/ CuWithdraw(w)
    PROVE  Staged(row', alloc') /\ WorkersStaged
  <1>1. /\ snap[w] \in Row /\ row \in Row
        /\ Staged(snap[w], alloc') /\ LabelStage(pc[w], snap[w])
        /\ Staged(row, alloc')
    BY StagedKept DEF StageInv, TypeOK
  <1>2. \A l \in OtherLabel : \A o : LabelStage(l, o)
    BY OtherLabelStage
  <1> USE <1>1
  <1>3. CASE RmlBegin(w)
    <2>1. /\ Staged([snap[w] EXCEPT !.status = "main_locking", !.mainLockTx = 0], alloc')
          /\ Staged([snap[w] EXCEPT !.status = "main_locking"], alloc')
          /\ LabelStage("rmlVerify", [snap[w] EXCEPT !.status = "main_locking"])
      BY <1>3 DEF RmlBegin, LabelStage, Staged, Uncommitted, Committing, Row
    <2>2. Staged(row', alloc')
      BY <1>3, <2>1 DEF RmlBegin, Put, orderVars
    <2> QED BY <1>3, <2>1, <2>2, ProceedStaged, ReturnStaged DEF RmlBegin
  <1>4. CASE LcBegin(w)
    <2> DEFINE o == [snap[w] EXCEPT !.status = "counter_locking"]
    <2>1. Staged(o, alloc') /\ LabelStage(LcBranch(o), o)
      BY DEF Staged, LabelStage, LcBranch, Committing, Uncommitted, Row
    <2>2. row.status # "main_locked" => LabelStage(LcBranch(row), row)
      BY DEF LabelStage, LcBranch, Committing, Uncommitted, Staged
    <2>3. Staged(row', alloc')
      BY <1>4, <2>1 DEF LcBegin, Put, orderVars
    <2>4. \/ Proceed(w, LcBranch(o), o)
          \/ Return(w)
          \/ row.status # "main_locked" /\ Proceed(w, LcBranch(row), row)
      BY <1>4 DEF LcBegin
    <2> HIDE DEF o
    <2> QED BY <2>1, <2>2, <2>3, <2>4, ProceedStaged, ReturnStaged
  <1>5. CASE LcAlloc(w)
    <2> DEFINE o == [snap[w] EXCEPT !.allocationCid = TRUE]
    <2>1. row' = row
      BY <1>5 DEF LcAlloc, orderVars
    <2>2. \/ alloc' # "none" /\ Proceed(w, "lcPersist", o)
          \/ Return(w)
      BY <1>5 DEF LcAlloc, AllocRejected, Allocate, cantonVars
    <2>3. alloc' # "none" => Staged(o, alloc') /\ LabelStage("lcPersist", o)
      BY <1>5 DEF LcAlloc, Staged, LabelStage, Committing, Row
    <2> HIDE DEF o
    <2> QED BY <2>1, <2>2, <2>3, ProceedStaged, ReturnStaged
  <1>6. CASE LcCreate(w)
    <2>1. PICK i \in 1..MaxWrap :
            Proceed(w, "lcCommit", [snap[w] EXCEPT !.htlcCid = i])
      BY <1>6 DEF LcCreate
    <2>2. /\ Staged([snap[w] EXCEPT !.htlcCid = i], alloc')
          /\ LabelStage("lcCommit", [snap[w] EXCEPT !.htlcCid = i])
      BY <1>6 DEF LcCreate, Staged, LabelStage, Committing, Row
    <2>3. row' = row
      BY <1>6 DEF LcCreate, orderVars
    <2> QED BY <2>1, <2>2, <2>3, ProceedStaged
  <1>7. CASE ClSubmit(w)
    BY <1>2, <1>7, ProceedStaged, ReturnStaged
       DEF ClSubmit, ClaimRejected, OtherLabel, orderVars
  <1>8. CASE DmClaim(w)
    BY <1>2, <1>8, ProceedStaged, ReturnStaged DEF DmClaim, OtherLabel,
       orderVars
  <1>9. CASE RcSubmit(w)
    <2>1. LabelStage("rcCommit", snap[w]) /\ LabelStage("rcRollback", snap[w])
      BY <1>9 DEF RcSubmit, LabelStage, Committing
    <2>2. Proceed(w, "rcCommit", snap[w]) \/ Proceed(w, "rcRollback", snap[w])
      BY <1>9 DEF RcSubmit, RefundRejected
    <2>3. row' = row
      BY <1>9 DEF RcSubmit, orderVars
    <2> QED BY <2>1, <2>2, <2>3, ProceedStaged
  <1>10. CASE CuWithdraw(w)
    BY <1>10, ReturnStaged DEF CuWithdraw, orderVars
  <1> QED BY <1>3, <1>4, <1>5, <1>6, <1>7, <1>8, <1>9, <1>10

\* What a step may do to the status of the row: leave it, move an order that is
\* not settled on to a committed or settled one, or move an order that is
\* neither committed nor cancelled.
StatusStep ==
    \/ row'.status = row.status
    \/ row.status \in Uncommitted \ {"cancelled"}
    \/ /\ row.status \notin {"main_claimed", "refunded", "cancelled"}
       /\ row'.status \notin Uncommitted

LEMMA PutIfStatusMoves ==
    ASSUME NEW w, NEW o, NEW expected, NEW next,
           PutIfStatus(w, o, expected, next)
    PROVE  row' = row \/ (row.status = expected /\ row' = o)
  <1>1. CASE row.status = expected
    BY <1>1 DEF PutIfStatus, Put
  <1>2. CASE row.status # expected
    BY <1>2 DEF PutIfStatus, orderVars
  <1> QED BY <1>1, <1>2

LEMMA StatusMoves ==
    ASSUME TypeOK, StageInv, [Next]_vars
    PROVE  StatusStep
  <1> USE DEF StatusStep
  <1>1. CASE UNCHANGED vars
    BY <1>1 DEF vars
  <1>2. CASE Environment
    BY <1>2 DEF Environment, Accept, UserLock, UserRetake, Chain, orderVars,
                Uncommitted
  <1>3. ASSUME NEW w \in Workers, StartRequest(w) PROVE row' = row
    BY <1>3 DEF StartRequest, CancelStart, RmlStart, LcStart, ClStart, DmStart,
                RtStart, RcStart, ExStart, RfStart, CuStart, orderVars
  <1>4. ASSUME NEW w \in Workers, Fail(w) PROVE row' = row
    BY <1>4 DEF Fail, orderVars
  <1>5. ASSUME NEW w \in Workers,
               \/ CancelCas(w) \/ RmlRollback(w) \/ RmlCommit(w) \/ ExRecover(w)
               \/ ExCancel(w)
        PROVE  StatusStep
    <2>1. LabelStage(pc[w], snap[w])
      BY DEF StageInv
    <2>2. row' = row \/ row.status \in {"open", "accepted", "main_locking"}
      BY <1>5, <2>1, PutIfStatusMoves DEF CancelCas, RmlRollback, RmlCommit,
         ExRecover, ExCancel, LabelStage
    <2> QED BY <2>2 DEF Uncommitted
  <1>6. ASSUME NEW w \in Workers,
               \/ LcPersist(w) \/ LcCommit(w) \/ ClCommit(w) \/ DmCommit(w)
               \/ RcBegin(w) \/ RcRollback(w) \/ RcCommit(w)
        PROVE  StatusStep
    <2>1. LabelStage(pc[w], snap[w]) /\ snap[w] \in Row
      BY DEF StageInv, TypeOK
    <2>2. CASE LcPersist(w)
      BY <2>2, PutIfStatusMoves DEF LcPersist
    <2>3. CASE LcCommit(w)
      BY <2>1, <2>3, PutIfStatusMoves DEF LcCommit, Uncommitted, Row
    <2>4. CASE ClCommit(w)
      <3> DEFINE o == [snap[w] EXCEPT !.status = "counter_claimed",
                                   !.revealedPreimage = TRUE,
                                   !.counterClaimUpdateId = "claim"]
      <3>1. o.status = "counter_claimed"
        BY <2>1 DEF Row
      <3>2. PutIfStatus(w, o, "counter_locked", "idle")
        BY <2>4 DEF ClCommit
      <3> HIDE DEF o
      <3> QED BY <3>1, <3>2, PutIfStatusMoves DEF Uncommitted
    <2>5. CASE DmCommit(w)
      <3> DEFINE o == [snap[w] EXCEPT !.status = "main_claimed",
                                   !.mainClaimTx = "claim"]
      <3>1. o.status = "main_claimed"
        BY <2>1 DEF Row
      <3>2. PutIfStatus(w, o, "counter_claimed", "idle")
        BY <2>5 DEF DmCommit
      <3> HIDE DEF o
      <3> QED BY <3>1, <3>2, PutIfStatusMoves DEF Uncommitted
    <2>6. CASE RcBegin(w)
      BY <2>1, <2>6, PutIfStatusMoves DEF RcBegin, Uncommitted, Row, LabelStage
    <2>7. CASE RcRollback(w)
      BY <2>1, <2>7, PutIfStatusMoves DEF RcRollback, Uncommitted, Row
    <2>8. CASE RcCommit(w)
      <3> DEFINE o == [snap[w] EXCEPT !.status = "refunded",
                                   !.counterClaimUpdateId = "refund"]
      <3>1. o.status = "refunded"
        BY <2>1 DEF Row
      <3>2. PutIfStatus(w, o, "refunding", "idle")
        BY <2>8 DEF RcCommit
      <3> HIDE DEF o
      <3> QED BY <3>1, <3>2, PutIfStatusMoves DEF Uncommitted
    <2> QED BY <1>6, <2>2, <2>3, <2>4, <2>5, <2>6, <2>7, <2>8
  <1>7. ASSUME NEW w \in Workers, RtCas(w) PROVE StatusStep
    <2> DEFINE o == [snap[w] EXCEPT !.mainClaimTx = "retake"]
               q == [o EXCEPT !.status = IF @ = "counter_claimed" THEN "failed"
                                                                  ELSE "refunded"]
    <2>1. o.status = snap[w].status /\ q.status \in {"failed", "refunded"}
      BY DEF TypeOK, Row
    <2>2. snap[w].status \notin {"main_claimed", "refunded", "cancelled"}
      BY <1>7 DEF RtCas, StageInv, LabelStage
    <2>3. \/ PutIfStatus(w, o, "counter_locked", "rtRefund")
             /\ o.status = "counter_locked"
          \/ PutIfStatus(w, q, o.status, "idle")
      BY <1>7 DEF RtCas
    <2> HIDE DEF o, q
    <2>4. \/ row' = row
          \/ row.status = o.status /\ row'.status \in {"failed", "refunded"}
          \/ row.status = o.status /\ row' = o
      BY <2>1, <2>3, PutIfStatusMoves
    <2> QED BY <2>1, <2>2, <2>4 DEF Uncommitted
  <1>8. ASSUME NEW w \in Workers, RfCas(w) PROVE StatusStep
    <2>1. row' = row \/ (row.status = "counter_claimed" /\ row' = snap[w])
      BY <1>8, PutIfStatusMoves DEF RfCas
    <2>2. snap[w].status = "main_claimed"
      BY <1>8 DEF RfCas, StageInv, LabelStage
    <2> QED BY <2>1, <2>2 DEF Uncommitted
  <1>9. ASSUME NEW w \in Workers, RmlBegin(w) \/ LcBegin(w) PROVE StatusStep
    BY <1>9 DEF RmlBegin, LcBegin, orderVars, Uncommitted
  <1>10. ASSUME NEW w \in Workers,
                \/ RmlVerify(w) \/ LcVerify(w) \/ LcAlloc(w) \/ LcCreate(w)
                \/ ClVerify(w) \/ ClSubmit(w) \/ ClDuplicate(w) \/ DmClaim(w)
                \/ DmRecord(w) \/ RcSubmit(w) \/ ExRead(w) \/ CuCheck(w)
                \/ CuWithdraw(w)
         PROVE  row' = row
    BY <1>10 DEF RmlVerify, LcVerify, LcAlloc, LcCreate, ClVerify, ClSubmit,
       ClDuplicate, DmClaim, DmRecord, RcSubmit, ExRead, CuCheck, CuWithdraw,
       orderVars
  <1> QED BY <1>1, <1>2, <1>3, <1>4, <1>5, <1>6, <1>7, <1>8, <1>9, <1>10
          DEF Next, Resume

\* lockCounter gets to its checks and its commands only for an order it has
\* itself moved on.
LEMMA CommittingStep ==
    ASSUME TypeOK, StageInv, NEW w \in Workers,
           StartRequest(w) \/ Resume(w) \/ Fail(w),
           pc[w] \notin Committing, pc'[w] \in Committing
    PROVE  row'.status \notin Uncommitted
  <1> USE DEF Return, PutIfStatus, Proceed, TypeOK, Committing
  <1>1. CASE Fail(w)
    BY <1>1 DEF Fail
  <1>2. CASE LcStart(w)
    BY <1>2 DEF LcStart, LcBranch, orderVars, Uncommitted
  <1>3. CASE StartRequest(w) /\ ~LcStart(w)
    BY <1>3 DEF StartRequest, CancelStart, RmlStart, ClStart, DmStart, RtStart,
                RcStart, ExStart, RfStart, CuStart
  <1>4. CASE LcBegin(w)
    <2>1. CASE row.status = "main_locked"
      <3>1. row'.status = "counter_locking"
        BY <1>4, <2>1 DEF LcBegin, Put, Row
      <3> QED BY <3>1 DEF Uncommitted
    <2>2. CASE row.status # "main_locked"
      <3>1. row' = row /\ LcBranch(row) \in Committing
        BY <1>4, <2>2 DEF LcBegin, orderVars
      <3> QED BY <2>2, <3>1 DEF LcBranch, StageInv, Staged, Uncommitted
    <2> QED BY <2>1, <2>2
  <1>5. CASE \/ CancelCas(w) \/ RmlBegin(w) \/ RmlVerify(w) \/ RmlRollback(w)
             \/ RmlCommit(w) \/ LcVerify(w) \/ LcAlloc(w)
             \/ LcPersist(w) \/ LcCreate(w) \/ LcCommit(w) \/ ClVerify(w)
    BY <1>5 DEF CancelCas, RmlBegin, RmlVerify, RmlRollback, RmlCommit,
                LcVerify, LcAlloc, LcPersist, LcCreate, LcCommit, ClVerify
  <1>6. CASE \/ ClSubmit(w) \/ ClDuplicate(w) \/ ClCommit(w) \/ DmClaim(w)
             \/ DmRecord(w) \/ DmCommit(w) \/ RtCas(w) \/ RcBegin(w)
             \/ RcSubmit(w) \/ RcRollback(w) \/ RcCommit(w)
    BY <1>6 DEF ClSubmit, ClaimRejected, ClDuplicate, ClCommit, DmClaim,
                DmRecord, DmCommit, RtCas, RcBegin, RcSubmit, RefundRejected,
                RcRollback, RcCommit
  <1>7. CASE \/ ExRead(w) \/ ExRecover(w) \/ ExCancel(w) \/ RfCas(w)
             \/ CuCheck(w) \/ CuWithdraw(w)
    BY <1>7 DEF ExRead, ExRecover, ExCancel, RfCas, CuCheck, CuWithdraw
  <1> QED BY <1>1, <1>2, <1>3, <1>4, <1>5, <1>6, <1>7 DEF Resume

\* An uncommitted order has nothing on the Canton ledger, and nobody on the way
\* to put something there.
LEMMA UncommittedStep ==
    ASSUME TypeOK, StageInv, [Next]_vars, row'.status \in Uncommitted
    PROVE  alloc' = "none" /\ \A v \in Workers : pc'[v] \notin Committing
  <1>1. row.status \in Uncommitted
    BY StatusMoves DEF StatusStep
  <1>2. alloc = "none" /\ \A v \in Workers : pc[v] \notin Committing
    BY <1>1 DEF StageInv
  <1>3. alloc' = "none"
    <2>1. ASSUME NEW w \in Workers PROVE ~LcAlloc(w)
      BY <1>2 DEF LcAlloc, Committing
    <2> QED BY <1>2, <2>1, CantonFrame DEF LcCreate, ClSubmit, ClaimRejected,
       RcSubmit, RefundRejected, CuWithdraw, CreateHtlcLock, HtlcClaim,
       HtlcRefund, AllocationWithdraw, cantonVars
  <1>4. ASSUME NEW v \in Workers, pc'[v] \in Committing PROVE FALSE
    <2>1. pc[v] \notin Committing /\ pc'[v] # pc[v]
      BY <1>2, <1>4
    <2>2. StartRequest(v) \/ Resume(v) \/ Fail(v)
      BY <2>1, OwnStep
    <2> QED BY <1>4, <2>1, <2>2, CommittingStep
  <1> QED BY <1>3, <1>4

\* StageInv is inductive.
LEMMA StageInductive ==
    ASSUME TypeOK, StageInv, [Next]_vars
    PROVE  StageInv'
  <1>1. Staged(row', alloc') /\ WorkersStaged
    <2>1. CASE UNCHANGED <<pc, snap, row>>
      <3>1. Staged(row', alloc')
        BY <2>1, StagedKept DEF StageInv
      <3> QED BY <2>1, <3>1, StayStaged
    <2>2. CASE Accept
      <3>1. row \in Row /\ Staged(row, alloc')
        BY StagedKept DEF StageInv, TypeOK
      <3>2. Staged(row', alloc')
        BY <2>2, <3>1 DEF Accept, Put, Staged, Uncommitted, Row
      <3> QED BY <2>2, <3>2, StayStaged DEF Accept
    <2>3. ASSUME NEW w \in Workers, Fail(w)
          PROVE  Staged(row', alloc') /\ WorkersStaged
      <3>1. Staged(row', alloc')
        BY <2>3, StagedKept DEF StageInv, Fail, orderVars
      <3> QED BY <2>3, <3>1, ReturnStaged DEF Fail
    <2>4. ASSUME NEW w \in Workers, StartRequest(w) \/ Resume(w)
          PROVE  Staged(row', alloc') /\ WorkersStaged
      BY <2>4, CasStepsStaged, LocalStepsStaged, ContractStepsStaged DEF Resume
    <2>5. CASE UNCHANGED vars
      BY <2>1, <2>5 DEF vars
    <2>6. CASE UserLock \/ UserRetake \/ Chain
      BY <2>1, <2>6 DEF UserLock, UserRetake, Chain, orderVars
    <2> QED BY <2>2, <2>3, <2>4, <2>5, <2>6 DEF Next, Environment
  <1>2. row'.status \in Uncommitted =>
          alloc' = "none" /\ \A v \in Workers : pc'[v] \notin Committing
    BY UncommittedStep
  <1> QED BY <1>1, <1>2 DEF StageInv, WorkersStaged

\* StageInv holds throughout: the contract columns of the row and of every copy
\* agree with the Allocation, and lockCounter is nowhere while the order is
\* still uncommitted.
THEOREM StageInvariant == Spec => []StageInv
  <1>1. Init => StageInv
    BY DEF Init, OrderInit, CantonInit, StageInv, Staged, LabelStage,
       Committing, NewOrder
  <1>2. TypeOK /\ StageInv /\ [Next]_vars => StageInv'
    BY StageInductive
  <1> QED BY <1>1, <1>2, TypeCorrect, PTL DEF Spec

\* SettledStays: no stale write, late retake or sweep moves an order out of
\* main_claimed, refunded or cancelled.
THEOREM SettledOrdersStay == Spec => SettledStays
  <1>1. TypeOK /\ StageInv /\ [Next]_vars =>
          [row.status \in {"main_claimed", "refunded", "cancelled"}
             => row'.status = row.status]_vars
    BY StatusMoves DEF StatusStep, Uncommitted
  <1> QED BY <1>1, TypeCorrect, StageInvariant, PTL DEF Spec, SettledStays

\* CancelledUnfunded: a cancelled order never had CBTC committed to it.
THEOREM CancelledCostsNothing == Spec => []CancelledUnfunded
  <1>1. StageInv => CancelledUnfunded
    BY DEF StageInv, CancelledUnfunded, Uncommitted
  <1> QED BY <1>1, StageInvariant, PTL

-----------------------------------------------------------------------------
(* CounterLockedFunded: a counter_locked row has CBTC behind it.  The      *)
(* hypothesis ~Cleanup is needed: the cleanup route withdraws an Allocation*)
(* whose row has not been written yet (README.md section 3).               *)

\* Only the cleanup route withdraws an Allocation.
LEMMA WithdrawnStep ==
    ASSUME TypeOK, NeverWithdrawn, ~Cleanup, [Next]_vars
    PROVE  NeverWithdrawn'
  <1>1. alloc' # "withdrawn"
    <2>1. ASSUME NEW w \in Workers PROVE ~CuWithdraw(w)
      BY DEF NeverWithdrawn, CuWithdraw
    <2> QED BY <2>1, CantonFrame DEF NeverWithdrawn, LcAlloc, AllocRejected,
       LcCreate, ClSubmit, ClaimRejected, RcSubmit, RefundRejected, Allocate,
       CreateHtlcLock, HtlcClaim, HtlcRefund, cantonVars
  <1>2. ASSUME NEW v \in Workers, pc'[v] \in {"cuCheck", "cuWithdraw"}
        PROVE  FALSE
    <2> USE DEF Return, PutIfStatus, Proceed, TypeOK
    <2>1. pc[v] \notin {"cuCheck", "cuWithdraw"}
      BY DEF NeverWithdrawn
    <2>2. StartRequest(v) \/ Resume(v) \/ Fail(v)
      BY <1>2, <2>1, OwnStep
    <2>3. CASE Fail(v) \/ StartRequest(v)
      BY <1>2, <2>3 DEF Fail, StartRequest, CancelStart, RmlStart, LcStart,
         LcBranch, ClStart, DmStart, RtStart, RcStart, ExStart, RfStart,
         CuStart
    <2>4. CASE \/ CancelCas(v) \/ RmlBegin(v) \/ RmlVerify(v) \/ RmlRollback(v)
               \/ RmlCommit(v) \/ LcBegin(v) \/ LcVerify(v) \/ LcAlloc(v)
               \/ LcPersist(v) \/ LcCreate(v) \/ LcCommit(v) \/ ClVerify(v)
      BY <1>2, <2>4 DEF CancelCas, RmlBegin, RmlVerify, RmlRollback, RmlCommit,
         LcBegin, LcBranch, LcVerify, LcAlloc, AllocRejected, LcPersist,
         LcCreate, LcCommit, ClVerify
    <2>5. CASE \/ ClSubmit(v) \/ ClDuplicate(v) \/ ClCommit(v) \/ DmClaim(v)
               \/ DmRecord(v) \/ DmCommit(v) \/ RtCas(v) \/ RcBegin(v)
               \/ RcSubmit(v) \/ RcRollback(v) \/ RcCommit(v)
      BY <1>2, <2>5 DEF ClSubmit, ClaimRejected, ClDuplicate, ClCommit,
         DmClaim, DmRecord, DmCommit, RtCas, RcBegin, RcSubmit, RefundRejected,
         RcRollback, RcCommit
    <2>6. CASE ExRead(v) \/ ExRecover(v) \/ ExCancel(v) \/ RfCas(v)
      BY <1>2, <2>6 DEF ExRead, ExRecover, ExCancel, RfCas
    <2>7. CASE CuCheck(v) \/ CuWithdraw(v)
      BY <2>1, <2>7 DEF CuCheck, CuWithdraw
    <2> QED BY <2>2, <2>3, <2>4, <2>5, <2>6, <2>7 DEF Resume
  <1> QED BY <1>1, <1>2 DEF NeverWithdrawn

\* Without the cleanup route a counter_locked row is backed by the Allocation,
\* or by what its HtlcLock has made of it.
THEOREM CounterLegIsReal ==
    ASSUME ~Cleanup PROVE Spec => []CounterLockedFunded
  <1>1. Init => NeverWithdrawn
    BY DEF Init, OrderInit, CantonInit, NeverWithdrawn
  <1>2. TypeOK /\ NeverWithdrawn /\ [Next]_vars => NeverWithdrawn'
    BY WithdrawnStep
  <1>3. TypeOK /\ StageInv /\ NeverWithdrawn => CounterLockedFunded
    BY DEF TypeOK, CantonTypeOK, AllocState, StageInv, Staged, NeverWithdrawn,
       CounterLockedFunded
  <1> QED BY <1>1, <1>2, <1>3, TypeCorrect, StageInvariant, PTL DEF Spec

-----------------------------------------------------------------------------
(* ImplementsSwap: on a chain without reorgs every step of a forward swap  *)
(* is a step of CrossChainSwap, or changes neither asset.                  *)

\* A step that moves the Allocation leaves the escrow alone.
LEMMA AllocMoves ==
    ASSUME [Next]_vars, alloc' # alloc
    PROVE  /\ UNCHANGED <<slot, events>>
           /\ \/ alloc = "none" /\ alloc' = "locked"
              \/ alloc = "locked" /\ alloc' \in {"executed", "refunded", "withdrawn"}
  <1>1. PICK w \in Workers : \/ LcAlloc(w) \/ LcCreate(w) \/ ClSubmit(w)
                             \/ RcSubmit(w) \/ CuWithdraw(w)
    BY CantonFrame DEF cantonVars
  <1>2. UNCHANGED <<slot, events>>
    BY <1>1 DEF LcAlloc, LcCreate, ClSubmit, RcSubmit, CuWithdraw, chainVars,
       escrowVars
  <1>3. \/ alloc = "none" /\ alloc' = "locked"
        \/ alloc = "locked" /\ alloc' \in {"executed", "refunded", "withdrawn"}
    BY <1>1 DEF LcAlloc, AllocRejected, LcCreate, ClSubmit, ClaimRejected,
       RcSubmit, RefundRejected, CuWithdraw, Allocate, CreateHtlcLock,
       HtlcClaim, HtlcRefund, AllocationWithdraw, cantonVars
  <1> QED BY <1>2, <1>3

LEMMA SwapStep ==
    ASSUME ~Reorgs, TypeOK, EvidenceInv, CoverInv, [Next]_vars
    PROVE  [Swap!Next]_<<wbtcView, cbtcView>>
  <1>1. alloc \in AllocState /\ WbtcAmount \in Nat \ {0} /\ slot.amount \in Nat
    BY OrderAssumption DEF TypeOK, CantonTypeOK, EscrowTypeOK, Slot,
       EvidenceInv
  <1>2. CASE alloc' # alloc
    <2>1. UNCHANGED <<slot, events>> /\ wbtcView' = wbtcView
      BY <1>2, AllocMoves DEF wbtcView
    <2>2. Backed /\ "Claimed" \notin events => wbtcView = "escrow"
      BY <1>1 DEF Backed, wbtcView
    <2>3. alloc # "executed" => "Claimed" \notin events
      BY DEF EvidenceInv, WbtcAfterCbtc
    <2>4. CASE alloc = "none" /\ alloc' = "locked"
      <3>1. wbtcView = "escrow"
        BY <2>2, <2>3, <2>4, ReserveStep
      <3>2. cbtcView = "free" /\ cbtcView' = "locked"
        BY <2>4 DEF cbtcView
      <3> QED BY <2>1, <3>1, <3>2 DEF Swap!Next, Swap!Reserve
    <2>5. CASE alloc = "locked" /\ alloc' = "executed"
      <3>1. wbtcView = "escrow"
        BY <2>2, <2>3, <2>5, ReleaseStep
      <3>2. cbtcView = "locked" /\ cbtcView' = "delivered"
        BY <2>5 DEF cbtcView
      <3> QED BY <2>1, <3>1, <3>2 DEF Swap!Next, Swap!Release
    <2>6. CASE alloc = "locked" /\ alloc' \in {"refunded", "withdrawn"}
      <3>1. cbtcView = "locked" /\ cbtcView' = "returned"
        BY <2>6 DEF cbtcView
      <3> QED BY <2>1, <3>1 DEF Swap!Next, Swap!Reclaim
    <2> QED BY <1>2, <2>4, <2>5, <2>6, AllocMoves
  <1>3. CASE alloc' = alloc
    <2>1. cbtcView' = cbtcView
      BY <1>3 DEF cbtcView
    <2>2. CASE UserLock
      <3>1. wbtcView = "owner" /\ wbtcView' \in {"escrow", "owner"}
        BY <2>2 DEF UserLock, Lock, wbtcView
      <3> QED BY <2>1, <3>1 DEF Swap!Next, Swap!Deposit
    <2>3. CASE UserRetake
      <3>1. \/ wbtcView' = wbtcView
            \/ wbtcView = "escrow" /\ wbtcView' = "owner"
        BY <2>3 DEF UserRetake, Retake, Emptied, wbtcView, TypeOK,
           EscrowTypeOK, Slot
      <3> QED BY <2>1, <3>1 DEF Swap!Next, Swap!Return
    <2>4. ASSUME NEW w \in Workers, DmClaim(w)
          PROVE  [Swap!Next]_<<wbtcView, cbtcView>>
      <3>1. cbtcView = "delivered"
        BY <2>4 DEF DmClaim, EvidenceInv, LabelEvidence, cbtcView
      <3>2. \/ wbtcView' = wbtcView
            \/ wbtcView = "escrow" /\ wbtcView' = "settled"
        BY <2>4 DEF DmClaim, Claim, wbtcView, chainVars, escrowVars
      <3> QED BY <2>1, <3>1, <3>2 DEF Swap!Next, Swap!Collect
    <2>5. CASE Chain \/ UNCHANGED chainVars
      <3>1. UNCHANGED <<slot, events>>
        BY <2>5 DEF Chain, Tick, Finalize, chainVars, escrowVars
      <3>2. wbtcView' = wbtcView
        BY <3>1 DEF wbtcView
      <3> QED BY <2>1, <3>2
    <2> QED BY <2>2, <2>3, <2>4, <2>5, EscrowFrame
  <1> QED BY <1>2, <1>3

\* ImplementsSwap: the managed forward swap, with every stale copy, crash,
\* retry and late call, implements the abstract swap of two assets.
THEOREM ForwardImplementsSwap ==
    ASSUME ~Reorgs PROVE Spec => ImplementsSwap
  <1>1. Init => Swap!Init
    BY DEF Init, EscrowInit, CantonInit, wbtcView, cbtcView, Swap!Init
  <1>2. TypeOK /\ EvidenceInv /\ CoverInv /\ [Next]_vars
          => [Swap!Next]_<<wbtcView, cbtcView>>
    BY SwapStep
  <1> QED BY <1>1, <1>2, TypeCorrect, EvidenceInvariant, CoverInvariant, PTL
          DEF Spec, Swap!Spec, ImplementsSwap

-----------------------------------------------------------------------------
(* RecordedReleaseCovered: with reorgs, but one lock of the hash.          *)

\* The lock transactions the chain knows, and what a step does to them.
ChainFinal ==
    /\ finalTxs \subseteq 1..lockTxs
    /\ slot.amount # 0 => slot.tx \in 1..lockTxs

LEMMA FinalOnlyGrows ==
    ASSUME TypeOK, ChainFinal, [Next]_vars
    PROVE  finalTxs \subseteq finalTxs' /\ ChainFinal'
  <1> USE EscrowAssumption DEF TypeOK, EscrowTypeOK, Slot, ChainFinal, Emptied
  <1>1. CASE UserLock
    BY <1>1 DEF UserLock, Lock
  <1>2. CASE UserRetake
    BY <1>2 DEF UserRetake, Retake
  <1>3. CASE Tick
    BY <1>3 DEF Tick, escrowVars
  <1>4. CASE Finalize
    BY <1>4 DEF Finalize
  <1>5. CASE Reorg
    BY <1>5 DEF Reorg
  <1>6. ASSUME NEW w \in Workers, DmClaim(w)
        PROVE  finalTxs \subseteq finalTxs' /\ ChainFinal'
    BY <1>6 DEF DmClaim, Claim, chainVars, escrowVars
  <1>7. CASE UNCHANGED chainVars
    BY <1>7 DEF chainVars, escrowVars
  <1> QED BY <1>1, <1>2, <1>3, <1>4, <1>5, <1>6, <1>7, EscrowFrame DEF Chain

LEMMA RecordedKept ==
    ASSUME finalTxs \subseteq finalTxs', NEW o, RecordedFinal(o, finalTxs)
    PROVE  RecordedFinal(o, finalTxs')
  BY DEF RecordedFinal

\* The workers' part of FinalityInv, after a step.
WorkersFinal ==
    \A v \in Workers : pc'[v] \notin Unchecked => RecordedFinal(snap'[v], finalTxs')

\* A worker that moves on with a copy whose transaction has been checked, or to
\* where it will be.
LEMMA ProceedFinal ==
    ASSUME TypeOK, FinalityInv, finalTxs \subseteq finalTxs', NEW w \in Workers,
           NEW l, NEW o, Proceed(w, l, o),
           l \notin Unchecked => RecordedFinal(o, finalTxs')
    PROVE  WorkersFinal
  <1> SUFFICES ASSUME NEW v \in Workers, pc'[v] \notin Unchecked
               PROVE  RecordedFinal(snap'[v], finalTxs')
    BY DEF WorkersFinal
  <1>1. CASE v = w
    <2>1. snap'[v] = o /\ pc'[v] = l
      BY <1>1 DEF Proceed, TypeOK
    <2> QED BY <2>1
  <1>2. CASE v # w
    <2>1. snap'[v] = snap[v] /\ pc'[v] = pc[v]
      BY <1>2 DEF Proceed, TypeOK
    <2>2. RecordedFinal(snap[v], finalTxs)
      BY <2>1 DEF FinalityInv
    <2> QED BY <2>1, <2>2, RecordedKept
  <1> QED BY <1>1, <1>2

LEMMA ReturnFinal ==
    ASSUME TypeOK, FinalityInv, finalTxs \subseteq finalTxs', NEW w \in Workers,
           Return(w)
    PROVE  WorkersFinal
  <1>1. RecordedFinal(NewOrder, finalTxs')
    BY DEF RecordedFinal, NewOrder
  <1> QED BY <1>1, ProceedFinal DEF Return

\* putIfStatus with such a copy.
LEMMA PutIfStatusFinal ==
    ASSUME TypeOK, FinalityInv, finalTxs \subseteq finalTxs', NEW w \in Workers,
           NEW o, NEW expected, NEW next, PutIfStatus(w, o, expected, next),
           RecordedFinal(o, finalTxs')
    PROVE  RecordedFinal(row', finalTxs') /\ WorkersFinal
  <1>1. CASE row.status = expected
    <2>1. row' = o /\ (Proceed(w, next, o) \/ Return(w))
      BY <1>1 DEF PutIfStatus, Put
    <2> QED BY <2>1, ProceedFinal, ReturnFinal
  <1>2. CASE row.status # expected
    <2>1. row' = row /\ Return(w)
      BY <1>2 DEF PutIfStatus, orderVars
    <2>2. RecordedFinal(row', finalTxs')
      BY <2>1, RecordedKept DEF FinalityInv
    <2> QED BY <2>1, <2>2, ReturnFinal
  <1> QED BY <1>1, <1>2

\* The handler steps that end in a compare-and-set.
LEMMA CasStepsFinal ==
    ASSUME TypeOK, FinalityInv, finalTxs \subseteq finalTxs', NEW w \in Workers,
           \/ CancelCas(w) \/ RmlRollback(w) \/ RmlCommit(w) \/ LcPersist(w)
           \/ LcCommit(w) \/ ClCommit(w) \/ DmCommit(w) \/ RtCas(w)
           \/ RcBegin(w) \/ RcRollback(w) \/ RcCommit(w) \/ ExRecover(w)
           \/ ExCancel(w) \/ RfCas(w)
    PROVE  RecordedFinal(row', finalTxs') /\ WorkersFinal
  <1>1. CASE RmlRollback(w)
    <2> DEFINE o == [snap[w] EXCEPT !.status = "accepted", !.mainLockTx = 0]
    <2>1. RecordedFinal(o, finalTxs')
      BY DEF RecordedFinal, TypeOK, Row
    <2>2. PutIfStatus(w, o, "main_locking", "idle")
      BY <1>1 DEF RmlRollback
    <2> HIDE DEF o
    <2> QED BY <2>1, <2>2, PutIfStatusFinal
  <1>2. CASE ~RmlRollback(w)
    <2>1. pc[w] \notin Unchecked
      BY <1>2 DEF Unchecked, CancelCas, RmlCommit, LcPersist, LcCommit,
         ClCommit, DmCommit, RtCas, RcBegin, RcRollback, RcCommit, ExRecover,
         ExCancel, RfCas
    <2>2. RecordedFinal(snap[w], finalTxs') /\ snap[w] \in Row
      BY <2>1, RecordedKept DEF FinalityInv, TypeOK
    <2>3. ASSUME NEW o, o.mainLockTx = snap[w].mainLockTx, NEW expected, NEW next,
                 PutIfStatus(w, o, expected, next)
          PROVE  RecordedFinal(row', finalTxs') /\ WorkersFinal
      <3>1. RecordedFinal(o, finalTxs')
        BY <2>2, <2>3 DEF RecordedFinal
      <3> QED BY <2>3, <3>1, PutIfStatusFinal
    <2>4. CASE RtCas(w)
      <3> DEFINE o == [snap[w] EXCEPT !.mainClaimTx = "retake"]
                 q == [o EXCEPT !.status = IF @ = "counter_claimed" THEN "failed"
                                                                    ELSE "refunded"]
      <3>1. /\ o.mainLockTx = snap[w].mainLockTx
            /\ q.mainLockTx = snap[w].mainLockTx
        BY <2>2 DEF Row
      <3>2. \/ PutIfStatus(w, o, "counter_locked", "rtRefund")
            \/ PutIfStatus(w, q, o.status, "idle")
        BY <2>4 DEF RtCas
      <3> HIDE DEF o, q
      <3> QED BY <2>3, <3>1, <3>2
    <2>5. CASE ~RtCas(w)
      <3>1. \E o, expected, next : /\ PutIfStatus(w, o, expected, next)
                                   /\ o.mainLockTx = snap[w].mainLockTx
        <4>1. \A s : [snap[w] EXCEPT !.status = s].mainLockTx = snap[w].mainLockTx
          BY <2>2 DEF Row
        <4>2. /\ [snap[w] EXCEPT !.status = "counter_claimed",
                                 !.revealedPreimage = TRUE,
                                 !.counterClaimUpdateId = "claim"].mainLockTx
                   = snap[w].mainLockTx
              /\ [snap[w] EXCEPT !.status = "main_claimed",
                                 !.mainClaimTx = "claim"].mainLockTx
                   = snap[w].mainLockTx
              /\ [snap[w] EXCEPT !.status = "refunded",
                                 !.counterClaimUpdateId = "refund"].mainLockTx
                   = snap[w].mainLockTx
          BY <2>2 DEF Row
        <4>3. CASE \/ CancelCas(w) \/ RmlCommit(w) \/ LcCommit(w) \/ RcBegin(w)
                   \/ RcRollback(w) \/ ExRecover(w) \/ ExCancel(w)
          BY <4>1, <4>3, Zenon DEF CancelCas, RmlCommit, LcCommit, RcBegin,
             RcRollback, ExRecover, ExCancel
        <4>4. CASE LcPersist(w) \/ RfCas(w)
          BY <4>4, Zenon DEF LcPersist, RfCas
        <4>5. CASE ClCommit(w) \/ DmCommit(w) \/ RcCommit(w)
          BY <4>2, <4>5, Zenon DEF ClCommit, DmCommit, RcCommit
        <4> QED BY <1>2, <2>5, <4>3, <4>4, <4>5
      <3> QED BY <2>3, <3>1
    <2> QED BY <2>4, <2>5
  <1> QED BY <1>1, <1>2

\* The steps that read, decide, give up, or move a contract: they write no
\* transaction into the row, and only verifyEvmLock lets one pass that
\* recordMainLock was posted.
LEMMA OtherStepsFinal ==
    ASSUME TypeOK, FinalityInv, finalTxs \subseteq finalTxs', NEW w \in Workers,
           \/ StartRequest(w)
           \/ RmlVerify(w) \/ LcVerify(w) \/ ClVerify(w) \/ ClDuplicate(w)
           \/ DmRecord(w) \/ ExRead(w) \/ CuCheck(w) \/ RmlBegin(w) \/ LcBegin(w)
           \/ LcAlloc(w) \/ LcCreate(w) \/ ClSubmit(w) \/ DmClaim(w)
           \/ RcSubmit(w) \/ CuWithdraw(w)
    PROVE  RecordedFinal(row', finalTxs') /\ WorkersFinal
  <1>1. /\ snap[w] \in Row /\ row \in Row
        /\ RecordedFinal(row, finalTxs')
        /\ pc[w] \notin Unchecked => RecordedFinal(snap[w], finalTxs')
        /\ RecordedFinal(NewOrder, finalTxs')
    BY RecordedKept DEF FinalityInv, TypeOK, RecordedFinal, NewOrder
  <1>2. ASSUME NEW l, NEW o, Proceed(w, l, o), row' = row,
               \/ l \in Unchecked
               \/ o.mainLockTx = row.mainLockTx
               \/ o.mainLockTx = 0
               \/ pc[w] \notin Unchecked /\ o.mainLockTx = snap[w].mainLockTx
        PROVE  RecordedFinal(row', finalTxs') /\ WorkersFinal
    <2>1. l \notin Unchecked => RecordedFinal(o, finalTxs')
      BY <1>1, <1>2 DEF RecordedFinal
    <2> QED BY <1>1, <1>2, <2>1, ProceedFinal
  <1>3. Return(w) => Proceed(w, "idle", NewOrder) /\ NewOrder.mainLockTx = 0
    BY DEF Return, NewOrder
  <1>4. CASE StartRequest(w)
    <2>1. row' = row
      BY <1>4 DEF StartRequest, CancelStart, RmlStart, LcStart, ClStart, DmStart,
         RtStart, RcStart, ExStart, RfStart, CuStart, orderVars
    <2>2. CASE RfStart(w)
      <3> DEFINE o == [row EXCEPT !.status = "main_claimed",
                                  !.mainClaimTx = IF @ = "none" THEN "claim" ELSE @]
      <3>1. o.mainLockTx = row.mainLockTx /\ Proceed(w, "rfCas", o)
        BY <1>1, <2>2 DEF RfStart, Row
      <3> HIDE DEF o
      <3> QED BY <1>2, <2>1, <3>1
    <2>3. CASE \E tx \in 1..lockTxs : RmlStart(w, tx)
      <3>1. \E l \in Unchecked : \E o : Proceed(w, l, o)
        BY <2>3 DEF RmlStart, Unchecked
      <3> QED BY <1>2, <2>1, <3>1
    <2>4. CASE CuStart(w) \/ RcStart(w)
      BY <1>2, <1>3, <2>1, <2>4 DEF CuStart, RcStart, Return, NewOrder
    <2>5. CASE \/ CancelStart(w) \/ LcStart(w) \/ ClStart(w) \/ DmStart(w)
               \/ RtStart(w) \/ ExStart(w)
      <3>1. \E l : Proceed(w, l, row)
        BY <2>5 DEF CancelStart, LcStart, ClStart, DmStart, RtStart, ExStart
      <3> QED BY <1>2, <2>1, <3>1
    <2> QED BY <1>4, <2>2, <2>3, <2>4, <2>5 DEF StartRequest
  <1>5. CASE RmlVerify(w)
    <2>1. row' = row /\ UNCHANGED finalTxs
      BY <1>5 DEF RmlVerify, orderVars, chainVars, escrowVars
    <2>2. \/ Proceed(w, "rmlRollback", snap[w])
          \/ VerifyEvmLock(snap[w]) /\ Proceed(w, "rmlCommit", snap[w])
      BY <1>5 DEF RmlVerify
    <2>3. VerifyEvmLock(snap[w]) => RecordedFinal(snap[w], finalTxs')
      BY <2>1 DEF VerifyEvmLock, RecordedFinal
    <2>4. "rmlRollback" \in Unchecked
      BY DEF Unchecked
    <2> QED BY <1>1, <2>1, <2>2, <2>3, <2>4, ProceedFinal
  <1>6. CASE RmlBegin(w)
    <2> DEFINE o == [snap[w] EXCEPT !.status = "main_locking", !.mainLockTx = 0]
    <2>1. o.mainLockTx = 0 /\ (row' = row \/ row' = o)
      BY <1>1, <1>6 DEF RmlBegin, Put, orderVars, Row
    <2>2. RecordedFinal(row', finalTxs')
      <3> HIDE DEF o
      <3> QED BY <1>1, <2>1 DEF RecordedFinal
    <2>3. Return(w) \/ \E q : Proceed(w, "rmlVerify", q)
      BY <1>6 DEF RmlBegin
    <2>4. "rmlVerify" \in Unchecked
      BY DEF Unchecked
    <2> QED BY <2>2, <2>3, <2>4, ProceedFinal, ReturnFinal
  <1>7. CASE LcBegin(w)
    <2> DEFINE o == [snap[w] EXCEPT !.status = "counter_locking"]
    <2>1. /\ o.mainLockTx = snap[w].mainLockTx
          /\ pc[w] \notin Unchecked
      BY <1>1, <1>7 DEF LcBegin, Unchecked, Row
    <2>2. \/ row' = o /\ Proceed(w, LcBranch(o), o)
          \/ row' = row /\ (Return(w) \/ Proceed(w, LcBranch(row), row))
      BY <1>7 DEF LcBegin, Put, orderVars
    <2> HIDE DEF o
    <2>3. RecordedFinal(o, finalTxs')
      BY <1>1, <2>1 DEF RecordedFinal
    <2> QED BY <1>1, <2>2, <2>3, ProceedFinal, ReturnFinal
  <1>8. CASE LcAlloc(w) \/ LcCreate(w)
    <2>1. row' = row /\ pc[w] \notin Unchecked
      BY <1>8 DEF LcAlloc, LcCreate, orderVars, Unchecked
    <2>2. /\ [snap[w] EXCEPT !.allocationCid = TRUE].mainLockTx = snap[w].mainLockTx
          /\ \A i : [snap[w] EXCEPT !.htlcCid = i].mainLockTx = snap[w].mainLockTx
      BY <1>1 DEF Row
    <2>3. \/ Return(w)
          \/ \E l, o : Proceed(w, l, o) /\ o.mainLockTx = snap[w].mainLockTx
      BY <1>8, <2>2, Zenon DEF LcAlloc, AllocRejected, LcCreate
    <2> QED BY <1>2, <1>3, <2>1, <2>3
  <1>9. CASE \/ LcVerify(w) \/ ClVerify(w) \/ ExRead(w) \/ ClSubmit(w)
             \/ DmClaim(w) \/ RcSubmit(w)
    <2>1. row' = row /\ pc[w] \notin Unchecked
      BY <1>9 DEF LcVerify, ClVerify, ExRead, ClSubmit, DmClaim, RcSubmit,
         orderVars, Unchecked
    <2>2. Return(w) \/ \E l : Proceed(w, l, snap[w])
      BY <1>9 DEF LcVerify, ClVerify, ExRead, ClSubmit, ClaimRejected, DmClaim,
         RcSubmit, RefundRejected
    <2> QED BY <1>2, <1>3, <2>1, <2>2
  <1>10. CASE ClDuplicate(w) \/ DmRecord(w) \/ CuCheck(w) \/ CuWithdraw(w)
    <2>1. row' = row
      BY <1>10 DEF ClDuplicate, DmRecord, CuCheck, CuWithdraw, orderVars
    <2>2. Return(w) \/ \E l : Proceed(w, l, row) \/ Proceed(w, l, NewOrder)
      BY <1>10 DEF ClDuplicate, DmRecord, CuCheck, CuWithdraw
    <2> QED BY <1>2, <1>3, <2>1, <2>2 DEF NewOrder
  <1> QED BY <1>4, <1>5, <1>6, <1>7, <1>8, <1>9, <1>10

\* FinalityInv is inductive.
LEMMA FinalityInductive ==
    ASSUME TypeOK, FinalityInv, [Next]_vars
    PROVE  FinalityInv'
  <1>1. finalTxs \subseteq finalTxs' /\ ChainFinal'
    BY FinalOnlyGrows DEF FinalityInv, ChainFinal
  <1>2. RecordedFinal(row', finalTxs') /\ WorkersFinal
    <2>1. CASE UNCHANGED <<pc, snap>> /\ row'.mainLockTx = row.mainLockTx
      BY <1>1, <2>1 DEF FinalityInv, RecordedFinal, WorkersFinal
    <2>2. CASE Accept
      <3>1. row'.mainLockTx = row.mainLockTx
        BY <2>2 DEF Accept, Put, TypeOK, Row
      <3> QED BY <2>1, <2>2, <3>1 DEF Accept
    <2>3. ASSUME NEW w \in Workers, Fail(w)
          PROVE  RecordedFinal(row', finalTxs') /\ WorkersFinal
      <3>1. RecordedFinal(row', finalTxs')
        BY <1>1, <2>3, RecordedKept DEF FinalityInv, Fail, orderVars
      <3> QED BY <1>1, <2>3, <3>1, ReturnFinal DEF Fail
    <2>4. ASSUME NEW w \in Workers, StartRequest(w) \/ Resume(w)
          PROVE  RecordedFinal(row', finalTxs') /\ WorkersFinal
      BY <1>1, <2>4, CasStepsFinal, OtherStepsFinal DEF Resume
    <2>5. CASE UNCHANGED vars
      BY <2>1, <2>5 DEF vars
    <2>6. CASE UserLock \/ UserRetake \/ Chain
      BY <2>1, <2>6 DEF UserLock, UserRetake, Chain, orderVars
    <2> QED BY <2>2, <2>3, <2>4, <2>5, <2>6 DEF Next, Environment
  <1> QED BY <1>1, <1>2 DEF FinalityInv, ChainFinal, WorkersFinal

\* FinalityInv holds throughout, with reorgs and any number of locks: a row
\* never names a lock transaction that is not final.
THEOREM RecordedLockIsFinal == Spec => []FinalityInv
  <1>1. Init => FinalityInv
    BY DEF Init, EscrowInit, OrderInit, FinalityInv, RecordedFinal, NewOrder
  <1>2. TypeOK /\ FinalityInv /\ [Next]_vars => FinalityInv'
    BY FinalityInductive
  <1> QED BY <1>1, <1>2, TypeCorrect, PTL DEF Spec

\* The deposit a claim has been checked against stays secured, or is dropped
\* before any lock is final.
LEMMA ReorgCoverInductive ==
    ASSUME TypeOK, EvidenceInv, FinalityInv, ReorgCoverInv, [Next]_vars,
           TypeOK', lockTxs' <= 1
    PROVE  ReorgCoverInv'
  <1> DEFINE Dropped == slot.amount = 0 /\ finalTxs = {}
  <1>1. lockTxs \in Nat /\ lockTxs' \in Nat /\ ChainFinal
    BY EscrowAssumption DEF TypeOK, EscrowTypeOK, FinalityInv, ChainFinal
  <1>2. ASSUME lockTxs # 0, Secured \/ Dropped
        PROVE  lockTxs' # 0 /\ (Secured \/ Dropped)'
    <2> USE <1>1, <1>2, OrderAssumption DEF TypeOK, EscrowTypeOK, Slot, ChainFinal
    <2>1. CASE UserLock
      BY <2>1 DEF UserLock, Lock
    <2>2. CASE Reorg /\ Secured /\ alloc # "executed" /\ now < UserTimelock - BindTol
      <3>1. slot.tx = 1 /\ slot.tx \notin finalTxs /\ lockTxs = 1
        BY <2>2 DEF Reorg
      <3>2. Dropped' /\ lockTxs' = lockTxs
        BY <2>2, <3>1 DEF Reorg, Emptied
      <3> QED BY <3>2
    <2>3. CASE alloc = "executed"
      <3>1. alloc' = "executed"
        BY <2>3, LedgerOnlyGrows DEF LedgerGrows
      <3>2. lockTxs' # 0
        BY EscrowFrame DEF UserLock, Lock, UserRetake, Retake, Chain, Tick,
           Finalize, Reorg, DmClaim, Claim, chainVars, escrowVars
      <3> QED BY <3>1, <3>2 DEF Secured
    <2>4. CASE UserRetake /\ alloc # "executed"
      BY <2>4, ForwardAssumption DEF UserRetake, Retake, Secured, Backed
    <2>5. CASE Chain /\ ~Reorg
      BY <2>5, ForwardAssumption DEF Chain, Tick, Finalize, Secured, Backed,
         escrowVars, cantonVars
    <2>6. CASE Reorg /\ now >= UserTimelock - BindTol
      BY <2>6 DEF Reorg, Secured
    <2>7. CASE Reorg /\ Dropped
      BY <2>7 DEF Reorg
    <2>8. ASSUME NEW w \in Workers, DmClaim(w), alloc # "executed" PROVE FALSE
      BY <2>8 DEF DmClaim, EvidenceInv, LabelEvidence
    <2>9. CASE UNCHANGED chainVars /\ alloc # "executed"
      BY <2>9 DEF chainVars, escrowVars, Secured, Backed
    <2> QED BY <2>1, <2>2, <2>3, <2>4, <2>5, <2>6, <2>7, <2>8, <2>9,
               EscrowFrame, ForwardAssumption DEF Chain
  <1>3. ASSUME NEW v \in Workers, pc'[v] = "clSubmit"
        PROVE  lockTxs' # 0 /\ (Secured \/ Dropped)'
    <2>1. CASE pc[v] = "clSubmit"
      BY <1>2, <2>1 DEF ReorgCoverInv
    <2>2. CASE pc[v] # "clSubmit"
      <3>1. StartRequest(v) \/ Resume(v) \/ Fail(v)
        BY <1>3, <2>2, OwnStep
      <3>2. LcVerify(v) \/ ClVerify(v)
        BY <1>3, <3>1, CheckedStep
      <3>3. VerifyEvmLock(snap[v])
        BY <1>3, <2>2, <3>2 DEF LcVerify, ClVerify, Return, Proceed, TypeOK
      <3>4. Secured /\ slot.amount # 0
        BY <3>3, VerifiedIsSecured, OrderAssumption
           DEF VerifyEvmLock, EvmLockSafeForReveal, TypeOK, EscrowTypeOK, Slot
      <3>5. lockTxs # 0
        BY <1>1, <3>4 DEF ChainFinal
      <3> QED BY <1>2, <3>4, <3>5
    <2> QED BY <2>1, <2>2
  <1> QED BY <1>3 DEF ReorgCoverInv

\* RecordedReleaseCovered, with blocks dropped at any time.  The hypothesis that
\* the hash is locked once is needed: verifyEvmLock waits for the recorded
\* transaction, which need not be the one that fills the slot (README.md
\* section 3).
THEOREM RecordedReleaseIsCovered ==
    Spec /\ [](lockTxs <= 1) => RecordedReleaseCovered
  <1>1. Init => ReorgCoverInv
    BY DEF Init, OrderInit, ReorgCoverInv
  <1>2. /\ TypeOK /\ EvidenceInv /\ FinalityInv /\ ReorgCoverInv /\ [Next]_vars
        /\ TypeOK' /\ (lockTxs <= 1)'
        => ReorgCoverInv'
    BY ReorgCoverInductive
  <1>3. /\ TypeOK /\ EvidenceInv /\ FinalityInv /\ ReorgCoverInv /\ [Next]_vars
        => [row.mainLockTx # 0 => ReleaseCovered]_vars
    <2> SUFFICES ASSUME TypeOK, EvidenceInv, FinalityInv, ReorgCoverInv, [Next]_vars,
                        row.mainLockTx # 0, alloc = "locked", alloc' = "executed"
                 PROVE  Backed /\ slot.unlockTime - now >= Margin
      BY DEF ReleaseCovered
    <2>1. PICK w \in Workers : ClSubmit(w)
      BY CantonFrame DEF LcAlloc, AllocRejected, LcCreate, RcSubmit,
         RefundRejected, CuWithdraw, Allocate, CreateHtlcLock, HtlcRefund,
         AllocationWithdraw, cantonVars
    <2>2. PICK lt \in LedgerTime : HtlcClaim(snap[w].htlcCid, lt)
      BY <2>1 DEF ClSubmit, ClaimRejected, cantonVars
    <2>3. now + Margin < UserTimelock - BindTol
      BY <2>2, OrderAssumption, ForwardAssumption, LadderAssumption
         DEF HtlcClaim, LedgerTime, ForwardLadder, TypeOK, EscrowTypeOK
    <2>4. finalTxs # {}
      BY DEF FinalityInv, RecordedFinal
    <2>5. Secured
      BY <2>1, <2>4 DEF ClSubmit, ReorgCoverInv
    <2> QED BY <2>3, <2>5, OrderAssumption, ForwardAssumption
            DEF Secured, TypeOK, EscrowTypeOK, Slot
  <1> QED BY <1>1, <1>2, <1>3, TypeCorrect, EvidenceInvariant,
             RecordedLockIsFinal, PTL DEF Spec, RecordedReleaseCovered
=============================================================================
