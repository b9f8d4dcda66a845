------------------------- MODULE MintProcessorProofs -------------------------
(***************************************************************************)
(* The mint processor for any number of holdings and overlapping runs, any *)
(* lease and claim times, and any number of faults.                        *)
(*                                                                         *)
(* Neither property is inductive.  LeaseInv adds that until some run has   *)
(* outlived its lease the runs are one at a time; OfferInv where the offer *)
(* of a holding is known; DeliveryInv which holdings a run still takes for *)
(* undelivered.                                                            *)
(***************************************************************************)
EXTENDS MintProcessor, TLAPS

-----------------------------------------------------------------------------
(* Types.                                                                  *)

\* Where a run stands says which of its fields mean something.
WellPlaced(x) ==
    /\ x.pc \in {"idle", "scan", "pick"} <=> x.at = NoMint
    /\ x.pc \in {"persist", "accept", "told"} => x.offer \in Offer
    /\ x.pc = "idle" => x.todo = {}

Placed == \A r \in Runs : WellPlaced(run[r])

\* One run moves, the others stay where they are.
LEMMA RunPut ==
    ASSUME TypeOK, Placed, NEW r \in Runs, NEW new \in Run, WellPlaced(new),
           run' = [run EXCEPT ![r] = new]
    PROVE  run' \in [Runs -> Run] /\ Placed'
BY DEF TypeOK, Placed

LEMMA IdleType == Idle \in Run /\ WellPlaced(Idle)
BY MintAssumption DEF Idle, Run, NoRow, Row, Status, Place, WellPlaced

LEMMA LeaveType ==
    ASSUME TypeOK, Placed, NEW r \in Runs, Leave(r)
    PROVE  run' \in [Runs -> Run] /\ Placed'
<1> DEFINE new == [run[r] EXCEPT !.pc = "pick", !.at = NoMint, !.seen = NoRow,
                                 !.offer = 0, !.age = 0]
<1>0. run[r] \in Run /\ NoRow \in Row /\ 0 \in 0..StaleTTL
  BY MintAssumption DEF TypeOK, NoRow, Row, Status
<1>1. new \in Run /\ WellPlaced(new)
  BY <1>0 DEF Run, Place, WellPlaced
<1>2. run' = [run EXCEPT ![r] = new]
  BY DEF Leave
<1> QED BY <1>1, <1>2, RunPut

\* A run that has its holding goes on to a place that asks no more of it.
LEMMA GotoType ==
    ASSUME TypeOK, Placed, NEW r \in Runs, run[r].at \in Mints,
           NEW pc \in Place \ {"idle", "scan", "pick"},
           pc \in {"persist", "accept", "told"} => run[r].offer \in Offer,
           Goto(r, pc)
    PROVE  run' \in [Runs -> Run] /\ Placed'
<1> DEFINE new == [run[r] EXCEPT !.pc = pc]
<1>1. new \in Run /\ WellPlaced(new)
  BY MintAssumption DEF TypeOK, Run, Place, WellPlaced
<1>2. run' = [run EXCEPT ![r] = new]
  BY DEF Goto
<1> QED BY <1>1, <1>2, RunPut

\* What an update of a row leaves behind is a row.
LEMMA UpdateType ==
    ASSUME TypeOK, NEW h \in Mints, NEW new \in Row, NEW a \in 0..StaleTTL,
           Update(h, new, a)
    PROVE  row' \in [Mints -> Row] /\ age' \in [Mints -> 0..StaleTTL]
<1>1. 0 \in 0..StaleTTL
  BY MintAssumption
<1>2. CASE UNCHANGED <<row, age>>
  BY <1>2 DEF TypeOK
<1>3. CASE /\ row' = [row EXCEPT ![h] = new]
           /\ age' = [age EXCEPT ![h] = IF new.st = "processing" THEN a ELSE 0]
  <2>1. row' \in [Mints -> Row]
    BY <1>3 DEF TypeOK
  <2>2. (IF new.st = "processing" THEN a ELSE 0) \in 0..StaleTTL
    BY <1>1
  <2>3. age' \in [Mints -> 0..StaleTTL]
    BY <1>3, <2>2 DEF TypeOK
  <2> QED BY <2>1, <2>3
<1> QED BY <1>2, <1>3 DEF Update

LEMMA SetStatusType ==
    ASSUME TypeOK, NEW h \in Mints, NEW st \in Status, SetStatus(h, st)
    PROVE  row' \in [Mints -> Row] /\ age' \in [Mints -> 0..StaleTTL]
<1>1. [row[h] EXCEPT !.st = st] \in Row
  BY DEF TypeOK, Row
<1>2. 0 \in 0..StaleTTL
  BY MintAssumption
<1> QED BY <1>1, <1>2, UpdateType DEF SetStatus

LEMMA MetadataType ==
    ASSUME TypeOK, NEW h \in Mints, NEW seen \in Row, WriteMetadata(h, seen)
    PROVE  row' \in [Mints -> Row] /\ age' \in [Mints -> 0..StaleTTL]
<1>1. CASE Insert(h)
  <2>1. [row[h] EXCEPT !.st = "pending"] \in Row
    BY DEF TypeOK, Row, Status
  <2> QED BY <1>1, <2>1 DEF Insert, TypeOK
<1>2. CASE UNCHANGED <<row, age>>
  BY <1>2 DEF TypeOK
<1>3. CASE SetStatus(h, row[h].st)
  <2>1. row[h].st \in Status
    BY DEF TypeOK, Row
  <2> QED BY <1>3, <2>1, SetStatusType
<1> QED BY <1>1, <1>2, <1>3 DEF WriteMetadata

\* The type invariant and the meaning of the places, step by step.
LEMMA RunStepType ==
    ASSUME TypeOK, Placed, NEW r \in Runs, RunStep(r)
    PROVE  TypeOK' /\ Placed'
<1> DEFINE Rest ==
      /\ lease' \in 0..LeaseTTL
      /\ offers' \in [Mints -> [Offer -> {"none", "open", "accepted", "lapsed"}]]
      /\ known' \subseteq Mints
      /\ orphan' \in [Mints -> SUBSET Offer]
      /\ untold' \subseteq Mints
      /\ overrun' \in BOOLEAN
      /\ fails' \in 0..MaxFails
<1>0. /\ run[r] \in Run /\ run[r].at \in Mints \cup {NoMint} /\ run[r].seen \in Row
      /\ run[r].todo \subseteq Mints
      /\ run[r].offer \in {0} \cup Offer /\ run[r].age \in 0..StaleTTL
      /\ WellPlaced(run[r])
  BY DEF TypeOK, Run, Placed
<1>h. run[r].pc \notin {"idle", "scan", "pick"} => run[r].at \in Mints
  BY <1>0, MintAssumption DEF WellPlaced
<1>f. fails' \in 0..MaxFails
  <2>1. Works \/ Fails
    BY DEF RunStep, Unlock, Scan, ReadRow, Resolve, GiveUp, Claim, Stamp, MakeOffer,
           Persist, Accept, WriteFailed, WriteTransferred, Lost
  <2> QED BY <2>1, MintAssumption DEF Works, Fails, TypeOK
<1>k. known' = known /\ overrun' = overrun
  BY DEF RunStep, Unlock, Scan, ReadRow, Resolve, GiveUp, Claim, Stamp, MakeOffer,
     Persist, Accept, WriteFailed, WriteTransferred, ledgerVars
<1>1. CASE Unlock(r)
  <2>1. run' \in [Runs -> Run] /\ Placed'
    BY <1>1, IdleType, RunPut DEF Unlock
  <2> QED BY <1>1, <1>f, <2>1, MintAssumption DEF Unlock, TypeOK, ledgerVars
<1>2. CASE Scan(r)
  <2> DEFINE new == [run[r] EXCEPT !.pc = "pick", !.todo = {h \in Mints : ~Delivered(h)}]
             bad == [run[r] EXCEPT !.pc = "pick"]
  <2>1. /\ new \in Run /\ WellPlaced(new)
        /\ bad \in Run /\ WellPlaced(bad)
    BY <1>0, <1>2 DEF Scan, Run, Place, WellPlaced
  <2>2. run' = [run EXCEPT ![r] = new] \/ run' = [run EXCEPT ![r] = bad]
    BY <1>2 DEF Scan, Goto
  <2>3. run' \in [Runs -> Run] /\ Placed'
    BY <2>1, <2>2, RunPut
  <2> QED BY <1>2, <1>f, <2>3 DEF Scan, TypeOK, ledgerVars
<1>3. CASE ReadRow(r)
  <2>0. PICK h \in run[r].todo : \E copy \in {row[h], NoRow} :
          /\ IF copy = row[h] THEN Works /\ UNCHANGED orphan
             ELSE Fails /\ orphan' = [orphan EXCEPT ![h] = @ \cup ({row[h].offer} \ {0})]
          /\ run' = [run EXCEPT ![r] =
               IF copy.st = "transferred" THEN Past(r, h) ELSE Taken(r, h, copy)]
    BY <1>3 DEF ReadRow
  <2>1. PICK copy \in {row[h], NoRow} :
          /\ orphan' \in {orphan, [orphan EXCEPT ![h] = @ \cup ({row[h].offer} \ {0})]}
          /\ \/ run' = [run EXCEPT ![r] = Past(r, h)]
             \/ run' = [run EXCEPT ![r] = Taken(r, h, copy)]
    BY <2>0
  <2>2. h \in Mints /\ row[h] \in Row /\ copy \in Row /\ run[r].pc = "pick"
    BY <1>0, <1>3 DEF ReadRow, TypeOK, NoRow, Row, Status
  <2>3. /\ Past(r, h) \in Run /\ WellPlaced(Past(r, h))
        /\ Taken(r, h, copy) \in Run /\ WellPlaced(Taken(r, h, copy))
    <3>1. h # NoMint /\ run[r].todo \ {h} \in SUBSET Mints
      BY <1>0, <2>2, MintAssumption
    <3> QED BY <1>0, <2>2, <3>1 DEF Past, Taken, Run, Place, WellPlaced
  <2>6. run' \in [Runs -> Run] /\ Placed'
    BY <2>1, <2>3, RunPut
  <2>5. orphan' \in [Mints -> SUBSET Offer]
    BY <2>1, <2>2 DEF TypeOK, Row
  <2> QED BY <1>3, <1>f, <2>5, <2>6 DEF ReadRow, TypeOK
<1>4. CASE Resolve(r)
  <2>1. run[r].at \in Mints
    BY <1>4, <1>h DEF Resolve
  <2>2. row' \in [Mints -> Row] /\ age' \in [Mints -> 0..StaleTTL]
    BY <1>0, <1>4, <2>1, MetadataType DEF Resolve, Lost, TypeOK
  <2>3. Leave(r) \/ Goto(r, "claim") \/ Goto(r, "unresolved")
    BY <1>4 DEF Resolve
  <2>4. run' \in [Runs -> Run] /\ Placed'
    BY <2>1, <2>3, LeaveType, GotoType DEF Place
  <2> QED BY <1>4, <1>f, <2>2, <2>4 DEF Resolve, TypeOK, ledgerVars
<1>5. CASE GiveUp(r) \/ WriteFailed(r)
  <2>1. run[r].at \in Mints
    BY <1>5, <1>h DEF GiveUp, WriteFailed
  <2>2. row' \in [Mints -> Row] /\ age' \in [Mints -> 0..StaleTTL]
    BY <1>5, <2>1, SetStatusType DEF GiveUp, WriteFailed, Lost, TypeOK, Status
  <2>3. run' \in [Runs -> Run] /\ Placed'
    BY <1>5, LeaveType DEF GiveUp, WriteFailed
  <2> QED BY <1>5, <1>f, <2>2, <2>3 DEF GiveUp, WriteFailed, TypeOK, ledgerVars
<1>6. CASE Claim(r)
  <2>1. run[r].at \in Mints
    BY <1>6, <1>h DEF Claim
  <2>2. row' \in [Mints -> Row] /\ age' \in [Mints -> 0..StaleTTL]
    BY <1>6, <2>1, SetStatusType DEF Claim, TypeOK, Status
  <2>3. run' \in [Runs -> Run] /\ Placed'
    BY <1>6, <2>1, LeaveType, GotoType DEF Claim, Place
  <2> QED BY <1>6, <1>f, <2>2, <2>3 DEF Claim, TypeOK, ledgerVars
<1>7. CASE Stamp(r)
  <2> DEFINE new == [run[r] EXCEPT !.offer = run[r].seen.offer, !.age = 0,
                       !.pc = IF run[r].seen.offer = 0 THEN "offer" ELSE "accept"]
  <2>1. run[r].at \in Mints
    BY <1>7, <1>h DEF Stamp
  <2>2. row' \in [Mints -> Row] /\ age' \in [Mints -> 0..StaleTTL]
    BY <1>0, <1>7, <2>1, UpdateType DEF Stamp, Lost, TypeOK
  <2>0. /\ run[r].seen.offer \in {0} \cup Offer /\ 0 \in 0..StaleTTL
        /\ run[r].at # NoMint
    BY <1>0, <2>1, MintAssumption DEF Row
  <2>3. new \in Run /\ WellPlaced(new)
    <3>1. CASE run[r].seen.offer = 0
      BY <1>0, <2>0, <3>1 DEF Run, Place, WellPlaced
    <3>2. CASE run[r].seen.offer # 0
      BY <1>0, <2>0, <3>2 DEF Run, Place, WellPlaced
    <3> QED BY <3>1, <3>2
  <2>4. run' \in [Runs -> Run] /\ Placed'
    BY <1>7, <2>3, RunPut DEF Stamp
  <2> QED BY <1>7, <1>f, <2>2, <2>4 DEF Stamp, TypeOK, ledgerVars
<1>8. CASE MakeOffer(r)
  <2>1. run[r].at \in Mints
    BY <1>8, <1>h DEF MakeOffer
  <2>2. CASE Goto(r, "failed") /\ UNCHANGED <<offers, orphan>>
    <3>1. run' \in [Runs -> Run] /\ Placed'
      BY <2>1, <2>2, GotoType DEF Place
    <3> QED BY <1>8, <1>f, <2>2, <3>1 DEF MakeOffer, TypeOK
  <2>3. ASSUME NEW n \in Offer,
               offers' = [offers EXCEPT ![run[r].at][n] = "open"],
               \/ /\ run' = [run EXCEPT ![r] = [run[r] EXCEPT !.pc = "persist", !.offer = n]]
                  /\ UNCHANGED orphan
               \/ /\ Goto(r, "failed")
                  /\ orphan' = [orphan EXCEPT ![run[r].at] = orphan[run[r].at] \cup {n}]
        PROVE  TypeOK' /\ Placed'
    <3> DEFINE new == [run[r] EXCEPT !.pc = "persist", !.offer = n]
    <3>1. new \in Run /\ WellPlaced(new)
      BY <1>0, <2>1, MintAssumption DEF Run, Place, WellPlaced
    <3>2. run' \in [Runs -> Run] /\ Placed'
      BY <2>1, <2>3, <3>1, RunPut, GotoType DEF Place
    <3>3. /\ offers' \in [Mints -> [Offer -> {"none", "open", "accepted", "lapsed"}]]
          /\ orphan' \in [Mints -> SUBSET Offer]
      <4> DEFINE S == {"none", "open", "accepted", "lapsed"}
      <4>1. offers \in [Mints -> [Offer -> S]] /\ offers[run[r].at] \in [Offer -> S]
        BY <2>1 DEF TypeOK
      <4>2. [offers[run[r].at] EXCEPT ![n] = "open"] \in [Offer -> S]
        BY <4>1
      <4>3. offers' = [offers EXCEPT ![run[r].at] = [offers[run[r].at] EXCEPT ![n] = "open"]]
        BY <2>3
      <4>4. offers' \in [Mints -> [Offer -> S]]
        BY <4>1, <4>2, <4>3
      <4>5. orphan' \in [Mints -> SUBSET Offer]
        BY <2>1, <2>3 DEF TypeOK
      <4> QED BY <4>4, <4>5
    <3> QED BY <1>8, <1>f, <3>2, <3>3 DEF MakeOffer, TypeOK
  <2> QED BY <1>8, <2>2, <2>3 DEF MakeOffer
<1>9. CASE Persist(r)
  <2>1. run[r].at \in Mints /\ run[r].offer \in Offer
    BY <1>0, <1>9, <1>h DEF WellPlaced, Persist
  <2>2. [st |-> "offer_created", offer |-> run[r].offer] \in Row /\ 0 \in 0..StaleTTL
    BY <2>1, MintAssumption DEF Row, Status
  <2>3. row' \in [Mints -> Row] /\ age' \in [Mints -> 0..StaleTTL]
    BY <1>0, <1>9, <2>1, <2>2, UpdateType DEF Persist, Lost, TypeOK
  <2>4. run' \in [Runs -> Run] /\ Placed'
    BY <1>9, <2>1, GotoType DEF Persist, Place
  <2>5. orphan' \in [Mints -> SUBSET Offer]
    BY <1>9, <2>1 DEF Persist, TypeOK
  <2> QED BY <1>9, <1>f, <2>3, <2>4, <2>5 DEF Persist, TypeOK
<1>10. CASE Accept(r)
  <2>1. run[r].at \in Mints /\ run[r].offer \in Offer
    BY <1>0, <1>10, <1>h DEF WellPlaced, Accept
  <2>2. run' \in [Runs -> Run] /\ Placed'
    BY <1>10, <2>1, GotoType DEF Accept, Place
  <2>3. offers' \in [Mints -> [Offer -> {"none", "open", "accepted", "lapsed"}]]
    <3> DEFINE S == {"none", "open", "accepted", "lapsed"}
               h == run[r].at
               n == run[r].offer
    <3>1. offers \in [Mints -> [Offer -> S]] /\ offers[h] \in [Offer -> S]
      BY <2>1 DEF TypeOK
    <3>2. [offers[h] EXCEPT ![n] = "accepted"] \in [Offer -> S]
      BY <2>1, <3>1
    <3>3. \/ UNCHANGED offers
          \/ offers' = [offers EXCEPT ![h] = [offers[h] EXCEPT ![n] = "accepted"]]
      BY <1>10 DEF Accept
    <3> QED BY <2>1, <3>1, <3>2, <3>3
  <2>4. untold' \subseteq Mints
    BY <1>10, <2>1 DEF Accept, TypeOK
  <2> QED BY <1>10, <1>f, <2>2, <2>3, <2>4 DEF Accept, TypeOK
<1>11. CASE WriteTransferred(r)
  <2>1. run[r].at \in Mints
    BY <1>11, <1>h DEF WriteTransferred
  <2>2. row' \in [Mints -> Row] /\ age' \in [Mints -> 0..StaleTTL]
    BY <1>11, <2>1, SetStatusType DEF WriteTransferred, Lost, TypeOK, Status
  <2>3. run' \in [Runs -> Run] /\ Placed'
    BY <1>11, LeaveType DEF WriteTransferred
  <2> QED BY <1>11, <1>f, <2>1, <2>2, <2>3 DEF WriteTransferred, TypeOK
<1> QED BY <1>1, <1>2, <1>3, <1>4, <1>5, <1>6, <1>7, <1>8, <1>9, <1>10, <1>11
        DEF RunStep

LEMMA TypeStep ==
    ASSUME TypeOK, Placed, [Next]_vars
    PROVE  TypeOK' /\ Placed'
<1>1. ASSUME NEW r \in Runs, TryLock(r)
      PROVE  TypeOK' /\ Placed'
  <2> DEFINE new == [Idle EXCEPT !.pc = "scan", !.left = LeaseTTL]
  <2>0. LeaseTTL \in 0..LeaseTTL /\ NoRow \in Row /\ 0 \in 0..StaleTTL
    BY MintAssumption DEF NoRow, Row, Status
  <2>1. new \in Run /\ WellPlaced(new)
    BY <2>0 DEF Run, Place, Idle, WellPlaced
  <2>2. run' \in [Runs -> Run] /\ Placed'
    BY <1>1, <2>1, RunPut DEF TryLock, Begun, TypeOK, Placed
  <2> QED BY <1>1, <2>2, MintAssumption DEF TryLock, TypeOK, Works, Fails, ledgerVars
<1>2. ASSUME NEW r \in Runs, Die(r)
      PROVE  TypeOK' /\ Placed'
  <2>1. run' \in [Runs -> Run] /\ Placed'
    BY <1>2, IdleType, RunPut DEF Die
  <2>2. /\ run[r].pc \in {"persist", "told"} => run[r].at \in Mints
        /\ run[r].pc = "persist" => run[r].offer \in Offer
    BY MintAssumption DEF TypeOK, Run, Placed, WellPlaced
  <2>3. orphan' \in [Mints -> SUBSET Offer] /\ untold' \subseteq Mints
    BY <1>2, <2>2 DEF Die, TypeOK
  <2> QED BY <1>2, <2>1, <2>3, MintAssumption DEF Die, TypeOK, Fails
<1>3. CASE Tick
  <2>1. \A a \in 0..StaleTTL : Older(a) \in 0..StaleTTL
    BY MintAssumption DEF Older
  <2>2. \A n \in 0..LeaseTTL : Sooner(n) \in 0..LeaseTTL
    BY MintAssumption DEF Sooner
  <2> DEFINE older(r) == [run[r] EXCEPT !.left = Sooner(@),
                !.age = IF run[r].pc \in {"claim", "stamp"} THEN Older(@) ELSE 0]
  <2>0. 0 \in 0..StaleTTL
    BY MintAssumption
  <2>3. ASSUME NEW r \in Runs
        PROVE  older(r) \in Run /\ WellPlaced(older(r))
    <3>1. /\ run[r] \in Run /\ WellPlaced(run[r])
          /\ run[r].left \in 0..LeaseTTL /\ run[r].age \in 0..StaleTTL
      BY DEF TypeOK, Placed, Run
    <3>2. /\ Sooner(run[r].left) \in 0..LeaseTTL
          /\ (IF run[r].pc \in {"claim", "stamp"} THEN Older(run[r].age) ELSE 0) \in 0..StaleTTL
      BY <2>0, <2>1, <2>2, <3>1
    <3> HIDE DEF Sooner, Older
    <3> QED BY <3>1, <3>2 DEF Run, WellPlaced
  <2>5. run' = [r \in Runs |-> older(r)]
    BY <1>3 DEF Tick
  <2> HIDE DEF older
  <2>6. run' \in [Runs -> Run] /\ Placed'
    BY <2>3, <2>5 DEF Placed
  <2>7. age' \in [Mints -> 0..StaleTTL]
    <3>1. \A h \in Mints :
            (IF row[h].st = "processing" THEN Older(age[h]) ELSE 0) \in 0..StaleTTL
      BY <2>0, <2>1 DEF TypeOK
    <3> QED BY <1>3, <3>1 DEF Tick
  <2>8. lease' \in 0..LeaseTTL /\ overrun' \in BOOLEAN
    BY <1>3, <2>2 DEF Tick, TypeOK
  <2> QED BY <1>3, <2>6, <2>7, <2>8 DEF Tick, TypeOK
<1>4. ASSUME NEW h \in Mints, Lapse(h) \/ Register(h)
      PROVE  TypeOK' /\ Placed'
  BY <1>4 DEF Lapse, Register, TypeOK, Placed
<1>5. CASE UNCHANGED vars
  BY <1>5 DEF vars, TypeOK, Placed
<1> QED BY <1>1, <1>2, <1>3, <1>4, <1>5, RunStepType DEF Next

LEMMA TypeInit == Init => TypeOK /\ Placed
<1>1. NoRow \in Row
  BY DEF NoRow, Row, Status
<1>2. SUFFICES ASSUME Init
               PROVE  TypeOK /\ Placed
  OBVIOUS
<1>3. run \in [Runs -> Run] /\ Placed
  BY <1>2, IdleType DEF Init, Placed
<1>4. row \in [Mints -> Row] /\ age \in [Mints -> 0..StaleTTL]
  BY <1>1, <1>2, MintAssumption DEF Init
<1>5. lease \in 0..LeaseTTL /\ fails \in 0..MaxFails
  BY <1>2, MintAssumption DEF Init
<1>6. /\ offers \in [Mints -> [Offer -> {"none", "open", "accepted", "lapsed"}]]
      /\ orphan \in [Mints -> SUBSET Offer] /\ known \subseteq Mints
      /\ untold \subseteq Mints /\ overrun \in BOOLEAN
  BY <1>2 DEF Init
<1> QED BY <1>3, <1>4, <1>5, <1>6 DEF TypeOK

\* Rows, runs, offers and the lease stay well typed, for any constants.
THEOREM TypeCorrect == Spec => []TypeOK
<1>1. Spec => [](TypeOK /\ Placed)
  BY TypeInit, TypeStep, PTL DEF Spec
<1> QED BY <1>1, PTL

-----------------------------------------------------------------------------
(* One run at a time.                                                      *)

\* Until a run has outlived its lease, a run that is going on has the lease,
\* which has not run out.
LeaseInv ==
    ~overrun =>
        \A r \in Runs : Active(r) =>
            /\ run[r].left >= 1 /\ run[r].left = lease
            /\ \A s \in Runs : Active(s) => s = r

\* A run's step is the step of one run, and leaves its lease to it.
LEMMA OneMoves ==
    ASSUME TypeOK, NEW r \in Runs, TryLock(r) \/ RunStep(r) \/ Die(r)
    PROVE  /\ \A s \in Runs \ {r} : run'[s] = run[s]
           /\ overrun' = overrun
BY DEF TypeOK, TryLock, Begun, Die, RunStep, Unlock, Scan, ReadRow, Resolve, GiveUp, Claim,
       Stamp, MakeOffer, Persist, Accept, WriteFailed, WriteTransferred, Goto, Leave,
       ledgerVars

LEMMA ScanMoves ==
    ASSUME TypeOK, NEW r \in Runs, Scan(r)
    PROVE  run'[r].pc = "pick" /\ run'[r].at = run[r].at
<1>1. run[r] \in Run
  BY DEF TypeOK
<1>2. PICK t : run'[r] = [run[r] EXCEPT !.pc = "pick", !.todo = t]
  <2>1. CASE run' = [run EXCEPT ![r] =
                       [run[r] EXCEPT !.pc = "pick", !.todo = {h \in Mints : ~Delivered(h)}]]
    <3> DEFINE t == {h \in Mints : ~Delivered(h)}
    <3>1. run' = [run EXCEPT ![r] = [run[r] EXCEPT !.pc = "pick", !.todo = t]]
      BY <2>1
    <3> HIDE DEF t
    <3> QED BY <3>1 DEF TypeOK
  <2>2. CASE Goto(r, "pick")
    <3>1. run'[r] = [run[r] EXCEPT !.pc = "pick"]
      BY <2>2 DEF Goto, TypeOK
    <3>2. [run[r] EXCEPT !.pc = "pick"] = [run[r] EXCEPT !.pc = "pick", !.todo = run[r].todo]
      BY <1>1 DEF Run
    <3> QED BY <3>1, <3>2
  <2> QED BY <2>1, <2>2 DEF Scan
<1> QED BY <1>1, <1>2 DEF Run

LEMMA LeaseKept ==
    ASSUME TypeOK, NEW r \in Runs, RunStep(r)
    PROVE  /\ Active(r)
           /\ run'[r] = Idle \/ (run'[r].left = run[r].left /\ lease' = lease)
<1>1. run[r] \in Run
  BY DEF TypeOK
<1>2. Active(r)
  BY DEF Active, RunStep, Unlock, Scan, ReadRow, Resolve, GiveUp, Claim, Stamp, MakeOffer,
         Persist, Accept, WriteFailed, WriteTransferred
<1>3. CASE Unlock(r)
  BY <1>2, <1>3 DEF Unlock, TypeOK
<1>4. ASSUME NEW pc, Goto(r, pc)
      PROVE  run'[r].left = run[r].left
  BY <1>1, <1>4 DEF Goto, TypeOK, Run
<1>5. ASSUME Leave(r)
      PROVE  run'[r].left = run[r].left
  BY <1>1, <1>5 DEF Leave, TypeOK, Run
<1>6. CASE ReadRow(r)
  BY <1>1, <1>2, <1>6 DEF ReadRow, Past, Taken, TypeOK, Run
<1>7. CASE Scan(r)
  BY <1>1, <1>2, <1>4, <1>7 DEF Scan, TypeOK, Run
<1>8. CASE Stamp(r)
  BY <1>1, <1>2, <1>8 DEF Stamp, TypeOK, Run
<1>9. CASE MakeOffer(r)
  <2>1. \/ Goto(r, "failed")
        \/ \E n \in Offer : run' = [run EXCEPT ![r] = [run[r] EXCEPT !.pc = "persist", !.offer = n]]
    BY <1>9 DEF MakeOffer
  <2>2. ASSUME NEW n, run' = [run EXCEPT ![r] = [run[r] EXCEPT !.pc = "persist", !.offer = n]]
        PROVE  run'[r].left = run[r].left
    BY <1>1, <2>2 DEF TypeOK, Run
  <2> QED BY <1>2, <1>4, <1>9, <2>1, <2>2 DEF MakeOffer
<1> QED BY <1>2, <1>3, <1>4, <1>5, <1>6, <1>7, <1>8, <1>9
        DEF RunStep, Resolve, GiveUp, Claim, Persist, Accept, WriteFailed, WriteTransferred

LEMMA LeaseStep ==
    ASSUME TypeOK, LeaseInv, [Next]_vars
    PROVE  LeaseInv'
<1> USE DEF Active
<1>1. ASSUME NEW r \in Runs, TryLock(r)
      PROVE  LeaseInv'
  <2>1. ~overrun => \A s \in Runs : ~Active(s)
    BY <1>1, MintAssumption DEF LeaseInv, TryLock, TypeOK, Run
  <2>2. /\ \A s \in Runs \ {r} : run'[s] = run[s]
        /\ lease' = LeaseTTL /\ overrun' = overrun
        /\ run'[r].pc = "idle" \/ run'[r].left = LeaseTTL
    BY <1>1, OneMoves DEF TryLock, Begun, TypeOK, Idle, ledgerVars
  <2> QED BY <2>1, <2>2, MintAssumption DEF LeaseInv
<1>2. ASSUME NEW r \in Runs, RunStep(r)
      PROVE  LeaseInv'
  <2>1. /\ \A s \in Runs \ {r} : run'[s] = run[s]
        /\ overrun' = overrun /\ Active(r)
        /\ run'[r] = Idle \/ (run'[r].left = run[r].left /\ lease' = lease)
    BY <1>2, OneMoves, LeaseKept
  <2>2. Idle.pc = "idle"
    BY DEF Idle
  <2> QED BY <2>1, <2>2 DEF LeaseInv
<1>3. ASSUME NEW r \in Runs, Die(r)
      PROVE  LeaseInv'
  <2>1. /\ \A s \in Runs \ {r} : run'[s] = run[s]
        /\ overrun' = overrun /\ lease' = lease /\ run'[r].pc = "idle"
    BY <1>3, OneMoves DEF Die, TypeOK, Idle
  <2> QED BY <2>1 DEF LeaseInv
<1>4. CASE Tick
  <2>1. \A r \in Runs : /\ run'[r].pc = run[r].pc /\ run'[r].left = Sooner(run[r].left)
                        /\ run[r].left \in Nat
    <3> TAKE r \in Runs
    <3>1. run[r] \in Run /\ run[r].left \in Nat
      BY MintAssumption DEF TypeOK, Run
    <3>2. PICK a : run'[r] = [run[r] EXCEPT !.left = Sooner(run[r].left), !.age = a]
      BY <1>4 DEF Tick
    <3> HIDE DEF Sooner
    <3> QED BY <3>1, <3>2 DEF Run
  <2>2. ~overrun' => ~overrun /\ \A r \in Runs : Active(r) => ~(run[r].left <= 1)
    BY <1>4 DEF Tick
  <2>3. lease' = Sooner(lease)
    BY <1>4 DEF Tick
  <2> QED BY <2>1, <2>2, <2>3 DEF LeaseInv, Sooner
<1>5. CASE UNCHANGED <<run, lease, overrun>>
  BY <1>5 DEF LeaseInv
<1> QED BY <1>1, <1>2, <1>3, <1>4, <1>5 DEF Next, Lapse, Register, vars

-----------------------------------------------------------------------------
(* Rows do not go away.                                                    *)

\* A run that has claimed its holding has a row to write to.
Recorded ==
    \A r \in Runs :
        run[r].pc \in {"stamp", "offer", "persist", "accept", "told", "failed"} =>
            row[run[r].at].st # "none"

LEMMA StatusStays ==
    ASSUME TypeOK, NEW h \in Mints, NEW st \in Status \ {"none"},
           \/ SetStatus(h, st) \/ SetStatus(h, row[h].st) \/ Insert(h)
           \/ UNCHANGED <<row, age>>
    PROVE  \A m \in Mints : row[m].st # "none" => row'[m].st # "none"
BY DEF SetStatus, Update, Insert, TypeOK, Row

LEMMA RowsStay ==
    ASSUME TypeOK, Placed, NEW r \in Runs, RunStep(r)
    PROVE  \A m \in Mints : row[m].st # "none" => row'[m].st # "none"
<1>0. run[r].pc \notin {"idle", "scan", "pick"} => run[r].at \in Mints
  BY MintAssumption DEF TypeOK, Placed, WellPlaced, Run
<1>s. {"failed", "transferred", "processing"} \subseteq Status \ {"none"}
  BY DEF Status
<1>1. CASE Unlock(r) \/ Scan(r) \/ ReadRow(r) \/ MakeOffer(r) \/ Accept(r)
  BY <1>1 DEF Unlock, Scan, ReadRow, MakeOffer, Accept
<1>2. CASE Resolve(r)
  BY <1>0, <1>s, <1>2, StatusStays DEF Resolve, Lost, WriteMetadata
<1>3. CASE GiveUp(r) \/ WriteFailed(r) \/ WriteTransferred(r) \/ Claim(r)
  BY <1>0, <1>s, <1>3, StatusStays DEF GiveUp, WriteFailed, WriteTransferred, Claim, Lost
<1>4. CASE Stamp(r)
  BY <1>0, <1>4 DEF Stamp, Update, Lost, TypeOK
<1>5. CASE Persist(r)
  BY <1>0, <1>5 DEF Persist, Update, Lost, TypeOK
<1> QED BY <1>1, <1>2, <1>3, <1>4, <1>5 DEF RunStep

LEMMA RecordedStep ==
    ASSUME TypeOK, Placed, Recorded, [Next]_vars
    PROVE  Recorded'
<1> DEFINE Claimed == {"stamp", "offer", "persist", "accept", "told", "failed"}
<1>1. ASSUME NEW r \in Runs, TryLock(r) \/ Die(r)
      PROVE  Recorded'
  <2>1. /\ \A s \in Runs \ {r} : run'[s] = run[s]
        /\ row' = row /\ run'[r].pc \in {"idle", "scan"}
    <3>1. row' = row /\ \A s \in Runs \ {r} : run'[s] = run[s]
      BY <1>1, OneMoves DEF TryLock, Die
    <3>2. CASE TryLock(r)
      BY <3>2 DEF TryLock, Begun, TypeOK, Idle, Active
    <3>3. CASE Die(r)
      BY <3>3 DEF Die, TypeOK, Idle
    <3> QED BY <1>1, <3>1, <3>2, <3>3
  <2> QED BY <2>1 DEF Recorded
<1>2. ASSUME NEW r \in Runs, RunStep(r)
      PROVE  Recorded'
  <2>0. run[r] \in Run /\ (run[r].pc \notin {"idle", "scan", "pick"} => run[r].at \in Mints)
    BY MintAssumption DEF TypeOK, Placed, WellPlaced, Run
  <2>1. \A s \in Runs \ {r} : run'[s] = run[s]
    BY <1>2, OneMoves
  <2>g. ASSUME NEW pc, Goto(r, pc)
        PROVE  run'[r].pc = pc /\ run'[r].at = run[r].at
    BY <2>0, <2>g DEF Goto, TypeOK, Run
  <2>l. ASSUME Leave(r)
        PROVE  run'[r].pc = "pick"
    BY <2>0, <2>l DEF Leave, TypeOK, Run
  <2>2. \/ run'[r].pc \notin Claimed
        \/ /\ run'[r].at = run[r].at /\ run[r].at \in Mints
           /\ run[r].pc \in Claimed \/ row[run[r].at].st # "none"
    <3>1. CASE Unlock(r)
      BY <3>1 DEF Unlock, TypeOK, Idle
    <3>2. CASE Scan(r)
      BY <3>2, ScanMoves
    <3>3. CASE ReadRow(r)
      BY <2>0, <3>3 DEF ReadRow, Past, Taken, TypeOK, Run
    <3>4. CASE Resolve(r)
      BY <2>g, <2>l, <3>4 DEF Resolve
    <3>5. CASE GiveUp(r) \/ WriteFailed(r) \/ WriteTransferred(r)
      BY <2>l, <3>5 DEF GiveUp, WriteFailed, WriteTransferred
    <3>6. CASE Claim(r)
      BY <2>0, <2>g, <2>l, <3>6 DEF Claim, Claimable
    <3>7. CASE Stamp(r)
      BY <2>0, <3>7 DEF Stamp, TypeOK, Run
    <3>8. CASE MakeOffer(r)
      <4>1. \/ Goto(r, "failed")
            \/ \E n \in Offer :
                 run' = [run EXCEPT ![r] = [run[r] EXCEPT !.pc = "persist", !.offer = n]]
        BY <3>8 DEF MakeOffer
      <4>2. ASSUME NEW n,
                   run' = [run EXCEPT ![r] = [run[r] EXCEPT !.pc = "persist", !.offer = n]]
            PROVE  run'[r].at = run[r].at
        BY <2>0, <4>2 DEF TypeOK, Run
      <4> QED BY <2>0, <2>g, <3>8, <4>1, <4>2 DEF MakeOffer
    <3>9. CASE Persist(r) \/ Accept(r)
      BY <2>0, <2>g, <3>9 DEF Persist, Accept
    <3> QED BY <1>2, <3>1, <3>2, <3>3, <3>4, <3>5, <3>6, <3>7, <3>8, <3>9 DEF RunStep
  <2>3. \A s \in Runs : run[s].pc \in Claimed => run[s].at \in Mints
    BY MintAssumption DEF TypeOK, Placed, WellPlaced, Run
  <2> QED BY <1>2, <2>1, <2>2, <2>3, RowsStay DEF Recorded
<1>3. CASE Tick
  <2>1. ASSUME NEW r \in Runs
        PROVE  run'[r].pc = run[r].pc /\ run'[r].at = run[r].at
    <3>1. PICK a, b : run'[r] = [run[r] EXCEPT !.left = b, !.age = a]
      BY <1>3 DEF Tick
    <3> QED BY <3>1 DEF TypeOK, Run
  <2> QED BY <1>3, <2>1 DEF Tick, Recorded
<1>4. CASE UNCHANGED <<run, row>>
  BY <1>4 DEF Recorded
<1> QED BY <1>1, <1>2, <1>3, <1>4 DEF Next, Lapse, Register, vars

-----------------------------------------------------------------------------
(* One offer over a holding.                                               *)

\* No run can be making a second offer: an offer that its run recorded or is
\* about to record is the one on record, and a run without an offer has seen
\* that there is none but orphans.
OfferInv ==
    ~overrun =>
        /\ \A h \in Mints : \A n \in Offer \ orphan[h] : offers[h][n] # "none" =>
             \/ n = row[h].offer
             \/ \E r \in Runs : /\ run[r].at = h /\ run[r].pc = "persist"
                                /\ run[r].offer = n
        /\ \A r \in Runs : LET h == run[r].at IN
             /\ run[r].pc \in {"resolve", "claim", "stamp"} =>
                  \/ run[r].seen.offer = row[h].offer
                  \/ run[r].seen.offer = 0 /\ row[h].offer \in orphan[h]
             /\ run[r].pc \in {"offer", "persist"} =>
                  row[h].offer = 0 \/ row[h].offer \in orphan[h]

\* Only persistOffer writes an offer into a row.
LEMMA StatusKeepsOffer ==
    ASSUME TypeOK, NEW h \in Mints, NEW st,
           SetStatus(h, st) \/ Insert(h) \/ UNCHANGED <<row, age>>
    PROVE  \A m \in Mints : row'[m].offer = row[m].offer
BY DEF SetStatus, Update, Insert, TypeOK, Row

\* Until a run has outlived its lease, the others are idle.
LEMMA OthersIdle ==
    ASSUME TypeOK, Placed, LeaseInv, ~overrun, NEW r \in Runs, Active(r)
    PROVE  \A s \in Runs \ {r} : run[s].pc = "idle" /\ run[s].at = NoMint
BY DEF LeaseInv, Placed, WellPlaced, Active

\* A step that records nothing and makes no offer.
LEMMA OfferKept ==
    ASSUME TypeOK, Placed, LeaseInv, OfferInv, ~overrun, NEW r \in Runs, Active(r),
           \A s \in Runs \ {r} : run'[s] = run[s],
           \A m \in Mints : row'[m].offer = row[m].offer,
           \A m \in Mints : \A n \in Offer :
               offers'[m][n] # "none" => offers[m][n] # "none",
           UNCHANGED orphan, run[r].pc # "persist",
           \/ run'[r].pc \notin {"resolve", "claim", "stamp", "offer", "persist"}
           \/ /\ run[r].pc \in {"resolve", "claim", "stamp"}
              /\ run'[r].pc \in {"resolve", "claim", "stamp"}
              /\ run[r].at \in Mints
              /\ run'[r].at = run[r].at /\ run'[r].seen = run[r].seen
    PROVE  OfferInv'
<1>1. \A s \in Runs \ {r} : run'[s] = run[s] /\ run[s].pc = "idle"
  BY OthersIdle
<1>2. ASSUME NEW h \in Mints, NEW n \in Offer \ orphan'[h], offers'[h][n] # "none"
      PROVE  n = row'[h].offer
  BY <1>1, <1>2 DEF OfferInv
<1>3. ASSUME NEW s \in Runs
      PROVE  LET h == run'[s].at IN
             /\ run'[s].pc \in {"resolve", "claim", "stamp"} =>
                  \/ run'[s].seen.offer = row'[h].offer
                  \/ run'[s].seen.offer = 0 /\ row'[h].offer \in orphan'[h]
             /\ run'[s].pc \in {"offer", "persist"} =>
                  row'[h].offer = 0 \/ row'[h].offer \in orphan'[h]
  BY <1>1 DEF OfferInv
<1> QED BY <1>2, <1>3 DEF OfferInv

LEMMA OfferRunStep ==
    ASSUME TypeOK, Placed, Recorded, LeaseInv, OfferInv, ~overrun,
           NEW r \in Runs, RunStep(r)
    PROVE  OfferInv'
<1>0. /\ run[r] \in Run /\ WellPlaced(run[r]) /\ Active(r)
      /\ \A s \in Runs \ {r} : /\ run'[s] = run[s]
                               /\ run[s].pc = "idle" /\ run[s].at = NoMint
      /\ run[r].pc \notin {"idle", "scan", "pick"} => run[r].at \in Mints
  BY OneMoves, LeaseKept, OthersIdle, MintAssumption
     DEF TypeOK, Placed, WellPlaced, Run
<1>g. ASSUME NEW pc \in Place, Goto(r, pc)
      PROVE  /\ run'[r].pc = pc /\ run'[r].at = run[r].at
             /\ run'[r].seen = run[r].seen /\ run'[r].offer = run[r].offer
  BY <1>0, <1>g DEF Goto, TypeOK, Run
<1>l. ASSUME Leave(r)
      PROVE  run'[r].pc = "pick"
  BY <1>0, <1>l DEF Leave, TypeOK, Run
<1>1. CASE Unlock(r)
  <2>1. run'[r].pc = "idle"
    BY <1>1 DEF Unlock, TypeOK, Idle
  <2> QED BY <1>0, <1>1, <2>1, OfferKept DEF Unlock, ledgerVars
<1>2. CASE Scan(r)
  <2>1. run'[r].pc = "pick"
    BY <1>2, ScanMoves
  <2> QED BY <1>0, <1>2, <2>1, OfferKept DEF Scan, ledgerVars
<1>3. CASE Resolve(r)
  <2>1. \A m \in Mints : row'[m].offer = row[m].offer
    BY <1>0, <1>3, StatusKeepsOffer DEF Resolve, Lost, WriteMetadata
  <2>2. \/ run'[r].pc \in {"pick", "unresolved"}
        \/ run'[r].pc = "claim" /\ run'[r].at = run[r].at /\ run'[r].seen = run[r].seen
    BY <1>3, <1>g, <1>l DEF Resolve, Place
  <2> QED BY <1>0, <1>3, <2>1, <2>2, OfferKept DEF Resolve, ledgerVars
<1>4. CASE GiveUp(r) \/ WriteFailed(r) \/ WriteTransferred(r)
  <2>1. \A m \in Mints : row'[m].offer = row[m].offer
    BY <1>0, <1>4, StatusKeepsOffer DEF GiveUp, WriteFailed, WriteTransferred, Lost
  <2>2. run'[r].pc = "pick"
    BY <1>4, <1>l DEF GiveUp, WriteFailed, WriteTransferred
  <2> QED BY <1>0, <1>4, <2>1, <2>2, OfferKept
          DEF GiveUp, WriteFailed, WriteTransferred, ledgerVars
<1>5. CASE Claim(r)
  <2>1. \A m \in Mints : row'[m].offer = row[m].offer
    BY <1>0, <1>5, StatusKeepsOffer DEF Claim
  <2>2. \/ run'[r].pc = "pick"
        \/ run'[r].pc = "stamp" /\ run'[r].at = run[r].at /\ run'[r].seen = run[r].seen
    BY <1>5, <1>g, <1>l DEF Claim, Place
  <2> QED BY <1>0, <1>5, <2>1, <2>2, OfferKept DEF Claim, ledgerVars
<1>6. CASE Accept(r)
  <2>1. run'[r].pc \in {"told", "failed"}
    BY <1>6, <1>g DEF Accept, Place
  <2>2. \A m \in Mints : \A n \in Offer : offers'[m][n] # "none" => offers[m][n] # "none"
    BY <1>0, <1>6 DEF Accept, TypeOK
  <2> QED BY <1>0, <1>6, <2>1, <2>2, OfferKept DEF Accept
<1>7. CASE ReadRow(r)
  <2>1. PICK h \in run[r].todo : \E copy \in {row[h], NoRow} :
          /\ IF copy = row[h] THEN Works /\ UNCHANGED orphan
             ELSE Fails /\ orphan' = [orphan EXCEPT ![h] = @ \cup ({row[h].offer} \ {0})]
          /\ run' = [run EXCEPT ![r] =
               IF copy.st = "transferred" THEN Past(r, h) ELSE Taken(r, h, copy)]
    BY <1>7 DEF ReadRow
  <2>2. PICK copy \in {row[h], NoRow} :
          /\ \/ copy = row[h] /\ UNCHANGED orphan
             \/ copy = NoRow /\ orphan' = [orphan EXCEPT ![h] = @ \cup ({row[h].offer} \ {0})]
          /\ run' = [run EXCEPT ![r] = Past(r, h)] \/ run' = [run EXCEPT ![r] = Taken(r, h, copy)]
    BY <2>1
  <2>3. h \in Mints /\ row[h].offer \in {0} \cup Offer /\ run[r].pc = "pick"
    BY <1>0, <1>7 DEF ReadRow, TypeOK, Run, Row
  <2>4. \/ run'[r].pc = "pick"
        \/ run'[r].pc = "resolve" /\ run'[r].at = h /\ run'[r].seen = copy
    <3>1. CASE run' = [run EXCEPT ![r] = Past(r, h)]
      BY <1>0, <2>3, <3>1 DEF Past, TypeOK, Run
    <3>2. CASE run' = [run EXCEPT ![r] = Taken(r, h, copy)]
      BY <1>0, <3>2 DEF Taken, TypeOK, Run
    <3> QED BY <2>2, <3>1, <3>2
  <2>5. \A m \in Mints : orphan[m] \subseteq orphan'[m]
    BY <2>2, <2>3 DEF TypeOK
  <2>6. copy.offer = row[h].offer \/ (copy.offer = 0 /\ row[h].offer \in orphan'[h])
    BY <2>2, <2>3 DEF TypeOK, NoRow
  <2>7. row' = row /\ offers' = offers /\ overrun' = overrun
    BY <1>7 DEF ReadRow
  <2>8. ASSUME NEW m \in Mints, NEW n \in Offer \ orphan'[m], offers'[m][n] # "none"
        PROVE  n = row'[m].offer
    BY <1>0, <2>3, <2>5, <2>7, <2>8 DEF OfferInv
  <2>9. ASSUME NEW s \in Runs
        PROVE  LET k == run'[s].at IN
               /\ run'[s].pc \in {"resolve", "claim", "stamp"} =>
                    \/ run'[s].seen.offer = row'[k].offer
                    \/ run'[s].seen.offer = 0 /\ row'[k].offer \in orphan'[k]
               /\ run'[s].pc \in {"offer", "persist"} =>
                    row'[k].offer = 0 \/ row'[k].offer \in orphan'[k]
    <3>1. CASE s = r
      BY <2>4, <2>6, <2>7, <3>1
    <3>2. CASE s # r
      BY <1>0, <3>2
    <3> QED BY <3>1, <3>2
  <2> QED BY <2>8, <2>9 DEF OfferInv
<1>8. CASE Stamp(r)
  <2>1. row'[run[r].at].offer = row[run[r].at].offer /\ \A m \in Mints : row'[m].offer = row[m].offer
    BY <1>0, <1>8 DEF Stamp, Lost, Update, TypeOK
  <2>2. /\ run'[r].at = run[r].at
        /\ \/ run[r].seen.offer = 0 /\ run'[r].pc = "offer"
           \/ run'[r].pc = "accept"
    BY <1>0, <1>8 DEF Stamp, TypeOK, Run
  <2>3. run[r].pc = "stamp" /\ UNCHANGED <<offers, orphan, overrun>>
    BY <1>8 DEF Stamp, ledgerVars
  <2>4. ASSUME NEW m \in Mints, NEW n \in Offer \ orphan'[m], offers'[m][n] # "none"
        PROVE  n = row'[m].offer
    BY <1>0, <2>1, <2>3, <2>4 DEF OfferInv
  <2>5. ASSUME NEW s \in Runs
        PROVE  LET k == run'[s].at IN
               /\ run'[s].pc \in {"resolve", "claim", "stamp"} =>
                    \/ run'[s].seen.offer = row'[k].offer
                    \/ run'[s].seen.offer = 0 /\ row'[k].offer \in orphan'[k]
               /\ run'[s].pc \in {"offer", "persist"} =>
                    row'[k].offer = 0 \/ row'[k].offer \in orphan'[k]
    <3>1. CASE s = r
      BY <2>1, <2>2, <2>3, <3>1 DEF OfferInv
    <3>2. CASE s # r
      BY <1>0, <3>2
    <3> QED BY <3>1, <3>2
  <2> QED BY <2>4, <2>5 DEF OfferInv
<1>9. CASE MakeOffer(r)
  <2>1. CASE Goto(r, "failed") /\ UNCHANGED <<offers, orphan>>
    BY <1>0, <1>9, <1>g, <2>1, OfferKept DEF MakeOffer, Place
  <2>2. ASSUME NEW n \in Offer,
               offers' = [offers EXCEPT ![run[r].at][n] = "open"],
               Goto(r, "failed"),
               orphan' = [orphan EXCEPT ![run[r].at] = orphan[run[r].at] \cup {n}]
        PROVE  OfferInv'
    <3>1. run'[r].pc = "failed" /\ run[r].at \in Mints /\ run[r].pc = "offer"
          /\ row' = row /\ overrun' = overrun
      BY <1>0, <1>9, <1>g, <2>2 DEF MakeOffer, Place
    <3>2. \A m \in Mints : \A k \in Offer \ orphan'[m] :
            k \notin orphan[m] /\ offers'[m][k] = offers[m][k]
      BY <2>2, <3>1 DEF TypeOK
    <3>3. \A m \in Mints : \A k \in Offer \ orphan'[m] :
            offers'[m][k] # "none" => k = row'[m].offer
      BY <1>0, <3>1, <3>2 DEF OfferInv
    <3>4. \A s \in Runs : run'[s].pc \notin {"resolve", "claim", "stamp", "offer", "persist"}
      BY <1>0, <3>1
    <3> QED BY <3>3, <3>4 DEF OfferInv
  <2>3. ASSUME NEW n \in Offer,
               offers' = [offers EXCEPT ![run[r].at][n] = "open"],
               run' = [run EXCEPT ![r] = [run[r] EXCEPT !.pc = "persist", !.offer = n]],
               UNCHANGED orphan
        PROVE  OfferInv'
    <3>1. /\ run'[r].pc = "persist" /\ run'[r].at = run[r].at /\ run'[r].offer = n
          /\ run[r].at \in Mints /\ run[r].pc = "offer"
          /\ row' = row /\ overrun' = overrun
      BY <1>0, <1>9, <2>3 DEF MakeOffer, TypeOK, Run
    <3>2. \A m \in Mints : \A k \in Offer :
            offers'[m][k] = offers[m][k] \/ (m = run[r].at /\ k = n)
      BY <2>3, <3>1 DEF TypeOK
    <3>3. \A m \in Mints : \A k \in Offer \ orphan'[m] :
            offers'[m][k] # "none" => k = row'[m].offer \/ (m = run[r].at /\ k = n)
      BY <1>0, <2>3, <3>1, <3>2 DEF OfferInv
    <3>4. row'[run[r].at].offer = 0 \/ row'[run[r].at].offer \in orphan'[run[r].at]
      BY <2>3, <3>1 DEF OfferInv
    <3> QED BY <1>0, <3>1, <3>3, <3>4 DEF OfferInv
  <2> QED BY <1>9, <2>1, <2>2, <2>3 DEF MakeOffer
<1>10. CASE Persist(r)
  <2> DEFINE h == run[r].at
  <2>1. /\ run'[r].pc = "accept" /\ h \in Mints /\ run[r].pc = "persist"
        /\ run[r].offer \in Offer /\ offers' = offers /\ overrun' = overrun
    BY <1>0, <1>10, <1>g DEF Persist, Place, WellPlaced
  <2>2. \A m \in Mints : \A k \in Offer \ orphan[m] :
          offers[m][k] # "none" => \/ k = row[m].offer
                                   \/ m = h /\ k = run[r].offer
    BY <1>0, <2>1 DEF OfferInv
  <2>3. row[h].offer = 0 \/ row[h].offer \in orphan[h]
    BY <2>1 DEF OfferInv
  <2>4. \/ /\ UNCHANGED orphan
           /\ row' = [row EXCEPT ![h] = [st |-> "offer_created", offer |-> run[r].offer]]
        \/ /\ row' = row
           /\ orphan' = [orphan EXCEPT ![h] = orphan[h] \cup {run[r].offer}]
    BY <1>10, <2>1 DEF Persist, Update, Lost, Recorded
  <2>5. \A m \in Mints : \A k \in Offer \ orphan'[m] :
          offers'[m][k] # "none" => k = row'[m].offer
    <3>1. CASE /\ UNCHANGED orphan
               /\ row' = [row EXCEPT ![h] = [st |-> "offer_created", offer |-> run[r].offer]]
      <4>1. \A m \in Mints \ {h} : row'[m] = row[m]
        BY <3>1 DEF TypeOK
      <4>2. row'[h].offer = run[r].offer
        BY <2>1, <3>1 DEF TypeOK
      <4>3. 0 \notin Offer
        BY DEF Offer
      <4> HIDE DEF h
      <4> QED BY <2>1, <2>2, <2>3, <3>1, <4>1, <4>2, <4>3
    <3>2. CASE /\ row' = row
               /\ orphan' = [orphan EXCEPT ![h] = orphan[h] \cup {run[r].offer}]
      <4>1. \A m \in Mints : orphan[m] \subseteq orphan'[m]
        BY <2>1, <3>2 DEF TypeOK
      <4>2. run[r].offer \in orphan'[h]
        BY <2>1, <3>2 DEF TypeOK
      <4> HIDE DEF h
      <4> QED BY <2>1, <2>2, <3>2, <4>1, <4>2
    <3> QED BY <2>4, <3>1, <3>2
  <2>6. \A s \in Runs : run'[s].pc \notin {"resolve", "claim", "stamp", "offer", "persist"}
    BY <1>0, <2>1
  <2> QED BY <2>5, <2>6 DEF OfferInv
<1> QED BY <1>1, <1>2, <1>3, <1>4, <1>5, <1>6, <1>7, <1>8, <1>9, <1>10 DEF RunStep

LEMMA OfferStep ==
    ASSUME TypeOK, Placed, Recorded, LeaseInv, OfferInv, [Next]_vars
    PROVE  OfferInv'
<1>0. CASE overrun'
  BY <1>0 DEF OfferInv
<1> SUFFICES ASSUME ~overrun'
             PROVE  OfferInv'
  BY <1>0
<1>1. ASSUME NEW r \in Runs, TryLock(r)
      PROVE  OfferInv'
  <2>1. /\ \A s \in Runs \ {r} : run'[s] = run[s]
        /\ UNCHANGED <<row, offers, orphan, overrun>>
        /\ run'[r] = run[r] \/ run'[r].pc = "scan"
    BY <1>1, OneMoves DEF TryLock, Begun, TypeOK, Idle, ledgerVars
  <2>2. run[r].pc = "idle"
    BY <1>1 DEF TryLock, Active
  <2> QED BY <2>1, <2>2 DEF OfferInv
<1>2. ASSUME NEW r \in Runs, RunStep(r)
      PROVE  OfferInv'
  BY <1>2, OneMoves, OfferRunStep
<1>3. ASSUME NEW r \in Runs, Die(r)
      PROVE  OfferInv'
  <2>1. /\ \A s \in Runs \ {r} : run'[s] = run[s]
        /\ UNCHANGED <<row, offers, overrun>>
        /\ run'[r].pc = "idle"
    BY <1>3, OneMoves DEF Die, TypeOK, Idle
  <2>2. \A s \in Runs \ {r} : run[s].pc = "idle"
    BY <1>3, <2>1, OthersIdle DEF Die
  <2>3. /\ \A m \in Mints : orphan[m] \subseteq orphan'[m]
        /\ run[r].pc = "persist" /\ run[r].at \in Mints => run[r].offer \in orphan'[run[r].at]
    BY <1>3 DEF Die, TypeOK
  <2>4. \A m \in Mints : \A n \in Offer \ orphan'[m] :
          offers'[m][n] # "none" => n = row'[m].offer
    BY <2>1, <2>2, <2>3 DEF OfferInv
  <2> QED BY <2>1, <2>2, <2>4 DEF OfferInv
<1>4. CASE Tick
  <2>1. ASSUME NEW r \in Runs
        PROVE  /\ run'[r].pc = run[r].pc /\ run'[r].at = run[r].at
               /\ run'[r].seen = run[r].seen /\ run'[r].offer = run[r].offer
    <3>1. PICK a, b : run'[r] = [run[r] EXCEPT !.left = b, !.age = a]
      BY <1>4 DEF Tick
    <3> QED BY <3>1 DEF TypeOK, Run
  <2>2. ~overrun /\ UNCHANGED <<row, offers, orphan>>
    BY <1>4 DEF Tick
  <2> QED BY <2>1, <2>2 DEF OfferInv
<1>5. ASSUME NEW h \in Mints, Lapse(h)
      PROVE  OfferInv'
  <2>1. \A m \in Mints : \A n \in Offer : offers'[m][n] # "none" => offers[m][n] # "none"
    BY <1>5 DEF Lapse, TypeOK
  <2> QED BY <1>5, <2>1 DEF Lapse, OfferInv
<1>6. CASE UNCHANGED <<run, row, offers, orphan, overrun>>
  BY <1>6 DEF OfferInv
<1> QED BY <1>1, <1>2, <1>3, <1>4, <1>5, <1>6 DEF Next, Register, vars

\* With one run at a time, what OfferInv says of the offers of a holding leaves
\* room for one.
LEMMA OfferUnique ==
    ASSUME TypeOK, Placed, LeaseInv, OfferInv
    PROVE  OneOffer
<1> SUFFICES ASSUME ~overrun, NEW h \in Mints, NEW n \in Offer \ orphan[h],
                    NEW k \in Offer \ orphan[h],
                    offers[h][n] # "none", offers[h][k] # "none"
             PROVE  n = k
  BY DEF OneOffer
<1>1. ASSUME NEW r \in Runs, run[r].at = h, run[r].pc = "persist"
      PROVE  /\ row[h].offer \notin Offer \ orphan[h]
             /\ \A s \in Runs : run[s].pc = "persist" => s = r
  <2>1. row[h].offer = 0 \/ row[h].offer \in orphan[h]
    BY <1>1 DEF OfferInv
  <2>2. 0 \notin Offer
    BY DEF Offer
  <2> QED BY <1>1, <2>1, <2>2 DEF LeaseInv, Active
<1> QED BY <1>1 DEF OfferInv

MintInv == TypeOK /\ Placed /\ Recorded /\ LeaseInv /\ OfferInv

LEMMA MintInvariant == Spec => []MintInv
<1>1. Init => MintInv
  <2>1. Init => Recorded /\ LeaseInv /\ OfferInv
    BY DEF Init, Recorded, LeaseInv, OfferInv, Active, Idle
  <2> QED BY <2>1, TypeInit DEF MintInv
<1>2. MintInv /\ [Next]_vars => MintInv'
  BY TypeStep, RecordedStep, LeaseStep, OfferStep DEF MintInv
<1> QED BY <1>1, <1>2, PTL DEF Spec

\* The duplicate-offer guard holds as far as OneOffer says, for any number of
\* holdings, overlapping runs and faults.
THEOREM NoSecondOffer == Spec => []OneOffer
<1>1. MintInv => OneOffer
  BY OfferUnique DEF MintInv
<1> QED BY <1>1, MintInvariant, PTL

-----------------------------------------------------------------------------
(* What a row says of the delivery.                                        *)

\* Only a delivered holding is told of; and, with one run at a time, what the
\* run still takes for undelivered is undelivered, and a delivered holding is
\* on record, about to be, or untold.
DeliveryInv ==
    /\ \A h \in Mints : row[h].st = "transferred" => Delivered(h)
    /\ \A r \in Runs : run[r].pc = "told" => Delivered(run[r].at)
    /\ ~overrun =>
         /\ \A r \in Runs : \A h \in run[r].todo : ~Delivered(h) /\ h # run[r].at
         /\ \A r \in Runs : LET h == run[r].at IN
              h \in Mints /\ run[r].pc # "told" /\ Delivered(h) => h \in untold
         /\ \A h \in Mints : Delivered(h) =>
              \/ row[h].st = "transferred" \/ h \in untold
              \/ \E r \in Runs : run[r].at = h /\ run[r].pc = "told"

\* Offers are accepted by their run alone, and stay accepted.
LEMMA DeliveredBy ==
    ASSUME TypeOK, Placed, NEW r \in Runs, RunStep(r), NEW h \in Mints
    PROVE  /\ Delivered(h) => Delivered(h)'
           /\ Delivered(h)' /\ ~Delivered(h) =>
                /\ run[r].pc = "accept" /\ h = run[r].at
                /\ h \in untold' \/ run'[r].pc = "told"
<1>0. run[r] \in Run /\ WellPlaced(run[r])
      /\ (run[r].pc \notin {"idle", "scan", "pick"} => run[r].at \in Mints)
  BY MintAssumption DEF TypeOK, Placed, WellPlaced, Run
<1>1. CASE MakeOffer(r)
  <2>1. \A n \in Offer : offers'[h][n] = "accepted" <=> offers[h][n] = "accepted"
    <3>1. CASE UNCHANGED offers
      BY <3>1
    <3>2. ASSUME NEW k \in Offer, offers[run[r].at][k] = "none",
                 offers' = [offers EXCEPT ![run[r].at][k] = "open"]
          PROVE  \A n \in Offer : offers'[h][n] = "accepted" <=> offers[h][n] = "accepted"
      BY <3>2 DEF TypeOK
    <3> QED BY <1>1, <3>1, <3>2 DEF MakeOffer, Spare
  <2> QED BY <2>1 DEF Delivered
<1>2. CASE Accept(r)
  <2>1. CASE UNCHANGED offers
    BY <2>1 DEF Delivered
  <2>2. CASE /\ offers' = [offers EXCEPT ![run[r].at][run[r].offer] = "accepted"]
             /\ \/ Works /\ Goto(r, "told") /\ UNCHANGED untold
                \/ Fails /\ Goto(r, "failed") /\ untold' = untold \cup {run[r].at}
    <3>1. \A n \in Offer :
            /\ offers[h][n] = "accepted" => offers'[h][n] = "accepted"
            /\ offers'[h][n] # offers[h][n] => h = run[r].at
      BY <1>0, <1>2, <2>2 DEF Accept, TypeOK
    <3>2. run[r].at \in untold' \/ run'[r].pc = "told"
      BY <1>0, <2>2 DEF Goto, TypeOK, Run
    <3> QED BY <1>2, <3>1, <3>2 DEF Delivered, Accept
  <2> QED BY <1>2, <2>1, <2>2 DEF Accept
<1>3. CASE UNCHANGED offers
  BY <1>3 DEF Delivered
<1> QED BY <1>1, <1>2, <1>3
        DEF RunStep, Unlock, Scan, ReadRow, Resolve, GiveUp, Claim, Stamp, Persist,
            WriteFailed, WriteTransferred, ledgerVars

\* A run writes to the row of its own holding, and "transferred" only from
\* "told"; what is untold stays so.
LEMMA RowWrittenBy ==
    ASSUME TypeOK, Placed, NEW r \in Runs, RunStep(r)
    PROVE  /\ untold \subseteq untold'
           /\ \A m \in Mints : row'[m].st # row[m].st =>
                m = run[r].at /\ (row'[m].st = "transferred" => run[r].pc = "told")
<1>0. run[r].pc \notin {"idle", "scan", "pick"} => run[r].at \in Mints
  BY MintAssumption DEF TypeOK, Placed, WellPlaced, Run
<1>s. ASSUME NEW h \in Mints, NEW st, SetStatus(h, st)
      PROVE  \A m \in Mints : row'[m].st # row[m].st => m = h /\ row'[m].st = st
  BY <1>s DEF SetStatus, Update, TypeOK, Row
<1>1. untold \subseteq untold'
  BY DEF RunStep, Unlock, Scan, ReadRow, Resolve, GiveUp, Claim, Stamp, MakeOffer, Persist,
     Accept, WriteFailed, WriteTransferred, ledgerVars
<1>2. CASE UNCHANGED row
  BY <1>1, <1>2
<1>3. CASE Resolve(r)
  <2>1. \/ SetStatus(run[r].at, row[run[r].at].st) \/ Insert(run[r].at)
        \/ UNCHANGED row
    BY <1>3 DEF Resolve, Lost, WriteMetadata
  <2>2. CASE Insert(run[r].at)
    BY <1>0, <1>1, <1>3, <2>2 DEF Insert, Resolve, TypeOK, Row
  <2> QED BY <1>0, <1>1, <1>2, <1>3, <1>s, <2>1, <2>2 DEF Resolve
<1>4. CASE GiveUp(r) \/ Claim(r) \/ WriteFailed(r) \/ WriteTransferred(r)
  <2>1. run[r].at \in Mints
    BY <1>0, <1>4 DEF GiveUp, Claim, WriteFailed, WriteTransferred
  <2>2. \/ SetStatus(run[r].at, "failed") \/ SetStatus(run[r].at, "processing")
        \/ SetStatus(run[r].at, "transferred") /\ run[r].pc = "told"
        \/ UNCHANGED row
    BY <1>4 DEF GiveUp, Claim, WriteFailed, WriteTransferred, Lost
  <2> QED BY <1>1, <1>2, <1>s, <2>1, <2>2
<1>5. CASE Stamp(r)
  <2>1. \A m \in Mints : row'[m].st = row[m].st
    BY <1>0, <1>5 DEF Stamp, Lost, Update, TypeOK
  <2> QED BY <1>1, <2>1
<1>6. CASE Persist(r)
  <2>1. \A m \in Mints : row'[m].st # row[m].st =>
          m = run[r].at /\ row'[m].st = "offer_created"
    BY <1>0, <1>6 DEF Persist, Lost, Update, TypeOK
  <2> QED BY <1>1, <2>1
<1> QED BY <1>2, <1>3, <1>4, <1>5, <1>6
        DEF RunStep, Unlock, Scan, ReadRow, MakeOffer, Accept

\* How a run comes to its holding and leaves it.
LEMMA RunGoes ==
    ASSUME TypeOK, Placed, Recorded, NEW r \in Runs, RunStep(r)
    PROVE  /\ \A h \in run'[r].todo : h \in run[r].todo \/ ~Delivered(h)'
           /\ \/ run'[r].at = run[r].at
              \/ run'[r].at = NoMint
              \/ /\ run[r].pc = "pick" /\ run'[r].at \in run[r].todo
                 /\ run'[r].at \notin run'[r].todo
           /\ run'[r].todo = run[r].todo \/ run[r].at = NoMint
           /\ run'[r].pc = "told" => run[r].pc = "accept" /\ Delivered(run[r].at)'
           /\ run'[r].pc = "told" => run'[r].at = run[r].at
           /\ run[r].pc = "told" =>
                /\ run'[r].at = NoMint
                /\ \/ run[r].at \in untold'
                   \/ row'[run[r].at].st = "transferred"
<1>0. run[r] \in Run /\ run[r].todo \subseteq Mints /\ WellPlaced(run[r])
      /\ (run[r].pc \notin {"idle", "scan", "pick"} => run[r].at \in Mints)
  BY MintAssumption DEF TypeOK, Placed, WellPlaced, Run
<1>g. ASSUME NEW pc, Goto(r, pc)
      PROVE  /\ run'[r].pc = pc /\ run'[r].at = run[r].at /\ run'[r].todo = run[r].todo
  BY <1>0, <1>g DEF Goto, TypeOK, Run
<1>l. ASSUME Leave(r)
      PROVE  run'[r].pc = "pick" /\ run'[r].at = NoMint /\ run'[r].todo = run[r].todo
  BY <1>0, <1>l DEF Leave, TypeOK, Run
<1>1. CASE Unlock(r)
  <2>1. /\ run'[r] = Idle /\ run[r].pc = "pick"
    BY <1>0, <1>1 DEF Unlock, TypeOK
  <2> QED BY <1>0, <2>1 DEF Idle, WellPlaced
<1>2. CASE Scan(r)
  <2>1. /\ run'[r].pc = "pick" /\ run'[r].at = run[r].at
        /\ run[r].pc = "scan" /\ run[r].at = NoMint /\ UNCHANGED offers
    BY <1>0, <1>2, ScanMoves DEF Scan, WellPlaced, ledgerVars
  <2>2. \A h \in run'[r].todo : h \in run[r].todo \/ ~Delivered(h)
    <3>1. CASE Goto(r, "pick")
      BY <1>g, <3>1
    <3>2. CASE run' = [run EXCEPT ![r] =
                 [run[r] EXCEPT !.pc = "pick", !.todo = {h \in Mints : ~Delivered(h)}]]
      <4> DEFINE t == {h \in Mints : ~Delivered(h)}
      <4>1. \A h \in t : ~Delivered(h)
        OBVIOUS
      <4>2. run' = [run EXCEPT ![r] = [run[r] EXCEPT !.pc = "pick", !.todo = t]]
        BY <3>2
      <4> HIDE DEF t
      <4>3. run'[r].todo = t
        BY <1>0, <4>2 DEF TypeOK, Run
      <4> QED BY <4>1, <4>3
    <3> QED BY <1>2, <3>1, <3>2 DEF Scan
  <2>3. \A h : ~Delivered(h) => ~Delivered(h)'
    BY <2>1 DEF Delivered
  <2> QED BY <2>1, <2>2, <2>3
<1>3. CASE ReadRow(r)
  <2>0. PICK h \in run[r].todo : \E copy :
          run' = [run EXCEPT ![r] = Past(r, h)] \/ run' = [run EXCEPT ![r] = Taken(r, h, copy)]
    BY <1>3 DEF ReadRow
  <2>1. PICK copy :
          run' = [run EXCEPT ![r] = Past(r, h)] \/ run' = [run EXCEPT ![r] = Taken(r, h, copy)]
    BY <2>0
  <2>2. /\ run[r].pc = "pick" /\ run[r].at = NoMint /\ run'[r].todo = run[r].todo \ {h}
        /\ run'[r].pc \in {"pick", "resolve"} /\ run'[r].at \in {NoMint, h}
    <3>1. run[r].pc = "pick" /\ run[r].at = NoMint
      BY <1>0, <1>3 DEF ReadRow, WellPlaced
    <3>2. CASE run' = [run EXCEPT ![r] = Past(r, h)]
      BY <1>0, <3>1, <3>2 DEF Past, TypeOK, Run
    <3>3. CASE run' = [run EXCEPT ![r] = Taken(r, h, copy)]
      BY <1>0, <3>1, <3>3 DEF Taken, TypeOK, Run
    <3> QED BY <2>1, <3>1, <3>2, <3>3
  <2> QED BY <2>2
<1>4. CASE Resolve(r) \/ Claim(r) \/ GiveUp(r) \/ WriteFailed(r) \/ Persist(r)
  BY <1>g, <1>l, <1>4 DEF Resolve, Claim, GiveUp, WriteFailed, Persist
<1>5. CASE Stamp(r)
  <2>1. /\ run'[r].pc \in {"offer", "accept"} /\ run[r].pc = "stamp"
        /\ run'[r].at = run[r].at /\ run'[r].todo = run[r].todo
    BY <1>0, <1>5 DEF Stamp, TypeOK, Run
  <2> QED BY <2>1
<1>6. CASE MakeOffer(r)
  <2>1. run[r].pc = "offer"
    BY <1>6 DEF MakeOffer
  <2>2. CASE Goto(r, "failed")
    BY <1>g, <2>1, <2>2
  <2>3. ASSUME NEW n \in Offer,
               run' = [run EXCEPT ![r] = [run[r] EXCEPT !.pc = "persist", !.offer = n]]
        PROVE  run'[r].pc = "persist" /\ run'[r].at = run[r].at /\ run'[r].todo = run[r].todo
    BY <1>0, <2>3 DEF TypeOK, Run
  <2> QED BY <1>6, <2>1, <2>2, <2>3 DEF MakeOffer
<1>7. CASE Accept(r)
  <2>1. /\ run[r].pc = "accept" /\ run'[r].at = run[r].at /\ run'[r].todo = run[r].todo
        /\ run'[r].pc \in {"told", "failed"}
    BY <1>g, <1>7 DEF Accept
  <2>2. run'[r].pc = "told" => Delivered(run[r].at)'
    <3> SUFFICES ASSUME run'[r].pc = "told"
                 PROVE  Delivered(run[r].at)'
      OBVIOUS
    <3>1. offers' = [offers EXCEPT ![run[r].at][run[r].offer] = "accepted"]
      BY <1>g, <1>7 DEF Accept
    <3>2. run[r].at \in Mints /\ run[r].offer \in Offer
      BY <1>0, <2>1 DEF WellPlaced
    <3>3. offers'[run[r].at][run[r].offer] = "accepted"
      BY <3>1, <3>2 DEF TypeOK
    <3> QED BY <2>1, <3>2, <3>3 DEF Delivered
  <2> QED BY <2>1, <2>2
<1>8. CASE WriteTransferred(r)
  <2>1. /\ run'[r].pc = "pick" /\ run'[r].at = NoMint /\ run'[r].todo = run[r].todo
        /\ run[r].pc = "told" /\ run[r].at \in Mints
    BY <1>0, <1>l, <1>8 DEF WriteTransferred
  <2>2. row[run[r].at].st # "none"
    BY <2>1 DEF Recorded
  <2>3. SetStatus(run[r].at, "transferred") => row'[run[r].at].st = "transferred"
    BY <2>1, <2>2 DEF SetStatus, Update, TypeOK, Row
  <2>4. run[r].at \in untold' \/ row'[run[r].at].st = "transferred"
    BY <1>8, <2>3 DEF WriteTransferred
  <2> QED BY <2>1, <2>4
<1> QED BY <1>1, <1>2, <1>3, <1>4, <1>5, <1>6, <1>7, <1>8 DEF RunStep

LEMMA DeliveryRunStep ==
    ASSUME TypeOK, Placed, Recorded, LeaseInv, DeliveryInv, NEW r \in Runs, RunStep(r)
    PROVE  DeliveryInv'
<1>0. /\ \A s \in Runs \ {r} : run'[s] = run[s]
      /\ overrun' = overrun /\ Active(r) /\ untold \subseteq untold'
      /\ run[r].todo \subseteq Mints
  BY OneMoves, LeaseKept, RowWrittenBy DEF TypeOK, Run
<1>1. \A s \in Runs : /\ run[s].pc \notin {"idle", "scan", "pick"} <=> run[s].at \in Mints
                      /\ run[s].at \notin Mints => run[s].at = NoMint
                      /\ run[s].pc = "idle" => run[s].todo = {}
  BY MintAssumption DEF TypeOK, Placed, WellPlaced, Run
<1>2. ASSUME NEW h \in Mints, row'[h].st = "transferred"
      PROVE  Delivered(h)'
  <2>1. row[h].st = "transferred" \/ (h = run[r].at /\ run[r].pc = "told")
    BY <1>2, RowWrittenBy
  <2> QED BY <2>1, DeliveredBy DEF DeliveryInv
<1>3. ASSUME NEW s \in Runs, run'[s].pc = "told"
      PROVE  Delivered(run[s].at)'
  <2>1. CASE s = r
    BY <1>3, <2>1, RunGoes
  <2>2. CASE s # r
    <3>1. run'[s] = run[s] /\ run[s].at \in Mints /\ Delivered(run[s].at)
      BY <1>0, <1>1, <1>3, <2>2 DEF DeliveryInv
    <3> DEFINE h == run[s].at
    <3>2. Delivered(h) => \E n \in Offer : offers'[h][n] = "accepted"
      <4> HIDE DEF h
      <4>1. h \in Mints => (Delivered(h) => \E n \in Offer : offers'[h][n] = "accepted")
        BY DeliveredBy DEF Delivered
      <4> QED BY <3>1, <4>1 DEF h
    <3> QED BY <3>1, <3>2 DEF Delivered
  <2> QED BY <2>1, <2>2
<1>4. CASE overrun'
  BY <1>2, <1>3, <1>4 DEF DeliveryInv
<1>5. CASE ~overrun'
  <2>1. /\ ~overrun
        /\ \A s \in Runs \ {r} : /\ run'[s] = run[s] /\ run[s].todo = {}
                                 /\ run[s].at = NoMint /\ run[s].pc = "idle"
    BY <1>0, <1>1, <1>5, OthersIdle
  <2>2. ASSUME NEW h \in run'[r].todo
        PROVE  ~Delivered(h)' /\ h # run'[r].at
    <3>1. h \in Mints /\ run'[r].at \in Mints \cup {NoMint} /\ h # NoMint
      BY TypeStep, MintAssumption DEF Next, TypeOK, Run
    <3>2. CASE ~Delivered(h)' /\ h \notin run[r].todo
      <4>1. run'[r].at = run[r].at \/ run'[r].at = NoMint \/ run'[r].at \in run[r].todo
        BY RunGoes
      <4>2. run[r].at = NoMint
        BY <3>2, RunGoes
      <4> QED BY <3>1, <3>2, <4>1, <4>2
    <3>3. CASE h \in run[r].todo
      <4>1. ~Delivered(h) /\ h # run[r].at
        BY <2>1, <3>3 DEF DeliveryInv
      <4>2. ~Delivered(h)'
        BY <3>1, <4>1, DeliveredBy
      <4>3. h # run'[r].at
        BY <3>1, <4>1, RunGoes
      <4> QED BY <4>2, <4>3
    <3> QED BY <2>2, <3>2, <3>3, RunGoes
  <2>3. ASSUME NEW h \in Mints, h = run'[r].at, run'[r].pc # "told", Delivered(h)'
        PROVE  h \in untold'
    <3>1. CASE h = run[r].at
      <4>1. CASE Delivered(h)
        <5>1. run[r].pc = "told" => h \in untold' \/ run'[r].at = NoMint
          BY <1>1, <2>3, <3>1, RunGoes
        <5> QED BY <1>0, <2>1, <2>3, <3>1, <4>1, <5>1, MintAssumption DEF DeliveryInv
      <4>2. CASE ~Delivered(h)
        BY <2>3, <4>2, DeliveredBy
      <4> QED BY <4>1, <4>2
    <3>2. CASE h # run[r].at
      <4>1. h \in run[r].todo /\ run[r].pc = "pick"
        BY <2>3, <3>2, RunGoes, MintAssumption
      <4>2. ~Delivered(h)
        BY <2>1, <4>1 DEF DeliveryInv
      <4> QED BY <2>3, <3>2, <4>2, DeliveredBy
    <3> QED BY <3>1, <3>2
  <2>4. ASSUME NEW h \in Mints, Delivered(h)'
        PROVE  \/ row'[h].st = "transferred" \/ h \in untold'
               \/ run'[r].at = h /\ run'[r].pc = "told"
    <3>1. CASE ~Delivered(h)
      <4>1. /\ run[r].pc = "accept" /\ h = run[r].at
            /\ h \in untold' \/ run'[r].pc = "told"
        BY <2>4, <3>1, DeliveredBy
      <4>2. run'[r].pc = "told" => run'[r].at = h
        BY <4>1, RunGoes
      <4> QED BY <4>1, <4>2
    <3>2. CASE h \in untold
      BY <1>0, <3>2
    <3>3. CASE Delivered(h) /\ h \notin untold
      <4>1. row[h].st = "transferred" \/ (run[r].at = h /\ run[r].pc = "told")
        BY <2>1, <3>3, MintAssumption DEF DeliveryInv
      <4>2. CASE run[r].at = h /\ run[r].pc = "told"
        BY <4>2, RunGoes
      <4>3. CASE row[h].st = "transferred" /\ ~(run[r].at = h /\ run[r].pc = "told")
        <5>1. run[r].at # h
          BY <2>1, <3>3, <4>3 DEF DeliveryInv
        <5> QED BY <4>3, <5>1, RowWrittenBy
      <4> QED BY <4>1, <4>2, <4>3
    <3> QED BY <3>1, <3>2, <3>3
  <2> QED BY <1>2, <1>3, <1>5, <2>1, <2>2, <2>3, <2>4, MintAssumption DEF DeliveryInv
<1> QED BY <1>4, <1>5

LEMMA DeliveryStep ==
    ASSUME TypeOK, Placed, Recorded, LeaseInv, DeliveryInv, [Next]_vars
    PROVE  DeliveryInv'
<1>1. ASSUME NEW r \in Runs, TryLock(r) \/ Die(r)
      PROVE  DeliveryInv'
  <2>1. /\ \A s \in Runs \ {r} : run'[s] = run[s]
        /\ UNCHANGED <<row, offers, overrun>>
        /\ \/ run'[r] = run[r]
           \/ run'[r].pc \in {"idle", "scan"} /\ run'[r].at = NoMint /\ run'[r].todo = {}
        /\ untold \subseteq untold'
        /\ run[r].pc = "told" => run[r].at \in untold'
    <3>1. CASE TryLock(r)
      BY <3>1, OneMoves DEF TryLock, Begun, TypeOK, Idle, Active, ledgerVars
    <3>2. CASE Die(r)
      BY <3>2, OneMoves DEF Die, TypeOK, Idle
    <3> QED BY <1>1, <3>1, <3>2
  <2>2. \A h : Delivered(h)' <=> Delivered(h)
    BY <2>1 DEF Delivered
  <2>3. \A s \in Runs : run'[s].pc = "told" => run'[s] = run[s]
    BY <2>1
  <2>4. ASSUME NEW s \in Runs, run'[s].pc = "told"
        PROVE  Delivered(run[s].at)'
    <3>1. run'[s] = run[s] /\ Delivered(run[s].at)
      BY <2>3, <2>4 DEF DeliveryInv
    <3> QED BY <2>1, <3>1 DEF Delivered
  <2>5. ASSUME ~overrun, NEW s \in Runs
        PROVE  /\ \A h \in run'[s].todo : ~Delivered(h)' /\ h # run'[s].at
               /\ \A h \in Mints : h = run'[s].at /\ run'[s].pc # "told" /\ Delivered(h)' =>
                    h \in untold'
    <3>1. CASE run'[s] = run[s]
      BY <2>1, <2>2, <2>5, <3>1 DEF DeliveryInv
    <3>2. CASE run'[s].at = NoMint /\ run'[s].todo = {}
      BY <3>2, MintAssumption
    <3> QED BY <2>1, <3>1, <3>2
  <2>6. ASSUME ~overrun, NEW h \in Mints, Delivered(h)'
        PROVE  \/ row'[h].st = "transferred" \/ h \in untold'
               \/ \E s \in Runs : run'[s].at = h /\ run'[s].pc = "told"
    BY <2>1, <2>2, <2>6 DEF DeliveryInv
  <2> QED BY <2>1, <2>2, <2>4, <2>5, <2>6 DEF DeliveryInv
<1>2. ASSUME NEW r \in Runs, RunStep(r)
      PROVE  DeliveryInv'
  BY <1>2, DeliveryRunStep
<1>3. CASE Tick
  <2>1. ASSUME NEW r \in Runs
        PROVE  /\ run'[r].pc = run[r].pc /\ run'[r].at = run[r].at
               /\ run'[r].todo = run[r].todo
    <3>1. PICK a, b : run'[r] = [run[r] EXCEPT !.left = b, !.age = a]
      BY <1>3 DEF Tick
    <3> QED BY <3>1 DEF TypeOK, Run
  <2>2. UNCHANGED <<row, offers, untold>> /\ (~overrun' => ~overrun)
    BY <1>3 DEF Tick
  <2> QED BY <2>1, <2>2 DEF DeliveryInv, Delivered
<1>4. ASSUME NEW h \in Mints, Lapse(h)
      PROVE  DeliveryInv'
  <2>1. \A m \in Mints : Delivered(m)' <=> Delivered(m)
    <3>1. PICK n \in Offer : /\ offers[h][n] = "open"
                             /\ offers' = [offers EXCEPT ![h][n] = "lapsed"]
      BY <1>4 DEF Lapse
    <3>2. \A m \in Mints : \A k \in Offer :
            offers'[m][k] = "accepted" <=> offers[m][k] = "accepted"
      BY <3>1 DEF TypeOK
    <3> QED BY <3>2 DEF Delivered
  <2>2. UNCHANGED <<row, run, untold, overrun>>
    BY <1>4 DEF Lapse
  <2>3. \A r \in Runs : /\ run[r].todo \subseteq Mints
                        /\ run[r].pc = "told" => run[r].at \in Mints
    BY MintAssumption DEF TypeOK, Placed, WellPlaced, Run
  <2>4. ASSUME NEW r \in Runs, run[r].pc = "told"
        PROVE  Delivered(run[r].at)'
    <3> DEFINE m == run[r].at
    <3>1. m \in Mints /\ Delivered(m)
      BY <2>3, <2>4 DEF DeliveryInv
    <3>2. \E k \in Offer : offers'[m][k] = "accepted"
      <4> HIDE DEF m
      <4> QED BY <2>1, <3>1 DEF Delivered
    <3> QED BY <2>2, <3>2 DEF Delivered
  <2> QED BY <2>1, <2>2, <2>3, <2>4 DEF DeliveryInv
<1>5. CASE UNCHANGED <<run, row, offers, untold, overrun>>
  BY <1>5 DEF DeliveryInv, Delivered
<1> QED BY <1>1, <1>2, <1>3, <1>4, <1>5 DEF Next, Register, vars

\* A row never claims a delivery that did not happen, and a delivery goes
\* unrecorded only when its news was lost or some run outlived its lease.
THEOREM RowsTellTheTruth == Spec => []RowTellsDelivery
<1>1. Init => DeliveryInv
  BY DEF Init, DeliveryInv, Delivered, NoRow, Idle
<1>2. MintInv /\ MintInv' /\ DeliveryInv /\ [Next]_vars => DeliveryInv'
  BY DeliveryStep DEF MintInv
<1>3. MintInv /\ DeliveryInv => RowTellsDelivery
  BY DEF MintInv, DeliveryInv, RowTellsDelivery
<1> QED BY <1>1, <1>2, <1>3, MintInvariant, PTL DEF Spec
=============================================================================
