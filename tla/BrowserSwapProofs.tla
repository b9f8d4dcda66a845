-------------------------- MODULE BrowserSwapProofs --------------------------
(***************************************************************************)
(* Proofs about BrowserSwap, for any number of tabs, of request handlers,  *)
(* of attempts and of faults.                                              *)
(*                                                                         *)
(* The argument: a secret is saved before the wallet can be asked to lock  *)
(* under its hash, and the only steps that take a secret out of the vault  *)
(* see the order over, the lock reverted, or its hour past.  That needs to *)
(* know who may speak of a hash before its lock is sent (one flow, past    *)
(* its prepare) and that everything else, the recovery, the handlers and   *)
(* the stored records, only ever speaks of locks that were sent.           *)
(***************************************************************************)
EXTENDS BrowserSwap, FiniteSetTheorems, TLAPS

Sent(h) == h \in Attempts /\ tx[h] # "none"

\* The escrow holds only what a mined lock put there.
DepositMined ==
    \A h \in Attempts : deposit[h] # "none" => tx[h] \in {"mined", "replaced"}

\* Stored records, waiting pages, the end of a flow and the handlers speak of
\* locks that were sent.
SpokenOfIsSent ==
    /\ \A h \in Attempts : records[h] > 0 => Sent(h)
    /\ \A t \in Tabs : Waiting(t) => Sent(stage[t].h)
    /\ \A t \in Tabs : flow[t].at \in {"receipt", "commit"} => Sent(flow[t].h)
    /\ \A w \in Workers : job[w].at # "idle" => Sent(job[w].h)

Unsent(t) == flow[t].at \in {"prepare", "wallet"}

\* A flow that has not asked the wallet yet has a hash of its own, made
\* before, with no lock under it, and the secret saved.
UnsentIsOwn ==
    \A t \in Tabs : Unsent(t) =>
        /\ flow[t].h \in 1..used /\ tx[flow[t].h] = "none"
        /\ age[flow[t].h] < 3 => flow[t].h \in vault
        /\ \A u \in Tabs : u # t /\ Unsent(u) => flow[u].h # flow[t].h

UnusedIsUnsent == \A h \in Attempts : h > used => tx[h] = "none"

SecretInv ==
    /\ TypeOK /\ SecretKept
    /\ DepositMined /\ SpokenOfIsSent /\ UnsentIsOwn /\ UnusedIsUnsent

-----------------------------------------------------------------------------
(* The steps, by who takes them.                                           *)

FlowStep(t) ==
    \/ Confirm(t) \/ Prepared(t)
    \/ WalletRejects(t) \/ WalletSigns(t) \/ WalletSilent(t)
    \/ Succeeded(t) \/ Reverted(t) \/ NoReceipt(t)
PageStep(t) ==
    \/ RecoverySeesRevert(t) \/ RecoveryPosts(t)
    \/ Poll(t) \/ CloseTab(t) \/ OpenSwapPage(t)
ServerStep(w) == HandlerSteps(w) \/ HandlerDies(w) \/ AnswerLost(w)
OutsideStep(h) ==
    \/ SolverLocks(h) \/ SolverRefunds(h) \/ RetakeFound(h) \/ SweepReads(h)

\* Every step is one of these.
LEMMA Steps ==
    ASSUME [Next]_vars
    PROVE  \/ \E t \in Tabs : FlowStep(t) \/ PageStep(t)
           \/ \E t \in Tabs : \E h \in Attempts : Claim(t, h) \/ Retake(t, h)
           \/ \E w \in Workers : ServerStep(w)
           \/ \E h \in Attempts : Mine(h) \/ SolverClaims(h) \/ Age(h) \/ OutsideStep(h)
           \/ SweepWrites
           \/ UNCHANGED vars
  BY DEF Next, FlowStep, PageStep, ServerStep, OutsideStep

\* The attempts are finitely many numbers, none of them NoSwap.
LEMMA AttemptsFinite ==
    /\ IsFiniteSet(Attempts) /\ Attempts \subseteq Nat \ {0} /\ NoSwap \notin Attempts
  BY BrowserAssumption, FS_Interval DEF Attempts, NoSwap

\* What a flow that has not asked the wallet yet speaks of.
LEMMA UnsentHash ==
    ASSUME TypeOK, UnsentIsOwn, NEW t \in Tabs, Unsent(t)
    PROVE  /\ flow[t].h \in Attempts /\ tx[flow[t].h] = "none"
           /\ age[flow[t].h] < 3 => flow[t].h \in vault
  <1>1. flow[t].h \in Attempts \cup {NoSwap}
    BY DEF TypeOK, Flow
  <1>2. flow[t].h # NoSwap
    <2>1. flow[t].h \in 1..used /\ used \in Int
      BY DEF UnsentIsOwn, TypeOK
    <2> QED BY <2>1 DEF NoSwap
  <1> QED BY <1>1, <1>2 DEF UnsentIsOwn

-----------------------------------------------------------------------------
(* The chain: what was sent stays sent, and the escrow holds mined locks.  *)

OnChain(h) == tx[h] = "pending" \/ deposit[h] = "locked"

ChainSound ==
    /\ tx' \in [Attempts -> {"none", "pending", "mined", "reverted", "replaced"}]
    /\ unseen' \subseteq Attempts
    /\ deposit' \in [Attempts -> {"none", "locked", "claimed", "retaken"}]
    /\ DepositMined'
    /\ \A h \in Attempts : tx[h] # "none" =>
          tx'[h] # "none" /\ (tx'[h] = "pending" \/ deposit'[h] = "locked" => OnChain(h))

\* A lock is sent under a hash that had none: nothing is lost by it.
LEMMA SendSound ==
    ASSUME TypeOK, DepositMined, NEW h \in Attempts, tx[h] = "none",
           tx' = [tx EXCEPT ![h] = "pending"], UNCHANGED deposit,
           unseen' \subseteq Attempts
    PROVE  ChainSound
  BY DEF TypeOK, DepositMined, ChainSound, OnChain

\* No step takes a transaction back or empties a slot nobody locked.
LEMMA ChainStep ==
    ASSUME SecretInv, [Next]_vars
    PROVE  ChainSound
  <1> USE DEF SecretInv
  <1>0. ASSUME UNCHANGED chain PROVE ChainSound
    BY <1>0 DEF chain, TypeOK, DepositMined, ChainSound, OnChain
  <1>1. ASSUME NEW t \in Tabs, FlowStep(t) PROVE ChainSound
    <2>1. CASE WalletSigns(t) \/ WalletSilent(t)
      <3>1. flow[t].h \in Attempts /\ tx[flow[t].h] = "none"
        BY <2>1, UnsentHash DEF WalletSigns, WalletSilent, Unsent
      <3>2. unseen' \subseteq Attempts
        BY <2>1, <3>1 DEF WalletSigns, WalletSilent, TypeOK
      <3> QED BY <2>1, <3>1, <3>2, SendSound DEF WalletSigns, WalletSilent
    <2>2. CASE ~(WalletSigns(t) \/ WalletSilent(t))
      BY <1>0, <1>1, <2>2 DEF FlowStep, Confirm, Prepared, WalletRejects,
         Succeeded, Reverted, NoReceipt, chain
    <2> QED BY <2>1, <2>2
  <1>2. ASSUME NEW t \in Tabs, PageStep(t) PROVE ChainSound
    <2>1. CASE CloseTab(t)
      <3>1. CASE UNCHANGED <<tx, unseen>>
        BY <1>0, <2>1, <3>1 DEF CloseTab, chain
      <3>2. CASE flow[t].at = "wallet" /\ tx' = [tx EXCEPT ![flow[t].h] = "pending"]
                 /\ unseen' = unseen \cup {flow[t].h}
        <4>1. flow[t].h \in Attempts /\ tx[flow[t].h] = "none"
          BY <3>2, UnsentHash DEF Unsent
        <4>2. unseen' \subseteq Attempts
          BY <3>2, <4>1 DEF TypeOK
        <4> QED BY <2>1, <3>2, <4>1, <4>2, SendSound DEF CloseTab
      <3> QED BY <2>1, <3>1, <3>2 DEF CloseTab
    <2>2. CASE ~CloseTab(t)
      BY <1>0, <1>2, <2>2 DEF PageStep, RecoverySeesRevert, RecoveryPosts,
         Poll, OpenSwapPage, chain
    <2> QED BY <2>1, <2>2
  <1>3. ASSUME NEW t \in Tabs, NEW h \in Attempts, Claim(t, h) \/ Retake(t, h)
        PROVE  ChainSound
    <2>1. CASE Claim(t, h)
      BY <1>0, <2>1 DEF Claim
    <2>2. CASE Retake(t, h)
      BY <2>2 DEF Retake, TypeOK, DepositMined, ChainSound, OnChain
    <2> QED BY <1>3, <2>1, <2>2
  <1>4. ASSUME NEW w \in Workers, ServerStep(w) PROVE ChainSound
    BY <1>0, <1>4 DEF ServerStep, HandlerSteps, HandlerDies, AnswerLost
  <1>5. ASSUME NEW h \in Attempts, Mine(h) PROVE ChainSound
    BY <1>5 DEF Mine, TypeOK, DepositMined, ChainSound, OnChain
  <1>6. ASSUME NEW h \in Attempts, SolverClaims(h) PROVE ChainSound
    BY <1>6 DEF SolverClaims, TypeOK, DepositMined, ChainSound, OnChain
  <1>7. ASSUME NEW h \in Attempts, Age(h) \/ OutsideStep(h) PROVE ChainSound
    BY <1>0, <1>7 DEF Age, OutsideStep, SolverLocks, SolverRefunds, RetakeFound,
       SweepReads
  <1>8. CASE SweepWrites \/ UNCHANGED vars
    BY <1>0, <1>8 DEF SweepWrites, vars, chain
  <1> QED BY <1>1, <1>2, <1>3, <1>4, <1>5, <1>6, <1>7, <1>8, Steps

-----------------------------------------------------------------------------
(* The handlers: a step goes on, answers, fails or loses its client.       *)

Points == {"begin", "cas", "verify", "finish", "rollback"}

\* What a step of a handler comes to.
LEMMA ServerMoves ==
    ASSUME NEW w \in Workers, ServerStep(w)
    PROVE  /\ job[w].at # "idle"
           /\ UNCHANGED <<chain, sweep, age, used>>
           /\ \/ \E at \in Points : Goto(w, at)
              \/ Ok(w) \/ Err(w) \/ AnswerLost(w)
  <1>1. CASE HandlerSteps(w)
    BY <1>1 DEF HandlerSteps, Peek, Begin, Cas, Verify, Finish, Rollback, Points
  <1>2. CASE HandlerDies(w) \/ AnswerLost(w)
    BY <1>2 DEF HandlerDies, AnswerLost
  <1> QED BY <1>1, <1>2 DEF ServerStep

\* What an answer that is not ok does to the page.
LEMMA ServerRefusals ==
    ASSUME NEW w \in Workers, Err(w) \/ AnswerLost(w)
    PROVE  Refused(w)
  BY DEF Err, AnswerLost

-----------------------------------------------------------------------------
(* What the pages show and their recovery.                                 *)

PageSound ==
    /\ stage' \in [Tabs -> Stage] /\ rec' \in [Tabs -> Rec]
    /\ \A t \in Tabs : Waiting(t)' => Sent(stage[t].h)'

\* A stage the page may be put into.
SentAfter(h) == h \in Attempts /\ tx'[h] # "none"
Showable(s) ==
    /\ s \in Stage
    /\ s.kind \in {"locking", "recording"} => SentAfter(s.h)

\* A lock that was sent still is after the step.
LEMMA SentStays ==
    ASSUME ChainSound, NEW h, Sent(h)
    PROVE  SentAfter(h)
  BY DEF ChainSound, Sent, SentAfter

\* Putting a page into a showable stage keeps the pages sound.
LEMMA StageSound ==
    ASSUME TypeOK, SpokenOfIsSent, ChainSound, NEW t \in Tabs, NEW s, Showable(s),
           stage' = [stage EXCEPT ![t] = s], rec' \in [Tabs -> Rec]
    PROVE  PageSound
  <1>1. stage' \in [Tabs -> Stage]
    BY DEF TypeOK, Showable
  <1>2. ASSUME NEW u \in Tabs, Waiting(u)' PROVE Sent(stage[u].h)'
    <2>1. CASE u = t
      BY <1>2, <2>1 DEF TypeOK, Showable, Waiting, Sent, SentAfter
    <2>2. CASE u # t
      <3>1. stage'[u] = stage[u]
        BY <2>2 DEF TypeOK
      <3>2. Sent(stage[u].h)
        BY <1>2, <3>1 DEF Waiting, SpokenOfIsSent
      <3> QED BY <3>1, <3>2 DEF ChainSound, Sent
    <2> QED BY <2>1, <2>2
  <1> QED BY <1>1, <1>2 DEF PageSound

\* The recovery of a tab, as an update of rec.
LEMMA RecTyped ==
    ASSUME TypeOK, NEW t \in Tabs, NEW r \in Rec
    PROVE  /\ [rec EXCEPT ![t] = r] \in [Tabs -> Rec]
           /\ [rec EXCEPT ![t].live = FALSE] \in [Tabs -> Rec]
  BY DEF TypeOK, Rec

\* So does Show, which may keep the order's page instead.
LEMMA ShowSound ==
    ASSUME TypeOK, SpokenOfIsSent, ChainSound, NEW t \in Tabs, NEW s, Showable(s),
           Show(t, s)
    PROVE  PageSound
  <1> DEFINE z == IF stage[t].kind = "order" /\ s.kind # "order" THEN stage[t] ELSE s
  <1>1. stage' = [stage EXCEPT ![t] = z]
    BY DEF Show
  <1>2. rec' \in [Tabs -> Rec]
    BY RecTyped DEF Show, TypeOK, Rec
  <1>3. Showable(z)
    <2>1. CASE z = s
      BY <2>1
    <2>2. CASE z = stage[t] /\ z.kind = "order"
      BY <2>2 DEF Showable, TypeOK
    <2> QED BY <2>1, <2>2
  <1> HIDE DEF z
  <1> QED BY <1>1, <1>2, <1>3, StageSound

\* The stages the code shows.
LEMMA Showables ==
    /\ Showable(Form) /\ Showable(Closed)
    /\ \A h \in Attempts : Showable(On("order", h)) /\ Showable(On("claimable", h))
    /\ \A h : SentAfter(h) => Showable(On("locking", h)) /\ Showable(On("recording", h))
  BY DEF Showable, Form, Closed, On, Stage, NoSwap, SentAfter

\* Pages nobody touches stay sound.
LEMMA PageUnchanged ==
    ASSUME TypeOK, SpokenOfIsSent, ChainSound, UNCHANGED <<stage, rec>>
    PROVE  PageSound
  BY SentStays DEF PageSound, TypeOK, SpokenOfIsSent, Waiting, Sent, ChainSound

\* Only records of sent locks, and waiting pages, are recovered.
LEMMA RecoversSent ==
    ASSUME TypeOK, SpokenOfIsSent, NEW t \in Tabs, NEW h \in Recoverable(t)
    PROVE  Sent(h)
  <1>1. CASE Waiting(t)
    BY <1>1 DEF Recoverable, SpokenOfIsSent
  <1>2. CASE ~Waiting(t)
    <2>1. h \in Selected(t)
      BY <1>2 DEF Recoverable
    <2>2. h \in Pending
      BY <2>1 DEF Selected
    <2> QED BY <2>2 DEF Pending, SpokenOfIsSent
  <1> QED BY <1>1, <1>2

\* Every step keeps the pages sound.
LEMMA PageStepSound ==
    ASSUME SecretInv, [Next]_vars, ChainSound
    PROVE  PageSound
  <1> USE DEF SecretInv
  <1>1. ASSUME NEW t \in Tabs, FlowStep(t) PROVE PageSound
    <2>1. CASE Confirm(t) \/ Prepared(t) \/ WalletRejects(t) \/ WalletSilent(t) \/ Reverted(t)
      BY <2>1, ShowSound, Showables DEF Confirm, Prepared, WalletRejects,
         WalletSilent, Reverted, Retry
    <2>2. CASE WalletSigns(t)
      <3>1. flow[t].h \in Attempts /\ tx'[flow[t].h] = "pending"
        BY <2>2, UnsentHash DEF WalletSigns, Unsent, TypeOK
      <3>2. Showable(On("recording", flow[t].h))
        BY <3>1, Showables DEF SentAfter
      <3> QED BY <2>2, <3>2, ShowSound DEF WalletSigns
    <2>3. CASE Succeeded(t)
      BY <2>3, PageUnchanged DEF Succeeded
    <2>4. CASE NoReceipt(t)
      <3>1. Sent(flow[t].h)
        BY <2>4 DEF NoReceipt, SpokenOfIsSent
      <3>2. Showable(On("locking", flow[t].h))
        BY <3>1, SentStays, Showables
      <3> QED BY <2>4, <3>2, ShowSound DEF NoReceipt, LeaveToRecovery
    <2> QED BY <1>1, <2>1, <2>2, <2>3, <2>4 DEF FlowStep
  <1>2. ASSUME NEW t \in Tabs, PageStep(t) PROVE PageSound
    <2>1. CASE RecoverySeesRevert(t)
      <3>1. PICK h \in Recoverable(t) :
               Show(t, Form) \/ Show(t, On("recording", h))
        BY <2>1 DEF RecoverySeesRevert
      <3>2. Showable(On("recording", h))
        BY RecoversSent, SentStays, Showables
      <3> QED BY <3>1, <3>2, Showables, ShowSound
    <2>2. CASE RecoveryPosts(t)
      <3>1. PICK h \in Recoverable(t) :
               /\ rec' = [rec EXCEPT ![t] = [busy |-> TRUE, h |-> h, live |-> Waiting(t)]]
               /\ stage' = [stage EXCEPT ![t] = IF Waiting(t) THEN @ ELSE On("recording", h)]
        BY <2>2 DEF RecoveryPosts
      <3>2. Sent(h)
        BY RecoversSent
      <3>3. [busy |-> TRUE, h |-> h, live |-> Waiting(t)] \in Rec
        BY <3>2 DEF Rec, Sent, Waiting
      <3>4. rec' \in [Tabs -> Rec]
        BY <3>1, <3>3, RecTyped
      <3>5. CASE Waiting(t)
        <4>1. Showable(stage[t])
          BY <3>5, SentStays DEF Showable, SpokenOfIsSent, TypeOK
        <4> QED BY <3>1, <3>4, <3>5, <4>1, StageSound
      <3>6. CASE ~Waiting(t)
        <4>1. Showable(On("recording", h))
          BY <3>2, SentStays, Showables
        <4> QED BY <3>1, <3>4, <3>6, <4>1, StageSound
      <3> QED BY <3>5, <3>6
    <2>3. CASE Poll(t)
      <3>1. stage[t].h \in Attempts
        BY <2>3 DEF Poll, SpokenOfIsSent, Waiting, Sent
      <3>2. Show(t, Form) \/ Show(t, On("claimable", stage[t].h))
        BY <2>3 DEF Poll
      <3> QED BY <3>1, <3>2, Showables, ShowSound
    <2>4. CASE CloseTab(t)
      <3>1. NoRec \in Rec
        BY DEF NoRec, Rec
      <3> QED BY <2>4, <3>1, RecTyped, Showables, StageSound DEF CloseTab
    <2>5. CASE OpenSwapPage(t)
      BY <2>5, Showables, StageSound DEF OpenSwapPage, TypeOK
    <2> QED BY <1>2, <2>1, <2>2, <2>3, <2>4, <2>5 DEF PageStep
  <1>3. ASSUME NEW t \in Tabs, NEW h \in Attempts, Claim(t, h) \/ Retake(t, h)
        PROVE  PageSound
    <2>1. Show(t, Form) \/ UNCHANGED <<stage, rec>>
      BY <1>3 DEF Claim, Retake
    <2> QED BY <2>1, Showables, ShowSound, PageUnchanged
  <1>4. ASSUME NEW w \in Workers, ServerStep(w) PROVE PageSound
    <2> DEFINE j == job[w]
    <2>1. Sent(j.h) /\ j.tab \in Tabs \cup {NoTab}
      BY <1>4, ServerMoves DEF SpokenOfIsSent, TypeOK, Job
    <2>2. CASE \E at \in Points : Goto(w, at)
      BY <2>2, PageUnchanged DEF Goto, page
    <2>3. CASE Ok(w)
      <3>1. NoRec \in Rec
        BY DEF NoRec, Rec
      <3>2. CASE j.tab = NoTab
        BY <2>3, <3>2, PageUnchanged DEF Ok, page
      <3>3. CASE j.tab \in Tabs /\ j.who = "flow"
        <4>1. j.tab # NoTab
          BY <3>3, BrowserAssumption
        <4> QED BY <2>1, <2>3, <3>3, <4>1, Showables, ShowSound DEF Ok, Sent
      <3>4. CASE j.tab \in Tabs /\ j.who = "rec"
        <4>1. j.tab # NoTab
          BY <3>4, BrowserAssumption
        <4>2. /\ stage' = [stage EXCEPT ![j.tab] = IF rec[j.tab].live
                                                   THEN On("order", j.h) ELSE @]
              /\ rec' = [rec EXCEPT ![j.tab] = NoRec]
          BY <2>3, <3>4, <4>1 DEF Ok
        <4>3. rec' \in [Tabs -> Rec]
          BY <3>1, <3>4, <4>2, RecTyped
        <4>4. CASE rec[j.tab].live
          BY <2>1, <3>4, <4>2, <4>3, <4>4, Showables, StageSound DEF Sent
        <4>5. CASE ~rec[j.tab].live
          <5>1. Showable(stage[j.tab])
            BY <3>4, SentStays DEF Showable, SpokenOfIsSent, Waiting, TypeOK
          <5> QED BY <3>4, <4>2, <4>3, <4>5, <5>1, StageSound
        <4> QED BY <4>4, <4>5
      <3> QED BY <1>4, <2>1, <3>2, <3>3, <3>4 DEF TypeOK, Job
    <2>4. CASE Refused(w)
      <3>1. NoRec \in Rec
        BY DEF NoRec, Rec
      <3>2. CASE j.tab = NoTab
        BY <2>4, <3>2, PageUnchanged DEF Refused, page
      <3>3. CASE j.tab \in Tabs /\ j.who = "flow"
        <4>1. j.tab # NoTab
          BY <3>3, BrowserAssumption
        <4>2. Showable(On("locking", j.h))
          BY <2>1, SentStays, Showables
        <4> QED BY <2>4, <3>3, <4>1, <4>2, ShowSound DEF Refused, LeaveToRecovery
      <3>4. CASE j.tab \in Tabs /\ j.who = "rec"
        <4>1. j.tab # NoTab
          BY <3>4, BrowserAssumption
        <4>2. rec' = [rec EXCEPT ![j.tab] = NoRec] /\ UNCHANGED stage
          BY <2>4, <3>4, <4>1 DEF Refused
        <4>3. rec' \in [Tabs -> Rec]
          BY <3>1, <3>4, <4>2, RecTyped
        <4> QED BY <4>2, <4>3 DEF PageSound, TypeOK, SpokenOfIsSent, Waiting, Sent,
                                  ChainSound
      <3> QED BY <1>4, <2>1, <3>2, <3>3, <3>4 DEF TypeOK, Job
    <2> QED BY <1>4, <2>2, <2>3, <2>4, ServerMoves, ServerRefusals
  <1>5. ASSUME NEW h \in Attempts, Mine(h) \/ SolverClaims(h) \/ Age(h) \/ OutsideStep(h)
        PROVE  PageSound
    BY <1>5, PageUnchanged DEF Mine, SolverClaims, Age, OutsideStep, SolverLocks,
       SolverRefunds, RetakeFound, SweepReads, page
  <1>6. CASE SweepWrites \/ UNCHANGED vars
    BY <1>6, PageUnchanged DEF SweepWrites, vars, page
  <1> QED BY <1>1, <1>2, <1>3, <1>4, <1>5, <1>6, Steps

-----------------------------------------------------------------------------
(* The handlers speak of sent locks.                                       *)

JobSound ==
    /\ job' \in [Workers -> Job]
    /\ \A w \in Workers : (job[w].at # "idle" => Sent(job[w].h))'

\* What a handler may be asked, or left with.
Answerable(j) == j \in Job /\ (j.at # "idle" => SentAfter(j.h))

\* A handler that is given such a job keeps the handlers sound.
LEMMA JobUpdateSound ==
    ASSUME TypeOK, SpokenOfIsSent, ChainSound, NEW w \in Workers, NEW j, Answerable(j),
           job' = [job EXCEPT ![w] = j]
    PROVE  JobSound
  <1>1. job' \in [Workers -> Job]
    BY DEF TypeOK, Answerable
  <1>2. ASSUME NEW v \in Workers, job'[v].at # "idle"
        PROVE  job'[v].h \in Attempts /\ tx'[job'[v].h] # "none"
    <2>1. CASE v = w
      BY <1>2, <2>1 DEF TypeOK, Answerable, SentAfter
    <2>2. CASE v # w
      <3>1. job'[v] = job[v]
        BY <2>2 DEF TypeOK
      <3> QED BY <1>2, <3>1 DEF SpokenOfIsSent, Sent, ChainSound
    <2> QED BY <2>1, <2>2
  <1> QED BY <1>1, <1>2 DEF JobSound, Sent

\* So does a request for a lock that was sent.
LEMMA RequestSound ==
    ASSUME TypeOK, SpokenOfIsSent, ChainSound, NEW t \in Tabs, NEW who \in {"flow", "rec"},
           NEW at \in {"peek", "begin"}, NEW h, Sent(h), Request(t, who, at, h)
    PROVE  JobSound
  <1>1. PICK w \in Workers :
           job' = [job EXCEPT ![w] = [at |-> at, h |-> h, tab |-> t, who |-> who]]
    BY DEF Request
  <1>2. Answerable([at |-> at, h |-> h, tab |-> t, who |-> who])
    BY SentStays DEF Answerable, Job, Sent
  <1> QED BY <1>1, <1>2, JobUpdateSound

\* Handlers nobody touches stay sound.
LEMMA JobUnchanged ==
    ASSUME TypeOK, SpokenOfIsSent, ChainSound, UNCHANGED job
    PROVE  JobSound
  BY DEF JobSound, TypeOK, SpokenOfIsSent, Sent, ChainSound

\* Every step keeps the handlers sound.
LEMMA JobStepSound ==
    ASSUME SecretInv, [Next]_vars, ChainSound
    PROVE  JobSound
  <1> USE DEF SecretInv
  <1>1. ASSUME NEW t \in Tabs, FlowStep(t) PROVE JobSound
    <2>1. CASE Succeeded(t)
      <3>1. Sent(flow[t].h)
        BY <2>1 DEF Succeeded, SpokenOfIsSent
      <3> QED BY <2>1, <3>1, RequestSound DEF Succeeded
    <2>2. CASE ~Succeeded(t)
      BY <1>1, <2>2, JobUnchanged DEF FlowStep, Confirm, Prepared, WalletRejects,
         WalletSigns, WalletSilent, Reverted, NoReceipt, server
    <2> QED BY <2>1, <2>2
  <1>2. ASSUME NEW t \in Tabs, PageStep(t) PROVE JobSound
    <2>1. CASE RecoveryPosts(t)
      <3>1. PICK h \in Recoverable(t), at \in {"peek", "begin"} : Request(t, "rec", at, h)
        BY <2>1 DEF RecoveryPosts
      <3>2. Sent(h)
        BY RecoversSent
      <3> QED BY <3>1, <3>2, RequestSound
    <2>2. CASE CloseTab(t)
      <3>1. job' = Unanswered(t)
        BY <2>2 DEF CloseTab
      <3>2. \A w \in Workers : /\ Unanswered(t)[w] \in Job
                               /\ Unanswered(t)[w].at = job[w].at
                               /\ Unanswered(t)[w].h = job[w].h
        BY DEF Unanswered, TypeOK, Job
      <3>3. job' \in [Workers -> Job]
        BY <3>1, <3>2 DEF Unanswered
      <3> QED BY <3>1, <3>2, <3>3 DEF JobSound, SpokenOfIsSent, Sent, ChainSound
    <2>3. CASE ~(RecoveryPosts(t) \/ CloseTab(t))
      BY <1>2, <2>3, JobUnchanged DEF PageStep, RecoverySeesRevert, Poll,
         OpenSwapPage, server
    <2> QED BY <2>1, <2>2, <2>3
  <1>3. ASSUME NEW t \in Tabs, NEW h \in Attempts, Claim(t, h) \/ Retake(t, h)
        PROVE  JobSound
    BY <1>3, JobUnchanged DEF Claim, Retake
  <1>4. ASSUME NEW w \in Workers, ServerStep(w) PROVE JobSound
    <2>1. Sent(job[w].h) /\ job[w] \in Job
      BY <1>4, ServerMoves DEF SpokenOfIsSent, TypeOK
    <2>2. Answerable(NoJob)
      BY DEF Answerable, NoJob, Job
    <2>3. CASE \E at \in Points : Goto(w, at)
      <3>1. PICK at \in Points : job' = [job EXCEPT ![w].at = at]
        BY <2>3 DEF Goto
      <3>2. Answerable([job[w] EXCEPT !.at = at])
        BY <2>1, SentStays DEF Answerable, Job, Points
      <3> QED BY <3>1, <3>2, JobUpdateSound
    <2>4. CASE Ok(w) \/ Err(w)
      BY <2>2, <2>4, JobUpdateSound DEF Ok, Err
    <2>5. CASE AnswerLost(w)
      <3>1. Answerable([job[w] EXCEPT !.tab = NoTab])
        BY <2>1, SentStays DEF Answerable, Job
      <3> QED BY <2>5, <3>1, JobUpdateSound DEF AnswerLost
    <2> QED BY <1>4, <2>3, <2>4, <2>5, ServerMoves
  <1>5. ASSUME NEW h \in Attempts, Mine(h) \/ SolverClaims(h) \/ Age(h) \/ OutsideStep(h)
        PROVE  JobSound
    BY <1>5, JobUnchanged DEF Mine, SolverClaims, Age, OutsideStep, SolverLocks,
       SolverRefunds, RetakeFound, SweepReads, server
  <1>6. CASE SweepWrites \/ UNCHANGED vars
    BY <1>6, JobUnchanged DEF SweepWrites, vars
  <1> QED BY <1>1, <1>2, <1>3, <1>4, <1>5, <1>6, Steps

-----------------------------------------------------------------------------
(* The flows.                                                              *)

FlowTyped ==
    /\ flow' \in [Tabs -> Flow]
    /\ \A t \in Tabs : (flow[t].at \in {"receipt", "commit"} => Sent(flow[t].h))'

\* How one flow may move: on, to its end, or nowhere.
Moved(t) ==
    \/ flow'[t] = flow[t]
    \/ flow'[t] = NoFlow
    \/ flow'[t] = [at |-> "prepare", h |-> used + 1] /\ used' = used + 1 /\ used < MaxAttempts
       /\ used + 1 \in vault'
    \/ flow[t].at = "prepare" /\ flow'[t] = [flow[t] EXCEPT !.at = "wallet"]
    \/ flow[t].at \in {"wallet", "receipt"} /\ SentAfter(flow[t].h)
       /\ \E at \in {"receipt", "commit"} : flow'[t] = [flow[t] EXCEPT !.at = at]

FlowMoves ==
    /\ DOMAIN flow' = Tabs /\ flow' = [t \in Tabs |-> flow'[t]]
    /\ \A t \in Tabs : Moved(t)
    /\ \/ used' = used
       \/ \E t \in Tabs : \A u \in Tabs : u # t => flow'[u] = flow[u]

\* A step that writes one flow moves one flow.
LEMMA OneFlowMoves ==
    ASSUME TypeOK, NEW t \in Tabs, NEW f, flow' = [flow EXCEPT ![t] = f],
           Moved(t)
    PROVE  FlowMoves
  <1>1. \A u \in Tabs : u # t => flow'[u] = flow[u]
    BY DEF TypeOK
  <1>2. DOMAIN flow' = Tabs /\ flow' = [u \in Tabs |-> flow'[u]]
    BY DEF TypeOK
  <1> QED BY <1>1, <1>2 DEF FlowMoves, Moved

\* Ending a flow is such a move.
LEMMA FlowEndsMoves ==
    ASSUME TypeOK, NEW t \in Tabs, FlowEnds(t)
    PROVE  FlowMoves
  <1>1. Moved(t)
    BY DEF FlowEnds, Moved, TypeOK
  <1> QED BY <1>1, OneFlowMoves DEF FlowEnds

\* So is leaving them all alone.
LEMMA FlowKept ==
    ASSUME TypeOK, UNCHANGED <<flow, used>>
    PROVE  FlowMoves
  BY DEF TypeOK, FlowMoves, Moved

\* Every step moves at most one flow, in one of these ways.
LEMMA FlowStepMoves ==
    ASSUME SecretInv, [Next]_vars, ChainSound
    PROVE  FlowMoves
  <1> USE DEF SecretInv
  <1>1. ASSUME NEW t \in Tabs, FlowStep(t) PROVE FlowMoves
    <2>1. CASE Confirm(t)
      <3>1. flow' = [flow EXCEPT ![t] = [at |-> "prepare", h |-> used + 1]]
        BY <2>1 DEF Confirm
      <3>2. Moved(t)
        BY <2>1, <3>1 DEF Confirm, SaveSecret, Moved, TypeOK
      <3> QED BY <3>1, <3>2, OneFlowMoves
    <2>2. CASE WalletSigns(t)
      <3>1. flow' = [flow EXCEPT ![t] = [flow[t] EXCEPT !.at = "receipt"]]
        BY <2>2 DEF WalletSigns, FlowAt
      <3>2. SentAfter(flow[t].h)
        BY <2>2, UnsentHash DEF WalletSigns, Unsent, TypeOK, SentAfter
      <3>3. Moved(t)
        BY <2>2, <3>1, <3>2 DEF WalletSigns, Moved, TypeOK
      <3> QED BY <3>1, <3>3, OneFlowMoves
    <2>3. CASE Succeeded(t)
      <3>1. flow' = [flow EXCEPT ![t] = [flow[t] EXCEPT !.at = "commit"]]
        BY <2>3 DEF Succeeded, FlowAt
      <3>2. SentAfter(flow[t].h)
        BY <2>3, SentStays DEF Succeeded, SpokenOfIsSent
      <3>3. Moved(t)
        BY <2>3, <3>1, <3>2 DEF Succeeded, Moved, TypeOK
      <3> QED BY <3>1, <3>3, OneFlowMoves
    <2>4. CASE Prepared(t) /\ FlowAt(t, "wallet")
      <3>1. flow' = [flow EXCEPT ![t] = [flow[t] EXCEPT !.at = "wallet"]]
        BY <2>4 DEF FlowAt
      <3>2. Moved(t)
        BY <2>4, <3>1 DEF Prepared, Moved, TypeOK
      <3> QED BY <3>1, <3>2, OneFlowMoves
    <2>5. CASE FlowEnds(t)
      BY <2>5, FlowEndsMoves
    <2> QED BY <1>1, <2>1, <2>2, <2>3, <2>4, <2>5 DEF FlowStep, Prepared,
            WalletRejects, WalletSilent, Reverted, NoReceipt, Retry, LeaveToRecovery
  <1>2. ASSUME NEW t \in Tabs, PageStep(t) PROVE FlowMoves
    <2>1. CASE CloseTab(t)
      BY <2>1, FlowEndsMoves DEF CloseTab, FlowEnds
    <2>2. CASE ~CloseTab(t)
      BY <1>2, <2>2, FlowKept DEF PageStep, RecoverySeesRevert, RecoveryPosts,
         Poll, OpenSwapPage
    <2> QED BY <2>1, <2>2
  <1>3. ASSUME NEW t \in Tabs, NEW h \in Attempts, Claim(t, h) \/ Retake(t, h)
        PROVE  FlowMoves
    BY <1>3, FlowKept DEF Claim, Retake
  <1>4. ASSUME NEW w \in Workers, ServerStep(w) PROVE FlowMoves
    <2>1. UNCHANGED used /\ job[w] \in Job
      BY <1>4, ServerMoves DEF TypeOK
    <2>2. UNCHANGED flow \/ (job[w].tab \in Tabs /\ FlowEnds(job[w].tab))
      <3>1. /\ job[w].tab \in Tabs \cup {NoTab} /\ job[w].who \in {"flow", "rec"}
        BY <2>1 DEF Job
      <3>2. CASE \E at \in Points : Goto(w, at)
        BY <3>2 DEF Goto, page
      <3>3. CASE Ok(w)
        BY <3>1, <3>3 DEF Ok, page
      <3>4. CASE Refused(w)
        BY <3>1, <3>4 DEF Refused, page, LeaveToRecovery
      <3> QED BY <1>4, <3>2, <3>3, <3>4, ServerMoves, ServerRefusals
    <2> QED BY <2>1, <2>2, FlowKept, FlowEndsMoves
  <1>5. ASSUME NEW h \in Attempts, Mine(h) \/ SolverClaims(h) \/ Age(h) \/ OutsideStep(h)
        PROVE  FlowMoves
    BY <1>5, FlowKept DEF Mine, SolverClaims, Age, OutsideStep, SolverLocks,
       SolverRefunds, RetakeFound, SweepReads, page
  <1>6. CASE SweepWrites \/ UNCHANGED vars
    BY <1>6, FlowKept DEF SweepWrites, vars, page
  <1> QED BY <1>1, <1>2, <1>3, <1>4, <1>5, <1>6, Steps

\* Moved so, the flows stay typed and past the wallet only under sent locks.
LEMMA FlowsTyped ==
    ASSUME TypeOK, SpokenOfIsSent, ChainSound, FlowMoves
    PROVE  FlowTyped
  <1>1. ASSUME NEW t \in Tabs
        PROVE  /\ flow'[t] \in Flow
               /\ flow'[t].at \in {"receipt", "commit"} => SentAfter(flow'[t].h)
    <2>1. Moved(t) /\ flow[t] \in Flow
      BY DEF FlowMoves, TypeOK
    <2>2. CASE flow'[t] = flow[t]
      BY <2>1, <2>2, SentStays DEF SpokenOfIsSent
    <2>3. CASE flow'[t] = NoFlow
      BY <2>3 DEF NoFlow, Flow
    <2>4. CASE /\ flow'[t] = [at |-> "prepare", h |-> used + 1]
               /\ used < MaxAttempts
      BY <2>4, BrowserAssumption DEF Flow, Attempts, TypeOK
    <2>5. CASE flow'[t] = [flow[t] EXCEPT !.at = "wallet"]
      BY <2>1, <2>5 DEF Flow
    <2>6. CASE /\ SentAfter(flow[t].h)
               /\ \E at \in {"receipt", "commit"} : flow'[t] = [flow[t] EXCEPT !.at = at]
      BY <2>1, <2>6 DEF Flow
    <2> QED BY <2>1, <2>2, <2>3, <2>4, <2>5, <2>6 DEF Moved
  <1>2. flow' \in [Tabs -> Flow]
    BY <1>1 DEF FlowMoves
  <1> QED BY <1>1, <1>2 DEF FlowTyped, Sent, SentAfter

-----------------------------------------------------------------------------
(* A lock is sent by the flow that made its hash, and by no other step.    *)

\* A transaction appears only under the hash of a flow at the wallet, which
\* leaves it with that.
LEMMA SentByItsFlow ==
    ASSUME SecretInv, [Next]_vars, NEW h \in Attempts, tx[h] = "none", tx'[h] # "none"
    PROVE  \E t \in Tabs : flow[t].at = "wallet" /\ flow[t].h = h /\ ~Unsent(t)'
  <1> USE DEF SecretInv
  <1>1. ASSUME NEW t \in Tabs, FlowStep(t)
        PROVE  flow[t].at = "wallet" /\ flow[t].h = h /\ ~Unsent(t)'
    <2>1. CASE WalletSigns(t) \/ WalletSilent(t)
      <3>1. flow[t].at = "wallet" /\ tx' = [tx EXCEPT ![flow[t].h] = "pending"]
        BY <2>1 DEF WalletSigns, WalletSilent
      <3>2. flow[t].h = h
        BY <3>1 DEF TypeOK
      <3>3. flow' = [flow EXCEPT ![t].at = "receipt"] \/ flow' = [flow EXCEPT ![t] = NoFlow]
        BY <2>1 DEF WalletSigns, WalletSilent, FlowAt, Retry, FlowEnds
      <3>4. flow'[t].at \notin {"prepare", "wallet"}
        BY <3>3 DEF TypeOK, Flow, NoFlow
      <3> QED BY <3>1, <3>2, <3>4 DEF Unsent
    <2>2. CASE ~(WalletSigns(t) \/ WalletSilent(t))
      BY <1>1, <2>2 DEF FlowStep, Confirm, Prepared, WalletRejects,
         Succeeded, Reverted, NoReceipt, chain
    <2> QED BY <2>1, <2>2
  <1>2. ASSUME NEW t \in Tabs, PageStep(t)
        PROVE  flow[t].at = "wallet" /\ flow[t].h = h /\ ~Unsent(t)'
    <2>1. CASE CloseTab(t)
      BY <2>1 DEF CloseTab, TypeOK, Unsent, NoFlow
    <2>2. CASE ~CloseTab(t)
      BY <1>2, <2>2 DEF PageStep, RecoverySeesRevert, RecoveryPosts, Poll,
         OpenSwapPage, chain
    <2> QED BY <2>1, <2>2
  <1>3. ASSUME NEW t \in Tabs, NEW k \in Attempts, Claim(t, k) \/ Retake(t, k)
        PROVE  FALSE
    BY <1>3 DEF Claim, Retake, chain
  <1>4. ASSUME NEW w \in Workers, ServerStep(w) PROVE FALSE
    BY <1>4, ServerMoves DEF chain
  <1>5. ASSUME NEW k \in Attempts, Mine(k) PROVE FALSE
    BY <1>5 DEF Mine, TypeOK
  <1>6. ASSUME NEW k \in Attempts, SolverClaims(k) \/ Age(k) \/ OutsideStep(k)
        PROVE  FALSE
    BY <1>6 DEF SolverClaims, Age, OutsideStep, SolverLocks, SolverRefunds,
       RetakeFound, SweepReads, chain
  <1>7. CASE SweepWrites \/ UNCHANGED vars
    BY <1>7 DEF SweepWrites, vars, chain
  <1> QED BY <1>1, <1>2, <1>3, <1>4, <1>5, <1>6, <1>7, Steps

-----------------------------------------------------------------------------
(* The order, the clock and what the browser stores.                       *)

Live == {"accepted", "main_locking", "main_locked", "counter_locked"}

RestSound ==
    /\ row' \in [Attempts -> [status : Status, bound : BOOLEAN]]
    /\ sweep' \in Sweep
    /\ age' \in [Attempts -> 0..3] /\ used' \in 0..MaxAttempts /\ fails' \in 0..MaxFails
    /\ used' >= used /\ \A h \in Attempts : age'[h] >= age[h]
    /\ \A h \in Attempts : row'[h].status \in Live => row[h].status \in Live \/ tx[h] = "none"

FailsTyped == fails' \in 0..MaxFails

\* The faults are counted up to their bound.
LEMMA FailsCounted ==
    ASSUME TypeOK, Works \/ Fails
    PROVE  FailsTyped
  BY BrowserAssumption DEF Works, Fails, TypeOK, FailsTyped

\* The status a step may give an order.
LEMMA StatusSound ==
    ASSUME TypeOK, NEW h \in Attempts, NEW st \in Status,
           st \in Live => row[h].status \in Live \/ tx[h] = "none",
           SetStatus(h, st)
    PROVE  /\ row' \in [Attempts -> [status : Status, bound : BOOLEAN]]
           /\ \A k \in Attempts : row'[k].status \in Live
                                     => row[k].status \in Live \/ tx[k] = "none"
  BY DEF TypeOK, SetStatus

RowSound ==
    /\ row' \in [Attempts -> [status : Status, bound : BOOLEAN]]
    /\ \A h \in Attempts : row'[h].status \in Live => row[h].status \in Live \/ tx[h] = "none"

\* An untouched order stays sound.
LEMMA RowKept ==
    ASSUME TypeOK, UNCHANGED row
    PROVE  RowSound
  BY DEF TypeOK, RowSound

\* A step that leaves the clock and the sweep alone has only the order to show.
LEMMA StillStatus ==
    ASSUME TypeOK, UNCHANGED <<age, used, sweep>>, RowSound, FailsTyped
    PROVE  RestSound
  BY DEF TypeOK, RowSound, RestSound, FailsTyped

\* Every step keeps them sound.
LEMMA RestStepSound ==
    ASSUME SecretInv, [Next]_vars
    PROVE  RestSound
  <1> USE DEF SecretInv
  <1>0. ASSUME UNCHANGED fails PROVE FailsTyped
    BY <1>0 DEF TypeOK, FailsTyped
  <1>1. ASSUME NEW t \in Tabs, FlowStep(t) PROVE RestSound
    <2>1. CASE Confirm(t)
      <3>1. used' = used + 1 /\ used < MaxAttempts /\ UNCHANGED <<row, sweep, age, fails>>
        BY <2>1 DEF Confirm, server
      <3> QED BY <3>1, BrowserAssumption DEF TypeOK, RestSound
    <2>2. CASE Prepared(t)
      <3>1. flow[t].h \in Attempts /\ tx[flow[t].h] = "none"
        BY <2>2, UnsentHash DEF Prepared, Unsent
      <3>2. RowSound
        BY <2>2, <3>1, RowKept, StatusSound DEF Prepared, RowSound, Status
      <3>3. FailsTyped
        BY <2>2, FailsCounted DEF Prepared
      <3> QED BY <2>2, <3>2, <3>3, StillStatus DEF Prepared
    <2>3. CASE ~(Confirm(t) \/ Prepared(t))
      <3>1. UNCHANGED <<row, sweep, age, used>> /\ (UNCHANGED fails \/ Fails)
        BY <1>1, <2>3 DEF FlowStep, WalletRejects, WalletSigns, WalletSilent,
           Succeeded, Reverted, NoReceipt, server
      <3> QED BY <1>0, <3>1, RowKept, FailsCounted, StillStatus
    <2> QED BY <2>1, <2>2, <2>3
  <1>2. ASSUME NEW t \in Tabs, PageStep(t) PROVE RestSound
    <2>1. CASE CloseTab(t)
      <3>1. RowSound
        <4>1. CASE UNCHANGED row
          BY <4>1, RowKept
        <4>2. CASE flow[t].at = "prepare" /\ SetStatus(flow[t].h, "accepted")
          <5>1. flow[t].h \in Attempts /\ tx[flow[t].h] = "none"
            BY <4>2, UnsentHash DEF Unsent
          <5> QED BY <4>2, <5>1, StatusSound DEF RowSound, Status
        <4> QED BY <2>1, <4>1, <4>2 DEF CloseTab
      <3>2. FailsTyped
        BY <2>1, FailsCounted DEF CloseTab
      <3> QED BY <2>1, <3>1, <3>2, StillStatus DEF CloseTab
    <2>2. CASE ~CloseTab(t)
      <3>1. UNCHANGED <<row, sweep, age, used, fails>>
        BY <1>2, <2>2 DEF PageStep, RecoverySeesRevert, RecoveryPosts, Poll,
           OpenSwapPage, server
      <3> QED BY <1>0, <3>1, RowKept, StillStatus
    <2> QED BY <2>1, <2>2
  <1>3. ASSUME NEW t \in Tabs, NEW h \in Attempts, Claim(t, h)
        PROVE  RestSound
    <2>1. SetStatus(h, "counter_claimed")
      BY <1>3 DEF Claim
    <2>2. RowSound
      BY <2>1, StatusSound DEF RowSound, Status, Live
    <2>3. FailsTyped
      BY <1>3, FailsCounted DEF Claim
    <2> QED BY <1>3, <2>2, <2>3, StillStatus DEF Claim
  <1>4. ASSUME NEW t \in Tabs, NEW h \in Attempts, Retake(t, h) PROVE RestSound
    <2>1. UNCHANGED row \/ \E st \in {"failed", "refunded"} : SetStatus(h, st)
      BY <1>4 DEF Retake
    <2>2. RowSound
      BY <2>1, RowKept, StatusSound DEF RowSound, Status, Live
    <2>3. FailsTyped
      BY <1>4, FailsCounted DEF Retake
    <2> QED BY <1>4, <2>2, <2>3, StillStatus DEF Retake
  <1>5. ASSUME NEW w \in Workers, ServerStep(w) PROVE RestSound
    <2>1. job[w].h \in Attempts
      BY <1>5, ServerMoves DEF SpokenOfIsSent, Sent
    <2>2. RowSound
      <3>1. CASE UNCHANGED row
        BY <3>1, RowKept
      <3>2. CASE Cas(w)
        BY <2>1, <3>2, RowKept, StatusSound DEF Cas, RowSound, Status, Live
      <3>3. CASE Finish(w)
        BY <2>1, <3>3, RowKept DEF Finish, TypeOK, RowSound, Status, Live
      <3>4. CASE Rollback(w)
        BY <2>1, <3>4, RowKept, StatusSound DEF Rollback, RowSound, Status, Live
      <3> QED BY <1>5, <3>1, <3>2, <3>3, <3>4 DEF ServerStep, HandlerSteps,
              HandlerDies, AnswerLost, Peek, Begin, Verify
    <2>3. FailsTyped
      BY <1>5, FailsCounted DEF ServerStep, HandlerSteps, HandlerDies, AnswerLost,
         Peek, Begin, Cas, Verify, Finish, Rollback
    <2> QED BY <1>5, <2>2, <2>3, ServerMoves, StillStatus
  <1>6. ASSUME NEW h \in Attempts, Mine(h) PROVE RestSound
    BY <1>0, <1>6, RowKept, StillStatus DEF Mine, server
  <1>7. ASSUME NEW h \in Attempts, SolverClaims(h) \/ SolverLocks(h) \/ SolverRefunds(h) \/ RetakeFound(h)
        PROVE  RestSound
    <2>1. \E st \in {"main_claimed", "counter_locked", "refunded"} :
            SetStatus(h, st) /\ (st = "counter_locked" => row[h].status \in Live)
      BY <1>7 DEF SolverClaims, SolverLocks, SolverRefunds, RetakeFound, Live
    <2>2. RowSound
      BY <2>1, StatusSound DEF RowSound, Status, Live
    <2> QED BY <1>0, <1>7, <2>2, StillStatus DEF SolverClaims, SolverLocks,
            SolverRefunds, RetakeFound
  <1>8. ASSUME NEW h \in Attempts, SweepReads(h) PROVE RestSound
    BY <1>8 DEF SweepReads, Sweep, TypeOK, RestSound
  <1>9. ASSUME NEW h \in Attempts, Age(h) PROVE RestSound
    BY <1>9 DEF Age, server, TypeOK, RestSound
  <1>10. CASE SweepWrites
    <2>1. sweep.h \in Attempts \cup {NoSwap} /\ NoSweep \in Sweep
      BY DEF TypeOK, Sweep, NoSweep
    <2>2. RowSound
      <3>1. CASE sweep.h \in Attempts
        BY <1>10, <3>1, RowKept, StatusSound DEF SweepWrites, RowSound, Status, Live
      <3>2. CASE sweep.h = NoSwap
        BY <1>10, <3>2, AttemptsFinite DEF SweepWrites, SetStatus, TypeOK, RowSound
      <3> QED BY <2>1, <3>1, <3>2
    <2>3. sweep' \in Sweep /\ UNCHANGED <<age, used, fails>>
      BY <1>10, <2>1 DEF SweepWrites
    <2>4. age' \in [Attempts -> 0..3] /\ used' \in 0..MaxAttempts /\ fails' \in 0..MaxFails
          /\ used' >= used /\ \A h \in Attempts : age'[h] >= age[h]
      BY <2>3 DEF TypeOK
    <2> QED BY <2>2, <2>3, <2>4 DEF RestSound, RowSound
  <1>11. CASE UNCHANGED vars
    BY <1>11 DEF vars, TypeOK, RestSound
  <1> QED BY <1>1, <1>2, <1>3, <1>4, <1>5, <1>6, <1>7, <1>8, <1>9, <1>10, <1>11, Steps
          DEF OutsideStep

RecordsSound ==
    /\ records' \in [Attempts -> Nat]
    /\ \A h \in Attempts : records'[h] > 0 => SentAfter(h)

\* Records that are kept or forgotten stay sound.
LEMMA RecordsKept ==
    ASSUME TypeOK, SpokenOfIsSent, ChainSound,
           UNCHANGED records \/ \E h \in Attempts : Forget(h)
    PROVE  RecordsSound
  <1>1. \A h \in Attempts : records[h] > 0 => SentAfter(h)
    BY SentStays DEF SpokenOfIsSent
  <1>2. CASE UNCHANGED records
    BY <1>1, <1>2 DEF TypeOK, RecordsSound
  <1>3. ASSUME NEW h \in Attempts, Forget(h) PROVE RecordsSound
    BY <1>1, <1>3 DEF Forget, TypeOK, RecordsSound
  <1> QED BY <1>2, <1>3

\* createdAt of a new record is a positive number.
LEMMA RememberSound ==
    ASSUME TypeOK, SpokenOfIsSent, ChainSound, NEW h, SentAfter(h), Remember(h)
    PROVE  RecordsSound
  <1> DEFINE n == Cardinality({k \in Attempts : tx[k] # "none"}) + 1
  <1>1. n \in Nat
    <2>1. IsFiniteSet({k \in Attempts : tx[k] # "none"})
      BY AttemptsFinite, FS_Subset
    <2> QED BY <2>1, FS_CardinalityType
  <1>2. records' = [records EXCEPT ![h] = n]
    BY DEF Remember
  <1> HIDE DEF n
  <1>3. \A k \in Attempts : records[k] > 0 => SentAfter(k)
    BY SentStays DEF SpokenOfIsSent
  <1> QED BY <1>1, <1>2, <1>3 DEF TypeOK, RecordsSound

\* Every step keeps the records sound.
LEMMA RecordsStepSound ==
    ASSUME SecretInv, [Next]_vars, ChainSound
    PROVE  RecordsSound
  <1> USE DEF SecretInv
  <1>1. ASSUME NEW t \in Tabs, FlowStep(t) PROVE RecordsSound
    <2>1. CASE WalletSigns(t)
      <3>1. SentAfter(flow[t].h)
        BY <2>1, UnsentHash DEF WalletSigns, Unsent, TypeOK, SentAfter
      <3> QED BY <2>1, <3>1, RememberSound DEF WalletSigns
    <2>2. CASE Reverted(t)
      BY <2>2, RecordsKept DEF Reverted, SpokenOfIsSent, Sent
    <2>3. CASE ~(WalletSigns(t) \/ Reverted(t))
      BY <1>1, <2>3, RecordsKept DEF FlowStep, Confirm, Prepared, WalletRejects,
         WalletSilent, Succeeded, NoReceipt, store
    <2> QED BY <2>1, <2>2, <2>3
  <1>2. ASSUME NEW t \in Tabs, PageStep(t) PROVE RecordsSound
    <2>1. CASE RecoverySeesRevert(t)
      BY <2>1, RecoversSent, RecordsKept DEF RecoverySeesRevert, Sent
    <2>2. CASE ~RecoverySeesRevert(t)
      BY <1>2, <2>2, RecordsKept DEF PageStep, RecoveryPosts, Poll, CloseTab,
         OpenSwapPage, store
    <2> QED BY <2>1, <2>2
  <1>3. ASSUME NEW t \in Tabs, NEW h \in Attempts, Claim(t, h) \/ Retake(t, h)
        PROVE  RecordsSound
    BY <1>3, RecordsKept DEF Claim, Retake
  <1>4. ASSUME NEW w \in Workers, ServerStep(w) PROVE RecordsSound
    <2>1. job[w].h \in Attempts
      BY <1>4, ServerMoves DEF SpokenOfIsSent, Sent
    <2>2. UNCHANGED records \/ Forget(job[w].h)
      BY <1>4, ServerMoves, ServerRefusals DEF Goto, Ok, Accepts, Refused, store
    <2> QED BY <2>1, <2>2, RecordsKept
  <1>5. ASSUME NEW h \in Attempts, Mine(h) \/ SolverClaims(h) \/ Age(h) \/ OutsideStep(h)
        PROVE  RecordsSound
    BY <1>5, RecordsKept DEF Mine, SolverClaims, Age, OutsideStep, SolverLocks,
       SolverRefunds, RetakeFound, SweepReads, store
  <1>6. CASE SweepWrites \/ UNCHANGED vars
    BY <1>6, RecordsKept DEF SweepWrites, vars, store
  <1> QED BY <1>1, <1>2, <1>3, <1>4, <1>5, <1>6, Steps

-----------------------------------------------------------------------------
(* A secret is forgotten only when it can no longer be needed.             *)

NeedlessAfter(h) ==
    /\ tx[h] # "none" \/ age'[h] = 3
    /\ \/ row'[h].status \notin Live
       \/ tx'[h] = "reverted" /\ deposit'[h] = "none"
       \/ age'[h] = 3

VaultSound ==
    /\ vault' \subseteq Attempts
    /\ active' \in [Tabs -> Attempts \cup {NoSwap}]
    /\ \A h \in vault \ vault' : NeedlessAfter(h)

\* An untouched vault is sound.
LEMMA VaultKept ==
    ASSUME TypeOK, UNCHANGED <<vault, active>>
    PROVE  VaultSound
  BY DEF TypeOK, VaultSound

\* Forgetting a needless secret is sound.
LEMMA ForgetSound ==
    ASSUME TypeOK, NEW t \in Tabs, NEW h, ForgetSecret(t, h), NeedlessAfter(h)
    PROVE  VaultSound
  BY DEF TypeOK, VaultSound, ForgetSecret, Dismiss

\* Every step takes only needless secrets out of the vault.
LEMMA VaultStepSound ==
    ASSUME SecretInv, [Next]_vars
    PROVE  VaultSound
  <1> USE DEF SecretInv
  <1>1. ASSUME NEW t \in Tabs, FlowStep(t) PROVE VaultSound
    <2>1. CASE Confirm(t)
      <3>1. used + 1 \in Attempts
        BY <2>1, BrowserAssumption DEF Confirm, TypeOK, Attempts
      <3> QED BY <2>1, <3>1 DEF Confirm, SaveSecret, TypeOK, VaultSound
    <2>2. CASE ~Confirm(t)
      BY <1>1, <2>2, VaultKept DEF FlowStep, Prepared, WalletRejects, WalletSigns,
         WalletSilent, Succeeded, Reverted, NoReceipt, store
    <2> QED BY <2>1, <2>2
  <1>2. ASSUME NEW t \in Tabs, PageStep(t) PROVE VaultSound
    <2>1. CASE RecoverySeesRevert(t)
      <3>1. PICK h \in Recoverable(t) :
               tx[h] = "reverted" /\ ForgetSecret(t, h) /\ UNCHANGED chain
        BY <2>1 DEF RecoverySeesRevert
      <3>2. NeedlessAfter(h)
        BY <3>1, RecoversSent DEF DepositMined, chain, NeedlessAfter, Sent
      <3> QED BY <3>1, <3>2, ForgetSound
    <2>2. CASE Poll(t) \/ CloseTab(t)
      <3>1. stage[t].h \in Attempts \cup {NoSwap}
        BY DEF TypeOK, Stage
      <3>2. UNCHANGED vault /\ active' \in [Tabs -> Attempts \cup {NoSwap}]
        BY <2>2, <3>1 DEF Poll, Dismiss, CloseTab, TypeOK
      <3> QED BY <3>2 DEF VaultSound, TypeOK
    <2>3. CASE RecoveryPosts(t) \/ OpenSwapPage(t)
      BY <2>3, VaultKept DEF RecoveryPosts, OpenSwapPage, store
    <2> QED BY <1>2, <2>1, <2>2, <2>3 DEF PageStep
  <1>3. ASSUME NEW t \in Tabs, NEW h \in Attempts, Claim(t, h) \/ Retake(t, h)
        PROVE  VaultSound
    <2>1. CASE UNCHANGED <<vault, active>>
      BY <2>1, VaultKept
    <2>2. CASE ForgetSecret(t, h) /\ \E st \in Status \ Live : SetStatus(h, st)
      <3>1. tx[h] # "none"
        BY <1>3 DEF Claim, Retake, DepositMined
      <3>2. row'[h].status \notin Live
        BY <2>2 DEF SetStatus, TypeOK
      <3> QED BY <2>2, <3>1, <3>2, ForgetSound DEF NeedlessAfter
    <2> QED BY <1>3, <2>1, <2>2 DEF Claim, Retake, Status, Live
  <1>4. ASSUME NEW w \in Workers, ServerStep(w) PROVE VaultSound
    <2>1. Sent(job[w].h) /\ job[w].tab \in Tabs \cup {NoTab}
      BY <1>4, ServerMoves DEF SpokenOfIsSent, TypeOK, Job
    <2>2. CASE UNCHANGED <<vault, active>>
      BY <2>2, VaultKept
    <2>3. CASE /\ job[w].tab # NoTab /\ Terminal(row'[job[w].h].status)
               /\ ForgetSecret(job[w].tab, job[w].h)
      <3>1. NeedlessAfter(job[w].h)
        BY <2>1, <2>3 DEF NeedlessAfter, Terminal, Live, Sent
      <3> QED BY <2>1, <2>3, <3>1, ForgetSound
    <2> QED BY <1>4, <2>2, <2>3, ServerMoves, ServerRefusals
            DEF Goto, Ok, Accepts, Refused, store
  <1>5. ASSUME NEW h \in Attempts, Age(h) PROVE VaultSound
    <2>1. CASE age[h] = 2
      <3>1. age'[h] = 3
        BY <1>5, <2>1 DEF Age, TypeOK
      <3> QED BY <1>5, <2>1, <3>1 DEF Age, VaultSound, NeedlessAfter, TypeOK
    <2>2. CASE age[h] # 2
      BY <1>5, <2>2, VaultKept DEF Age
    <2> QED BY <2>1, <2>2
  <1>6. ASSUME NEW h \in Attempts, Mine(h) \/ SolverClaims(h) \/ OutsideStep(h)
        PROVE  VaultSound
    BY <1>6, VaultKept DEF Mine, SolverClaims, OutsideStep, SolverLocks,
       SolverRefunds, RetakeFound, SweepReads, store
  <1>7. CASE SweepWrites \/ UNCHANGED vars
    BY <1>7, VaultKept DEF SweepWrites, vars, store
  <1> QED BY <1>1, <1>2, <1>3, <1>4, <1>5, <1>6, <1>7, Steps

-----------------------------------------------------------------------------
(* The invariant.                                                          *)

\* A flow before its lock keeps a hash of its own and its secret.
LEMMA UnsentStaysOwn ==
    ASSUME SecretInv, [Next]_vars, FlowMoves, VaultSound, RestSound
    PROVE  UnsentIsOwn'
  <1> USE DEF SecretInv
  <1> DEFINE Fresh(t) == /\ flow'[t] = [at |-> "prepare", h |-> used + 1]
                         /\ used' = used + 1 /\ used + 1 \in vault' /\ used < MaxAttempts
             Same(t) == Unsent(t) /\ flow'[t].h = flow[t].h
  <1>1. ASSUME NEW t \in Tabs, Unsent(t)' PROVE Fresh(t) \/ Same(t)
    <2>1. Moved(t) /\ flow[t] \in Flow
      BY DEF FlowMoves, TypeOK
    <2>2. flow'[t].at \in {"prepare", "wallet"}
      BY <1>1 DEF Unsent
    <2> QED BY <2>1, <2>2 DEF Moved, Unsent, NoFlow, Flow
  <1>2. ASSUME NEW t \in Tabs, Unsent(t)
        PROVE  flow[t].h # used + 1 /\ flow[t].h \in Attempts /\ flow[t].h \in 1..used
    BY <1>2, UnsentHash DEF UnsentIsOwn, TypeOK
  <1>3. ASSUME NEW t \in Tabs, Fresh(t), NEW u \in Tabs, u # t, Unsent(u)'
        PROVE  Same(u)
    <2>1. used' # used
      BY <1>3 DEF TypeOK
    <2>2. PICK v \in Tabs : \A z \in Tabs : z # v => flow'[z] = flow[z]
      BY <2>1 DEF FlowMoves
    <2>3. v = t
      <3>1. SUFFICES ASSUME v # t PROVE FALSE
        OBVIOUS
      <3>2. flow[t] = [at |-> "prepare", h |-> used + 1]
        BY <1>3, <2>2, <3>1
      <3> QED BY <1>2, <3>2 DEF Unsent
    <2>4. flow'[u] = flow[u]
      BY <1>3, <2>2, <2>3
    <2> QED BY <1>3, <2>4 DEF Unsent
  <1>4. ASSUME NEW t \in Tabs, Unsent(t)'
        PROVE  /\ flow'[t].h \in Attempts /\ flow'[t].h \in 1..used'
               /\ tx[flow'[t].h] = "none"
               /\ age'[flow'[t].h] < 3 => flow'[t].h \in vault'
    <2>1. CASE Fresh(t)
      <3>1. flow'[t].h = used + 1 /\ used + 1 \in Attempts /\ used + 1 \in 1..used'
        BY <2>1, BrowserAssumption DEF TypeOK, Attempts
      <3>2. used + 1 > used
        BY DEF TypeOK
      <3> QED BY <2>1, <3>1, <3>2 DEF UnusedIsUnsent
    <2>2. CASE Same(t)
      <3> DEFINE h == flow[t].h
      <3>1. h \in Attempts /\ h \in 1..used /\ tx[h] = "none"
        BY <1>2, <2>2, UnsentHash
      <3>2. ASSUME age'[h] < 3 PROVE h \in vault'
        <4> HIDE DEF h
        <4>1. age[h] < 3
          BY <3>1, <3>2 DEF RestSound, TypeOK
        <4>2. h \in vault
          BY <2>2, <4>1, UnsentHash DEF h
        <4> QED BY <3>1, <3>2, <4>2 DEF VaultSound, NeedlessAfter
      <3>3. 1..used \subseteq 1..used'
        BY DEF RestSound, TypeOK
      <3> QED BY <2>2, <3>1, <3>2, <3>3
    <2> QED BY <1>1, <1>4, <2>1, <2>2
  <1>5. ASSUME NEW t \in Tabs, Unsent(t)', NEW u \in Tabs, u # t, Unsent(u)'
        PROVE  flow'[u].h # flow'[t].h
    <2>1. CASE Fresh(t)
      BY <1>2, <1>3, <1>5, <2>1
    <2>2. CASE Fresh(u)
      BY <1>2, <1>3, <1>5, <2>2
    <2>3. CASE Same(t) /\ Same(u)
      BY <1>5, <2>3 DEF UnsentIsOwn
    <2> QED BY <1>1, <1>5, <2>1, <2>2, <2>3
  <1>6. ASSUME NEW t \in Tabs, Unsent(t)' PROVE tx'[flow'[t].h] = "none"
    <2> DEFINE h == flow'[t].h
    <2>1. SUFFICES ASSUME tx'[h] # "none" PROVE FALSE
      OBVIOUS
    <2>2. h \in Attempts /\ tx[h] = "none"
      BY <1>4, <1>6
    <2> HIDE DEF h
    <2>3. PICK u \in Tabs : flow[u].at = "wallet" /\ flow[u].h = h /\ ~Unsent(u)'
      BY <2>1, <2>2, SentByItsFlow
    <2>4. u # t /\ Unsent(u)
      BY <1>6, <2>3 DEF Unsent
    <2>5. CASE Fresh(t)
      BY <1>2, <2>3, <2>4, <2>5 DEF h
    <2>6. CASE Same(t)
      BY <2>3, <2>4, <2>6 DEF h, UnsentIsOwn
    <2> QED BY <1>1, <1>6, <2>5, <2>6
  <1> HIDE DEF Fresh, Same
  <1> QED BY <1>4, <1>5, <1>6 DEF UnsentIsOwn

\* Nothing is sent under a hash nobody made.
LEMMA UnusedStaysUnsent ==
    ASSUME SecretInv, [Next]_vars, RestSound
    PROVE  UnusedIsUnsent'
  <1> USE DEF SecretInv
  <1>1. ASSUME NEW h \in Attempts, h > used' PROVE tx'[h] = "none"
    <2>1. SUFFICES ASSUME tx'[h] # "none" PROVE FALSE
      OBVIOUS
    <2>2. h > used
      BY <1>1, AttemptsFinite DEF RestSound, TypeOK
    <2>3. tx[h] = "none"
      BY <2>2 DEF UnusedIsUnsent
    <2>4. PICK t \in Tabs : flow[t].at = "wallet" /\ flow[t].h = h
      BY <2>1, <2>3, SentByItsFlow
    <2>5. h \in 1..used
      BY <2>4 DEF UnsentIsOwn, Unsent
    <2> QED BY <2>2, <2>5 DEF TypeOK
  <1> QED BY <1>1 DEF UnusedIsUnsent

\* What is at stake after a step was at stake before it, or has just been
\* sent by its flow; either way the vault had its secret, and keeps it.
LEMMA SecretStaysKept ==
    ASSUME SecretInv, [Next]_vars, ChainSound, RestSound, VaultSound
    PROVE  SecretKept'
  <1> USE DEF SecretInv
  <1>1. ASSUME NEW h \in Attempts,
               tx'[h] = "pending" \/ deposit'[h] = "locked",
               row'[h].status \in Live, age'[h] < 3
        PROVE  h \in vault'
    <2>1. age[h] < 3
      BY <1>1 DEF RestSound, TypeOK
    <2>2. h \in vault
      <3>1. CASE tx[h] = "none"
        <4>1. tx'[h] # "none"
          BY <1>1 DEF ChainSound, DepositMined
        <4>2. PICK t \in Tabs : flow[t].at = "wallet" /\ flow[t].h = h
          BY <3>1, <4>1, SentByItsFlow
        <4> QED BY <2>1, <4>2, UnsentHash DEF Unsent
      <3>2. CASE tx[h] # "none"
        <4>1. OnChain(h) /\ row[h].status \in Live
          BY <1>1, <3>2 DEF ChainSound, RestSound
        <4> QED BY <2>1, <4>1 DEF SecretKept, AtStake, OnChain, Live
      <3> QED BY <3>1, <3>2
    <2>3. ~NeedlessAfter(h)
      BY <1>1 DEF NeedlessAfter
    <2> QED BY <2>2, <2>3 DEF VaultSound
  <1> QED BY <1>1 DEF SecretKept, AtStake, Live

\* The invariant holds before the first confirmation.
LEMMA SecretInitially ==
    ASSUME Init PROVE SecretInv
  <1>1. TypeOK
    <2>1. NoSwap = 0 /\ 0 \in 0..MaxAttempts /\ 0 \in 0..MaxFails
      BY BrowserAssumption DEF NoSwap
    <2>2. Form \in Stage /\ NoFlow \in Flow /\ NoRec \in Rec /\ NoJob \in Job /\ NoSweep \in Sweep
      BY DEF Form, Stage, NoFlow, Flow, NoRec, Rec, NoJob, Job, NoSweep, Sweep
    <2>3. NoRow \in [status : Status, bound : BOOLEAN]
      BY DEF NoRow, Status
    <2> QED BY <2>1, <2>2, <2>3 DEF Init, TypeOK
  <1>2. SecretKept /\ DepositMined /\ UnusedIsUnsent
    BY DEF Init, SecretKept, AtStake, DepositMined, UnusedIsUnsent
  <1>3. SpokenOfIsSent /\ UnsentIsOwn
    BY DEF Init, SpokenOfIsSent, UnsentIsOwn, Unsent, Waiting, Form, NoFlow, NoJob
  <1> QED BY <1>1, <1>2, <1>3 DEF SecretInv

\* Every step preserves it.
LEMMA SecretInductive ==
    ASSUME SecretInv, [Next]_vars PROVE SecretInv'
  <1>1. ChainSound
    BY ChainStep
  <1>2. PageSound /\ JobSound /\ FlowMoves /\ RecordsSound
    BY <1>1, PageStepSound, JobStepSound, FlowStepMoves, RecordsStepSound
  <1>3. RestSound /\ VaultSound
    BY RestStepSound, VaultStepSound
  <1>4. FlowTyped
    BY <1>1, <1>2, FlowsTyped DEF SecretInv
  <1>5. TypeOK'
    BY <1>1, <1>2, <1>3, <1>4 DEF TypeOK, ChainSound, PageSound, JobSound,
       RecordsSound, FlowTyped, RestSound, VaultSound
  <1>6. SpokenOfIsSent'
    BY <1>2, <1>4 DEF SpokenOfIsSent, PageSound, JobSound, FlowTyped,
       RecordsSound, Sent, SentAfter
  <1> QED BY <1>1, <1>2, <1>3, <1>5, <1>6, UnsentStaysOwn, UnusedStaysUnsent,
          SecretStaysKept DEF SecretInv, ChainSound

\* THE BROWSER'S INVARIANT: one flow per unsent hash, with its secret saved;
\* records, waiting pages and handlers only of sent locks (page.tsx
\* 1560-1710, lib/htlc-pending-main-lock.ts, htlc-service-singleton.ts
\* 1311-1361).
THEOREM BrowserInvariant == Spec => []SecretInv
  <1>1. Init => SecretInv
    BY SecretInitially
  <1>2. SecretInv /\ [Next]_vars => SecretInv'
    BY SecretInductive
  <1> QED BY <1>1, <1>2, PTL DEF Spec

\* Every variable of the browser, the chain and the server stays in its type.
THEOREM BrowserTypeCorrect == Spec => []TypeOK
  <1>1. SecretInv => TypeOK
    BY DEF SecretInv
  <1> QED BY <1>1, BrowserInvariant, PTL

\* However many tabs are open, closed or crash, answers are lost and handlers
\* die, the secret of a lock that is at stake is in the vault (secret-vault.ts
\* 369-508, page.tsx 2282 and 2344).
THEOREM SecretNeverLost == Spec => []SecretKept
  <1>1. SecretInv => SecretKept
    BY DEF SecretInv
  <1> QED BY <1>1, BrowserInvariant, PTL

-----------------------------------------------------------------------------
(* Where a confirmation may end.                                           *)

Clean(t) == tx'[flow[t].h] \in {"none", "reverted"} \/ flow[t].h \in unseen'
Ended(t) == flow[t] # NoFlow /\ flow'[t] = NoFlow /\ stage'[t] = Form

\* Leaving a lock to the recovery, or to the order's page, is no return to
\* the form.
LEMMA LeftIsNotForm ==
    ASSUME TypeOK, NEW t \in Tabs, NEW h,
           Show(t, On("locking", h)) \/ Show(t, On("order", h))
    PROVE  stage'[t] # Form
  BY DEF Show, On, Form, TypeOK

\* Every step that ends a flow at the form ends it clean.
LEMMA EndsClean ==
    ASSUME SecretInv, [Next]_vars, NEW t \in Tabs, Ended(t)
    PROVE  Clean(t)
  <1> USE DEF SecretInv
  <1>0. ASSUME UNCHANGED flow PROVE FALSE
    BY <1>0 DEF Ended
  <1>1. ASSUME NEW u \in Tabs, FlowStep(u) PROVE Clean(t)
    <2>1. u = t
      <3>1. SUFFICES ASSUME u # t PROVE flow'[t] = flow[t]
        BY DEF Ended
      <3> QED BY <1>1, <3>1 DEF FlowStep, Confirm, Prepared, WalletRejects,
              WalletSigns, WalletSilent, Succeeded, Reverted, NoReceipt, Retry,
              LeaveToRecovery, FlowAt, FlowEnds, TypeOK
    <2>2. CASE Confirm(u) \/ WalletSigns(u) \/ Succeeded(u) \/ (Prepared(u) /\ FlowAt(u, "wallet"))
      <3>1. flow'[t].at # "idle"
        BY <2>1, <2>2 DEF Confirm, WalletSigns, Succeeded, FlowAt, TypeOK, Flow
      <3> QED BY <3>1 DEF Ended, NoFlow
    <2>3. CASE Prepared(u) \/ WalletRejects(u)
      <3>1. tx[flow[t].h] = "none" /\ tx' = tx
        BY <2>1, <2>3, UnsentHash DEF Prepared, WalletRejects, Unsent, chain
      <3> QED BY <3>1 DEF Clean
    <2>4. CASE WalletSilent(u) \/ Reverted(u)
      BY <2>1, <2>4 DEF WalletSilent, Reverted, Clean, chain
    <2>5. CASE NoReceipt(u)
      BY <2>1, <2>5, LeftIsNotForm DEF NoReceipt, LeaveToRecovery, Ended
    <2> QED BY <1>1, <2>2, <2>3, <2>4, <2>5 DEF FlowStep
  <1>2. ASSUME NEW u \in Tabs, PageStep(u) PROVE Clean(t)
    <2>1. CASE CloseTab(u)
      <3>1. u = t
        BY <2>1 DEF CloseTab, Ended, TypeOK
      <3>2. stage'[t] = Closed
        BY <2>1, <3>1 DEF CloseTab, TypeOK
      <3> QED BY <3>2 DEF Ended, Closed, Form
    <2>2. CASE ~CloseTab(u)
      BY <1>0, <1>2, <2>2 DEF PageStep, RecoverySeesRevert, RecoveryPosts, Poll,
         OpenSwapPage
    <2> QED BY <2>1, <2>2
  <1>3. ASSUME NEW u \in Tabs, NEW h \in Attempts, Claim(u, h) \/ Retake(u, h)
        PROVE  Clean(t)
    BY <1>0, <1>3 DEF Claim, Retake
  <1>4. ASSUME NEW w \in Workers, ServerStep(w) PROVE Clean(t)
    <2> DEFINE j == job[w]
    <2>1. j \in Job
      BY DEF TypeOK
    <2>2. /\ j.tab \in Tabs
          /\ FlowEnds(j.tab)
          /\ Show(j.tab, On("locking", j.h)) \/ Show(j.tab, On("order", j.h))
      <3>1. j.tab \in Tabs \cup {NoTab} /\ j.who \in {"flow", "rec"}
        BY <2>1 DEF Job
      <3>2. CASE \E at \in Points : Goto(w, at)
        BY <1>0, <3>2 DEF Goto, page
      <3>3. CASE Ok(w)
        BY <1>0, <3>1, <3>3 DEF Ok, page
      <3>4. CASE Refused(w)
        BY <1>0, <3>1, <3>4 DEF Refused, page, LeaveToRecovery
      <3> QED BY <1>4, <3>2, <3>3, <3>4, ServerMoves, ServerRefusals
    <2> HIDE DEF j
    <2>3. j.tab = t
      BY <2>2 DEF FlowEnds, Ended, TypeOK
    <2> QED BY <2>2, <2>3, LeftIsNotForm DEF Ended
  <1>5. ASSUME NEW h \in Attempts, Mine(h) \/ SolverClaims(h) \/ Age(h) \/ OutsideStep(h)
        PROVE  Clean(t)
    BY <1>0, <1>5 DEF Mine, SolverClaims, Age, OutsideStep, SolverLocks,
       SolverRefunds, RetakeFound, SweepReads, page
  <1>6. CASE SweepWrites \/ UNCHANGED vars
    BY <1>0, <1>6 DEF SweepWrites, vars, page
  <1> QED BY <1>1, <1>2, <1>3, <1>4, <1>5, <1>6, Steps

\* A confirmation that ends back at the form, where the next one makes a fresh
\* hash, has no lock of its own under way that it knows of (page.tsx
\* 1666-1704), in every interleaving of any number of tabs.
THEOREM RetryAlwaysClean == Spec => RetryIsClean
  <1>1. SecretInv /\ [Next]_vars =>
          [\A t \in Tabs :
              flow[t] # NoFlow /\ flow'[t] = NoFlow /\ stage'[t] = Form =>
                  \/ tx'[flow[t].h] \in {"none", "reverted"}
                  \/ flow[t].h \in unseen']_vars
    BY EndsClean DEF Ended, Clean
  <1> QED BY <1>1, BrowserInvariant, PTL DEF Spec, RetryIsClean

=============================================================================
