----------------------------- MODULE BrowserSwap -----------------------------
(***************************************************************************)
(* The browser's side of a managed forward swap.  handleConfirm            *)
(* (app/swap/page.tsx) saves a fresh secret, reserves the CBTC, has the    *)
(* wallet lock the WBTC and posts the lock; from the wallet's answer on a  *)
(* pending-main-lock record in localStorage lets the recovery effect post  *)
(* it again, in any tab and after any restart.  Secrets and records are    *)
(* shared by the tabs, the marker of the active swap is not                *)
(* (sessionStorage).                                                       *)
(*                                                                         *)
(* Every await is a point where the other tabs, the request handlers of    *)
(* the server, the chain and the clock move.  A tab may be closed or       *)
(* crash, an answer may be lost, a handler may die.                        *)
(*                                                                         *)
(* The handlers of commit-forward and main-lock are modelled step by step  *)
(* (commitForwardOrder, recordMainLock); the solver, the sweeps and the    *)
(* escrow by what they do to the row and the deposit, see HtlcForward.     *)
(* Each Confirm makes a fresh hash: the stored intent it would resume      *)
(* matches only if both timelocks do, that is within the same second.      *)
(***************************************************************************)
EXTENDS Integers, FiniteSets

CONSTANTS
    Tabs,         \* tabs of one browser, signed in as one user and one wallet
    NoTab,        \* no tab: the client of a request is gone
    Workers,      \* request handlers of commit-forward and main-lock at a time
    MaxAttempts,  \* bound: confirmations of a quote
    MaxFails      \* bound: closed tabs, lost answers, dead handlers, refusals

ASSUME BrowserAssumption ==
    /\ Tabs # {} /\ Workers # {} /\ NoTab \notin Tabs
    /\ MaxAttempts \in Nat \ {0} /\ MaxFails \in Nat

VARIABLES
    vault,     \* hashes whose secret is in the encrypted vault (localStorage)
    records,   \* createdAt of the pending-main-lock record of a hash, 0: none
    active,    \* per tab: ACTIVE_SWAP_KEY (sessionStorage)
    stage,     \* per tab: what the page shows
    flow,      \* per tab: where handleConfirm awaits
    rec,       \* per tab: the recovery in flight
    tx,        \* the lock transaction under the hash the wallet was asked for
    unseen,    \* locks the wallet sent and never told the page of
    deposit,   \* the escrow's slot of a hash
    row,       \* the order's status and whether mainLockTx is set
    job,       \* per worker: the handler's point and its client
    sweep,     \* expireAbandonedAccepted between its reads and its write
    age,       \* 0 fresh; 1 draft TTL over, solverTimelock may be;
               \* 2 userTimelock over; 3 an hour later
    used,      \* hashes made
    fails

vars == <<vault, records, active, stage, flow, rec, tx, unseen, deposit, row,
          job, sweep, age, used, fails>>

Attempts == 1..MaxAttempts
NoSwap == 0

Status == {"none", "accepted", "failed", "main_locking", "main_locked",
           "counter_locked", "counter_claimed", "main_claimed", "cancelled",
           "refunded"}
NoRow == [status |-> "none", bound |-> FALSE]
Stage == [kind : {"closed", "form", "recording", "locking", "claimable", "order"},
          h : Attempts \cup {NoSwap}]
Flow == [at : {"idle", "prepare", "wallet", "receipt", "commit"},
         h : Attempts \cup {NoSwap}]
Rec == [busy : BOOLEAN, h : Attempts \cup {NoSwap}, live : BOOLEAN]
Job == [at : {"idle", "peek", "begin", "cas", "verify", "finish", "rollback"},
        h : Attempts \cup {NoSwap}, tab : Tabs \cup {NoTab}, who : {"flow", "rec"}]
Sweep == [h : Attempts \cup {NoSwap}, locked : BOOLEAN]

Closed == [kind |-> "closed", h |-> NoSwap]
Form == [kind |-> "form", h |-> NoSwap]
On(kind, h) == [kind |-> kind, h |-> h]
NoFlow == [at |-> "idle", h |-> NoSwap]
NoRec == [busy |-> FALSE, h |-> NoSwap, live |-> FALSE]
NoJob == [at |-> "idle", h |-> NoSwap, tab |-> NoTab, who |-> "flow"]
NoSweep == [h |-> NoSwap, locked |-> FALSE]

TypeOK ==
    /\ vault \subseteq Attempts
    /\ records \in [Attempts -> Nat]
    /\ active \in [Tabs -> Attempts \cup {NoSwap}]
    /\ stage \in [Tabs -> Stage]
    /\ flow \in [Tabs -> Flow]
    /\ rec \in [Tabs -> Rec]
    /\ tx \in [Attempts -> {"none", "pending", "mined", "reverted", "replaced"}]
    /\ unseen \subseteq Attempts
    /\ deposit \in [Attempts -> {"none", "locked", "claimed", "retaken"}]
    /\ row \in [Attempts -> [status : Status, bound : BOOLEAN]]
    /\ job \in [Workers -> Job]
    /\ sweep \in Sweep
    /\ age \in [Attempts -> 0..3]
    /\ used \in 0..MaxAttempts
    /\ fails \in 0..MaxFails

Init ==
    /\ vault = {}
    /\ records = [h \in Attempts |-> 0]
    /\ active = [t \in Tabs |-> NoSwap]
    /\ stage = [t \in Tabs |-> Form]
    /\ flow = [t \in Tabs |-> NoFlow]
    /\ rec = [t \in Tabs |-> NoRec]
    /\ tx = [h \in Attempts |-> "none"]
    /\ unseen = {}
    /\ deposit = [h \in Attempts |-> "none"]
    /\ row = [h \in Attempts |-> NoRow]
    /\ job = [w \in Workers |-> NoJob]
    /\ sweep = NoSweep
    /\ age = [h \in Attempts |-> 0]
    /\ used = 0
    /\ fails = 0

-----------------------------------------------------------------------------
store == <<vault, records, active>>
page == <<stage, flow, rec>>
chain == <<tx, unseen, deposit>>
server == <<row, job, sweep>>

Works == UNCHANGED fails
Fails == fails < MaxFails /\ fails' = fails + 1

Pending == {h \in Attempts : records[h] > 0}
\* createdAt grows from one lock the wallet was asked to send to the next.
Remember(h) ==
    records' = [records EXCEPT ![h] = Cardinality({k \in Attempts : tx[k] # "none"}) + 1]
Forget(h) == records' = [records EXCEPT ![h] = 0]

\* Any change of the stage runs the cleanup of the recovery effect, which
\* marks the recovery in flight as cancelled.  On the order's own page
\* nothing of /swap is shown any more.
Show(t, s) ==
    /\ stage' = [stage EXCEPT ![t] = IF @.kind = "order" /\ s.kind # "order" THEN @ ELSE s]
    /\ rec' = [rec EXCEPT ![t].live = FALSE]

FlowAt(t, at) == flow' = [flow EXCEPT ![t].at = at]
FlowEnds(t) == flow' = [flow EXCEPT ![t] = NoFlow]
Retry(t) == FlowEnds(t) /\ Show(t, Form)

Dismiss(t, h) == active' = [active EXCEPT ![t] = IF @ = h THEN NoSwap ELSE @]
SaveSecret(t, h) ==
    /\ vault' = vault \cup {h}
    /\ active' = [active EXCEPT ![t] = h]
ForgetSecret(t, h) ==
    /\ vault' = vault \ {h}
    /\ Dismiss(t, h)

SetStatus(h, st) == row' = [row EXCEPT ![h].status = st]

Unanswered(t) == [w \in Workers |->
    IF job[w].tab = t THEN [job[w] EXCEPT !.tab = NoTab] ELSE job[w]]

\* A request of tab t for h reaches an idle handler; they are all alike.
Request(t, who, at, h) ==
    LET idle == {w \in Workers : job[w].at = "idle"} IN
    /\ idle # {}
    /\ job' = [job EXCEPT ![CHOOSE w \in idle : TRUE] =
                  [at |-> at, h |-> h, tab |-> t, who |-> who]]

-----------------------------------------------------------------------------
(* handleConfirm: secret, reservation, wallet, receipt, commit.            *)

Confirm(t) ==
    LET h == used + 1 IN
    /\ stage[t] = Form /\ flow[t] = NoFlow
    /\ used < MaxAttempts
    /\ used' = h
    /\ SaveSecret(t, h)
    /\ flow' = [flow EXCEPT ![t] = [at |-> "prepare", h |-> h]]
    /\ Show(t, Form)
    /\ UNCHANGED <<records, chain, server, age, fails>>

\* The order is accepted, or refused and nothing is reserved, or the answer
\* is lost.  Once it has one, the flow shows its own stage again even if the
\* recovery of another order has taken the page meanwhile.
Prepared(t) ==
    LET h == flow[t].h IN
    /\ flow[t].at = "prepare"
    /\ \/ /\ SetStatus(h, "accepted")
          /\ FlowAt(t, "wallet") /\ Show(t, Form) /\ Works
       \/ UNCHANGED row /\ Retry(t) /\ Works
       \/ /\ SetStatus(h, "accepted")
          /\ Retry(t) /\ Fails
    /\ UNCHANGED <<store, chain, job, sweep, age, used>>

WalletRejects(t) ==
    /\ flow[t].at = "wallet"
    /\ Retry(t)
    /\ UNCHANGED <<store, chain, server, age, used, fails>>

WalletSigns(t) ==
    LET h == flow[t].h IN
    /\ flow[t].at = "wallet"
    /\ tx' = [tx EXCEPT ![h] = "pending"]
    /\ Remember(h)
    /\ FlowAt(t, "receipt") /\ Show(t, On("recording", h))
    /\ UNCHANGED <<vault, active, unseen, deposit, server, age, used, fails>>

\* The wallet sends the transaction and its answer does not come back.
WalletSilent(t) ==
    LET h == flow[t].h IN
    /\ flow[t].at = "wallet"
    /\ tx' = [tx EXCEPT ![h] = "pending"]
    /\ unseen' = unseen \cup {h}
    /\ Retry(t) /\ Fails
    /\ UNCHANGED <<store, deposit, server, age, used>>

Succeeded(t) ==
    LET h == flow[t].h IN
    /\ flow[t].at = "receipt" /\ tx[h] = "mined"
    /\ Request(t, "flow", "peek", h)
    /\ FlowAt(t, "commit")
    /\ UNCHANGED <<store, stage, rec, chain, row, sweep, age, used, fails>>

Reverted(t) ==
    LET h == flow[t].h IN
    /\ flow[t].at = "receipt" /\ tx[h] = "reverted"
    /\ Forget(h) /\ Retry(t)
    /\ UNCHANGED <<vault, active, chain, server, age, used, fails>>

LeaveToRecovery_Retry(t, h) == Retry(t)

\* P1a: the receipt did not come in time, the node failed or the commit did:
\* the lock may still be mined, so the page waits for it under this hash.
LeaveToRecovery(t, h) == FlowEnds(t) /\ Show(t, On("locking", h))

NoReceipt(t) ==
    /\ flow[t].at = "receipt"
    /\ LeaveToRecovery(t, flow[t].h)
    /\ UNCHANGED <<store, chain, server, age, used, fails>>

-----------------------------------------------------------------------------
(* The recovery effect, the poll of a waiting order, and the tabs.         *)

\* selectPendingMainLock: the active swap's record first, else the oldest.
Selected(t) ==
    IF active[t] \in Pending THEN {active[t]}
    ELSE {h \in Pending : \A k \in Pending : records[h] <= records[k]}

\* activeMainLockRecordingRef: the flow itself is posting this lock.
Posting(t) == IF flow[t].at \in {"receipt", "commit"} THEN flow[t].h ELSE NoSwap

Waiting(t) == stage[t].kind \in {"locking", "recording"}
OnSwapPage(t) == stage[t].kind \notin {"closed", "order"}

Recoverable(t) ==
    IF Waiting(t) THEN {stage[t].h} \ {Posting(t)}
    ELSE IF OnSwapPage(t) THEN Selected(t) \ {Posting(t)}
    ELSE {}

RecoverySeesRevert(t) == \E h \in Recoverable(t) :
    /\ ~rec[t].busy /\ tx[h] = "reverted"
    /\ Forget(h) /\ ForgetSecret(t, h)
    /\ IF Waiting(t) THEN Show(t, Form) ELSE Show(t, On("recording", h))
    /\ UNCHANGED <<flow, chain, server, age, used, fails>>

\* A waiting stage knows no amounts and posts to main-lock; a stored record
\* posts to commit-forward, after it has put the page into a waiting stage.
RecoveryPosts(t) == \E h \in Recoverable(t) :
    /\ ~rec[t].busy /\ tx[h] # "reverted"
    /\ Request(t, "rec", IF Waiting(t) THEN "begin" ELSE "peek", h)
    /\ rec' = [rec EXCEPT ![t] = [busy |-> TRUE, h |-> h, live |-> Waiting(t)]]
    /\ stage' = [stage EXCEPT ![t] = IF Waiting(t) THEN @ ELSE On("recording", h)]
    /\ UNCHANGED <<store, flow, chain, row, sweep, age, used, fails>>

\* getOrder while htlc-locking is shown.
Poll(t) ==
    LET h == stage[t].h IN
    /\ stage[t].kind = "locking"
    /\ \/ /\ row[h].status \in {"refunded", "cancelled", "failed"}
          /\ Dismiss(t, h) /\ Show(t, Form)
       \/ /\ row[h].status \in {"counter_locked", "counter_claimed", "main_claimed"}
          /\ Show(t, On("claimable", h)) /\ UNCHANGED active
    /\ UNCHANGED <<vault, records, flow, chain, server, age, used, fails>>

\* The tab is closed, reloaded or crashes; a reload keeps its sessionStorage.
\* The request it awaited goes on, and so does the wallet's popup.
CloseTab(t) ==
    LET h == flow[t].h IN
    /\ stage[t].kind # "closed" /\ Fails
    /\ stage' = [stage EXCEPT ![t] = Closed]
    /\ flow' = [flow EXCEPT ![t] = NoFlow]
    /\ rec' = [rec EXCEPT ![t] = NoRec]
    /\ job' = Unanswered(t)
    /\ \/ UNCHANGED active
       \/ active' = [active EXCEPT ![t] = NoSwap]
    /\ \/ UNCHANGED <<tx, unseen, row>>
       \/ /\ flow[t].at = "prepare" /\ SetStatus(h, "accepted")
          /\ UNCHANGED <<tx, unseen>>
       \/ /\ flow[t].at = "wallet"
          /\ tx' = [tx EXCEPT ![h] = "pending"]
          /\ unseen' = unseen \cup {h}
          /\ UNCHANGED row
    /\ UNCHANGED <<vault, records, deposit, sweep, age, used>>

\* Opening /swap, or coming back to it from the order's page once nothing of
\* the page that was left is in flight.
OpenSwapPage(t) ==
    /\ stage[t].kind \in {"closed", "order"}
    /\ flow[t] = NoFlow /\ ~rec[t].busy
    /\ stage' = [stage EXCEPT ![t] = Form]
    /\ UNCHANGED <<store, flow, rec, chain, server, age, used, fails>>

-----------------------------------------------------------------------------
(* The handlers of commit-forward and main-lock.                           *)

Terminal(st) == st \in {"main_claimed", "refunded", "cancelled", "failed"}

Accepts_ForgetsSecret(j) ==
    /\ IF j.tab = NoTab THEN UNCHANGED records ELSE Forget(j.h)
    /\ IF j.tab = NoTab \/ j.who = "flow" \/ ~rec[j.tab].live
       THEN UNCHANGED <<vault, active>>
       ELSE ForgetSecret(j.tab, j.h)
\* The page hears the handler out: the flow shows the order, the recovery
\* forgets the record, and the secret if the order is over.
Accepts(j) ==
    /\ IF j.tab = NoTab THEN UNCHANGED records ELSE Forget(j.h)
    /\ IF j.tab = NoTab \/ j.who = "flow" \/ ~rec[j.tab].live \/ ~Terminal(row'[j.h].status)
       THEN UNCHANGED <<vault, active>>
       ELSE ForgetSecret(j.tab, j.h)

Ok(w) ==
    LET j == job[w] IN
    /\ job' = [job EXCEPT ![w] = NoJob]
    /\ Accepts(j)
    /\ CASE j.tab = NoTab -> UNCHANGED page
         [] j.tab # NoTab /\ j.who = "flow" ->
               FlowEnds(j.tab) /\ Show(j.tab, On("order", j.h))
         [] j.tab # NoTab /\ j.who = "rec" ->
               /\ stage' = [stage EXCEPT ![j.tab] = IF rec[j.tab].live THEN On("order", j.h) ELSE @]
               /\ rec' = [rec EXCEPT ![j.tab] = NoRec]
               /\ UNCHANGED flow

\* The client of w gets an error, from the handler or from the network.
Refused(w) ==
    LET j == job[w] IN
    /\ UNCHANGED store
    /\ CASE j.tab = NoTab -> UNCHANGED page
         [] j.tab # NoTab /\ j.who = "flow" -> LeaveToRecovery(j.tab, j.h)
         [] j.tab # NoTab /\ j.who = "rec" ->
               /\ rec' = [rec EXCEPT ![j.tab] = NoRec]
               /\ UNCHANGED <<stage, flow>>

Goto(w, at) ==
    /\ job' = [job EXCEPT ![w].at = at]
    /\ UNCHANGED <<store, page>>
Err(w) == job' = [job EXCEPT ![w] = NoJob] /\ Refused(w)

\* commitForwardOrder, behind a route that checks the amounts at the present
\* price and its rate limit before it.
Peek(w) ==
    LET st == row[job[w].h].status IN
    /\ job[w].at = "peek" /\ UNCHANGED row
    /\ \/ st = "main_locked" /\ Ok(w) /\ Works
       \/ st \in {"accepted", "main_locking"} /\ Goto(w, "begin") /\ Works
       \/ st \notin {"main_locked", "accepted", "main_locking"} /\ Err(w) /\ Works
       \/ Err(w) /\ Fails

Begin_AcceptedOnly(w) ==
    LET r == row[job[w].h] IN
    /\ job[w].at = "begin" /\ UNCHANGED row
    /\ \/ r.bound /\ Ok(w)
       \/ ~r.bound /\ r.status = "accepted" /\ Goto(w, "cas")
       \/ ~r.bound /\ r.status # "accepted" /\ Err(w)
    /\ Works

\* recordMainLock; a row left in main_locking by a handler that died is
\* taken up where it stands.
Begin(w) ==
    LET r == row[job[w].h] IN
    /\ job[w].at = "begin" /\ UNCHANGED row
    /\ \/ r.bound /\ Ok(w)
       \/ ~r.bound /\ r.status = "accepted" /\ Goto(w, "cas")
       \/ ~r.bound /\ r.status = "main_locking" /\ Goto(w, "verify")
       \/ ~r.bound /\ r.status \notin {"accepted", "main_locking"} /\ Err(w)
    /\ Works

Cas(w) ==
    LET h == job[w].h
        r == row[h]
    IN
    /\ job[w].at = "cas"
    /\ \/ r.status = "accepted" /\ SetStatus(h, "main_locking") /\ Goto(w, "verify")
       \/ (r.status = "main_locking" \/ r.bound) /\ UNCHANGED row /\ Ok(w)
       \/ r.status \notin {"accepted", "main_locking"} /\ ~r.bound /\ UNCHANGED row /\ Err(w)
    /\ Works

\* waitForEvmTransactionFinality of the recorded hash, and verifyEvmLock.
Verify(w) ==
    LET h == job[w].h
        proved == tx[h] = "mined" /\ deposit[h] = "locked" /\ age[h] < 2
    IN
    /\ job[w].at = "verify"
    /\ \/ proved /\ Goto(w, "finish") /\ Works
       \/ ~proved /\ Goto(w, "rollback") /\ Works
       \/ proved /\ Goto(w, "rollback") /\ Fails
    /\ UNCHANGED row

\* The answer is ok whether or not the write took effect.
Finish(w) ==
    LET h == job[w].h IN
    /\ job[w].at = "finish"
    /\ row' = IF row[h].status = "main_locking"
              THEN [row EXCEPT ![h] = [status |-> "main_locked", bound |-> TRUE]]
              ELSE row
    /\ Ok(w) /\ Works

Rollback(w) ==
    LET h == job[w].h IN
    /\ job[w].at = "rollback"
    /\ IF row[h].status = "main_locking" THEN SetStatus(h, "accepted") ELSE UNCHANGED row
    /\ Err(w) /\ Works

HandlerSteps(w) ==
    /\ Peek(w) \/ Begin(w) \/ Cas(w) \/ Verify(w) \/ Finish(w) \/ Rollback(w)
    /\ UNCHANGED <<chain, sweep, age, used>>

HandlerDies(w) ==
    /\ job[w].at # "idle"
    /\ Err(w) /\ Fails
    /\ UNCHANGED <<chain, row, sweep, age, used>>

\* The connection breaks; the handler goes on.
AnswerLost(w) ==
    /\ job[w].at # "idle" /\ job[w].tab # NoTab
    /\ job' = [job EXCEPT ![w].tab = NoTab]
    /\ Refused(w) /\ Fails
    /\ UNCHANGED <<chain, row, sweep, age, used>>

-----------------------------------------------------------------------------
(* The buttons: claim and retake, on /swap, Orders and the order's page.   *)

OnScreen(t) == stage[t].kind # "closed"

\* Claimed from the secret the waiting page holds, or from the vault.
Claim(t, h) ==
    /\ OnScreen(t)
    /\ h \in vault \/ stage[t] = On("claimable", h)
    /\ row[h].status = "counter_locked" /\ deposit[h] = "locked" /\ age[h] < 2
    /\ SetStatus(h, "counter_claimed")
    /\ \/ /\ ForgetSecret(t, h) /\ Works
          /\ IF stage[t] = On("claimable", h) THEN Show(t, Form) ELSE UNCHANGED <<stage, rec>>
       \/ UNCHANGED <<vault, active, stage, rec>> /\ Fails
    /\ UNCHANGED <<records, flow, chain, job, sweep, age, used>>

\* recoveryAction of Orders; the order's page takes a counter_locked order
\* for claimable and offers less.  /swap offers a retake once a claim failed.
OrdersOffersRetake(h) ==
    /\ row[h].bound /\ row[h].status \in {"main_locked", "counter_locked"}
    /\ age[h] >= 2
RetakeButton(t, h) == OrdersOffersRetake(h) \/ stage[t] = On("claimable", h)

\* recordMainRetake refuses an order that is over; the WBTC is back anyway.
Retake(t, h) ==
    /\ OnScreen(t)
    /\ RetakeButton(t, h)
    /\ deposit[h] = "locked" /\ age[h] >= 2
    /\ deposit' = [deposit EXCEPT ![h] = "retaken"]
    /\ \/ /\ row[h].status \notin {"main_claimed", "refunded", "cancelled"}
          /\ SetStatus(h, IF row[h].status = "counter_claimed" THEN "failed" ELSE "refunded")
          /\ ForgetSecret(t, h) /\ Works
          /\ IF stage[t] = On("claimable", h) THEN Show(t, Form) ELSE UNCHANGED <<stage, rec>>
       \/ /\ row[h].status \in {"main_claimed", "refunded", "cancelled"}
          /\ UNCHANGED <<row, vault, active, stage, rec>> /\ Works
       \/ UNCHANGED <<row, vault, active, stage, rec>> /\ Fails
    /\ UNCHANGED <<records, flow, tx, unseen, job, sweep, age, used>>

-----------------------------------------------------------------------------
(* The chain, the solver, the sweeps and the clock.                        *)

\* The escrow takes a lock only before its unlock time.  A replaced lock is
\* mined under a hash the page does not know (the wallet's "speed up"); one
\* that is dropped stays pending.
Mine(h) ==
    /\ tx[h] = "pending"
    /\ \/ /\ age[h] < 2
          /\ \E st \in {"mined", "replaced"} : tx' = [tx EXCEPT ![h] = st]
          /\ deposit' = [deposit EXCEPT ![h] = "locked"]
       \/ tx' = [tx EXCEPT ![h] = "reverted"] /\ UNCHANGED deposit
    /\ UNCHANGED <<store, page, unseen, server, age, used, fails>>

SolverLocks(h) ==
    /\ row[h].status = "main_locked" /\ deposit[h] = "locked" /\ age[h] < 2
    /\ SetStatus(h, "counter_locked")
    /\ UNCHANGED <<store, page, chain, job, sweep, age, used, fails>>

SolverClaims(h) ==
    /\ row[h].status = "counter_claimed" /\ deposit[h] = "locked"
    /\ SetStatus(h, "main_claimed")
    /\ deposit' = [deposit EXCEPT ![h] = "claimed"]
    /\ UNCHANGED <<store, page, tx, unseen, job, sweep, age, used, fails>>

\* refundCounter, from the sweep: solverTimelock comes before userTimelock.
SolverRefunds(h) ==
    /\ row[h].status = "counter_locked" /\ age[h] >= 1
    /\ SetStatus(h, "refunded")
    /\ UNCHANGED <<store, page, chain, job, sweep, age, used, fails>>

\* reconcileForwardMainRetake finds a retake nobody posted.
RetakeFound(h) ==
    /\ row[h].status = "main_locked" /\ deposit[h] = "retaken"
    /\ SetStatus(h, "refunded")
    /\ UNCHANGED <<store, page, chain, job, sweep, age, used, fails>>

\* expireAbandonedAccepted: reads the row and the escrow, then writes.
SweepReads(h) ==
    /\ sweep = NoSweep
    /\ row[h].status = "accepted" /\ age[h] >= 1
    /\ deposit[h] = "locked" => age[h] < 2
    /\ sweep' = [h |-> h, locked |-> deposit[h] = "locked"]
    /\ UNCHANGED <<store, page, chain, row, job, age, used, fails>>

SweepWrites ==
    /\ sweep # NoSweep
    /\ IF row[sweep.h].status = "accepted"
       THEN SetStatus(sweep.h, IF sweep.locked THEN "main_locked" ELSE "cancelled")
       ELSE UNCHANGED row
    /\ sweep' = NoSweep
    /\ UNCHANGED <<store, page, chain, job, age, used, fails>>

\* Older attempts age first.  Past the last mark the vault and the records
\* purge what they hold of the hash before anything reads them.
Age(h) ==
    /\ h <= used /\ age[h] < 3
    /\ \A k \in 1..(h - 1) : age[k] > age[h]
    /\ age' = [age EXCEPT ![h] = @ + 1]
    /\ IF age[h] = 2 THEN vault' = vault \ {h} /\ Forget(h)
       ELSE UNCHANGED <<vault, records>>
    /\ UNCHANGED <<active, page, chain, server, used, fails>>

-----------------------------------------------------------------------------
Next ==
    \/ \E t \in Tabs :
        \/ Confirm(t) \/ Prepared(t)
        \/ WalletRejects(t) \/ WalletSigns(t) \/ WalletSilent(t)
        \/ Succeeded(t) \/ Reverted(t) \/ NoReceipt(t)
        \/ RecoverySeesRevert(t) \/ RecoveryPosts(t)
        \/ Poll(t) \/ CloseTab(t) \/ OpenSwapPage(t)
        \/ \E h \in Attempts : Claim(t, h) \/ Retake(t, h)
    \/ \E w \in Workers : HandlerSteps(w) \/ HandlerDies(w) \/ AnswerLost(w)
    \/ \E h \in Attempts :
        \/ Mine(h) \/ Age(h)
        \/ SolverLocks(h) \/ SolverClaims(h) \/ SolverRefunds(h)
        \/ RetakeFound(h) \/ SweepReads(h)
    \/ SweepWrites

Spec == Init /\ [][Next]_vars

\* A request that was sent is answered, the flow reads its receipt or gives
\* up, the timers of the recovery and of the poll fire.  SF where a request
\* may find the bounded workers busy: the server has no such bound.
Fairness ==
    /\ \A w \in Workers : WF_vars(HandlerSteps(w))
    /\ \A t \in Tabs :
        /\ WF_vars(Succeeded(t) \/ Reverted(t) \/ NoReceipt(t))
        /\ SF_vars(RecoverySeesRevert(t) \/ RecoveryPosts(t))
        /\ WF_vars(Poll(t))

FairSpec == Spec /\ Fairness

-----------------------------------------------------------------------------
(* Properties.                                                             *)

AtStake(h) ==
    /\ tx[h] = "pending" \/ deposit[h] = "locked"
    /\ row[h].status \in {"accepted", "main_locking", "main_locked", "counter_locked"}
    /\ age[h] < 3

\* SECRET KEPT: while a lock of the user's is sent or in the escrow and the
\* order may still be filled, the browser has the secret without which the
\* CBTC cannot be claimed, whatever tabs are closed, answers lost and
\* recoveries cancelled (rememberSecret before prepareForwardIntent,
\* forgetSecret at page.tsx 2282 and 2344, secret-vault.ts 369).
SecretKept == \A h \in Attempts : AtStake(h) => h \in vault

\* RETRY IS CLEAN: when a confirmation ends back at the form, where the next
\* one makes a fresh hash, its own lock has not been sent, or has reverted,
\* or the wallet never told of it (page.tsx 1666-1704, "DO NOT retry() into
\* a fresh order/hash").
RetryIsClean == [][\A t \in Tabs :
    flow[t] # NoFlow /\ flow'[t] = NoFlow /\ stage'[t] = Form =>
        \/ tx'[flow[t].h] \in {"none", "reverted"}
        \/ flow[t].h \in unseen']_vars

LoneLock(h) ==
    /\ Pending = {h} /\ tx[h] = "mined" /\ age[h] = 0
    /\ row[h].status \in {"accepted", "main_locking"}
    /\ \E t \in Tabs : stage[t] = Form \/ stage[t] \in {On("locking", h), On("recording", h)}

\* RECORD WORKED OFF: a mined lock whose record is the only one does not wait
\* for ever while /swap is open, whichever tab, answer or handler was lost
\* before (page.tsx 1680-1682, "retries the idempotent server write until it
\* is acknowledged"; recordMainLock resumes a row left in main_locking).
RecordWorkedOff == \A h \in Attempts : LoneLock(h) ~> ~LoneLock(h)

\* RETAKE OFFERED: WBTC of an unrevealed, recorded swap that is still in the
\* escrow after its timelock can be taken back from some page
\* (orders/page.tsx 200-202; swap-product-invariants.ts 38).
RetakeOffered == \A h \in Attempts :
    /\ deposit[h] = "locked" /\ row[h].bound /\ age[h] = 2
    /\ row[h].status \notin {"counter_claimed", "main_claimed"}
    => \E t \in Tabs : RetakeButton(t, h)

=============================================================================
