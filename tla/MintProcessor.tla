----------------------------- MODULE MintProcessor -----------------------------
(***************************************************************************)
(* Delivery of minted CBTC: processMintTransfers (lib/mint-processor.ts)   *)
(* lists the holdings on the warpx party, finds the user each was minted   *)
(* for, and hands it over in two ledger commands, an offer and its         *)
(* acceptance, keeping one row of mint_transfers per holding.  Invocations *)
(* (cron, polls) are kept apart by a lease that expires and a row claim    *)
(* that can be taken over (supabase/migrations/004).                       *)
(*                                                                         *)
(* Every await is a point where other runs, the clock and the ledger move. *)
(* A call may fail, commit without an answer, or end its run; a database   *)
(* write may be lost, which the code ignores.                              *)
(*                                                                         *)
(* The ledger is external: a holding stays on warpx until an offer over it *)
(* is accepted, any number of offers may be made over one holding, and an  *)
(* offer that is not accepted in 24 hours lapses.                          *)
(***************************************************************************)
EXTENDS Integers, FiniteSets

CONSTANTS
    Mints,      \* holdings minted to warpx, each from a deposit account
    NoMint,     \* no holding
    Runs,       \* invocations of the processor that may overlap
    LeaseTTL,   \* LEASE_SECONDS, in ticks of 300 s
    StaleTTL,   \* p_stale_seconds of claim_mint_transfer, in ticks
    MaxOffers,  \* bound: offers made over one holding
    MaxFails    \* bound: lost or failed calls, lost writes, runs that die

ASSUME MintAssumption ==
    /\ NoMint \notin Mints
    /\ LeaseTTL \in Nat \ {0} /\ StaleTTL \in Nat
    /\ MaxOffers \in Nat \ {0} /\ MaxFails \in Nat

VARIABLES
    lease,    \* ticks until locked_until, 0 when free or expired
    row,      \* mint_transfers: status and offer_contract_id of each holding
    age,      \* ticks since updated_at of a row in "processing"
    run,      \* what each invocation knows and where it stands
    offers,   \* the offers over each holding, on the ledger
    known,    \* mints whose deposit account is in deposit_accounts
    orphan,   \* offers not recorded by their run, or overlooked (history)
    untold,   \* mints delivered by a run that did not get to say so (history)
    overrun,  \* some run outlived its lease (history)
    fails

vars == <<lease, row, age, run, offers, known, orphan, untold, overrun, fails>>

Status == {"none", "pending", "processing", "offer_created", "transferred", "failed"}
Offer == 1..MaxOffers
NoRow == [st |-> "none", offer |-> 0]
Idle == [pc |-> "idle", todo |-> {}, at |-> NoMint, seen |-> NoRow, offer |-> 0,
         left |-> 0, age |-> 0]

Row == [st : Status, offer : {0} \cup Offer]
Place == {"idle", "scan", "pick", "resolve", "unresolved", "claim", "stamp",
          "offer", "persist", "accept", "told", "failed"}
Run == [pc : Place, todo : SUBSET Mints, at : Mints \cup {NoMint}, seen : Row,
        offer : {0} \cup Offer, left : 0..LeaseTTL, age : 0..StaleTTL]

TypeOK ==
    /\ lease \in 0..LeaseTTL
    /\ row \in [Mints -> Row]
    /\ age \in [Mints -> 0..StaleTTL]
    /\ run \in [Runs -> Run]
    /\ offers \in [Mints -> [Offer -> {"none", "open", "accepted", "lapsed"}]]
    /\ known \subseteq Mints
    /\ orphan \in [Mints -> SUBSET Offer]
    /\ untold \subseteq Mints
    /\ overrun \in BOOLEAN
    /\ fails \in 0..MaxFails

Init ==
    /\ lease = 0
    /\ row = [h \in Mints |-> NoRow]
    /\ age = [h \in Mints |-> 0]
    /\ run = [r \in Runs |-> Idle]
    /\ offers = [h \in Mints |-> [n \in Offer |-> "none"]]
    /\ known \in SUBSET Mints
    /\ orphan = [h \in Mints |-> {}]
    /\ untold = {}
    /\ overrun = FALSE
    /\ fails = 0

-----------------------------------------------------------------------------
Delivered(h) == \E n \in Offer : offers[h][n] = "accepted"
Active(r) == run[r].pc # "idle"

Works == UNCHANGED fails
Fails == fails < MaxFails /\ fails' = fails + 1

Goto(r, pc) == run' = [run EXCEPT ![r] = [@ EXCEPT !.pc = pc]]

\* The run has done what it can for its holding and turns to the next one.
Leave(r) == run' = [run EXCEPT ![r] =
    [@ EXCEPT !.pc = "pick", !.at = NoMint, !.seen = NoRow, !.offer = 0, !.age = 0]]

\* An update of the row of h, if there is one, that sets updated_at to a ticks
\* ago; the age matters only while the status is "processing".
Update(h, new, a) ==
    IF row[h].st = "none" THEN UNCHANGED <<row, age>>
    ELSE /\ row' = [row EXCEPT ![h] = new]
         /\ age' = [age EXCEPT ![h] = IF new.st = "processing" THEN a ELSE 0]
SetStatus(h, st) == Update(h, [row[h] EXCEPT !.st = st], 0)

\* The holding's row is unique: a second insert is in vain.
Insert(h) ==
    /\ row' = IF row[h].st = "none" THEN [row EXCEPT ![h].st = "pending"] ELSE row
    /\ UNCHANGED age

\* Any update may be lost: no statement of the processor looks at its error.
Lost == Fails /\ UNCHANGED <<row, age>>

ledgerVars == <<offers, known, orphan, untold, overrun>>

-----------------------------------------------------------------------------
(* The lease.                                                              *)

Begun(r) == run' = [run EXCEPT ![r] = [Idle EXCEPT !.pc = "scan", !.left = LeaseTTL]]

TryLock_IgnoresLease(r) ==
    /\ ~Active(r)
    /\ lease' = LeaseTTL
    /\ \/ Works /\ Begun(r)
       \/ Fails /\ UNCHANGED run
    /\ UNCHANGED <<row, age, ledgerVars>>

\* try_lock_mint_processor.  When its answer is lost, nobody runs under the
\* lease.
TryLock(r) ==
    /\ ~Active(r)
    /\ lease = 0
    /\ lease' = LeaseTTL
    /\ \/ Works /\ Begun(r)
       \/ Fails /\ UNCHANGED run
    /\ UNCHANGED <<row, age, ledgerVars>>

\* unlock_mint_processor clears the lease, whosever it is by now.
Unlock(r) ==
    /\ run[r].pc = "pick" /\ run[r].todo = {}
    /\ run' = [run EXCEPT ![r] = Idle]
    /\ \/ Works /\ lease' = 0
       \/ Fails /\ UNCHANGED lease
    /\ UNCHANGED <<row, age, ledgerVars>>

-----------------------------------------------------------------------------
(* One run: which holdings to deliver, and whose they are.                 *)

\* getActiveWarpxHoldings; an error of it ends the run.
Scan(r) ==
    /\ run[r].pc = "scan"
    /\ \/ Works /\ run' = [run EXCEPT ![r] =
            [@ EXCEPT !.pc = "pick", !.todo = {h \in Mints : ~Delivered(h)}]]
       \/ Fails /\ Goto(r, "pick")
    /\ UNCHANGED <<lease, row, age, ledgerVars>>

Past(r, h) == [run[r] EXCEPT !.todo = @ \ {h}]
Taken(r, h, copy) ==
    [run[r] EXCEPT !.todo = @ \ {h}, !.pc = "resolve", !.at = h, !.seen = copy]

\* The row of the holding is read first; a read that fails looks like no row.
ReadRow(r) ==
    /\ run[r].pc = "pick"
    /\ \E h \in run[r].todo :
         \E copy \in {row[h], NoRow} :
            /\ IF copy = row[h] THEN Works /\ UNCHANGED orphan
               ELSE Fails /\ orphan' = [orphan EXCEPT ![h] = @ \cup ({row[h].offer} \ {0})]
            /\ run' = [run EXCEPT ![r] =
                 IF copy.st = "transferred" THEN Past(r, h) ELSE Taken(r, h, copy)]
    /\ UNCHANGED <<lease, row, age, offers, known, untold, overrun>>

\* The metadata of the row: inserted when none was read, updated otherwise, but
\* not when it was being processed.
WriteMetadata(h, seen) ==
    CASE seen.st = "none" -> Insert(h)
      [] seen.st = "processing" -> UNCHANGED <<row, age>>
      [] OTHER -> SetStatus(h, row[h].st)

\* findMintForHolding, whose error skips the holding; deposit_accounts, whose
\* error looks like an unknown account; and the metadata.
Resolve(r) ==
    LET h == run[r].at IN
    /\ run[r].pc = "resolve"
    /\ \/ WriteMetadata(h, run[r].seen) /\ Works
            /\ Goto(r, IF h \in known THEN "claim" ELSE "unresolved")
       \/ WriteMetadata(h, run[r].seen) /\ Fails /\ Goto(r, "unresolved")
       \/ Lost /\ Goto(r, IF h \in known THEN "claim" ELSE "unresolved")
       \/ UNCHANGED <<row, age>> /\ Fails /\ Leave(r)
    /\ UNCHANGED <<lease, ledgerVars>>

\* No user for the holding: its row fails, whatever its status by now.
GiveUp(r) ==
    /\ run[r].pc = "unresolved"
    /\ (SetStatus(run[r].at, "failed") /\ Works) \/ Lost
    /\ Leave(r)
    /\ UNCHANGED <<lease, ledgerVars>>

Claimable_NeverStale(h) == row[h].st \in {"pending", "failed", "offer_created"}

\* The condition of claim_mint_transfer.  A holding whose offer was just made is
\* free for the taking, although its run has yet to accept it.
Claimable(h) ==
    \/ row[h].st \in {"pending", "failed", "offer_created"}
    \/ row[h].st = "processing" /\ age[h] = StaleTTL

\* claim_mint_transfer; the holding is skipped when it is taken, and when the
\* answer is lost.
Claim(r) ==
    LET h == run[r].at IN
    /\ run[r].pc = "claim"
    /\ \/ Claimable(h) /\ SetStatus(h, "processing") /\ Works /\ Goto(r, "stamp")
       \/ Claimable(h) /\ SetStatus(h, "processing") /\ Fails /\ Leave(r)
       \/ ~Claimable(h) /\ UNCHANGED <<row, age>> /\ Works /\ Leave(r)
    /\ UNCHANGED <<lease, ledgerVars>>

\* The metadata again, with the updated_at computed before the claim.  The
\* offer recorded in the copy of the row, older than the claim, decides
\* whether one is made.
Stamp(r) ==
    /\ run[r].pc = "stamp"
    /\ (Update(run[r].at, row[run[r].at], run[r].age) /\ Works) \/ Lost
    /\ run' = [run EXCEPT ![r] =
         [@ EXCEPT !.offer = run[r].seen.offer, !.age = 0,
                   !.pc = IF run[r].seen.offer = 0 THEN "offer" ELSE "accept"]]
    /\ UNCHANGED <<lease, ledgerVars>>

-----------------------------------------------------------------------------
(* One run: transferHoldingToUser.                                         *)

\* The next offer to be made over a holding.
Spare(h, n) ==
    offers[h][n] = "none" /\ \A k \in 1..(n - 1) : offers[h][k] # "none"

\* createTransferOffer, under a new command id.  Its error may hide a commit.
MakeOffer(r) ==
    LET h == run[r].at IN
    /\ run[r].pc = "offer"
    /\ \/ /\ ~Delivered(h)
          /\ \E n \in Offer :
               /\ Spare(h, n)
               /\ offers' = [offers EXCEPT ![h][n] = "open"]
               /\ \/ /\ run' = [run EXCEPT ![r] = [@ EXCEPT !.pc = "persist", !.offer = n]]
                     /\ Works /\ UNCHANGED orphan
                  \/ /\ Goto(r, "failed")
                     /\ Fails /\ orphan' = [orphan EXCEPT ![h] = @ \cup {n}]
       \/ /\ Goto(r, "failed") /\ UNCHANGED <<offers, orphan>>
          /\ IF Delivered(h) THEN Works ELSE Fails
    /\ UNCHANGED <<lease, row, age, known, untold, overrun>>

\* persistOffer, before the acceptance.
Persist_StatusOnly(r) ==
    /\ run[r].pc = "persist"
    /\ Goto(r, "accept")
    /\ SetStatus(run[r].at, "offer_created") /\ Works
    /\ UNCHANGED <<lease, ledgerVars>>

Persist(r) ==
    LET h == run[r].at IN
    /\ run[r].pc = "persist"
    /\ Goto(r, "accept")
    /\ \/ /\ Update(h, [st |-> "offer_created", offer |-> run[r].offer], 0)
          /\ Works /\ UNCHANGED orphan
       \/ Lost /\ orphan' = [orphan EXCEPT ![h] = @ \cup {run[r].offer}]
    /\ UNCHANGED <<lease, offers, known, untold, overrun>>

\* acceptTransferOffer takes the holding off warpx; a second acceptance, one of
\* a lapsed offer or of an offer whose holding is gone fails.
Accept(r) ==
    LET h == run[r].at
        good == offers[h][run[r].offer] = "open" /\ ~Delivered(h)
    IN
    /\ run[r].pc = "accept"
    /\ \/ /\ good
          /\ offers' = [offers EXCEPT ![h][run[r].offer] = "accepted"]
          /\ \/ Works /\ Goto(r, "told") /\ UNCHANGED untold
             \/ Fails /\ Goto(r, "failed") /\ untold' = untold \cup {h}
       \/ /\ Goto(r, "failed") /\ UNCHANGED <<offers, untold>>
          /\ IF good THEN Fails ELSE Works
    /\ UNCHANGED <<lease, row, age, known, orphan, overrun>>

\* Any error, whatever the row says by now.
WriteFailed(r) ==
    /\ run[r].pc = "failed"
    /\ (SetStatus(run[r].at, "failed") /\ Works) \/ Lost
    /\ Leave(r)
    /\ UNCHANGED <<lease, ledgerVars>>

WriteTransferred(r) ==
    /\ run[r].pc = "told"
    /\ \/ SetStatus(run[r].at, "transferred") /\ Works /\ UNCHANGED untold
       \/ Lost /\ untold' = untold \cup {run[r].at}
    /\ Leave(r)
    /\ UNCHANGED <<lease, offers, known, orphan, overrun>>

RunStep(r) ==
    \/ Unlock(r) \/ Scan(r) \/ ReadRow(r) \/ Resolve(r) \/ GiveUp(r)
    \/ Claim(r) \/ Stamp(r) \/ MakeOffer(r) \/ Persist(r) \/ Accept(r)
    \/ WriteFailed(r) \/ WriteTransferred(r)

-----------------------------------------------------------------------------
(* The run's process, the clock, the ledger and the accounts.              *)

\* The process ends: no finally block, no unlock.
Die(r) ==
    /\ Active(r) /\ Fails
    /\ run' = [run EXCEPT ![r] = Idle]
    /\ orphan' = IF run[r].pc = "persist"
                 THEN [orphan EXCEPT ![run[r].at] = @ \cup {run[r].offer}] ELSE orphan
    /\ untold' = IF run[r].pc = "told" THEN untold \cup {run[r].at} ELSE untold
    /\ UNCHANGED <<lease, row, age, offers, known, overrun>>

Older(a) == IF a < StaleTTL THEN a + 1 ELSE a
Sooner(n) == IF n > 0 THEN n - 1 ELSE 0

Tick ==
    /\ lease' = Sooner(lease)
    /\ age' = [h \in Mints |-> IF row[h].st = "processing" THEN Older(age[h]) ELSE 0]
    /\ run' = [r \in Runs |->
         [run[r] EXCEPT !.left = Sooner(@),
                        !.age = IF run[r].pc \in {"claim", "stamp"} THEN Older(@) ELSE 0]]
    /\ overrun' = (overrun \/ \E r \in Runs : Active(r) /\ run[r].left <= 1)
    /\ UNCHANGED <<row, offers, known, orphan, untold, fails>>

Lapse(h) ==
    /\ \E n \in Offer :
         /\ offers[h][n] = "open"
         /\ offers' = [offers EXCEPT ![h][n] = "lapsed"]
    /\ UNCHANGED <<lease, row, age, run, known, orphan, untold, overrun, fails>>

\* The deposit account of the holding is entered in deposit_accounts.
Register(h) ==
    /\ h \notin known
    /\ known' = known \cup {h}
    /\ UNCHANGED <<lease, row, age, run, offers, orphan, untold, overrun, fails>>

Next ==
    \/ \E r \in Runs : TryLock(r) \/ RunStep(r) \/ Die(r)
    \/ Tick
    \/ \E h \in Mints : Lapse(h) \/ Register(h)

Spec == Init /\ [][Next]_vars

\* The processor is invoked again and again, an invocation goes on until it
\* ends or dies, and time passes.
Fairness ==
    /\ WF_vars(\E r \in Runs : TryLock(r))
    /\ \A r \in Runs : WF_vars(RunStep(r))
    /\ WF_vars(Tick)

FairSpec == Spec /\ Fairness

-----------------------------------------------------------------------------
(* Properties.                                                             *)

\* "The duplicate-offer guard" of transferHoldingToUser, as far as it goes: a
\* second offer over a holding is made only after an offer that its creator
\* could not record, after a row that could not be read, or once a run has
\* outlived its lease.
OneOffer ==
    \A h \in Mints : \A n, k \in Offer \ orphan[h] :
        offers[h][n] # "none" /\ offers[h][k] # "none" => n = k \/ overrun

\* A row says "transferred" only of a holding that was delivered; and unless
\* the news was lost or runs overlapped, a delivered holding that no run is
\* working on has such a row.
RowTellsDelivery ==
    \A h \in Mints :
        /\ row[h].st = "transferred" => Delivered(h)
        /\ Delivered(h) /\ (\A r \in Runs : run[r].at # h)
             => row[h].st = "transferred" \/ h \in untold \/ overrun

\* Every mint of a known account reaches its user, through crashes between any
\* two steps and through claims left behind, unless an offer over it lapses:
\* a lapsed offer on record is never replaced.
MintDelivered ==
    \A h \in Mints : h \in known ~>
        Delivered(h) \/ \E n \in Offer : offers[h][n] = "lapsed"
-----------------------------------------------------------------------------
(* What the comments promise and the code does not keep: TLC refutes each, *)
(* on the instances listed in README.md section 3.                         *)

\* transferHoldingToUser: "once an offer exists, we NEVER create another".  A
\* run that read the row before another one's offer was recorded takes the
\* holding next, in "offer_created", and makes its own.
NeverAnother ==
    \A h \in Mints : \A n, k \in Offer :
        offers[h][n] # "none" /\ offers[h][k] # "none" => n = k

\* claim_mint_transfer: "even if two workers run concurrently ... only one can
\* claim a given holding".
OneOwner ==
    \A h \in Mints :
        Cardinality({r \in Runs : run[r].at = h /\ run[r].pc \in
                        {"stamp", "offer", "persist", "accept"}}) <= 1

\* A row that says "transferred" keeps saying so: the late error of a run that
\* lost the race overwrites it.
TransferredStays ==
    [][\A h \in Mints : row[h].st = "transferred" => row'[h].st = "transferred"]_vars

\* After an error "holding stays on warpx -> re-seen and retried next run. No
\* stranding": not when its recorded offer has lapsed.
NoStranding == \A h \in Mints : h \in known ~> Delivered(h)
=============================================================================
