# Verification of the CantonBit swaps

CantonBit swaps WBTC on an EVM chain against CBTC on a Canton ledger, CBTC
against other tokens of that ledger, and hands freshly minted CBTC to its users.
No two of these steps share a transaction, so each product is a database
row, a set of locks and transfers on the ledgers, and a number of web handlers,
cron sweeps and daemons that move the row forward, may run at the same time, and
may die between any two awaits.  This directory holds TLA+ specifications of
those protocols, TLC configurations that check them on small instances, and
proofs checked by TLAPS.

## 1. Inventory

| Part | State it keeps | Operations | Hard because |
|---|---|---|---|
| `contracts/src/HTLCEscrow.sol` | `locks[hash]` | `lock`, `claim`, `retake` | a hash can be locked again; blocks can be reorganised |
| `canton-htlc/daml/CbtcHtlc.daml`, `lib/htlc-onledger.ts` | registry Allocation, `HtlcLock` contracts | allocate, create, `Claim`, `Refund`, withdraw | ledger time is not EVM time; a submission may commit although its answer is lost; forward creates of `HtlcLock` carry no command id |
| `lib/transfer.ts` | transfer instructions, the vault's holdings | offer, accept, send back | an instruction may lapse, land late or settle without an offer |
| `lib/htlc-timelock.ts` | - | validate and derive the deadlines of an order | the ladder has to cover two clocks, a bind tolerance and a claim margin |
| `lib/htlc-order-store.ts` | the `htlc_orders` row | `putIfStatus` | whole-row writes from copies that are older than several awaits; only the status is compared |
| `lib/htlc-service-singleton.ts`, forward | (the row) | accept, cancel, recordMainLock, lockCounter, claimCounterAsBackend, recordMainClaim, refundCounter, recordMainRetake, the sweeps and reconcilers | every method may run concurrently with every other and die between any two awaits |
| the same, forward with Loop delivery | (the row), the transfer that delivers | claimCounter, prepareLoopAccept, the delivery repair, recordCounterClaimed | the offer may be accepted, rejected or lapse while its evidence is being recorded; four writers of the same columns |
| the same, reverse (managed and Loop) | (the row, EVM float) | lockMainCanton, begin/abortCounterLock, recordCounterLocked/Claimed/Retake, claimMainAsSolver, refundMainCanton, earlyRefundLoopCustody | a pending EVM transaction can land after it was given up; transfers with ambiguous outcome |
| `swap-solver/src/htlc-solver-daemon.mts` | memory only | lock-counter poll, WBTC claim, counter lock, sweep trigger | restarts forget everything; races the sweeps |
| `supabase/migrations/040`-`042` | reservations over all orders | the accept and reserve functions | one vault shared by three products; the float was read before the lock was taken |
| `lib/canton-swap-service.ts` and its daemon | the `canton_swap_orders` row | create, settle, confirm, fill, counter offer and reissue, expire, fee outbox | two transfers that cannot be atomic; a daemon that times out while the server goes on |
| `lib/htlc-quote-math.ts`, `lib/htlc-quote.ts` | - | quote, amount checks at creation and at settlement | rounding and tolerances at three moments of one order |
| `lib/mint-processor.ts`, `supabase/migrations/004` | `mint_transfers`, the lease | lease, scan, claim, offer, accept, record | two ledger commands per holding, invocations that outlive their lease, ignored write errors |
| `app/swap/page.tsx`, `lib/secret-vault.ts`, `lib/htlc-pending-main-lock.ts`, the orders pages | secrets and pending-lock records in localStorage, the active swap in sessionStorage, the stage of each page | confirm, recover, poll, claim, retake | tabs are closed or crash, answers and receipts are lost, several tabs share one store; only the browser knows the secret |
| deposit accounts, redeem, auth, the rest of the UI, alerts | - | - | outside the protocols (section 6) |

What makes the HTLC swap correct: the user's WBTC is taken only after the user has
the CBTC; the solver ties up and releases CBTC only against a deposit it can
still claim; the row never says more than has happened; a settled order stays
settled; float and claims are eventually released and recorded.  Of the shared float:
whatever was promised with cover can be paid.  Of the Canton swap: the user is paid once and
only what was paid counts as filled.  Of the mint processor: one holding, one delivery, and it is delivered.  Of the
browser: the secret of a lock that may still be filled is never lost, a sent lock is recorded, and nobody locks twice for one swap.

## 2. Modules

| Module | Models | Composition |
|---|---|---|
| `HTLCEscrow` | the Solidity contract for one hash, and the chain around it (clock, finality, reorganisation) | |
| `CbtcHtlc` | the Allocation and the `HtlcLock` contracts of one swap | |
| `LoopCustody` | the custody transfer of a reverse Loop seller and its return | |
| `HtlcTimelock` | the rules of the deadlines, their derivation, and the ladder each direction needs | |
| `HtlcOrder` | what both directions share: the row, its conditional write, the workers, cancel | extends `HTLCEscrow`, `CbtcHtlc` |
| `HtlcForward` | the managed forward swap: handlers, daemon, sweeps, cleanup | extends `HtlcOrder`, `HtlcTimelock` |
| `ForwardLoop` | the forward swap whose CBTC is delivered by a transfer to a Loop wallet | extends `HtlcForward`, whose shared handlers it runs |
| `HtlcReverse` | the reverse swap, managed or Loop (`Loop`): handlers, daemon, sweeps | extends `HtlcOrder`, `LoopCustody`, `HtlcTimelock` |
| `CrossChainSwap` | the abstract specification: where the two assets are and in which order they may move | refined by `HtlcForward` (main asset WBTC) and by the managed `HtlcReverse` (main asset CBTC) |
| `FloatReservation` | the promises of all three products on one vault and one wallet | abstracts the three protocols to what they do to the float |
| `CantonSwapOrder` | the row, the store, the ledger legs and the workers of one Canton-to-Canton swap | |
| `CantonSwap` | its handlers, sweeps and daemon | extends `CantonSwapOrder` |
| `MintProcessor` | the delivery of minted CBTC | |
| `BrowserSwap` | the browser's side of a managed forward swap, in several tabs, with the request handlers that record the lock | abstracts what `HtlcForward` models of the solver, the sweeps and the escrow |
| `SwapQuote` | the integer arithmetic of a quote and the checks made of an order's amounts | |
| `MCHtlcForward`, `MCForwardLoop`, `MCHtlcReverse`, `MCFloatReservation`, `MCCantonSwap`, `MCMintProcessor`, `MCBrowserSwap` | model-checking instances (model values, worker symmetry) | extend the module they name |
| `HtlcForwardProofs`, `ForwardLoopProofs`, `HtlcReverseProofs`, `CantonSwapProofs`, `FloatReservationProofs`, `MintProcessorProofs`, `BrowserSwapProofs`, `LadderAndQuoteProofs` | the theorems | extend the module they name; the last one `HtlcTimelock` and `SwapQuote` |

### How the forward model corresponds to the code

The state of `HtlcForward` is the escrow slot and its log (`HTLCEscrow`), the
Allocation and its `HtlcLock` wrappers (`CbtcHtlc`), and, from `HtlcOrder`, the order row (`row`,
`updatedAt`) and for every worker the await it stands at (`pc`) and the copy of
the row it carries across that await (`snap`).  A worker is any request
handler, daemon poll or sweep iteration: the code runs them in separate
processes with no lock but the conditional database write.  One action is what
happens between two awaits; the handler's early returns are the `Return` branches.

| Prefix | Code | Steps |
|---|---|---|
| `Accept` | `accept` and the SQL function behind it | one database transaction |
| `Cancel` | `cancel` | read, CAS |
| `Rml` | `recordMainLock` | read, CAS to `main_locking`, finality + `verifyEvmLock`, CAS to `main_locked` or rollback |
| `Lc` | daemon step 4, `beginCounterLock`, `lockCounter` | read, CAS, verify, allocate, persist the Allocation id, create the `HtlcLock`, CAS to `counter_locked`; or re-verify and create when an Allocation is already there |
| `Cl` | `claimCounterAsBackend` | read, verify, submit `HtlcLock.Claim`, duplicate heal, CAS to `counter_claimed` |
| `Dm` | daemon step 7, `recordMainClaim` | preimage, `escrow.claim`, read and verify, CAS to `main_claimed` |
| `Rt`, `Rc` | `recordMainRetake`, `refundCounter` | CAS; read, CAS to `refunding`, submit `HtlcLock.Refund`, CAS to `refunded` or rollback |
| `Ex` | `expireAbandonedAccepted` | read the escrow, recover or cancel |
| `Rf` | `reconcileForwardEvmMainClaim` | read, CAS to `main_claimed` |
| `Cu` | the cleanup-allocations route | list, look at the orders, withdraw |
| `Fail`, `CallLost` | a killed process; a call whose answer is lost | |

The data is abstracted to what the properties tell apart: a transaction id is
the index of the lock it made or the kind of event it proves, the preimage is a
flag, time is counted in ticks.  `LedgerTime` lets the Canton clock differ from the EVM
clock by up to `Skew` at every submission.  The client may lock at any time after
accept, with any of the configured amounts, receivers and deadlines, more than
once, and may post any of its requests in any order.  One assumption is made of
it: the transaction it posts to `recordMainLock` is one of its lock transactions
(the code checks that transaction's finality and, separately, the escrow slot,
but not that the one filled the other).

### How the Loop delivery corresponds to the code

`ForwardLoop` adds one variable, `transfer`: the standard transfer that carries the order's CBTC, which
settles at once with a preapproval (`direct`) or leaves an offer that the wallet accepts or rejects
or that lapses (and is then still listed, as the registry does).  The ledger refuses a second transfer under the order's
command id; that is external.  The recording of the WBTC lock, cancel, the sweep of abandoned orders and the retake are `HtlcForward`'s own actions.

| Prefix | Code | Steps |
|---|---|---|
| `Cc` | `claimCounter` | read; verify the escrow (only when `main_locked`), store the reveal, send, read the sending transaction, find the offer |
| `Pa` | `prepareLoopAccept` | read, find and bind the offer, list it, or repair |
| `Pv` | `persistLoopCounterDeliveryEvidence` | a fresh row, conditional write, again when the status has changed |
| `Re` | `reconcileLoopForwardCounterDelivery` | read the transaction, bind the offer, look for its Accept, CAS |
| `Cr` | `recordCounterClaimed` | verify, prove, CAS |
| `Ld`, `Lf` | the daemon's claim behind `htlcForwardLoopDeliveryProven`, and the repair that records it | |

Only an Accept counts as consumption (`counterOfferConsumedInEvents`).

### How the reverse model corresponds to the code

The same row, workers and steps, with the roles of the legs exchanged: the
user's CBTC is the long leg, in an `HtlcLock` (managed) or in the solver's
custody (Loop), and the solver's WBTC the short one.  Two variables are new:
`pendingLocks`, the WBTC lock transactions whose receipt nobody waits for any
more, and `claimedTx`, which lock the `Claimed` event belongs to, because the
log is scanned from the block of the recorded lock only.

| Prefix | Code | Steps |
|---|---|---|
| `Rs` | `reserveReverseFloatBeforeMainLock` | the SQL reservation, then a fresh read |
| `Lm` | `lockMainCanton` and the two sweeps that retry it | allocate, persist, create the `HtlcLock` under its command id, CAS to `main_locked` |
| `Rl` | `releaseStaleReversePrelockReservation` | read, look the Allocation up, persist it or fail the order |
| `Rp` | `releaseReversePrelockWithoutCustody` | read, list the offers, fail the order |
| `Co` | `commitReverseLoopOrder` | bind the offer or the direct transfer, accept, re-read, CAS |
| `Cf` | `confirmLoopSellerLock` (browser, daemon, sweep) | recover a bound offer, list, accept, CAS |
| `Dk` | daemon step 3, `beginCounterLock`, `abortCounterLock` | slot, balance, begin, margin and log scans, send, wait |
| `Rcl`, `Ph` | `recordCounterLocked`, `reconcilePhantomEvmCounterLock` | verify the transaction and the slot, CAS; read slot and log, verify, CAS or rollback |
| `Rcc`, `Cm` | `recordCounterClaimed`, the watchtower with `claimMainAsSolver` | CAS; find the claim, persist the reveal, claim the CBTC, CAS |
| `Rf`, `Ef`, `Rk` | `refundMainCanton`, `earlyRefundLoopCustody`, `recordCounterRetake` | guard, CAS to `refunding`, submit, CAS or rollback; CAS and then refund or `failed` |

There is one daemon, so no two workers stand at its own steps (`DaemonIdle`),
while the requests it posts may run on after it has given up on the answer.
The daemon's in-memory sets only stop it from posting what has been recorded; a
restart clears them, so the model leaves them out.  The user holds the preimage
from the start and claims the WBTC whenever the escrow allows it.

### How the float model corresponds to the code

`FloatReservation` runs forward, reverse Loop and Canton-to-Canton orders on one vault and one wallet.  Of each
handler remains what it does to the row's status, to the reservation columns and to the float.

| Action | Code |
|---|---|
| `ReadFloat` | `getHoldings` or `balanceOf`, before the SQL call: the reading may be as old as one likes |
| `AcceptForward`, `ReserveSwap` | `accept_htlc_order_with_float` and `reserve_canton_swap_float`: the sum of the open promises under the advisory lock, compared with that reading |
| `ReserveBeforeMainLock`, `ReserveEvmFloat` | the two reverse reservations of migrations 041 and 042 |
| `CbtcReserved`, `WbtcReserved` | `sum_vault_cbtc_reserved_sats` and the sum of the reverse reservations: which statuses of which product count |
| `ForwardStep`, `ReverseStep`, `Bind`, `RecordCustody`, `ReleasePrelock`, `Refund...` | the status changes of the handlers |
| `Allocate`, `Custody...`, `LockWbtc`, `WbtcLeaves`, `FillSwap`, `CounterOfferEnds` | what the ledgers do meanwhile |

### How the Canton-to-Canton model corresponds to the code

The user offers the sold asset to the vault (`sell`); the fill accepts that offer and pays the bought asset in one
transaction; a Loop user without preapproval is left a counter offer, which is reissued when it lapses.  `legs[k]` is the
command whose deterministic id belongs to attempt `k`, so that a repetition of it is refused by the ledger.

| Actions | Code |
|---|---|
| `CreateOrder`, `Cancel` | create, cancel |
| `Settle...` | `settle` of a managed order: reserve, fee, make the sell offer, then the fill |
| `Confirm...` | the Loop user's signed sell offer: verify, reserve, or reject |
| `Fill...`, `RecordResult`, `BookFee`, `UnmarkFee` | the fill: begin, decide on the fee leg, submit, recover a duplicate, record, book |
| `Caught`, `CatchReject`, `LastPut` | the catch blocks: what an error leaves reserved, rejected and written |
| `RepairStart`, `SweepRepair` | the reconciliation of committed fills |
| `Counter...`, `Reissue...` | `reconcileLoopCounters`: look for the counter offer, clear the row, reissue after the cooldown |
| `Expire...` | the expiry sweep with its repair and rejection |
| `FeeStart`, `FeeBook` | the network-fee outbox |

One flag `late` stands for the deadlines of a row and three values for the age of a
cleared counter offer (none, recent, old).

### How the mint model corresponds to the code

A run is one invocation of `processMintTransfers`.  Its actions, in order: `TryLock`, `Scan`, and for each holding `ReadRow`,
`Resolve` (find the mint, the account, write the metadata) or `GiveUp`, `Claim` (`claim_mint_transfer`), `Stamp` (the metadata
again), `MakeOffer`, `Persist`, `Accept`, `WriteTransferred` or `WriteFailed`; at the end `Unlock`, which clears the lease whosever it is.
`Die` ends a run anywhere.  A database write may be lost at any time, because no statement looks at its error; a read that fails looks
like no row.  The ledger is external: a holding is listed on warpx until an offer over it is accepted, any
number of offers may be made over it, and an offer lapses after 24 hours.  The checks that compare amounts with
earlier ones cannot fail, because amounts on the ledger are immutable, and are left out.  `orphan`, `untold` and
`overrun` are history variables: what went unrecorded, what was delivered by a run that could not say so, and whether a
run has outlived its lease.

### How the browser model corresponds to the code

A tab is a page of one signed-in user with one wallet.  `vault` and `records` are the two localStorage stores all tabs
share, `active` is the tab's sessionStorage marker, `stage` what the page shows.  A tab may be at one await of
`handleConfirm` (`flow`) and, at the same time, at the request of its recovery effect (`rec`).

| Actions | Code |
|---|---|
| `Confirm`, `Prepared` | `handleConfirm`: fresh secret into the vault, reservation of the order |
| `WalletRejects`, `WalletSigns`, `WalletSilent` | the wallet refuses; answers with a transaction, whose record is stored; sends it and never answers |
| `Succeeded`, `Reverted`, `NoReceipt`, `LeaveToRecovery` | the receipt, or none in time; the commit that follows; the wait for a lock that may still be mined |
| `RecoverySeesRevert`, `RecoveryPosts`, `Selected`, `Recoverable` | the recovery effect and `selectPendingMainLock` |
| `Poll` | the poll of a waiting order |
| `CloseTab`, `OpenSwapPage` | a tab is closed, reloaded or crashes; the swap page is opened |
| `Peek`, `Begin`, `Cas`, `Verify`, `Finish`, `Rollback` | the commit-forward and main-lock routes: `commitForwardOrder`, `recordMainLock` |
| `Ok`, `Accepts`, `Refused`, `HandlerDies`, `AnswerLost` | what the page does with the answer, with an error, and when no answer comes |
| `Claim`, `Retake` | the buttons, whichever page shows them |
| `Mine`, `Solver...`, `RetakeFound`, `Sweep...` | the chain, the solver and the sweeps, reduced to the row's status and the deposit |

The clock of an attempt has four marks (`age`): fresh; past the draft TTL and possibly `solverTimelock`; past `userTimelock`; an hour
after that, when vault and records purge what they hold.  `MaxAttempts` bounds the confirmations, `MaxFails` the
faults: closed tabs, lost answers, silent wallets, dead handlers, refusals for a reason outside the protocol.  A wallet may replace the transaction it announced; the
lock is then mined under a hash the page does not know.

### The ladder and the quote

`HtlcTimelock` holds the production numbers of `lib/htlc-timelock.ts`, what `assertValidTimelocks` accepts, what the browser
derives from an expiration, and the ladders (`ForwardLadder`, `ReverseLadder`) that the two protocol modules assume of
their constants.  `SwapQuote` holds the integer arithmetic of a quote, the largest output the creation of an order
accepts, and the floor `assertHtlcSettlementQuoteFresh` checks it against.  That check runs before the user commits funds (`prepareForwardIntent`
accepts an order, a reverse order reserves its float for its lock or custody), and nothing is priced again once the user's leg is locked.  (The
comment at `lib/htlc-quote.ts:371` says it runs immediately before any solver leg is locked or delivered;
`lib/htlc-service-singleton.ts:1374`, `1570` and `1798` explain why the later steps leave it out.)  The price is an input: feeds, caches, the peg band and the
reference check decide whether there is one.

## 3. Runs

Times are in ticks.  The ladder of the managed forward runs is the smallest one
`LadderAssumption` allows with a skew: Canton unlocks at 2, `solverTimelock` is
3, `userTimelock` 6, the claim margin 2, the binding tolerance 1, the skew 1, and
the clock stops after every deadline has passed.  A tick later
no guard changes its value, so a longer clock adds no behaviour.  Two workers
give every pair of handlers in every interleaving; a third could only repeat what one
of the two does after finishing, which reuse of a worker already covers
for everything but three simultaneously stale copies (the proofs cover any number).
Two lost calls let a handler die and its retry die too.  `MaxWrap` 2 lets the
retry create a second `HtlcLock`.  Deadlock checking is off everywhere: an order that is settled or
abandoned when the clock stops, or when the bounds are used up, has nothing left to do.

The Loop runs have Canton unlock at 1, `solverTimelock` 2, `userTimelock` 5 and no `HtlcLock` (`MaxWrap` 0).
`SlowHandlers` says whether the clock may run while `claimCounter` stands between its check of the escrow and the transfer; `FALSE`
is the code's own assumption that this takes less than the claim margin.

The reverse runs have the WBTC lock open until 3 (`solverTimelock`), Canton unlock at 4,
`userTimelock` 5, the claim margin, the skew, the pre-lock TTL and the custody grace 1,
and the clock stops at 6: the smallest ladder `ReverseLadderAssumption` allows
with a skew, in which the pre-lock sweep, the early refund, the retake before
and after `userTimelock` and the refund all have their turn.  `MaxLocks` bounds the WBTC lock
transactions sent to 1: with 2 the daemon can be made to lock twice and the user to get both assets
(`FundedOnce` below), so the guarantees the runs check are those of a swap whose WBTC is locked once; `RowEvidenceTrue`, `CbtcAfterWbtc` and
`CounterCovered` also hold with `MaxLocks = 2` on the instance of `reverse_race`.
`reverse_live` uses a pre-lock TTL of 0: the sweep is enabled
by a clock that stops at 6, and a later write must not put it out of reach for that reason alone.

| Run | Instance | Shows |
|---|---|---|
| `forward_race` | 2 workers, 2 lost calls, 2 locks of 2 amounts, 2 receivers and 2 deadlines | the safety properties and the refinement under every pair of handlers; wrong, short, early or repeated locks never uncover a release |
| `forward_live` | 2 workers, 1 lost call, reorganisations, cleanup route on, fairness | float is freed and claims are recorded; with a recorded lock transaction a release stays covered although blocks are dropped |
| `forward_loop` | 2 workers, 1 lost call, slow handlers, fairness | the WBTC is not taken before the delivery, the row is truthful, a recorded delivery is proved and the claim recorded |
| `reverse_race` | managed, 2 workers, 2 lost calls, 1 WBTC lock | the safety properties and the refinement under every pair of handlers |
| `reverse_loop` | Loop, 2 workers, 2 lost calls, release-prelock at any time | the row says only what happened |
| `reverse_live` | managed, 1 worker, 2 lost calls, fairness | the user's CBTC is paid for or given back |
| `float` | four books of two or three orders, amounts 1 and 2, vault 2, wallet 2 | every promise made with cover can be paid |
| `c2c` | managed and Loop, 2 workers, 2 lost calls, 3 legs | paid once; row, reservation and fee ledger say what the ledger did |
| `c2c_live` | managed and Loop, 1 worker, 3 lost calls, fairness | managed fills are recorded, accepted counter offers noticed, the fee outbox drained |
| `browser` | 1 tab, 2 handlers, 1 attempt, 2 faults, fairness | the secret of a lock at stake is kept, a retry does not lock over a lock already sent, a stored record is worked off |
| `mint` | 1 holding, 2 runs, lease 1, claims stale after 3 (ticks of 300 s), 3 offers, 1 failure, fairness | a second offer, an untold delivery and an undelivered mint only for the reasons the properties name |

Bounds of the runs outside the cross-chain protocols.  `MaxLegs` is one more than the reissues of a counter offer: with 3 a reissue is itself reissued.
In `float` every kind of order meets every other and itself, and vault and wallet are
too small for all of a book.  Of `mint`, one holding with one run, three failures and four offers, and two holdings with one
run, two failures and four offers pass as well, as do `forward_loop` with two failures and `AcceptNoticed` with two workers.
In `browser` one tab closes and is opened again; the two
safety properties also pass with two tabs and two handlers (1 fault), two tabs and two faults (1 handler), and two attempts (1 fault with one handler, no fault
with two); the proofs cover any number.

Type invariants that TLAPS proves are not repeated in the runs.  `TypeOK` of the Canton swap holds on the instance of
`c2c` too.

One more run checks a sentence of the repository that the code does not keep;
TLC is expected to refute it, and `findings` in `PROJECT.json` explains the trace.

| Run | Refuted | In short |
|---|---|---|
| `vr_paid` | `NoRefundAfterClaim` | reverse, Loop: an early refund whose answer is lost rolls back to `main_locked`, and the WBTC is locked and claimed as well |

Further sentences are stated at the end of the modules and refuted by TLC in the same way; to
see a trace, take the cfg of the run named, with the constants given, and check the property alone.

| Property | Instance | In short |
|---|---|---|
| `CompletedSettled` | `forward_race`, 1 worker | a recorded retake is taken for the solver's claim after a second lock |
| `RefundedFreesFloat` | `forward_race`, 1 worker | `recordMainRetake` from `counter_locking` marks `refunded` with the Allocation locked |
| `NoRefundAfterClaim` | `forward_race`, 1 worker | a retake posted twice turns a paid order into `refunded` |
| `CounterLockedFunded` | `forward_race`, `Cleanup = TRUE` | the cleanup route withdraws an Allocation whose id is not yet persisted |
| `RecordedReleaseCovered` | `forward_race`, `Reorgs = TRUE`, `MaxFails = 0` | a first, final lock is recorded and retaken, the hash is locked again: `verifyEvmLock` asks for the finality of the recorded transaction, not of the one in the slot |
| `FinalityGatesReserve` | `forward_live`, 1 worker | the accepted-TTL sweep recovers an order without a transaction to wait for |
| `ClaimRecorded` | `forward_live`, 1 worker | the escrow guard runs before the duplicate-claim recovery, so a late retry records nothing |
| `NoStrandedFloat` | `forward_live`, 1 worker | an Allocation left by a killed `lockCounter` is in no sweep's list |
| `SendCovered` | `forward_loop` | when the transfer fails after the reveal is stored, the retry sends without looking at the escrow, from which the user may have retaken the WBTC |
| `DeliveryRecovered` | `forward_loop`, `SlowHandlers = FALSE` | a transfer whose answer was lost is never found: `createTransfer` rewords the ledger's "duplicate command", for which `claimCounter` would look |
| `FailedHoldsNothing` | `reverse_race`, `Loop = TRUE` | CBTC that settled without an offer is "not visible", and the sweep fails the order |
| `FailedHoldsNothing` | `reverse_race`, `ReleasePrelock = TRUE` | release-prelock between the Allocation and its persisted id |
| `CounterCovered` | `reverse_race`, `Loop = TRUE` | the roll-back of `vr_paid` at the moment the WBTC is locked against returned custody |
| `AbortKnowsNoTx` | `reverse_race` | a resumed lock is aborted for a low balance with its transaction pending |
| `FundedOnce` | `reverse_race`, `MaxLocks = 2` | the claim scan is skipped in the poll that begins the lock |
| `LandedLockStays` | `reverse_race` | the phantom check rolls a landed, retaken lock back |
| `ClaimDiscovered` | `reverse_live` | a claim made before `recordCounterLocked` succeeds leaves the order `counter_locking` |
| `RetakenFreed` | `reverse_live`, `Loop = TRUE` | an order failed after a retake is in no sweep's list |
| `PaidOnce` | `c2c`, `SlowHandlers = TRUE` | a handler that stands at one await for the whole reissue cooldown pays beside the reissue |
| `FillKept` | `c2c` | a second fill, begun from a copy read before the first was recorded, writes the settlement id away |
| `LoopFillRecorded` | `c2c_live`, `Modes = {"loop"}` | a fill whose answer was lost and whose offers are gone ends as a failed, then expired order |
| `CollectedFeeBooked` | `c2c_live`, managed only, 2 workers, 1 lost call | a fill whose answer was lost is recorded without the mark that its fee is to be booked |
| `SettlingReleased` | `c2c_live`, managed only | a managed order whose request died between reservation and sell offer keeps its float |
| `ReservedByRpc` | `c2c`, `Modes = {"loop"}` | a fill begun from an old copy puts a reservation back that has been released |
| `VaultAlwaysSolvent` | `float` | float read before a payout ended is promised again afterwards; custody is accepted before its order is bound to it |
| `WalletAlwaysSolvent` | `float` | the same reading; and an early refund that is rolled back keeps its flag after its float was promised away |
| `TurnedAwayOnlyIfShort` | `float` | an allocated order is counted in the sum although `getHoldings` no longer sees its CBTC |
| `RetakeOffered` | `browser`, 1 handler, `MaxFails = 0` | the sweep takes the solver's CBTC back at `solverTimelock` and writes `refunded`; every page then hides the retake although the WBTC is still in the escrow |
| `NeverAnother` | `mint`, `MaxFails = 0` | a run that read the row before another one's offer was recorded makes a second offer |
| `OneOwner` | `mint`, `MaxFails = 0` | a claim goes stale while its owner still stands before its offer |
| `TransferredStays` | `mint`, `MaxFails = 0` | the late error of the losing run overwrites `transferred` |
| `NoStranding` | `mint`, `MaxFails = 0` | a recorded offer that has lapsed is accepted for ever, in vain |

### Properties

`WbtcAfterCbtc`, `CbtcReleaseCovered`, `CbtcReserveCovered`: the order in which the
two assets move.  `RowEvidenceTrue`, `SettledStays`: what stale
whole-row writes may not do.  `CancelledUnfunded`, `CounterLockedFunded`: row against
ledger.  `RecordedReleaseCovered`: the release guarantee when blocks can be
dropped.  `WbtcAfterDelivery`, `DeliveryEvidenceTrue`: the same two questions when the CBTC goes by transfer.
`CbtcAfterWbtc`, `CounterCovered`: the order of the assets in the reverse direction.
`NoRefundAfterClaim`: nobody ends up with both legs.  `FloatFreed`, `SettlementRecorded`, `DeliveryRecorded`,
`LoopSettlementRecorded`, `MainFreed`, `RetakenFreed`: liveness.  `ImplementsSwap`: the
refinement of `CrossChainSwap`.  `MainFreed` does not ask for more once the user has
claimed: that the solver then collects is what `ClaimDiscovered` refutes.

`VaultSolvent`, `WalletSolvent`: what is owed is there, unless a promise was made on a reading older than a finished payout or
on custody no order was bound to (`gap`, a history variable, names these cases; the two `...AlwaysSolvent` above show that they
happen).

`PaidOnce`, `FilledIsPaid`, `FillIsReserved`, `ExpiredReleasesOffer`, `BookedFeeWasCollected`: of a Canton swap, row, reservation,
sell offer and fee book against the ledger.  `ManagedFillRecorded`, `AcceptNoticed`, `OutboxDrains`: its liveness.

`OneOffer`, `RowTellsDelivery`, `MintDelivered`: the duplicate guard of the mint processor as far as it goes, its row against the ledger,
and that it delivers.

`SecretKept`, `RetryIsClean`, `RecordWorkedOff`: the browser's stores against the chain and the row, whatever tab, answer or handler is lost.

Every property of a passing run has a mutant: a definition named `X_Something` is `X` with one plausible mistake, and
TLC refutes the property when it takes the place of `X`.

## 4. Fairness

`FairSpec` of `HtlcForward` assumes that time passes (weak fairness of `Chain`) and that a handler which
has started goes on (weak fairness of `Resume`) unless it is killed, which happens at most
`MaxFails` times.  Strong fairness is assumed of the starts of exactly those
handlers something outside the swap repeats: `refundCounter` and
`expireAbandonedAccepted` (the auto-refund sweep, called every minute by the daemon
and by cron), the daemon's two polls, and the claim of a user who wants the
CBTC.  It is strong because the worker they need may be busy in between.  Nothing is
assumed of cancel, of retakes, of `recordMainLock` or of the cleanup route.

`LoopFairSpec` repeats the delivery repair (every poll of the daemon reads the active orders, which runs it) and the
daemon's claim.  Nothing is assumed of the user, who may never accept the offer.

In the reverse direction the repeated starts are the stale pre-lock sweep, `confirmLoopSellerLock`,
the daemon's lock and post of a lock, its retake and the report of it, the watchtower, and the refund
sweep for exactly the orders its buckets read (`RfSweep`).  A pending transaction is eventually mined or dropped (weak fairness of `PendingLands`).  Nothing is assumed of the user.

In `CantonSwap` the daemon's serial loop comes to every sweep again and again (strong fairness of `RepairStart`,
`CounterStart`, `ExpireStart`, `FeeStart`), handlers go on, and a submission does not stay in flight (`Land`).  In `MintProcessor` cron
calls the processor again and again (weak fairness of `TryLock`: the lease does not go back while it is free and nobody takes it), each
run goes on until it ends or dies, and time passes.

In `BrowserSwap` a request is worked on (weak fairness of `HandlerSteps`), a page reads its receipt or gives up, and its poll fires (weak
fairness).  The recovery is repeated by a timer; its fairness is strong because the model bounds the handlers at work, which the server
does not.  Nothing is assumed of the user, the wallet, the chain, the solver or the clock; `RecordWorkedOff` ends its claim when the lock leaves its fresh state.

## 5. Proofs

TLAPS checks the theorems of eight modules, for any set of workers, tabs, orders, holdings and runs, any number of faults, and any constants
that satisfy the named assumptions of the module proved about.

`HtlcForwardProofs` (from `EscrowAssumption`, `CantonAssumption`, `ForwardAssumption`, `LadderAssumption`):

* `TypeCorrect`: `Spec => []TypeOK`.
* `SolverPaidLast`, `RowTellsTheTruth`: `WbtcAfterCbtc` and `RowEvidenceTrue`.  Neither is
  inductive: the row is overwritten from copies, so what the row says
  depends on what every copy says, and a copy is completed with facts its worker
  has only established by standing where it does (at `clCommit` the ledger
  has executed, at `rtCas` the log holds a retake).  `EvidenceInv` adds both.  It is
  preserved because the evidence only grows: an executed Allocation stays
  executed and events stay in the log (`LedgerOnlyGrows`).
* `ReserveIsCovered`, `ReleaseIsCovered`, assuming no reorganisation: the
  action properties `CbtcReserveCovered` and `CbtcReleaseCovered`.  The reading of
  `verifyEvmLock` may be arbitrarily old when the ledger commits, so the guard itself
  proves nothing.  What survives is `Secured`: the deposit is still there, or
  it is so late that the ledger would refuse, or the user has been paid.  `CoverInv`
  says every worker between guard and submission is secured, and the ladder turns
  "it is so late" into a refused submission.
* `SettledOrdersStay`, `CancelledCostsNothing` (all constants) and `CounterLegIsReal` (no cleanup route, which refutes it): `SettledStays`,
  `CancelledUnfunded`, `CounterLockedFunded`.  All three say that a stale copy cannot win against the status it is compared with, so
  they follow from one invariant, `StageInv`: how far the contract columns and the Allocation are at each status, for the row (`Staged`) and for every
  copy at its label (`LabelStage`).  An order that can still be cancelled (`Uncommitted`) has no Allocation, and no worker that is about
  to create one can be standing beside it.
* `ForwardImplementsSwap`, assuming no reorganisation: every step is a step of `CrossChainSwap` or leaves its view alone.  The
  reserve and release of the abstract swap are guarded by the deposit, so the mapping needs `CoverInv`.
* `RecordedLockIsFinal` (all constants, reorganisations included): a lock transaction the row or a copy carries is final when the code relies on it
  (`FinalityInv`).  From it `RecordedReleaseIsCovered`: `RecordedReleaseCovered` when blocks can be dropped, for swaps whose hash is locked
  at most once (`[](lockTxs <= 1)`, the bound of `forward_live`).  The hypothesis is needed: section 3 shows what a second lock does.

`ForwardLoopProofs`: `LoopTypeCorrect`, and `DeliveredFirst` and `LoopRowTellsTheTruth` from `LoopEvidenceInv`.  A copy at
`pvDirectPut` or `reCas` claims a delivery that the row does not yet show; what makes it true is the step that sent the worker there,
so the invariant relates every label to what the transfer must be (`ReachedWith`), and again holds because a delivered transfer stays delivered.

`HtlcReverseProofs` (from the assumptions of `HTLCEscrow`, `CbtcHtlc` and `HtlcOrder`, `ReverseAssumption` and `ReverseLadderAssumption`):

* `ReverseTypeCorrect`; `RowTellsTheTruth` and `SolverCollectsLast` (`RowEvidenceTrue`, `CbtcAfterWbtc`), managed and Loop, any number of WBTC locks.
  `EvidenceInv` is the counterpart of the forward one, over two kinds of CBTC leg and a log of which only the part after the
  recorded lock is read, so `EscrowInv` goes with it: which lock is in the slot and which one the `Claimed` event belongs to.
* `WbtcOnlyAgainstCbtc` (`CounterCovered`), managed.  A worker between guard and transaction knows only that the CBTC had been set aside
  (`SetAside`); that it is still there is the ladder (`RefundLate`): the CBTC cannot go back before the WBTC lock could no longer be made.
  With a Loop seller TLC refutes it (section 3): an early refund returns custody before the deadline.
* `NobodyHasBothLegs` (`NoRefundAfterClaim`), managed, for behaviours in which nothing is locked again after a claim
  (`FundedOnce`).  `RefundGuarded`: a refund starts after `userTimelock`, its scan finds a claim if there is one, and by
  then none can follow.  `vr_paid` refutes it for Loop; section 3 refutes `FundedOnce` itself for two locks, and with it the guarantee.
* `ReverseImplementsSwap`, managed, one WBTC lock: the refinement of `CrossChainSwap`.

`CantonSwapProofs` (from `CantonSwapAssumption` and `ModesAssumption`):

* `CantonSwapTypeCorrect`; `FeeRevenueIsReal`, `FilledRowsArePaid`, `FillsAreReserved`, `ExpiryReleasesTheOffer`: the four invariants that
  compare the row with the ledger, all constants.  `EvidenceInv` extends them to every copy: `Evidence(o, facts)` is what a copy of the row says of
  the ledger, `JobEvidence` what a handler has learnt by standing where it does, and the facts, once true, remain so.
* `BoughtAssetPaidOnce` (`PaidOnce`), for handlers that do not stand at one await for a whole reissue cooldown (`~SlowHandlers`;
  otherwise TLC refutes it).  `OnceInv`: before the first cooldown has passed the fill is the only leg and no copy knows another (`Early`);
  afterwards every reissue names the leg after the one its copy knows, and is sent only when that one was seen
  closed, which it stays (`Late`, `SentInTurn`).

`FloatReservationProofs` (from `FloatAssumption`): `FloatInvariant`, `TypeCorrect`, `VaultStaysSolvent`, `WalletStaysSolvent`.  Solvency alone is not
inductive, because a promise is made on an old reading.  `FloatInv` adds what a reading is worth: at most the float of now plus what was paid out since, which
the promises still being counted cover unless the payout has ended in between (`overtaken`).  The sums range over arbitrary sets of orders of
arbitrary amounts; a lemma changes them one order at a time.

`MintProcessorProofs` (from `MintAssumption`): `TypeCorrect`, `NoSecondOffer` and `RowsTellTheTruth`.  `OneOffer` needs three invariants below it: who is inside the
lease (`LeaseInv`), which offers exist, are recorded or are in the hands of a run (`OfferInv`), and what a delivery has left behind (`DeliveryInv`).

`BrowserSwapProofs` (from `BrowserAssumption`): `BrowserInvariant`, `BrowserTypeCorrect`, `SecretNeverLost`, `RetryAlwaysClean`.  `SecretKept` says nothing of a
hash before it is sent, so it is not inductive: a second tab or an old recovery could forget the secret in that moment.  `SecretInv` adds that a hash whose lock is
not sent belongs to the one flow that made it, with its secret saved, and that records, waiting pages, recoveries and handlers only ever speak of
sent locks.  From then on a secret goes only when the order is over, the lock has reverted or its hour is past, none of which is undone.

`LadderAndQuoteProofs`, over all integers, without a state machine:

* `AcceptedLadderCoversForward`, `AcceptedLadderCoversReverse`: whatever `assertValidTimelocks` accepts satisfies `LadderAssumption`
  with a clock skew of up to 600 s, and `ReverseLadderAssumption` with up to 1200 s.  They discharge, for the production numbers, the
  assumption of the protocol modules: the gap of 1260 s minus the 120 s tolerance plus the 60 s lead leaves 1200 s, of which the
  claim margin takes 600 s.
* `DerivedLadderAccepted`: what the browser derives from an expiration of 2 to 72 hours is accepted up to an hour later.  (A comment at `lib/htlc-timelock.ts:95`
  speaks of a gap of one hour for two hours; the code gives 30 minutes, which is enough.)
* `NoRoundTripGain`: swapping there and back at one price, asking each time for the most the creation check lets through, gains nothing at the default fee of 100 bps.
  The tolerance is 30 bps; a configured fee below the tolerance would void this.
* `AcceptedOrderSettles`, `SettlementLossBounded`: the two checks of an order agree at one price, and the later one bounds the loss at that moment by half a
  percent.  How far the price moves while the legs are locked is bounded by nothing.

Every safety and action property of a passing run is thus stated by a theorem, some under the hypotheses named above.  For `NoRefundAfterClaim`,
`CounterCovered`, `PaidOnce`, `CounterLockedFunded` and `RecordedReleaseCovered` TLC refutes the statement without its hypothesis.

Only model-checked: liveness under fairness (`FloatFreed`, `SettlementRecorded`, `DeliveryRecorded`, `LoopSettlementRecorded`, `MainFreed`, `RetakenFreed`,
`ManagedFillRecorded`, `AcceptNoticed`, `OutboxDrains`, `MintDelivered`, `RecordWorkedOff`), which needs ENABLED and is out of the provers' reach.  `CbtcReserveCovered`,
`CbtcReleaseCovered` and the forward refinement are proved without reorganisations only: with them they are false, and `RecordedReleaseCovered`
is what remains.

## 6. Not modelled

* Of the reverse swap: `reconcileWrongChainReverseCounterLock` (an order bound to one of two EVM chains),
  `markRefunded`, the network-fee leg of the lock, two orders competing for one custody transfer, and
  reorganisations.
* Of the browser: its Loop, reverse and Canton-to-Canton flows, a full or blocked localStorage, a change of wallet or account between two steps, a secret pasted by
  hand, and the resumption of a stored intent, which needs both timelocks to agree to the second.  A record that cannot be recorded holds up the ones behind it
  (`selectPendingMainLock` takes the oldest); `RecordWorkedOff` speaks of a record that is alone.
* Of the forward Loop delivery: the user's acceptance after the retake of the WBTC, which the audit lists (`docs/AUDIT-MASTER-FINDINGS.md:154`), is possible in the model but
  no property forbids it.
* Of the float: the CC pool of Canton-to-Canton swaps runs the same SQL under another lock key; the two legs of an order have the same amount in the
  model; one request per order reads the float at a time.  `accept` retries a rejected reservation three times, but the SQL function has failed
  the order by then (`040:130-134`), so the retries change nothing.  A managed reverse order has no custody transfer and adds nothing to the CBTC side.
* Of the Canton-to-Canton swap: rows without `settlementParty` (the migration of the vault party expires and reopens them), the repairs of legacy
  filled rows, the counter offer of a managed order, which the managed fill refuses to leave, and a counter offer recorded without its
  creation offset, for which `verifyCounterLegReceiptProof` answers `unknown`, so that the sweep refuses to reissue it (`AcceptNoticed` speaks of offers whose offset is known).
* `lib/canton-network-fee.ts` estimates a fee from traffic, prices and history: a number the protocols carry along.  Only what is done with
  the fee of a Canton swap is modelled.
* Price feeds, their caches, the peg band and the reference check are input to `SwapQuote`; `MIN_GAP_CANTON` is used by the browser only.
* Redeem is not offered by the product (`README.md:19` of the repository); its requests and its burns are kept by the ledger and an external attestor, and the history
  pairs them by order and amount.  Deposit accounts are created by the same attestor.
* Authentication and rate limits decide who calls a handler: the models let every handler be called at any time.  Outside
  `BrowserSwap` the models let the user hold the preimage and use it or not.  The rest of the user interface, alerts, health endpoints and operator scripts keep no protocol state.  These, a large part of the code
  by lines, stay out.
* The registry's Allocation and transfer instructions are external code and appear only as what the services use of them.
  Token transfers inside the escrow contract succeed or revert the whole call.

## 7. Plan

1. `RecordedReleaseCovered` and `NoRefundAfterClaim` for several locks of one hash, under the weakest condition on the
   later ones instead of one lock: which locks are harmless is what the two counterexamples of section 3 leave open.
2. The Loop direction of the reverse swap: which part of `CounterCovered` survives an early refund whose answer is lost.
3. The Loop and reverse flows of the browser.
4. The network fee of the reverse lock; several orders on one custody transfer.
