----------------------------- MODULE HtlcOrder -----------------------------
(***************************************************************************)
(* What both directions of a cross-chain swap share: the order row         *)
(* (lib/htlc-types.ts) in its store (lib/htlc-order-store.ts), and the     *)
(* workers that move it.                                                   *)
(*                                                                         *)
(* Request handlers, daemon polls and cron sweeps are concurrent workers.  *)
(* A handler reads the row once, keeps the copy across awaits and writes   *)
(* the whole copy back with putIfStatus; each await on the database, on    *)
(* the chain or on the ledger is a step of its own, and any worker may be  *)
(* killed between two steps (a crash, a serverless timeout, a lost         *)
(* response).  pc names the await a worker stands at, snap its copy.       *)
(***************************************************************************)
EXTENDS HTLCEscrow, CbtcHtlc

CONSTANTS
    Workers,        \* concurrent handlers, daemon polls and sweeps
    User, Solver,   \* userEvmAddress, solverEvmAddress
    WbtcAmount,     \* order.wbtcAmount
    UserTimelock,   \* order.userTimelock, the long one
    SolverTimelock, \* order.solverTimelock, the short one
    UnlockLead,     \* HtlcLock.unlockTime = the Canton leg's timelock - 60s
    AllocLead,      \* allocateBefore = settleBefore - 30s
    Skew,           \* how far Canton ledger time may be from the EVM clock
    MaxFails        \* bound: workers killed and calls lost

ASSUME OrderAssumption ==
    /\ {User, Solver} \subseteq Addr
    /\ User # Solver
    /\ WbtcAmount \in Nat \ {0}
    /\ {UserTimelock, SolverTimelock, UnlockLead, AllocLead, Skew, MaxFails}
         \subseteq Nat

VARIABLES
    row,        \* the htlc_orders row
    updatedAt,  \* its updated_at, kept only while some sweep reads it
    pc, snap,   \* each worker's position and its copy of the row
    fails       \* workers killed and calls lost so far

orderVars == <<row, updatedAt>>
chainVars == <<now, escrowVars>>

Status == {"open", "accepted", "main_locking", "main_locked",
           "counter_locking", "counter_locked", "counter_claimed",
           "main_claimed", "refunding", "refunded", "cancelled", "failed"}

\* The columns the handlers write.  Ledger and transaction ids are abstracted
\* to what they prove: a lock transaction is its index (0: null), htlcCid the
\* index of the HtlcLock, the other contract and update ids whether they are
\* set.  mainLockTx is the forward direction's, the last four the reverse's.
Row == [status : Status, mainLockTx : 0..MaxLocks, allocationCid : BOOLEAN,
        htlcCid : 0..MaxWrap, revealedPreimage : BOOLEAN,
        counterClaimUpdateId : {"none", "claim", "refund"},
        mainClaimTx : {"none", "claim", "retake"},
        counterLockTx : 0..MaxLocks, evmFloatReserved : BOOLEAN,
        counterTransferOfferCid : BOOLEAN, counterTransferUpdateId : BOOLEAN]

NewOrder == [status |-> "open", mainLockTx |-> 0, allocationCid |-> FALSE,
             htlcCid |-> 0, revealedPreimage |-> FALSE,
             counterClaimUpdateId |-> "none", mainClaimTx |-> "none",
             counterLockTx |-> 0, evmFloatReserved |-> FALSE,
             counterTransferOfferCid |-> FALSE, counterTransferUpdateId |-> FALSE]

OrderInit ==
    /\ row = NewOrder
    /\ updatedAt = 0
    /\ pc = [w \in Workers |-> "idle"]
    /\ snap = [w \in Workers |-> NewOrder]
    /\ fails = 0

-----------------------------------------------------------------------------
(* What a handler is made of.                                              *)

\* Take `o' along to the await `l'.
Proceed(w, l, o) ==
    /\ pc' = [pc EXCEPT ![w] = l]
    /\ snap' = [snap EXCEPT ![w] = o]

\* Return or throw: the local copy is gone.
Return(w) == Proceed(w, "idle", NewOrder)

\* A call to the chain or the ledger fails, or its answer is lost.
CallLost == fails < MaxFails /\ fails' = fails + 1

\* orderToRow stamps updated_at on every write; the sweeps read it of accepted
\* and main_locking rows only.
Put(o) ==
    /\ row' = o
    /\ updatedAt' = IF o.status \in {"accepted", "main_locking"} THEN now ELSE 0

\* store.putIfStatus(o, expected): the full row is overwritten when the status
\* still is `expected'; on a lost race the handler returns the fresh row.
PutIfStatus(w, o, expected, next) ==
    IF row.status = expected
      THEN Put(o) /\ IF next = "idle" THEN Return(w) ELSE Proceed(w, next, o)
      ELSE UNCHANGED orderVars /\ Return(w)

\* Ledger time of a Canton transaction submitted now.
LedgerTime == (now - Skew)..(now + Skew)

-----------------------------------------------------------------------------
(* cancel(id), and in the reverse direction the accepted-TTL sweep, which  *)
(* then does the same.                                                     *)

CancelStart(w) ==
    /\ pc[w] = "idle"
    /\ row.status \in {"open", "accepted"}
    /\ Proceed(w, "cancelCas", row)
    /\ UNCHANGED <<chainVars, cantonVars, orderVars, fails>>

CancelCas_NoCompare(w) ==
    /\ pc[w] = "cancelCas"
    /\ Put([snap[w] EXCEPT !.status = "cancelled"])
    /\ Return(w)
    /\ UNCHANGED <<chainVars, cantonVars, fails>>

CancelCas(w) ==
    /\ pc[w] = "cancelCas"
    /\ PutIfStatus(w, [snap[w] EXCEPT !.status = "cancelled"],
                   snap[w].status, "idle")
    /\ UNCHANGED <<chainVars, cantonVars, fails>>
=============================================================================
