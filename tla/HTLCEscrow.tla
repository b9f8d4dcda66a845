----------------------------- MODULE HTLCEscrow -----------------------------
(***************************************************************************)
(* The HTLCEscrow contract (contracts/src/HTLCEscrow.sol), seen through    *)
(* the slot locks[hashValue] of one hash: the contract keeps no state      *)
(* that relates two hashes, so one slot is the whole contract for one      *)
(* swap.  As in Solidity an empty slot is the all-zero struct, recognised  *)
(* by amount = 0.                                                          *)
(*                                                                         *)
(* The chain around the contract is modelled from how the services use it: *)
(* a block timestamp `now', the log of events for the hash, and for each   *)
(* lock transaction whether it has reached the configured confirmation     *)
(* depth (assertEvmTransactionFinalized).  A lock that is mined but not    *)
(* final may be reorganised away.                                          *)
(***************************************************************************)
EXTENDS Integers

CONSTANTS
    Addr,           \* EVM accounts
    MaxLocks,       \* bound: how often lock() succeeds for this hash
    MaxTime         \* bound: the clock stops here

ASSUME EscrowAssumption ==
    /\ MaxLocks \in Nat
    /\ MaxTime \in Nat

VARIABLES
    now,        \* unix time, in ticks
    slot,       \* locks[hashValue]
    events,     \* which events the log holds for this hash
    lockTxs,    \* number of lock transactions mined so far; a tx is its index
    finalTxs    \* lock transactions past the confirmation depth

escrowVars == <<slot, events, lockTxs, finalTxs>>

EventName == {"Locked", "Claimed", "Retaken"}

\* `tx' is not in the Solidity struct: it names the transaction that filled
\* the slot, which the services know from its receipt.
Slot == [unlockTime : Nat, amount : Nat, sender : Addr, receiver : Addr,
         tx : 0..MaxLocks]

\* After `delete locks[hashValue]' every field is zero; the address and tx
\* fields keep a value here only because TLA+ wants one, and nothing reads them.
Emptied(s) == [s EXCEPT !.amount = 0, !.unlockTime = 0]

EscrowTypeOK ==
    /\ now \in Nat
    /\ slot \in Slot
    /\ events \in SUBSET EventName
    /\ lockTxs \in 0..MaxLocks
    /\ finalTxs \in SUBSET (1..MaxLocks)

EscrowInit ==
    /\ now = 0
    /\ \E a \in Addr :
         slot = [unlockTime |-> 0, amount |-> 0, sender |-> a, receiver |-> a,
                 tx |-> 0]
    /\ events = {}
    /\ lockTxs = 0
    /\ finalTxs = {}

-----------------------------------------------------------------------------
\* lock(): LockExists, ZeroAmount and BadUnlockTime revert.
Lock(sender, receiver, unlockTime, amount) ==
    /\ lockTxs < MaxLocks
    /\ slot.amount = 0
    /\ amount # 0
    /\ unlockTime > now
    /\ lockTxs' = lockTxs + 1
    /\ slot' = [unlockTime |-> unlockTime, amount |-> amount,
                sender |-> sender, receiver |-> receiver, tx |-> lockTxs + 1]
    /\ events' = events \cup {"Locked"}
    /\ UNCHANGED <<now, finalTxs>>

\* claim(preImage) for the preimage of this hash: NoLock, TooLate and
\* NotReceiver revert; the slot is deleted and Claimed publishes the preimage.
Claim(caller) ==
    /\ slot.amount # 0
    /\ now < slot.unlockTime
    /\ caller = slot.receiver
    /\ slot' = Emptied(slot)
    /\ events' = events \cup {"Claimed"}
    /\ UNCHANGED <<now, lockTxs, finalTxs>>

Retake_TooEarly(caller) ==
    /\ slot.amount # 0
    /\ caller = slot.sender
    /\ slot' = Emptied(slot)
    /\ events' = events \cup {"Retaken"}
    /\ UNCHANGED <<now, lockTxs, finalTxs>>

\* retake(hashValue): NoLock, TooEarly and NotSender revert.
Retake(caller) ==
    /\ slot.amount # 0
    /\ now >= slot.unlockTime
    /\ caller = slot.sender
    /\ slot' = Emptied(slot)
    /\ events' = events \cup {"Retaken"}
    /\ UNCHANGED <<now, lockTxs, finalTxs>>

-----------------------------------------------------------------------------
\* The chain: blocks are added, a lock reaches its confirmation depth, or the
\* block of a lock that has not is dropped together with the lock.
Tick ==
    /\ now < MaxTime
    /\ now' = now + 1
    /\ UNCHANGED escrowVars

Finalize ==
    /\ slot.amount # 0
    /\ slot.tx \notin finalTxs
    /\ slot.tx # 0
    /\ finalTxs' = finalTxs \cup {slot.tx}
    /\ UNCHANGED <<now, slot, events, lockTxs>>

Reorg ==
    /\ slot.amount # 0
    /\ slot.tx \notin finalTxs
    /\ slot' = Emptied(slot)
    /\ UNCHANGED <<now, events, lockTxs, finalTxs>>
=============================================================================
