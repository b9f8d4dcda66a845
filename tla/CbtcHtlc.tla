------------------------------ MODULE CbtcHtlc ------------------------------
(***************************************************************************)
(* The Canton leg of one swap: the registry Allocation that locks the CBTC *)
(* and the HtlcLock contracts of canton-htlc/daml/CbtcHtlc.daml that wrap  *)
(* it.  The Allocation is external (Splice registry code); what is used of *)
(* it is that it is created once per deterministic commandId, and that it  *)
(* is consumed by exactly one of Allocation_ExecuteTransfer and            *)
(* Allocation_Withdraw.                                                    *)
(*                                                                         *)
(* Several HtlcLock contracts can wrap one Allocation: the template has no *)
(* key and no ensure clause, so a create never looks at the Allocation.    *)
(*                                                                         *)
(* assertBoundTo compares the Allocation's parties, amount, instrument and *)
(* settleBefore with the lock's own terms.  Both contracts are created     *)
(* from the same order row, so those comparisons hold by construction here *)
(* and the terms are not carried in the state; what remains of the fetch   *)
(* is that the Allocation must be active.                                  *)
(***************************************************************************)
EXTENDS Integers

CONSTANTS
    MaxWrap,        \* bound: HtlcLock contracts created for this swap
    CantonUnlock    \* HtlcLock.unlockTime

ASSUME CantonAssumption ==
    /\ MaxWrap \in Nat
    /\ CantonUnlock \in Int

VARIABLES
    alloc,      \* the Allocation
    htlc        \* the HtlcLock contracts

cantonVars == <<alloc, htlc>>

\* executed: Allocation_ExecuteTransfer from HtlcLock.Claim, CBTC with receiver.
\* refunded: Allocation_Withdraw from HtlcLock.Refund, CBTC with the locker.
\* withdrawn: a bare Allocation_Withdraw by the sender, CBTC with the locker.
AllocState == {"none", "locked", "executed", "refunded", "withdrawn"}
HtlcState == {"none", "live", "archived"}

CantonTypeOK ==
    /\ alloc \in AllocState
    /\ htlc \in [1..MaxWrap -> HtlcState]

CantonInit ==
    /\ alloc = "none"
    /\ htlc = [i \in 1..MaxWrap |-> "none"]

-----------------------------------------------------------------------------
Allocate_NoDeadline(lt, allocateBefore) ==
    /\ alloc = "none"
    /\ alloc' = "locked"
    /\ UNCHANGED htlc

\* AllocationFactory_Allocate; the ledger time `lt' must not pass allocateBefore.
Allocate(lt, allocateBefore) ==
    /\ alloc = "none"
    /\ lt <= allocateBefore
    /\ alloc' = "locked"
    /\ UNCHANGED htlc

\* create HtlcLock.
CreateHtlcLock(i) ==
    /\ htlc[i] = "none"
    /\ htlc' = [htlc EXCEPT ![i] = "live"]
    /\ UNCHANGED alloc

HtlcClaim_NoDeadline(i, lt) ==
    /\ htlc[i] = "live"
    /\ alloc = "locked"
    /\ alloc' = "executed"
    /\ htlc' = [htlc EXCEPT ![i] = "archived"]

\* HtlcLock.Claim with the right preimage, controller receiver.
HtlcClaim(i, lt) ==
    /\ htlc[i] = "live"
    /\ lt < CantonUnlock
    /\ alloc = "locked"
    /\ alloc' = "executed"
    /\ htlc' = [htlc EXCEPT ![i] = "archived"]

\* HtlcLock.Refund, controller locker.
HtlcRefund(i, lt) ==
    /\ htlc[i] = "live"
    /\ lt >= CantonUnlock
    /\ alloc = "locked"
    /\ alloc' = "refunded"
    /\ htlc' = [htlc EXCEPT ![i] = "archived"]

\* Allocation_Withdraw exercised directly by the sender.
AllocationWithdraw ==
    /\ alloc = "locked"
    /\ alloc' = "withdrawn"
    /\ UNCHANGED htlc
=============================================================================
