---------------------------- MODULE HtlcTimelock ----------------------------
(***************************************************************************)
(* The timelock ladder of an HTLC order (lib/htlc-timelock.ts): what the   *)
(* browser derives from the chosen expiration, what every route that       *)
(* creates or commits an order accepts, and what the two directions of the *)
(* swap need of it.  All times are in whole seconds.                       *)
(***************************************************************************)
EXTENDS Integers

MIN_GAP == 60 + 15 * 60 + 5 * 60    \* Canton skew, EVM finality, execution
DEFAULT_GAP == 60 * 60
MIN_CANTON_EXPIRATION == 2 * 60 * 60
MAX_AHEAD == 7 * 24 * 60 * 60

\* The leads of the two Canton deadlines over the timelock they serve, and the
\* tolerance and margin every look at the user's EVM lock applies.
UNLOCK_LEAD == 60
ALLOCATE_LEAD == 30
EVM_TIMELOCK_BIND_TOLERANCE == 120
EVM_CLAIM_MARGIN == 10 * 60

ValidTimelocks(t, user, solver) ==
    /\ solver > t + 60
    /\ user - solver >= MIN_GAP
    /\ user <= t + MAX_AHEAD

Gap(expiration) ==
    LET quarter == expiration \div 4
        wanted == IF quarter < DEFAULT_GAP THEN quarter ELSE DEFAULT_GAP
    IN  IF wanted < MIN_GAP THEN MIN_GAP ELSE wanted

\* timelocksFromExpiration returns when it is neither too short nor too early.
Derivable(t, expiration) ==
    /\ expiration >= MIN_CANTON_EXPIRATION
    /\ t + expiration - Gap(expiration) > t

TimelocksFromExpiration(t, expiration) ==
    [user |-> t + expiration, solver |-> t + expiration - Gap(expiration)]

-----------------------------------------------------------------------------
(* What the swap needs, whatever the numbers are.                          *)

\* Forward: with the clocks skew apart, a Canton ledger that still releases
\* the CBTC leaves the solver the margin to claim the shortest WBTC lock the
\* tolerance lets through, and one that still reserves it precedes its end.
ForwardLadder(user, unlock, allocateBefore, margin, tolerance, skew) ==
    /\ unlock + skew + margin <= user - tolerance
    /\ allocateBefore + skew < user - tolerance

\* Reverse: the solver can retake its WBTC before the user's CBTC goes back.
ReverseLadder(solver, unlock, skew) == solver + skew <= unlock

=============================================================================
