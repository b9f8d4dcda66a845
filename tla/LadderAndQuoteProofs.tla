------------------------ MODULE LadderAndQuoteProofs ------------------------
(***************************************************************************)
(* What the timelocks a route accepts and the amounts it accepts are worth:*)
(* theorems about HtlcTimelock and SwapQuote for all inputs.               *)
(***************************************************************************)
EXTENDS HtlcTimelock, SwapQuote, TLAPS

-----------------------------------------------------------------------------
(* The ladder.                                                             *)

\* Timelocks every route accepts satisfy the ladder HtlcForward assumes, with
\* the deadlines lockCounter derives and up to ten minutes of clock skew:
\* what assertValidTimelocks checks is enough for the forward swap.
THEOREM AcceptedLadderCoversForward ==
    ASSUME NEW t \in Nat, NEW user \in Nat, NEW solver \in Nat, NEW skew \in 0..600,
           ValidTimelocks(t, user, solver)
    PROVE  ForwardLadder(user, solver - UNLOCK_LEAD, solver - ALLOCATE_LEAD,
                         EVM_CLAIM_MARGIN, EVM_TIMELOCK_BIND_TOLERANCE, skew)
  BY DEF ValidTimelocks, ForwardLadder, MIN_GAP, UNLOCK_LEAD, ALLOCATE_LEAD,
         EVM_CLAIM_MARGIN, EVM_TIMELOCK_BIND_TOLERANCE

\* They satisfy the ladder HtlcReverse assumes, with the unlock time
\* lockMainCanton gives the user's HtlcLock and up to twenty minutes of skew.
THEOREM AcceptedLadderCoversReverse ==
    ASSUME NEW t \in Nat, NEW user \in Nat, NEW solver \in Nat, NEW skew \in 0..1200,
           ValidTimelocks(t, user, solver)
    PROVE  ReverseLadder(solver, user - UNLOCK_LEAD, skew)
  BY DEF ValidTimelocks, ReverseLadder, MIN_GAP, UNLOCK_LEAD

LEMMA GapBounds ==
    ASSUME NEW expiration \in Nat, MIN_CANTON_EXPIRATION <= expiration
    PROVE  /\ Gap(expiration) \in Nat
           /\ MIN_GAP <= Gap(expiration) /\ Gap(expiration) <= DEFAULT_GAP
           /\ 4 * Gap(expiration) <= expiration
  <1>1. expiration \div 4 \in Nat /\ 4 * (expiration \div 4) <= expiration
    OBVIOUS
  <1>2. expiration < 4 * (expiration \div 4) + 4
    OBVIOUS
  <1> QED BY <1>1, <1>2 DEF Gap, MIN_GAP, DEFAULT_GAP, MIN_CANTON_EXPIRATION

\* Timelocks derived in the browser from an expiration between two hours and
\* three days (the options offered) are accepted by the server up to an hour
\* after they were derived, and its own "in the past" error is never thrown.
THEOREM DerivedLadderAccepted ==
    ASSUME NEW t \in Nat, NEW delay \in 0..3600, NEW expiration \in Nat,
           MIN_CANTON_EXPIRATION <= expiration, expiration <= 72 * 3600
    PROVE  /\ Derivable(t, expiration)
           /\ ValidTimelocks(t + delay, TimelocksFromExpiration(t, expiration).user,
                                        TimelocksFromExpiration(t, expiration).solver)
  <1>1. PICK g \in Nat : /\ g = Gap(expiration) /\ 4 * g <= expiration
                         /\ MIN_GAP <= g /\ g <= DEFAULT_GAP
    BY GapBounds
  <1>2. t + expiration - g > t
    BY <1>1 DEF MIN_CANTON_EXPIRATION
  <1>3. /\ t + expiration - g > t + delay + 60
        /\ t + expiration - (t + expiration - g) >= MIN_GAP
        /\ t + expiration <= t + delay + MAX_AHEAD
    BY <1>1 DEF MIN_GAP, DEFAULT_GAP, MIN_CANTON_EXPIRATION, MAX_AHEAD
  <1> QED BY <1>1, <1>2, <1>3 DEF Derivable, ValidTimelocks,
             TimelocksFromExpiration, MIN_CANTON_EXPIRATION

-----------------------------------------------------------------------------
(* Quotes.                                                                 *)

Opposite(dir) == CHOOSE d \in Direction : d # dir

LEMMA DivBound ==
    ASSUME NEW a \in Nat, NEW b \in Nat \ {0}
    PROVE  a \div b \in Nat /\ b * (a \div b) <= a
  OBVIOUS

LEMMA DivMax ==
    ASSUME NEW a \in Nat, NEW b \in Nat \ {0}, NEW c \in Nat, a <= b * c
    PROVE  a \div b <= c
  OBVIOUS

\* What a quote pays before the fee, carried back at the same price, is worth
\* at most what was put in: both divisions round against the client.
LEMMA GrossRoundTrip ==
    ASSUME NEW dir \in Direction, NEW in \in Nat, NEW price \in Nat \ {0},
           NEW back \in Nat, back <= QuoteGross(dir, in, price)
    PROVE  QuoteGross(Opposite(dir), back, price) <= in
  <1>1. CASE dir = "canton-to-evm"
    <2>1. Opposite(dir) = "evm-to-canton"
      BY <1>1 DEF Opposite, Direction
    <2>2. price * ((in * SCALE) \div price) <= in * SCALE
      BY DivBound DEF SCALE
    <2>3. back <= (in * SCALE) \div price
      BY <1>1 DEF QuoteGross
    <2>4. back * price <= price * ((in * SCALE) \div price)
      BY <2>3, DivBound DEF SCALE
    <2>5. back * price \in Nat /\ back * price <= SCALE * in
      BY <2>2, <2>4, DivBound DEF SCALE
    <2> QED BY <2>1, <2>5, DivMax DEF QuoteGross, SCALE
  <1>2. CASE dir = "evm-to-canton"
    <2>1. Opposite(dir) = "canton-to-evm"
      BY <1>2 DEF Opposite, Direction
    <2>2. SCALE * ((in * price) \div SCALE) <= in * price
      BY DivBound DEF SCALE
    <2>3. back * SCALE \in Nat /\ back * SCALE <= price * in
      BY <1>2, <2>2, DivBound DEF QuoteGross, SCALE
    <2> QED BY <2>1, <2>3, DivMax DEF QuoteGross
  <1> QED BY <1>1, <1>2 DEF Direction

LEMMA GrossIsNat ==
    ASSUME NEW dir \in Direction, NEW in \in Nat, NEW price \in Nat \ {0}
    PROVE  QuoteGross(dir, in, price) \in Nat
  BY DivBound DEF QuoteGross, SCALE

\* With the default fee the tolerance never gives back more than the fee took.
LEMMA AcceptedWithinGross ==
    ASSUME NEW gross \in Nat, NEW claimed \in Nat,
           OrderAccepted(claimed, ApplyOutputFee(gross, DEFAULT_PLATFORM_FEE_BPS))
    PROVE  claimed <= gross
  BY DEF OrderAccepted, ApplyOutputFee, MaxOut, DEFAULT_PLATFORM_FEE_BPS,
         ORDER_AMOUNT_TOLERANCE_BPS, BPS

\* A client that swaps there and back at one price, asking each time for all
\* assertOrderAmounts lets it ask, ends with no more than it started with: the
\* drift tolerance is no standing skim against the solver's float.
THEOREM NoRoundTripGain ==
    ASSUME NEW dir \in Direction, NEW in \in Nat, NEW price \in Nat \ {0},
           NEW out \in Nat, NEW back \in Nat,
           OrderAccepted(out, QuoteOut(dir, in, price, DEFAULT_PLATFORM_FEE_BPS)),
           OrderAccepted(back, QuoteOut(Opposite(dir), out, price,
                                        DEFAULT_PLATFORM_FEE_BPS))
    PROVE  back <= in
  <1>1. Opposite(dir) \in Direction
    BY DEF Opposite, Direction
  <1>2. out <= QuoteGross(dir, in, price)
    BY GrossIsNat, AcceptedWithinGross DEF QuoteOut
  <1>3. back <= QuoteGross(Opposite(dir), out, price)
    BY <1>1, GrossIsNat, AcceptedWithinGross DEF QuoteOut
  <1>4. QuoteGross(Opposite(dir), out, price) <= in
    BY <1>2, GrossRoundTrip
  <1> QED BY <1>1, <1>3, <1>4, GrossIsNat

\* An order accepted against a quote also passes the settlement check against
\* it: the tolerance at creation never makes an order that can only be refused.
THEOREM AcceptedOrderSettles ==
    ASSUME NEW fresh \in Nat, NEW claimed \in Nat, OrderAccepted(claimed, fresh)
    PROVE  SettlementFresh(claimed, fresh)
  BY DEF OrderAccepted, MaxOut, SettlementFresh, SettlementFloor, BPS,
         ORDER_AMOUNT_TOLERANCE_BPS, SETTLEMENT_SLIPPAGE_BPS

\* An order that passes the settlement check pays no more than half a percent
\* over the quote of that moment, up to rounding.  (The price may move on while
\* the legs are locked: the check is not repeated.)
THEOREM SettlementLossBounded ==
    ASSUME NEW fresh \in Nat, NEW promised \in Nat, SettlementFresh(promised, fresh)
    PROVE  promised * (BPS - SETTLEMENT_SLIPPAGE_BPS) <= fresh * BPS
  BY DEF SettlementFresh, SettlementFloor, BPS, SETTLEMENT_SLIPPAGE_BPS

=============================================================================
