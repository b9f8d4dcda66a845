----------------------------- MODULE SwapQuote -----------------------------
(***************************************************************************)
(* The integer arithmetic of a quote (lib/htlc-quote-math.ts) and the two  *)
(* checks an order's amounts go through: against a fresh quote when it is  *)
(* created (assertOrderAmounts), and again before the user commits funds   *)
(* (assertHtlcSettlementQuoteFresh): when prepareForwardIntent accepts an  *)
(* order, and before a reverse one reserves its float for lockMainCanton   *)
(* or the custody transfer.  Once the user's leg is locked nothing is      *)
(* priced again: beginCounterLock, lockCounter and claimCounter say so.    *)
(* Canton-to-Canton orders use the same two bounds (lib/canton-quote.ts).  *)
(* Amounts are base units, prices WBTC/BTC scaled to 8 decimals.  Where    *)
(* the price comes from is not modelled, nor is the optional minOutUnits,  *)
(* which no caller passes.                                                 *)
(***************************************************************************)
EXTENDS Integers

SCALE == 100000000
BPS == 10000
DEFAULT_PLATFORM_FEE_BPS == 100
ORDER_AMOUNT_TOLERANCE_BPS == 30
SETTLEMENT_SLIPPAGE_BPS == 50

Direction == {"evm-to-canton", "canton-to-evm"}

QuoteGross(dir, in, price) ==
    IF dir = "canton-to-evm" THEN (in * SCALE) \div price
                             ELSE (in * price) \div SCALE

ApplyOutputFee(gross, feeBps) == gross - (gross * feeBps) \div BPS

QuoteOut(dir, in, price, feeBps) ==
    ApplyOutputFee(QuoteGross(dir, in, price), feeBps)

\* assertOrderAmounts: the most a client may ask for against a fresh quote.
MaxOut(fresh) == fresh + (fresh * ORDER_AMOUNT_TOLERANCE_BPS) \div BPS

OrderAccepted(claimed, fresh) == claimed > 0 /\ claimed <= MaxOut(fresh)

SettlementFloor(promised) ==
    promised - (promised * SETTLEMENT_SLIPPAGE_BPS) \div BPS

SettlementFresh(promised, fresh) == fresh >= SettlementFloor(promised)

=============================================================================
