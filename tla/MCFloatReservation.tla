------------------------- MODULE MCFloatReservation -------------------------
\* Instances of FloatReservation for TLC: one order of each kind, two reverse
\* orders, two forward orders and two swaps.
EXTENDS FloatReservation, TLC

CONSTANTS f1, f2, r1, r2, s1, s2

MCAmount == [o \in Orders |-> IF o \in {r1, f2} THEN 2 ELSE 1]
MCBooks == {{f1, r1, s1}, {r1, r2}, {f1, f2, s1}, {f1, s1, s2}}
=============================================================================
