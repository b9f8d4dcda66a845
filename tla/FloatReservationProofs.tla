------------------------ MODULE FloatReservationProofs ------------------------
(***************************************************************************)
(* The solvency of the shared float, for any set of orders, any amounts    *)
(* and any float.                                                          *)
(*                                                                         *)
(* The promises and the float are not enough to prove it: a promise is     *)
(* made on a reading that may be old when the SQL function runs.  FloatInv *)
(* adds what an old reading is still worth: it exceeds the float by no     *)
(* more than the counted orders that have been paid out of it, unless one  *)
(* of those has ended since (`overtaken').                                 *)
(***************************************************************************)
EXTENDS FloatReservation, FiniteSetTheorems, FunctionTheorems, TLAPS

-----------------------------------------------------------------------------
(* Sums over sets of orders.                                               *)

\* The units of one order are as many as its amount.
LEMMA OneOrder ==
    ASSUME NEW o \in Orders
    PROVE  /\ IsFiniteSet({o} \X (1..Amount[o]))
           /\ Cardinality({o} \X (1..Amount[o])) = Amount[o]
<1>1. Amount[o] \in Nat \ {0}
  BY FloatAssumption
<1>2. IsFiniteSet(1..Amount[o]) /\ Cardinality(1..Amount[o]) = Amount[o]
  BY <1>1, FS_Interval, SMTT(30)
<1>3. IsFiniteSet({o}) /\ Cardinality({o}) = 1
  BY FS_Singleton
<1>4. \A T : IsFiniteSet(T) =>
          /\ IsFiniteSet({o} \X T)
          /\ Cardinality({o} \X T) = Cardinality({o}) * Cardinality(T)
  BY <1>3, FS_Product, Zenon
<1>5. /\ IsFiniteSet({o} \X (1..Amount[o]))
      /\ Cardinality({o} \X (1..Amount[o])) = 1 * Amount[o]
  BY <1>2, <1>3, <1>4, Zenon
<1> QED
  BY <1>1, <1>5

\* A sum of orders is a natural number.
LEMMA TotalType ==
    ASSUME NEW S \in SUBSET Orders
    PROVE  IsFiniteSet(Units(S)) /\ Total(S) \in Nat
<1> DEFINE Of == [o \in S |-> {o} \X (1..Amount[o])]
           All == {{o} \X (1..Amount[o]) : o \in S}
<1>1. IsFiniteSet(S)
  BY FloatAssumption, FS_Subset
<1>2. Of \in Surjection(S, All)
  BY DEF Surjection
<1>3. IsFiniteSet(All)
  BY <1>1, <1>2, FS_Surjection
<1>4. \A T \in All : IsFiniteSet(T)
  BY OneOrder
<1>5. IsFiniteSet(UNION All)
  BY <1>3, <1>4, FS_UNION
<1> QED
  BY <1>5, FS_CardinalityType DEF Units, Total

\* The sums of two sets without a common order add up.
LEMMA TotalUnion ==
    ASSUME NEW S \in SUBSET Orders, NEW T \in SUBSET Orders, S \cap T = {}
    PROVE  Total(S \cup T) = Total(S) + Total(T)
<1>1. Units(S \cup T) = Units(S) \cup Units(T)
  BY DEF Units
<1>2. Units(S) \cap Units(T) = {}
  BY DEF Units
<1>3. IsFiniteSet(Units(S)) /\ IsFiniteSet(Units(T))
  BY TotalType
<1>4. Cardinality(Units(S) \cup Units(T)) =
        Cardinality(Units(S)) + Cardinality(Units(T)) - Cardinality({})
  BY <1>2, <1>3, FS_Union
<1>5. Cardinality({}) = 0
  BY FS_EmptySet
<1>6. Total(S) \in Nat /\ Total(T) \in Nat
  BY TotalType
<1>7. /\ Total(S) = Cardinality(Units(S)) /\ Total(T) = Cardinality(Units(T))
      /\ Total(S \cup T) = Cardinality(Units(S) \cup Units(T))
  BY <1>1 DEF Total
<1> QED
  BY <1>4, <1>5, <1>6, <1>7

\* The sum of a subset is at most the sum of the set.
LEMMA TotalSubset ==
    ASSUME NEW T \in SUBSET Orders, NEW S \in SUBSET T
    PROVE  Total(S) <= Total(T)
<1>1. Units(S) \subseteq Units(T)
  BY DEF Units
<1> QED
  BY <1>1, TotalType, FS_Subset DEF Total

LEMMA TotalOne ==
    ASSUME NEW o \in Orders
    PROVE  Total({o}) = Amount[o]
<1>1. Units({o}) = {o} \X (1..Amount[o])
  BY DEF Units
<1> QED
  BY <1>1, OneOrder DEF Total

\* Two disjoint parts of a set.
LEMMA TotalParts ==
    ASSUME NEW U \in SUBSET Orders, NEW S \in SUBSET U, NEW T \in SUBSET U,
           S \cap T = {}
    PROVE  Total(S) + Total(T) <= Total(U)
<1>1. S \in SUBSET Orders /\ T \in SUBSET Orders /\ S \cup T \in SUBSET U
  OBVIOUS
<1> QED
  BY <1>1, TotalUnion, TotalSubset

\* One order more: a set that lacks it, and a set that may have lost it.
LEMMA TotalWith ==
    ASSUME NEW U \in SUBSET Orders, NEW S \in SUBSET U, NEW o \in U, o \notin S
    PROVE  Total(S) + Amount[o] <= Total(U)
<1>1. {o} \in SUBSET U /\ S \cap {o} = {} /\ o \in Orders
  OBVIOUS
<1> QED
  BY <1>1, TotalParts, TotalOne

LEMMA TotalWithout ==
    ASSUME NEW S \in SUBSET Orders, NEW U \in SUBSET Orders, NEW o \in Orders,
           S \ {o} \subseteq U
    PROVE  Total(S) <= Total(U) + Amount[o]
<1>1. CASE o \in S
  <2>1. S = (S \ {o}) \cup {o} /\ (S \ {o}) \cap {o} = {}
    BY <1>1
  <2>2. Total(S) = Total(S \ {o}) + Amount[o]
    BY <2>1, TotalUnion, TotalOne
  <2>3. Total(S \ {o}) <= Total(U)
    BY TotalSubset
  <2> QED
    BY <2>2, <2>3, TotalType, FloatAssumption
<1>2. CASE o \notin S
  <2>1. Total(S) <= Total(U)
    BY <1>2, TotalSubset
  <2> QED
    BY <2>1, TotalType, FloatAssumption
<1> QED
  BY <1>1, <1>2

-----------------------------------------------------------------------------
(* The inductive invariant.                                                *)

BackOn == {"main_locked", "counter_locking", "counter_locked", "counter_claimed"}

\* How far the row and the ledgers can be apart.
Shape ==
    /\ \A o \in Forward :
        /\ status[o] \in {"counter_locked", "refunding"} => leg[o] # "none"
        /\ status[o] = "refunding" => prev[o] = "counter_locked"
    /\ \A o \in Reverse :
        /\ status[o] \in {"open", "accepted", "main_locking"} => ~recorded[o]
        /\ status[o] \in {"open", "accepted"} => ~bound[o]
        /\ status[o] = "refunding" => recorded[o] /\ prev[o] \in BackOn
    /\ \A o \in Swaps : status[o] = "failed" => ~reserved[o]

\* What a reading is worth.
Readings ==
    \A p \in Orders :
        reading[p] # -1 /\ p \notin overtaken =>
            reading[p] <= IF p \in Reverse THEN wbtc + Total(WbtcSpent)
                                           ELSE cbtc + Total(CbtcSpent)

FloatInv == TypeOK /\ Shape /\ VaultSolvent /\ WalletSolvent /\ Readings

-----------------------------------------------------------------------------
(* What a step does to the promises: it touches one order, and either      *)
(* leaves the promises of a float as they are, pays one, or takes an       *)
(* amount back.                                                            *)

Touches(o) ==
    \A x \in Orders \ {o} :
        /\ status'[x] = status[x] /\ reserved'[x] = reserved[x]
        /\ bound'[x] = bound[x] /\ recorded'[x] = recorded[x]
        /\ leg'[x] = leg[x] /\ custody'[x] = custody[x]

\* A promise that is new: made on a reading that is still good, or a gap.
CbtcCovered(o) ==
    \/ "cbtc" \in gap'
    \/ /\ o \notin Reverse /\ o \notin CbtcReserved /\ o \notin overtaken
       /\ reading[o] # -1 /\ Fits(o, CbtcReserved)
WbtcCovered(o) ==
    \/ "wbtc" \in gap'
    \/ /\ o \in Reverse /\ o \notin WbtcReserved /\ o \notin overtaken
       /\ reading[o] # -1 /\ Fits(o, WbtcReserved)

CbtcMove(o) ==
    \/ /\ o \in CbtcOwed' => o \in CbtcOwed \/ (CbtcCovered(o) /\ cbtc' = cbtc)
       /\ o \in CbtcSpent /\ o \in CbtcReserved' => o \in CbtcSpent'
       /\ cbtc <= cbtc'
    \/ /\ o \in CbtcOwed /\ o \notin CbtcOwed' /\ o \in CbtcSpent'
       /\ cbtc' = cbtc - Amount[o]
    \/ cbtc' = cbtc + Amount[o]
WbtcMove(o) ==
    \/ /\ o \in WbtcOwed' => o \in WbtcOwed \/ (WbtcCovered(o) /\ wbtc' = wbtc)
       /\ o \in WbtcSpent /\ o \in WbtcReserved' => o \in WbtcSpent'
       /\ wbtc <= wbtc'
    \/ /\ o \in WbtcOwed /\ o \notin WbtcOwed' /\ o \in WbtcSpent'
       /\ wbtc' = wbtc - Amount[o]
    \/ wbtc' = wbtc + Amount[o]

\* Readings are taken of the float as it is, or dropped.
ReadsNow ==
    \A p \in Orders :
        reading'[p] = -1 \/ reading'[p] = reading[p]
            \/ reading'[p] <= IF p \in Reverse THEN wbtc' ELSE cbtc'

LEMMA SetTypes ==
    ASSUME NEW o \in Orders
    PROVE  /\ CbtcReserved \in SUBSET Orders /\ WbtcReserved \in SUBSET Orders
           /\ CbtcOwed \in SUBSET CbtcReserved /\ CbtcSpent \in SUBSET CbtcReserved
           /\ WbtcOwed \in SUBSET WbtcReserved /\ WbtcSpent \in SUBSET WbtcReserved
           /\ CbtcOwed \cap CbtcSpent = {} /\ WbtcOwed \cap WbtcSpent = {}
<1>1. CbtcOwed \cap CbtcSpent = {}
  <2> SUFFICES ASSUME NEW x \in CbtcReserved, CbtcIn(x), CbtcOut(x) PROVE FALSE
    BY DEF CbtcOwed, CbtcSpent
  <2>1. x \in Forward \/ x \in Reverse \/ x \in Swaps
    BY DEF CbtcReserved
  <2> QED
    BY <2>1, FloatAssumption DEF CbtcIn, CbtcOut
<1> QED
  BY <1>1 DEF CbtcReserved, WbtcReserved, CbtcOwed, CbtcSpent, WbtcOwed, WbtcSpent, Orders

\* Orders a step does not touch keep their promises.
LEMMA Frame ==
    ASSUME NEW o \in Orders, Touches(o), NEW x \in Orders \ {o}
    PROVE  /\ x \in CbtcReserved' <=> x \in CbtcReserved
           /\ x \in CbtcOwed' <=> x \in CbtcOwed
           /\ x \in CbtcSpent' <=> x \in CbtcSpent
           /\ x \in WbtcReserved' <=> x \in WbtcReserved
           /\ x \in WbtcOwed' <=> x \in WbtcOwed
           /\ x \in WbtcSpent' <=> x \in WbtcSpent
<1>1. x \in CbtcReserved' <=> x \in CbtcReserved
  BY DEF Touches, CbtcReserved, ForwardReserved, CustodyReserved, SwapReserved
<1>2. (CbtcIn(x)' <=> CbtcIn(x)) /\ (CbtcOut(x)' <=> CbtcOut(x))
  BY DEF Touches, CbtcIn, CbtcOut
<1>3. x \in WbtcReserved' <=> x \in WbtcReserved
  BY DEF Touches, WbtcReserved
<1>4. WbtcOut(x)' <=> WbtcOut(x)
  BY DEF Touches, WbtcOut
<1> QED
  BY <1>1, <1>2, <1>3, <1>4 DEF CbtcOwed, CbtcSpent, WbtcOwed, WbtcSpent

\* Arithmetic of what is owed and what an old reading is worth.
LEMMA Owing ==
    ASSUME NEW old \in SUBSET Orders, NEW new \in SUBSET Orders, NEW o \in Orders,
           NEW f \in Nat, NEW g \in Nat, Total(old) <= f,
           \/ new \subseteq old /\ f <= g
           \/ o \in old /\ new \subseteq old \ {o} /\ g = f - Amount[o]
           \/ new \ {o} \subseteq old /\ g = f + Amount[o]
    PROVE  Total(new) <= g
<1>1. Total(old) \in Nat /\ Total(new) \in Nat /\ Amount[o] \in Nat
  BY TotalType, FloatAssumption
<1>2. CASE new \subseteq old /\ f <= g
  BY <1>1, <1>2, TotalSubset
<1>3. CASE o \in old /\ new \subseteq old \ {o} /\ g = f - Amount[o]
  <2>1. Total(new) + Amount[o] <= Total(old)
    BY <1>3, TotalWith
  <2> QED
    BY <1>1, <1>3, <2>1
<1>4. CASE new \ {o} \subseteq old /\ g = f + Amount[o]
  <2>1. Total(new) <= Total(old) + Amount[o]
    BY <1>4, TotalWithout
  <2> QED
    BY <1>1, <1>4, <2>1
<1> QED
  BY <1>2, <1>3, <1>4

LEMMA Worth ==
    ASSUME NEW old \in SUBSET Orders, NEW new \in SUBSET Orders, NEW o \in Orders,
           NEW f \in Nat, NEW g \in Nat,
           \/ old \subseteq new /\ f <= g
           \/ o \in new /\ old \subseteq new \ {o} /\ g = f - Amount[o]
           \/ old \ {o} \subseteq new /\ g = f + Amount[o]
    PROVE  f + Total(old) <= g + Total(new)
<1>1. Total(old) \in Nat /\ Total(new) \in Nat /\ Amount[o] \in Nat
  BY TotalType, FloatAssumption
<1>2. CASE old \subseteq new /\ f <= g
  BY <1>1, <1>2, TotalSubset
<1>3. CASE o \in new /\ old \subseteq new \ {o} /\ g = f - Amount[o]
  <2>1. Total(old) + Amount[o] <= Total(new)
    BY <1>3, TotalWith
  <2> QED
    BY <1>1, <1>3, <2>1
<1>4. CASE old \ {o} \subseteq new /\ g = f + Amount[o]
  <2>1. Total(old) <= Total(new) + Amount[o]
    BY <1>4, TotalWithout
  <2> QED
    BY <1>1, <1>4, <2>1
<1> QED
  BY <1>2, <1>3, <1>4

\* A promise that fits a reading worth no more than the float and what has
\* been paid out of it fits what is not owed.
LEMMA Granted ==
    ASSUME NEW promised \in SUBSET Orders, NEW owed \in SUBSET promised,
           NEW spent \in SUBSET promised, owed \cap spent = {},
           NEW o \in Orders, o \notin promised, NEW f \in Nat,
           reading[o] \in Int, reading[o] <= f + Total(spent), Fits(o, promised),
           NEW new \in SUBSET Orders, new \ {o} \subseteq owed
    PROVE  Total(new) <= f
<1>1. promised \ {o} = promised
  OBVIOUS
<1>2. Amount[o] <= reading[o] - Total(promised)
  BY <1>1 DEF Fits
<1>3. Total(owed) + Total(spent) <= Total(promised)
  BY TotalParts
<1>4. Total(new) <= Total(owed) + Amount[o]
  BY TotalWithout
<1>5. /\ Total(new) \in Nat /\ Total(owed) \in Nat /\ Total(spent) \in Nat
      /\ Total(promised) \in Nat /\ Amount[o] \in Nat
  BY TotalType, FloatAssumption
<1> QED
  BY <1>2, <1>3, <1>4, <1>5

\* A step that moves both floats as above keeps them solvent.
LEMMA MoveKeeps ==
    ASSUME FloatInv, TypeOK', NEW o \in Orders, Touches(o), CbtcMove(o), WbtcMove(o),
           gap \subseteq gap', ReadsNow, PromiseEnds
    PROVE  VaultSolvent' /\ WalletSolvent' /\ Readings'
<1>0. /\ cbtc \in Nat /\ cbtc' \in Nat /\ wbtc \in Nat /\ wbtc' \in Nat
      /\ Amount[o] \in Nat /\ reading \in [Orders -> Int] /\ reading' \in [Orders -> Int]
  BY FloatAssumption DEF FloatInv, TypeOK
<1>1. /\ CbtcReserved \in SUBSET Orders /\ WbtcReserved \in SUBSET Orders
      /\ CbtcOwed \in SUBSET CbtcReserved /\ CbtcSpent \in SUBSET CbtcReserved
      /\ WbtcOwed \in SUBSET WbtcReserved /\ WbtcSpent \in SUBSET WbtcReserved
      /\ CbtcOwed \cap CbtcSpent = {} /\ WbtcOwed \cap WbtcSpent = {}
  BY SetTypes
<1>2. /\ CbtcReserved' \in SUBSET Orders /\ WbtcReserved' \in SUBSET Orders
      /\ CbtcOwed' \in SUBSET CbtcReserved' /\ CbtcSpent' \in SUBSET CbtcReserved'
      /\ WbtcOwed' \in SUBSET WbtcReserved' /\ WbtcSpent' \in SUBSET WbtcReserved'
  BY DEF CbtcReserved, WbtcReserved, CbtcOwed, CbtcSpent, WbtcOwed, WbtcSpent, Orders
<1>3. VaultSolvent'
  <2> SUFFICES ASSUME "cbtc" \notin gap' PROVE Total(CbtcOwed') <= cbtc'
    BY DEF VaultSolvent, Total, Units
  <2>1. Total(CbtcOwed) <= cbtc
    BY DEF FloatInv, VaultSolvent
  <2>2. CbtcOwed' \ {o} \subseteq CbtcOwed
    BY <1>1, <1>2, Frame
  <2>3. CbtcOwed \in SUBSET Orders /\ CbtcOwed' \in SUBSET Orders
    BY <1>1, <1>2
  <2>4. CASE o \in CbtcOwed' /\ o \notin CbtcOwed /\ CbtcCovered(o) /\ cbtc' = cbtc
    <3>1. /\ o \notin CbtcReserved /\ reading[o] \in Int /\ Fits(o, CbtcReserved)
          /\ reading[o] <= cbtc + Total(CbtcSpent)
      BY <1>0, <2>4 DEF CbtcCovered, FloatInv, Readings
    <3> QED
      BY <1>0, <1>1, <2>2, <2>3, <2>4, <3>1, Granted
  <2>5. CASE /\ o \in CbtcOwed' => o \in CbtcOwed
             /\ cbtc <= cbtc'
    <3>1. CbtcOwed' \subseteq CbtcOwed
      BY <1>2, <2>2, <2>5
    <3> QED
      BY <1>0, <2>1, <2>3, <2>5, <3>1, Owing
  <2>6. CASE o \in CbtcOwed /\ o \notin CbtcOwed' /\ cbtc' = cbtc - Amount[o]
    <3>1. CbtcOwed' \subseteq CbtcOwed \ {o}
      BY <1>2, <2>2, <2>6
    <3> QED
      BY <1>0, <2>1, <2>3, <2>6, <3>1, Owing
  <2>7. CASE cbtc' = cbtc + Amount[o]
    BY <1>0, <2>1, <2>2, <2>3, <2>7, Owing
  <2> QED
    BY <2>4, <2>5, <2>6, <2>7 DEF CbtcMove
<1>4. WalletSolvent'
  <2> SUFFICES ASSUME "wbtc" \notin gap' PROVE Total(WbtcOwed') <= wbtc'
    BY DEF WalletSolvent, Total, Units
  <2>1. Total(WbtcOwed) <= wbtc
    BY DEF FloatInv, WalletSolvent
  <2>2. WbtcOwed' \ {o} \subseteq WbtcOwed
    BY <1>1, <1>2, Frame
  <2>3. WbtcOwed \in SUBSET Orders /\ WbtcOwed' \in SUBSET Orders
    BY <1>1, <1>2
  <2>4. CASE o \in WbtcOwed' /\ o \notin WbtcOwed /\ WbtcCovered(o) /\ wbtc' = wbtc
    <3>1. /\ o \notin WbtcReserved /\ reading[o] \in Int /\ Fits(o, WbtcReserved)
          /\ reading[o] <= wbtc + Total(WbtcSpent)
      BY <1>0, <2>4 DEF WbtcCovered, FloatInv, Readings
    <3> QED
      BY <1>0, <1>1, <2>2, <2>3, <2>4, <3>1, Granted
  <2>5. CASE /\ o \in WbtcOwed' => o \in WbtcOwed
             /\ wbtc <= wbtc'
    <3>1. WbtcOwed' \subseteq WbtcOwed
      BY <1>2, <2>2, <2>5
    <3> QED
      BY <1>0, <2>1, <2>3, <2>5, <3>1, Owing
  <2>6. CASE o \in WbtcOwed /\ o \notin WbtcOwed' /\ wbtc' = wbtc - Amount[o]
    <3>1. WbtcOwed' \subseteq WbtcOwed \ {o}
      BY <1>2, <2>2, <2>6
    <3> QED
      BY <1>0, <2>1, <2>3, <2>6, <3>1, Owing
  <2>7. CASE wbtc' = wbtc + Amount[o]
    BY <1>0, <2>1, <2>2, <2>3, <2>7, Owing
  <2> QED
    BY <2>4, <2>5, <2>6, <2>7 DEF WbtcMove
<1>5. Readings'
  <2> SUFFICES ASSUME NEW p \in Orders, reading'[p] # -1, p \notin overtaken'
               PROVE  reading'[p] <= IF p \in Reverse THEN wbtc' + Total(WbtcSpent')
                                                      ELSE cbtc' + Total(CbtcSpent')
    BY DEF Readings, Total, Units
  <2>0. /\ CbtcSpent \in SUBSET Orders /\ CbtcSpent' \in SUBSET Orders
        /\ WbtcSpent \in SUBSET Orders /\ WbtcSpent' \in SUBSET Orders
        /\ Total(CbtcSpent) \in Nat /\ Total(CbtcSpent') \in Nat
        /\ Total(WbtcSpent) \in Nat /\ Total(WbtcSpent') \in Nat
        /\ reading[p] \in Int
    BY <1>0, <1>1, <1>2, TotalType
  <2>1. CASE reading'[p] <= IF p \in Reverse THEN wbtc' ELSE cbtc'
    BY <1>0, <2>0, <2>1
  <2>2. CASE reading'[p] = reading[p] /\ p \notin Reverse
    <3>1. p \notin overtaken /\ CbtcSpent \subseteq CbtcReserved'
      BY <2>2 DEF PromiseEnds
    <3>2. reading[p] <= cbtc + Total(CbtcSpent)
      BY <2>2, <3>1 DEF FloatInv, Readings
    <3>3. CbtcSpent \ {o} \subseteq CbtcSpent'
      BY <1>1, <2>0, Frame
    <3> SUFFICES cbtc + Total(CbtcSpent) <= cbtc' + Total(CbtcSpent')
      BY <1>0, <2>0, <2>2, <3>2
    <3>4. CASE (o \in CbtcSpent => o \in CbtcSpent') /\ cbtc <= cbtc'
      <4>1. CbtcSpent \subseteq CbtcSpent'
        BY <3>3, <3>4
      <4> QED
        BY <1>0, <2>0, <3>4, <4>1, Worth
    <3>5. CASE o \in CbtcOwed /\ o \in CbtcSpent' /\ cbtc' = cbtc - Amount[o]
      <4>1. CbtcSpent \subseteq CbtcSpent' \ {o}
        BY <1>1, <3>3, <3>5
      <4> QED
        BY <1>0, <2>0, <3>5, <4>1, Worth
    <3>6. CASE cbtc' = cbtc + Amount[o]
      BY <1>0, <2>0, <3>3, <3>6, Worth
    <3> QED
      BY <3>1, <3>4, <3>5, <3>6 DEF CbtcMove
  <2>3. CASE reading'[p] = reading[p] /\ p \in Reverse
    <3>1. p \notin overtaken /\ WbtcSpent \subseteq WbtcReserved'
      BY <2>3 DEF PromiseEnds
    <3>2. reading[p] <= wbtc + Total(WbtcSpent)
      BY <2>3, <3>1 DEF FloatInv, Readings
    <3>3. WbtcSpent \ {o} \subseteq WbtcSpent'
      BY <1>1, <2>0, Frame
    <3> SUFFICES wbtc + Total(WbtcSpent) <= wbtc' + Total(WbtcSpent')
      BY <1>0, <2>0, <2>3, <3>2
    <3>4. CASE (o \in WbtcSpent => o \in WbtcSpent') /\ wbtc <= wbtc'
      <4>1. WbtcSpent \subseteq WbtcSpent'
        BY <3>3, <3>4
      <4> QED
        BY <1>0, <2>0, <3>4, <4>1, Worth
    <3>5. CASE o \in WbtcOwed /\ o \in WbtcSpent' /\ wbtc' = wbtc - Amount[o]
      <4>1. WbtcSpent \subseteq WbtcSpent' \ {o}
        BY <1>1, <3>3, <3>5
      <4> QED
        BY <1>0, <2>0, <3>5, <4>1, Worth
    <3>6. CASE wbtc' = wbtc + Amount[o]
      BY <1>0, <2>0, <3>3, <3>6, Worth
    <3> QED
      BY <3>1, <3>4, <3>5, <3>6 DEF WbtcMove
  <2> QED
    BY <2>1, <2>2, <2>3 DEF ReadsNow
<1> QED
  BY <1>3, <1>4, <1>5

-----------------------------------------------------------------------------
(* The promises of one order, by its kind.                                 *)

LEMMA ForwardPromise ==
    ASSUME NEW o \in Forward
    PROVE  /\ o \in Orders /\ o \notin Reverse /\ o \notin Swaps
           /\ o \in CbtcReserved <=> ForwardReserved(o)
           /\ o \in CbtcReserved' <=> ForwardReserved(o)'
           /\ o \in CbtcOwed <=> ForwardReserved(o) /\ leg[o] = "none"
           /\ o \in CbtcOwed' <=> ForwardReserved(o)' /\ leg'[o] = "none"
           /\ o \in CbtcSpent <=> ForwardReserved(o) /\ leg[o] \in {"locked", "paid"}
           /\ o \in CbtcSpent' <=> ForwardReserved(o)' /\ leg'[o] \in {"locked", "paid"}
           /\ o \notin WbtcReserved /\ o \notin WbtcOwed /\ o \notin WbtcSpent
           /\ o \notin WbtcReserved' /\ o \notin WbtcOwed' /\ o \notin WbtcSpent'
<1>1. o \in Orders /\ o \notin Reverse /\ o \notin Swaps
  BY FloatAssumption DEF Orders
<1> QED
  BY <1>1 DEF CbtcReserved, CbtcOwed, CbtcSpent, CbtcIn, CbtcOut,
              WbtcReserved, WbtcOwed, WbtcSpent

LEMMA ReversePromise ==
    ASSUME NEW o \in Reverse
    PROVE  /\ o \in Orders /\ o \notin Forward /\ o \notin Swaps
           /\ o \in CbtcReserved <=> CustodyReserved(o)
           /\ o \in CbtcReserved' <=> CustodyReserved(o)'
           /\ o \in CbtcOwed <=> CustodyReserved(o) /\ custody[o] = "held"
           /\ o \in CbtcOwed' <=> CustodyReserved(o)' /\ custody'[o] = "held"
           /\ o \in CbtcSpent <=> CustodyReserved(o) /\ custody[o] = "returned"
           /\ o \in CbtcSpent' <=> CustodyReserved(o)' /\ custody'[o] = "returned"
           /\ o \in WbtcReserved <=>
                reserved[o] /\ status[o] \in {"main_locking", "main_locked", "counter_locking"}
           /\ o \in WbtcReserved' <=>
                reserved'[o] /\ status'[o] \in {"main_locking", "main_locked", "counter_locking"}
           /\ o \in WbtcOwed <=> o \in WbtcReserved /\ leg[o] \notin {"locked", "paid"}
           /\ o \in WbtcOwed' <=> o \in WbtcReserved' /\ leg'[o] \notin {"locked", "paid"}
           /\ o \in WbtcSpent <=> o \in WbtcReserved /\ leg[o] \in {"locked", "paid"}
           /\ o \in WbtcSpent' <=> o \in WbtcReserved' /\ leg'[o] \in {"locked", "paid"}
<1>1. o \in Orders /\ o \notin Forward /\ o \notin Swaps
  BY FloatAssumption DEF Orders
<1> QED
  BY <1>1 DEF CbtcReserved, CbtcOwed, CbtcSpent, CbtcIn, CbtcOut,
              WbtcReserved, WbtcOwed, WbtcSpent, WbtcOut

LEMMA SwapPromise ==
    ASSUME NEW o \in Swaps
    PROVE  /\ o \in Orders /\ o \notin Forward /\ o \notin Reverse
           /\ o \in CbtcReserved <=> SwapReserved(o)
           /\ o \in CbtcReserved' <=> SwapReserved(o)'
           /\ o \in CbtcOwed <=> SwapReserved(o) /\ leg[o] \in {"none", "returned"}
           /\ o \in CbtcOwed' <=> SwapReserved(o)' /\ leg'[o] \in {"none", "returned"}
           /\ o \in CbtcSpent <=> SwapReserved(o) /\ leg[o] \in {"locked", "paid"}
           /\ o \in CbtcSpent' <=> SwapReserved(o)' /\ leg'[o] \in {"locked", "paid"}
           /\ o \notin WbtcReserved /\ o \notin WbtcOwed /\ o \notin WbtcSpent
           /\ o \notin WbtcReserved' /\ o \notin WbtcOwed' /\ o \notin WbtcSpent'
<1>1. o \in Orders /\ o \notin Forward /\ o \notin Reverse
  BY FloatAssumption DEF Orders
<1> QED
  BY <1>1 DEF CbtcReserved, CbtcOwed, CbtcSpent, CbtcIn, CbtcOut,
              WbtcReserved, WbtcOwed, WbtcSpent

-----------------------------------------------------------------------------
(* Every action is such a move.                                            *)

\* Request: the order is touched alone, and both floats move as its promise does.
LEMMA RequestMoves ==
    ASSUME FloatInv, NEW o \in Orders, Request(o)
    PROVE  /\ TypeOK' /\ Shape' /\ Touches(o) /\ CbtcMove(o) /\ WbtcMove(o)
           /\ gap \subseteq gap' /\ ReadsNow /\ PromiseEnds
<1>0. /\ TypeOK /\ Shape /\ Amount[o] \in Nat \ {0}
      /\ Forward \cap Reverse = {} /\ Forward \cap Swaps = {} /\ Reverse \cap Swaps = {}
  BY FloatAssumption DEF FloatInv
<1>1. CASE ReadFloat(o)
  <2>1. TypeOK' /\ PromiseEnds
    BY <1>0, <1>1 DEF ReadFloat, rowVars, ledgerVars, TypeOK, Status, PromiseEnds
  <2>2. Shape'
    BY <1>0, <1>1 DEF ReadFloat, rowVars, ledgerVars, TypeOK, Shape
  <2>3. Touches(o) /\ gap \subseteq gap' /\ ReadsNow
    BY <1>0, <1>1 DEF ReadFloat, rowVars, ledgerVars, TypeOK, Touches, ReadsNow
  <2>4. o \in Forward \/ o \in Reverse \/ o \in Swaps
    BY DEF Orders
  <2>5. CASE o \in Forward
    <3>1. CbtcMove(o)
      BY <1>0, <1>1, <2>5, ForwardPromise
         DEF ReadFloat, rowVars, ledgerVars, TypeOK, Shape, ForwardReserved, CbtcMove,
             CbtcCovered
    <3>2. WbtcMove(o)
      BY <1>0, <1>1, <2>5, ForwardPromise
         DEF ReadFloat, rowVars, ledgerVars, TypeOK, Shape, ForwardReserved, WbtcMove,
             WbtcCovered
    <3> QED
      BY <2>1, <2>2, <2>3, <3>1, <3>2
  <2>6. CASE o \in Reverse
    <3>1. CbtcMove(o)
      BY <1>0, <1>1, <2>6, ReversePromise
         DEF ReadFloat, rowVars, ledgerVars, TypeOK, Shape, CustodyReserved, CbtcMove,
             CbtcCovered
    <3>2. WbtcMove(o)
      BY <1>0, <1>1, <2>6, ReversePromise
         DEF ReadFloat, rowVars, ledgerVars, TypeOK, Shape, CustodyReserved, WbtcMove,
             WbtcCovered
    <3> QED
      BY <2>1, <2>2, <2>3, <3>1, <3>2
  <2>7. CASE o \in Swaps
    <3>1. CbtcMove(o)
      BY <1>0, <1>1, <2>7, SwapPromise
         DEF ReadFloat, rowVars, ledgerVars, TypeOK, Shape, SwapReserved, CbtcMove,
             CbtcCovered
    <3>2. WbtcMove(o)
      BY <1>0, <1>1, <2>7, SwapPromise
         DEF ReadFloat, rowVars, ledgerVars, TypeOK, Shape, SwapReserved, WbtcMove,
             WbtcCovered
    <3> QED
      BY <2>1, <2>2, <2>3, <3>1, <3>2
  <2> QED
    BY <2>4, <2>5, <2>6, <2>7
<1>2. CASE ReadingLost(o)
  <2>1. TypeOK' /\ PromiseEnds
    BY <1>0, <1>2
       DEF ReadingLost, Answered, rowVars, ledgerVars, TypeOK, Status, PromiseEnds
  <2>2. Shape'
    BY <1>0, <1>2 DEF ReadingLost, Answered, rowVars, ledgerVars, TypeOK, Shape
  <2>3. Touches(o) /\ gap \subseteq gap' /\ ReadsNow
    BY <1>0, <1>2 DEF ReadingLost, Answered, rowVars, ledgerVars, TypeOK, Touches, ReadsNow
  <2>4. o \in Forward \/ o \in Reverse \/ o \in Swaps
    BY DEF Orders
  <2>5. CASE o \in Forward
    <3>1. CbtcMove(o)
      BY <1>0, <1>2, <2>5, ForwardPromise
         DEF ReadingLost, Answered, rowVars, ledgerVars, TypeOK, Shape, ForwardReserved,
             CbtcMove, CbtcCovered
    <3>2. WbtcMove(o)
      BY <1>0, <1>2, <2>5, ForwardPromise
         DEF ReadingLost, Answered, rowVars, ledgerVars, TypeOK, Shape, ForwardReserved,
             WbtcMove, WbtcCovered
    <3> QED
      BY <2>1, <2>2, <2>3, <3>1, <3>2
  <2>6. CASE o \in Reverse
    <3>1. CbtcMove(o)
      BY <1>0, <1>2, <2>6, ReversePromise
         DEF ReadingLost, Answered, rowVars, ledgerVars, TypeOK, Shape, CustodyReserved,
             CbtcMove, CbtcCovered
    <3>2. WbtcMove(o)
      BY <1>0, <1>2, <2>6, ReversePromise
         DEF ReadingLost, Answered, rowVars, ledgerVars, TypeOK, Shape, CustodyReserved,
             WbtcMove, WbtcCovered
    <3> QED
      BY <2>1, <2>2, <2>3, <3>1, <3>2
  <2>7. CASE o \in Swaps
    <3>1. CbtcMove(o)
      BY <1>0, <1>2, <2>7, SwapPromise
         DEF ReadingLost, Answered, rowVars, ledgerVars, TypeOK, Shape, SwapReserved,
             CbtcMove, CbtcCovered
    <3>2. WbtcMove(o)
      BY <1>0, <1>2, <2>7, SwapPromise
         DEF ReadingLost, Answered, rowVars, ledgerVars, TypeOK, Shape, SwapReserved,
             WbtcMove, WbtcCovered
    <3> QED
      BY <2>1, <2>2, <2>3, <3>1, <3>2
  <2> QED
    BY <2>4, <2>5, <2>6, <2>7
<1>3. CASE AcceptForward(o)
  <2>0. /\ o \in Forward /\ status[o] = "open" /\ Answered(o) /\ PromiseEnds
        /\ \/ Become(o, "accepted") /\ Promised(o, "cbtc")
           \/ Become(o, "failed") /\ UNCHANGED gap
        /\ UNCHANGED <<prev, reserved, bound, recorded, ledgerVars>>
    BY <1>3 DEF AcceptForward
  <2>1. TypeOK' /\ PromiseEnds
    <3>1. CASE Become(o, "accepted") /\ Promised(o, "cbtc")
      BY <1>0, <2>0, <3>1
         DEF Become, Answered, Promised, rowVars, ledgerVars, TypeOK, Status, PromiseEnds
    <3>2. CASE Become(o, "failed") /\ UNCHANGED gap
      BY <1>0, <2>0, <3>2
         DEF Become, Answered, Promised, rowVars, ledgerVars, TypeOK, Status, PromiseEnds
    <3> QED
      BY <2>0, <3>1, <3>2
  <2>2. Shape'
    <3>1. CASE Become(o, "accepted") /\ Promised(o, "cbtc")
      BY <1>0, <2>0, <3>1
         DEF Become, Answered, Promised, rowVars, ledgerVars, TypeOK, Shape
    <3>2. CASE Become(o, "failed") /\ UNCHANGED gap
      BY <1>0, <2>0, <3>2
         DEF Become, Answered, Promised, rowVars, ledgerVars, TypeOK, Shape
    <3> QED
      BY <2>0, <3>1, <3>2
  <2>3. Touches(o) /\ gap \subseteq gap' /\ ReadsNow
    BY <1>0, <1>3
       DEF AcceptForward, Become, Answered, Promised, rowVars, ledgerVars, TypeOK,
           Touches, ReadsNow
  <2>4. CbtcMove(o)
    BY <1>0, <1>3, ForwardPromise
       DEF AcceptForward, Become, Answered, Promised, rowVars, ledgerVars, TypeOK,
           Shape, ForwardReserved, CbtcMove, CbtcCovered
  <2>5. WbtcMove(o)
    BY <1>0, <1>3, ForwardPromise
       DEF AcceptForward, Become, Answered, Promised, rowVars, ledgerVars, TypeOK,
           Shape, ForwardReserved, WbtcMove, WbtcCovered
  <2> QED
    BY <2>1, <2>2, <2>3, <2>4, <2>5
<1>4. CASE ReserveSwap(o)
  <2>0. /\ o \in Swaps /\ ~reserved[o] /\ Answered(o) /\ PromiseEnds
        /\ \/ Become(o, "user_locked") /\ Flag(o, TRUE) /\ Promised(o, "cbtc")
           \/ UNCHANGED <<status, reserved, gap>>
        /\ UNCHANGED <<prev, bound, recorded, ledgerVars>>
    BY <1>4 DEF ReserveSwap
  <2>1. TypeOK' /\ PromiseEnds
    <3>1. CASE Become(o, "user_locked") /\ Flag(o, TRUE) /\ Promised(o, "cbtc")
      BY <1>0, <2>0, <3>1
         DEF Become, Flag, Answered, Promised, rowVars, ledgerVars, TypeOK, Status, PromiseEnds
    <3>2. CASE UNCHANGED <<status, reserved, gap>>
      BY <1>0, <2>0, <3>2
         DEF Become, Flag, Answered, Promised, rowVars, ledgerVars, TypeOK, Status, PromiseEnds
    <3> QED
      BY <2>0, <3>1, <3>2
  <2>2. Shape'
    <3>1. CASE Become(o, "user_locked") /\ Flag(o, TRUE) /\ Promised(o, "cbtc")
      BY <1>0, <2>0, <3>1
         DEF Become, Flag, Answered, Promised, rowVars, ledgerVars, TypeOK, Shape
    <3>2. CASE UNCHANGED <<status, reserved, gap>>
      BY <1>0, <2>0, <3>2
         DEF Become, Flag, Answered, Promised, rowVars, ledgerVars, TypeOK, Shape
    <3> QED
      BY <2>0, <3>1, <3>2
  <2>3. Touches(o) /\ gap \subseteq gap' /\ ReadsNow
    BY <1>0, <1>4
       DEF ReserveSwap, Become, Flag, Answered, Promised, rowVars, ledgerVars, TypeOK,
           Touches, ReadsNow
  <2>4. CbtcMove(o)
    BY <1>0, <1>4, SwapPromise
       DEF ReserveSwap, Become, Flag, Answered, Promised, rowVars, ledgerVars, TypeOK,
           Shape, SwapReserved, CbtcMove, CbtcCovered
  <2>5. WbtcMove(o)
    BY <1>0, <1>4, SwapPromise
       DEF ReserveSwap, Become, Flag, Answered, Promised, rowVars, ledgerVars, TypeOK,
           Shape, SwapReserved, WbtcMove, WbtcCovered
  <2> QED
    BY <2>1, <2>2, <2>3, <2>4, <2>5
<1>5. CASE ReserveBeforeMainLock(o)
  <2>0. /\ o \in Reverse /\ status[o] = "accepted" /\ Answered(o) /\ PromiseEnds
        /\ \/ Become(o, "main_locking") /\ Flag(o, TRUE) /\ Promised(o, "wbtc")
           \/ UNCHANGED <<status, reserved, gap>>
        /\ UNCHANGED <<prev, bound, recorded, ledgerVars>>
    BY <1>5 DEF ReserveBeforeMainLock
  <2>1. TypeOK' /\ PromiseEnds
    <3>1. CASE Become(o, "main_locking") /\ Flag(o, TRUE) /\ Promised(o, "wbtc")
      BY <1>0, <2>0, <3>1
         DEF Become, Flag, Answered, Promised, rowVars, ledgerVars, TypeOK, Status, PromiseEnds
    <3>2. CASE UNCHANGED <<status, reserved, gap>>
      BY <1>0, <2>0, <3>2
         DEF Become, Flag, Answered, Promised, rowVars, ledgerVars, TypeOK, Status, PromiseEnds
    <3> QED
      BY <2>0, <3>1, <3>2
  <2>2. Shape'
    <3>1. CASE Become(o, "main_locking") /\ Flag(o, TRUE) /\ Promised(o, "wbtc")
      BY <1>0, <2>0, <3>1
         DEF Become, Flag, Answered, Promised, rowVars, ledgerVars, TypeOK, Shape
    <3>2. CASE UNCHANGED <<status, reserved, gap>>
      BY <1>0, <2>0, <3>2
         DEF Become, Flag, Answered, Promised, rowVars, ledgerVars, TypeOK, Shape
    <3> QED
      BY <2>0, <3>1, <3>2
  <2>3. Touches(o) /\ gap \subseteq gap' /\ ReadsNow
    BY <1>0, <1>5
       DEF ReserveBeforeMainLock, Become, Flag, Answered, Promised, rowVars, ledgerVars,
           TypeOK, Touches, ReadsNow
  <2>4. CbtcMove(o)
    <3>1. CASE Become(o, "main_locking") /\ Flag(o, TRUE) /\ Promised(o, "wbtc")
      BY <1>0, <2>0, <3>1, ReversePromise
         DEF Become, Flag, Answered, Promised, rowVars, ledgerVars, TypeOK, Shape, CustodyReserved, CbtcMove, CbtcCovered
    <3>2. CASE UNCHANGED <<status, reserved, gap>>
      BY <1>0, <2>0, <3>2, ReversePromise
         DEF Become, Flag, Answered, Promised, rowVars, ledgerVars, TypeOK, Shape, CustodyReserved, CbtcMove, CbtcCovered
    <3> QED
      BY <2>0, <3>1, <3>2
  <2>5. WbtcMove(o)
    BY <1>0, <1>5, ReversePromise
       DEF ReserveBeforeMainLock, Become, Flag, Answered, Promised, rowVars, ledgerVars,
           TypeOK, Shape, CustodyReserved, WbtcMove, WbtcCovered
  <2> QED
    BY <2>1, <2>2, <2>3, <2>4, <2>5
<1>6. CASE ReserveEvmFloat(o)
  <2>0. /\ o \in Reverse /\ status[o] = "main_locked" /\ Answered(o) /\ PromiseEnds
        /\ \/ Become(o, "counter_locking") /\ UNCHANGED <<reserved, gap>>
           \/ Become(o, "counter_locking") /\ Flag(o, TRUE) /\ Promised(o, "wbtc")
           \/ UNCHANGED <<status, reserved, gap>>
        /\ UNCHANGED <<prev, bound, recorded, ledgerVars>>
    BY <1>6 DEF ReserveEvmFloat
  <2>1. TypeOK' /\ PromiseEnds
    <3>1. CASE Become(o, "counter_locking") /\ UNCHANGED <<reserved, gap>>
      BY <1>0, <2>0, <3>1
         DEF Become, Flag, Answered, Promised, rowVars, ledgerVars, TypeOK, Status, PromiseEnds
    <3>2. CASE Become(o, "counter_locking") /\ Flag(o, TRUE) /\ Promised(o, "wbtc")
      BY <1>0, <2>0, <3>2
         DEF Become, Flag, Answered, Promised, rowVars, ledgerVars, TypeOK, Status, PromiseEnds
    <3>3. CASE UNCHANGED <<status, reserved, gap>>
      BY <1>0, <2>0, <3>3
         DEF Become, Flag, Answered, Promised, rowVars, ledgerVars, TypeOK, Status, PromiseEnds
    <3> QED
      BY <2>0, <3>1, <3>2, <3>3
  <2>2. Shape'
    <3>1. CASE Become(o, "counter_locking") /\ UNCHANGED <<reserved, gap>>
      BY <1>0, <2>0, <3>1
         DEF Become, Flag, Answered, Promised, rowVars, ledgerVars, TypeOK, Shape
    <3>2. CASE Become(o, "counter_locking") /\ Flag(o, TRUE) /\ Promised(o, "wbtc")
      BY <1>0, <2>0, <3>2
         DEF Become, Flag, Answered, Promised, rowVars, ledgerVars, TypeOK, Shape
    <3>3. CASE UNCHANGED <<status, reserved, gap>>
      BY <1>0, <2>0, <3>3
         DEF Become, Flag, Answered, Promised, rowVars, ledgerVars, TypeOK, Shape
    <3> QED
      BY <2>0, <3>1, <3>2, <3>3
  <2>3. Touches(o) /\ gap \subseteq gap' /\ ReadsNow
    BY <1>0, <1>6
       DEF ReserveEvmFloat, Become, Flag, Answered, Promised, rowVars, ledgerVars,
           TypeOK, Touches, ReadsNow
  <2>4. CbtcMove(o)
    <3>1. CASE Become(o, "counter_locking") /\ UNCHANGED <<reserved, gap>>
      BY <1>0, <2>0, <3>1, ReversePromise
         DEF Become, Flag, Answered, Promised, rowVars, ledgerVars, TypeOK, Shape, CustodyReserved, CbtcMove, CbtcCovered
    <3>2. CASE Become(o, "counter_locking") /\ Flag(o, TRUE) /\ Promised(o, "wbtc")
      BY <1>0, <2>0, <3>2, ReversePromise
         DEF Become, Flag, Answered, Promised, rowVars, ledgerVars, TypeOK, Shape, CustodyReserved, CbtcMove, CbtcCovered
    <3>3. CASE UNCHANGED <<status, reserved, gap>>
      BY <1>0, <2>0, <3>3, ReversePromise
         DEF Become, Flag, Answered, Promised, rowVars, ledgerVars, TypeOK, Shape, CustodyReserved, CbtcMove, CbtcCovered
    <3> QED
      BY <2>0, <3>1, <3>2, <3>3
  <2>5. WbtcMove(o)
    BY <1>0, <1>6, ReversePromise
       DEF ReserveEvmFloat, Become, Flag, Answered, Promised, rowVars, ledgerVars,
           TypeOK, Shape, CustodyReserved, WbtcMove, WbtcCovered
  <2> QED
    BY <2>1, <2>2, <2>3, <2>4, <2>5
<1> QED
  BY <1>1, <1>2, <1>3, <1>4, <1>5, <1>6 DEF Request

\* RowStep: the order is touched alone, and both floats move as its promise does.
LEMMA RowStepMoves ==
    ASSUME FloatInv, NEW o \in Orders, RowStep(o)
    PROVE  /\ TypeOK' /\ Shape' /\ Touches(o) /\ CbtcMove(o) /\ WbtcMove(o)
           /\ gap \subseteq gap' /\ ReadsNow /\ PromiseEnds
<1>0. /\ TypeOK /\ Shape /\ Amount[o] \in Nat \ {0}
      /\ Forward \cap Reverse = {} /\ Forward \cap Swaps = {} /\ Reverse \cap Swaps = {}
  BY FloatAssumption DEF FloatInv
<1>1. CASE ForwardStep(o)
  <2>1. TypeOK' /\ PromiseEnds
    BY <1>0, <1>1
       DEF ForwardStep, Become, ForwardRow, rowVars, ledgerVars, TypeOK, Status,
           PromiseEnds
  <2>2. Shape'
    BY <1>0, <1>1 DEF ForwardStep, Become, ForwardRow, rowVars, ledgerVars, TypeOK, Shape
  <2>3. Touches(o) /\ gap \subseteq gap' /\ ReadsNow
    BY <1>0, <1>1
       DEF ForwardStep, Become, ForwardRow, rowVars, ledgerVars, TypeOK, Touches,
           ReadsNow
  <2>4. CbtcMove(o)
    BY <1>0, <1>1, ForwardPromise
       DEF ForwardStep, Become, ForwardRow, rowVars, ledgerVars, TypeOK, Shape,
           ForwardReserved, CbtcMove, CbtcCovered
  <2>5. WbtcMove(o)
    BY <1>0, <1>1, ForwardPromise
       DEF ForwardStep, Become, ForwardRow, rowVars, ledgerVars, TypeOK, Shape,
           ForwardReserved, WbtcMove, WbtcCovered
  <2> QED
    BY <2>1, <2>2, <2>3, <2>4, <2>5
<1>2. CASE Retaken(o)
  <2>1. TypeOK' /\ PromiseEnds
    BY <1>0, <1>2 DEF Retaken, Become, rowVars, ledgerVars, TypeOK, Status, PromiseEnds
  <2>2. Shape'
    BY <1>0, <1>2 DEF Retaken, Become, rowVars, ledgerVars, TypeOK, Shape
  <2>3. Touches(o) /\ gap \subseteq gap' /\ ReadsNow
    BY <1>0, <1>2 DEF Retaken, Become, rowVars, ledgerVars, TypeOK, Touches, ReadsNow
  <2>4. CbtcMove(o)
    BY <1>0, <1>2, ForwardPromise
       DEF Retaken, Become, rowVars, ledgerVars, TypeOK, Shape, ForwardReserved,
           CbtcMove, CbtcCovered
  <2>5. WbtcMove(o)
    BY <1>0, <1>2, ForwardPromise
       DEF Retaken, Become, rowVars, ledgerVars, TypeOK, Shape, ForwardReserved,
           WbtcMove, WbtcCovered
  <2> QED
    BY <2>1, <2>2, <2>3, <2>4, <2>5
<1>3. CASE ReverseStep(o)
  <2>1. TypeOK' /\ PromiseEnds
    BY <1>0, <1>3 DEF ReverseStep, Become, rowVars, ledgerVars, TypeOK, Status, PromiseEnds
  <2>2. Shape'
    <3>1. CASE status[o] = "open" /\ Become(o, "accepted")
      BY <1>0, <1>3, <3>1
         DEF ReverseStep, Become, rowVars, ledgerVars, TypeOK, Shape
    <3>2. CASE Become(o, "cancelled")
      BY <1>0, <1>3, <3>2
         DEF ReverseStep, Become, rowVars, ledgerVars, TypeOK, Shape
    <3> QED
      BY <1>3, <3>1, <3>2 DEF ReverseStep
  <2>3. Touches(o) /\ gap \subseteq gap' /\ ReadsNow
    BY <1>0, <1>3 DEF ReverseStep, Become, rowVars, ledgerVars, TypeOK, Touches, ReadsNow
  <2>4. CbtcMove(o)
    BY <1>0, <1>3, ReversePromise
       DEF ReverseStep, Become, rowVars, ledgerVars, TypeOK, Shape, CustodyReserved,
           CbtcMove, CbtcCovered
  <2>5. WbtcMove(o)
    BY <1>0, <1>3, ReversePromise
       DEF ReverseStep, Become, rowVars, ledgerVars, TypeOK, Shape, CustodyReserved,
           WbtcMove, WbtcCovered
  <2> QED
    BY <2>1, <2>2, <2>3, <2>4, <2>5
<1>4. CASE Bind(o)
  <2>1. TypeOK' /\ PromiseEnds
    BY <1>0, <1>4 DEF Bind, rowVars, ledgerVars, TypeOK, Status, PromiseEnds
  <2>2. Shape'
    BY <1>0, <1>4 DEF Bind, rowVars, ledgerVars, TypeOK, Shape
  <2>3. Touches(o) /\ gap \subseteq gap' /\ ReadsNow
    BY <1>0, <1>4 DEF Bind, rowVars, ledgerVars, TypeOK, Touches, ReadsNow
  <2>4. CbtcMove(o)
    BY <1>0, <1>4, ReversePromise
       DEF Bind, rowVars, ledgerVars, TypeOK, Shape, CustodyReserved, CbtcMove,
           CbtcCovered
  <2>5. WbtcMove(o)
    BY <1>0, <1>4, ReversePromise
       DEF Bind, rowVars, ledgerVars, TypeOK, Shape, CustodyReserved, WbtcMove,
           WbtcCovered
  <2> QED
    BY <2>1, <2>2, <2>3, <2>4, <2>5
<1>5. CASE RecordCustody(o)
  <2>1. TypeOK' /\ PromiseEnds
    BY <1>0, <1>5
       DEF RecordCustody, Become, rowVars, ledgerVars, TypeOK, Status, PromiseEnds
  <2>2. Shape'
    BY <1>0, <1>5 DEF RecordCustody, Become, rowVars, ledgerVars, TypeOK, Shape
  <2>3. Touches(o) /\ gap \subseteq gap' /\ ReadsNow
    BY <1>0, <1>5 DEF RecordCustody, Become, rowVars, ledgerVars, TypeOK, Touches, ReadsNow
  <2>4. CbtcMove(o)
    BY <1>0, <1>5, ReversePromise
       DEF RecordCustody, Become, rowVars, ledgerVars, TypeOK, Shape, CustodyReserved,
           CbtcMove, CbtcCovered
  <2>5. WbtcMove(o)
    BY <1>0, <1>5, ReversePromise
       DEF RecordCustody, Become, rowVars, ledgerVars, TypeOK, Shape, CustodyReserved,
           WbtcMove, WbtcCovered
  <2> QED
    BY <2>1, <2>2, <2>3, <2>4, <2>5
<1>6. CASE ReleasePrelock(o)
  <2>1. TypeOK' /\ PromiseEnds
    BY <1>0, <1>6
       DEF ReleasePrelock, Become, Flag, rowVars, ledgerVars, TypeOK, Status,
           PromiseEnds
  <2>2. Shape'
    BY <1>0, <1>6 DEF ReleasePrelock, Become, Flag, rowVars, ledgerVars, TypeOK, Shape
  <2>3. Touches(o) /\ gap \subseteq gap' /\ ReadsNow
    BY <1>0, <1>6
       DEF ReleasePrelock, Become, Flag, rowVars, ledgerVars, TypeOK, Touches, ReadsNow
  <2>4. CbtcMove(o)
    BY <1>0, <1>6, ReversePromise
       DEF ReleasePrelock, Become, Flag, rowVars, ledgerVars, TypeOK, Shape,
           CustodyReserved, CbtcMove, CbtcCovered
  <2>5. WbtcMove(o)
    BY <1>0, <1>6, ReversePromise
       DEF ReleasePrelock, Become, Flag, rowVars, ledgerVars, TypeOK, Shape,
           CustodyReserved, WbtcMove, WbtcCovered
  <2> QED
    BY <2>1, <2>2, <2>3, <2>4, <2>5
<1>7. CASE ReverseRollback(o)
  <2>1. TypeOK' /\ PromiseEnds
    BY <1>0, <1>7
       DEF ReverseRollback, Become, Flag, rowVars, ledgerVars, TypeOK, Status,
           PromiseEnds
  <2>2. Shape'
    BY <1>0, <1>7 DEF ReverseRollback, Become, Flag, rowVars, ledgerVars, TypeOK, Shape
  <2>3. Touches(o) /\ gap \subseteq gap' /\ ReadsNow
    BY <1>0, <1>7
       DEF ReverseRollback, Become, Flag, rowVars, ledgerVars, TypeOK, Touches, ReadsNow
  <2>4. CbtcMove(o)
    BY <1>0, <1>7, ReversePromise
       DEF ReverseRollback, Become, Flag, rowVars, ledgerVars, TypeOK, Shape,
           CustodyReserved, CbtcMove, CbtcCovered
  <2>5. WbtcMove(o)
    BY <1>0, <1>7, ReversePromise
       DEF ReverseRollback, Become, Flag, rowVars, ledgerVars, TypeOK, Shape,
           CustodyReserved, WbtcMove, WbtcCovered
  <2> QED
    BY <2>1, <2>2, <2>3, <2>4, <2>5
<1>8. CASE CounterStep(o)
  <2>1. TypeOK' /\ PromiseEnds
    BY <1>0, <1>8
       DEF CounterStep, Become, Flag, rowVars, ledgerVars, TypeOK, Status, PromiseEnds
  <2>2. Shape'
    <3>1. CASE status[o] = "counter_locking" /\ Become(o, "counter_locked") /\ UNCHANGED reserved
      BY <1>0, <1>8, <3>1
         DEF CounterStep, Become, Flag, rowVars, ledgerVars, TypeOK, Shape
    <3>2. CASE status[o] = "counter_locked" /\ Become(o, "counter_claimed") /\ UNCHANGED reserved
      BY <1>0, <1>8, <3>2
         DEF CounterStep, Become, Flag, rowVars, ledgerVars, TypeOK, Shape
    <3>3. CASE status[o] = "counter_claimed" /\ Become(o, "main_claimed") /\ Flag(o, FALSE)
      BY <1>0, <1>8, <3>3
         DEF CounterStep, Become, Flag, rowVars, ledgerVars, TypeOK, Shape
    <3> QED
      BY <1>8, <3>1, <3>2, <3>3 DEF CounterStep
  <2>3. Touches(o) /\ gap \subseteq gap' /\ ReadsNow
    BY <1>0, <1>8
       DEF CounterStep, Become, Flag, rowVars, ledgerVars, TypeOK, Touches, ReadsNow
  <2>4. CbtcMove(o)
    BY <1>0, <1>8, ReversePromise
       DEF CounterStep, Become, Flag, rowVars, ledgerVars, TypeOK, Shape,
           CustodyReserved, CbtcMove, CbtcCovered
  <2>5. WbtcMove(o)
    BY <1>0, <1>8, ReversePromise
       DEF CounterStep, Become, Flag, rowVars, ledgerVars, TypeOK, Shape,
           CustodyReserved, WbtcMove, WbtcCovered
  <2> QED
    BY <2>1, <2>2, <2>3, <2>4, <2>5
<1>9. CASE RecordRetake(o)
  <2>1. TypeOK' /\ PromiseEnds
    BY <1>0, <1>9
       DEF RecordRetake, Become, Flag, rowVars, ledgerVars, TypeOK, Status, PromiseEnds
  <2>2. Shape'
    BY <1>0, <1>9 DEF RecordRetake, Become, Flag, rowVars, ledgerVars, TypeOK, Shape
  <2>3. Touches(o) /\ gap \subseteq gap' /\ ReadsNow
    BY <1>0, <1>9
       DEF RecordRetake, Become, Flag, rowVars, ledgerVars, TypeOK, Touches, ReadsNow
  <2>4. CbtcMove(o)
    BY <1>0, <1>9, ReversePromise
       DEF RecordRetake, Become, Flag, rowVars, ledgerVars, TypeOK, Shape,
           CustodyReserved, CbtcMove, CbtcCovered
  <2>5. WbtcMove(o)
    BY <1>0, <1>9, ReversePromise
       DEF RecordRetake, Become, Flag, rowVars, ledgerVars, TypeOK, Shape,
           CustodyReserved, WbtcMove, WbtcCovered
  <2> QED
    BY <2>1, <2>2, <2>3, <2>4, <2>5
<1>10. CASE RefundForward(o)
  <2>1. TypeOK' /\ PromiseEnds
    BY <1>0, <1>10
       DEF RefundForward, Become, rowVars, ledgerVars, TypeOK, Status, PromiseEnds
  <2>2. Shape'
    BY <1>0, <1>10 DEF RefundForward, Become, rowVars, ledgerVars, TypeOK, Shape
  <2>3. Touches(o) /\ gap \subseteq gap' /\ ReadsNow
    BY <1>0, <1>10 DEF RefundForward, Become, rowVars, ledgerVars, TypeOK, Touches, ReadsNow
  <2>4. CbtcMove(o)
    BY <1>0, <1>10, ForwardPromise
       DEF RefundForward, Become, rowVars, ledgerVars, TypeOK, Shape, ForwardReserved,
           CbtcMove, CbtcCovered
  <2>5. WbtcMove(o)
    BY <1>0, <1>10, ForwardPromise
       DEF RefundForward, Become, rowVars, ledgerVars, TypeOK, Shape, ForwardReserved,
           WbtcMove, WbtcCovered
  <2> QED
    BY <2>1, <2>2, <2>3, <2>4, <2>5
<1>11. CASE RefundReverse(o)
  <2>1. TypeOK' /\ PromiseEnds
    BY <1>0, <1>11
       DEF RefundReverse, Become, Flag, BackOn, rowVars, ledgerVars, TypeOK, Status,
           PromiseEnds
  <2>2. Shape'
    <3>1. CASE UNCHANGED reserved
      BY <1>0, <1>11, <3>1
         DEF RefundReverse, Become, Flag, BackOn, rowVars, ledgerVars, TypeOK, Shape, Status
    <3>2. CASE Flag(o, FALSE)
      BY <1>0, <1>11, <3>2
         DEF RefundReverse, Become, Flag, BackOn, rowVars, ledgerVars, TypeOK, Shape, Status
    <3> QED
      BY <1>11, <3>1, <3>2 DEF RefundReverse
  <2>3. Touches(o) /\ gap \subseteq gap' /\ ReadsNow
    BY <1>0, <1>11
       DEF RefundReverse, Become, Flag, BackOn, rowVars, ledgerVars, TypeOK, Touches,
           ReadsNow
  <2>4. CbtcMove(o)
    BY <1>0, <1>11, ReversePromise
       DEF RefundReverse, Become, Flag, BackOn, rowVars, ledgerVars, TypeOK, Shape,
           CustodyReserved, CbtcMove, CbtcCovered
  <2>5. WbtcMove(o)
    BY <1>0, <1>11, ReversePromise
       DEF RefundReverse, Become, Flag, BackOn, rowVars, ledgerVars, TypeOK, Shape,
           CustodyReserved, WbtcMove, WbtcCovered
  <2> QED
    BY <2>1, <2>2, <2>3, <2>4, <2>5
<1>12. CASE RefundRecorded(o)
  <2>1. TypeOK' /\ PromiseEnds
    BY <1>0, <1>12
       DEF RefundRecorded, Become, rowVars, ledgerVars, TypeOK, Status, PromiseEnds
  <2>2. Shape'
    BY <1>0, <1>12 DEF RefundRecorded, Become, rowVars, ledgerVars, TypeOK, Shape
  <2>3. Touches(o) /\ gap \subseteq gap' /\ ReadsNow
    BY <1>0, <1>12
       DEF RefundRecorded, Become, rowVars, ledgerVars, TypeOK, Touches, ReadsNow
  <2>4. o \in Forward \/ o \in Reverse
    BY <1>12 DEF RefundRecorded, Orders
  <2>5. CASE o \in Forward
    <3>1. CbtcMove(o)
      BY <1>0, <1>12, <2>5, ForwardPromise
         DEF RefundRecorded, Become, rowVars, ledgerVars, TypeOK, Shape,
             ForwardReserved, CbtcMove, CbtcCovered
    <3>2. WbtcMove(o)
      BY <1>0, <1>12, <2>5, ForwardPromise
         DEF RefundRecorded, Become, rowVars, ledgerVars, TypeOK, Shape,
             ForwardReserved, WbtcMove, WbtcCovered
    <3> QED
      BY <2>1, <2>2, <2>3, <3>1, <3>2
  <2>6. CASE o \in Reverse
    <3>1. CbtcMove(o)
      BY <1>0, <1>12, <2>6, ReversePromise
         DEF RefundRecorded, Become, rowVars, ledgerVars, TypeOK, Shape,
             CustodyReserved, CbtcMove, CbtcCovered
    <3>2. WbtcMove(o)
      BY <1>0, <1>12, <2>6, ReversePromise
         DEF RefundRecorded, Become, rowVars, ledgerVars, TypeOK, Shape,
             CustodyReserved, WbtcMove, WbtcCovered
    <3> QED
      BY <2>1, <2>2, <2>3, <3>1, <3>2
  <2> QED
    BY <2>4, <2>5, <2>6
<1>13. CASE RefundRollsBack(o)
  <2>1. TypeOK' /\ PromiseEnds
    BY <1>0, <1>13
       DEF RefundRollsBack, Become, BackOn, rowVars, ledgerVars, TypeOK, Status,
           PromiseEnds
  <2>2. Shape'
    BY <1>0, <1>13
       DEF RefundRollsBack, Become, BackOn, rowVars, ledgerVars, TypeOK, Shape, Status
  <2>3. Touches(o) /\ gap \subseteq gap' /\ ReadsNow
    BY <1>0, <1>13
       DEF RefundRollsBack, Become, BackOn, rowVars, ledgerVars, TypeOK, Touches,
           ReadsNow
  <2>4. o \in Forward \/ o \in Reverse
    BY <1>13 DEF RefundRollsBack, Orders
  <2>5. CASE o \in Forward
    <3>1. CbtcMove(o)
      BY <1>0, <1>13, <2>5, ForwardPromise
         DEF RefundRollsBack, Become, BackOn, rowVars, ledgerVars, TypeOK, Shape,
             ForwardReserved, CbtcMove, CbtcCovered
    <3>2. WbtcMove(o)
      BY <1>0, <1>13, <2>5, ForwardPromise
         DEF RefundRollsBack, Become, BackOn, rowVars, ledgerVars, TypeOK, Shape,
             ForwardReserved, WbtcMove, WbtcCovered
    <3> QED
      BY <2>1, <2>2, <2>3, <3>1, <3>2
  <2>6. CASE o \in Reverse
    <3>1. CbtcMove(o)
      BY <1>0, <1>13, <2>6, ReversePromise
         DEF RefundRollsBack, Become, BackOn, rowVars, ledgerVars, TypeOK, Shape,
             CustodyReserved, CbtcMove, CbtcCovered
    <3>2. WbtcMove(o)
      BY <1>0, <1>13, <2>6, ReversePromise
         DEF RefundRollsBack, Become, BackOn, rowVars, ledgerVars, TypeOK, Shape,
             CustodyReserved, WbtcMove, WbtcCovered
    <3> QED
      BY <2>1, <2>2, <2>3, <3>1, <3>2
  <2> QED
    BY <2>4, <2>5, <2>6
<1>14. CASE CounterLocked(o)
  <2>1. TypeOK' /\ PromiseEnds
    BY <1>0, <1>14
       DEF CounterLocked, Become, rowVars, ledgerVars, TypeOK, Status, PromiseEnds
  <2>2. Shape'
    BY <1>0, <1>14 DEF CounterLocked, Become, rowVars, ledgerVars, TypeOK, Shape
  <2>3. Touches(o) /\ gap \subseteq gap' /\ ReadsNow
    BY <1>0, <1>14 DEF CounterLocked, Become, rowVars, ledgerVars, TypeOK, Touches, ReadsNow
  <2>4. CbtcMove(o)
    BY <1>0, <1>14, ForwardPromise
       DEF CounterLocked, Become, rowVars, ledgerVars, TypeOK, Shape, ForwardReserved,
           CbtcMove, CbtcCovered
  <2>5. WbtcMove(o)
    BY <1>0, <1>14, ForwardPromise
       DEF CounterLocked, Become, rowVars, ledgerVars, TypeOK, Shape, ForwardReserved,
           WbtcMove, WbtcCovered
  <2> QED
    BY <2>1, <2>2, <2>3, <2>4, <2>5
<1>15. CASE SwapStep(o)
  <2>1. TypeOK' /\ PromiseEnds
    <3>1. CASE Become(o, "filled") /\ Flag(o, FALSE)
      BY <1>0, <1>15, <3>1
         DEF SwapStep, Become, Flag, rowVars, ledgerVars, TypeOK, Status, PromiseEnds
    <3>2. CASE Become(o, "failed") /\ Flag(o, FALSE)
      BY <1>0, <1>15, <3>2
         DEF SwapStep, Become, Flag, rowVars, ledgerVars, TypeOK, Status, PromiseEnds
    <3>3. CASE Become(o, "expired") /\ Flag(o, FALSE)
      BY <1>0, <1>15, <3>3
         DEF SwapStep, Become, Flag, rowVars, ledgerVars, TypeOK, Status, PromiseEnds
    <3>4. CASE status[o] = "failed" /\ Become(o, "user_locked") /\ UNCHANGED reserved
      BY <1>0, <1>15, <3>4
         DEF SwapStep, Become, Flag, rowVars, ledgerVars, TypeOK, Status, PromiseEnds
    <3> QED
      BY <1>15, <3>1, <3>2, <3>3, <3>4 DEF SwapStep
  <2>2. Shape'
    <3>1. CASE Become(o, "filled") /\ Flag(o, FALSE)
      BY <1>0, <1>15, <3>1
         DEF SwapStep, Become, Flag, rowVars, ledgerVars, TypeOK, Shape
    <3>2. CASE Become(o, "failed") /\ Flag(o, FALSE)
      BY <1>0, <1>15, <3>2
         DEF SwapStep, Become, Flag, rowVars, ledgerVars, TypeOK, Shape
    <3>3. CASE Become(o, "expired") /\ Flag(o, FALSE)
      BY <1>0, <1>15, <3>3
         DEF SwapStep, Become, Flag, rowVars, ledgerVars, TypeOK, Shape
    <3>4. CASE status[o] = "failed" /\ Become(o, "user_locked") /\ UNCHANGED reserved
      BY <1>0, <1>15, <3>4
         DEF SwapStep, Become, Flag, rowVars, ledgerVars, TypeOK, Shape
    <3> QED
      BY <1>15, <3>1, <3>2, <3>3, <3>4 DEF SwapStep
  <2>3. Touches(o) /\ gap \subseteq gap' /\ ReadsNow
    BY <1>0, <1>15
       DEF SwapStep, Become, Flag, rowVars, ledgerVars, TypeOK, Touches, ReadsNow
  <2>4. CbtcMove(o)
    BY <1>0, <1>15, SwapPromise
       DEF SwapStep, Become, Flag, rowVars, ledgerVars, TypeOK, Shape, SwapReserved,
           CbtcMove, CbtcCovered
  <2>5. WbtcMove(o)
    BY <1>0, <1>15, SwapPromise
       DEF SwapStep, Become, Flag, rowVars, ledgerVars, TypeOK, Shape, SwapReserved,
           WbtcMove, WbtcCovered
  <2> QED
    BY <2>1, <2>2, <2>3, <2>4, <2>5
<1> QED
  BY <1>1, <1>2, <1>3, <1>4, <1>5, <1>6, <1>7, <1>8, <1>9, <1>10, <1>11, <1>12, <1>13, <1>14, <1>15
     DEF RowStep

\* LedgerStep: the order is touched alone, and both floats move as its promise does.
LEMMA LedgerStepMoves ==
    ASSUME FloatInv, NEW o \in Orders, LedgerStep(o)
    PROVE  /\ TypeOK' /\ Shape' /\ Touches(o) /\ CbtcMove(o) /\ WbtcMove(o)
           /\ gap \subseteq gap' /\ ReadsNow /\ PromiseEnds
<1>0. /\ TypeOK /\ Shape /\ Amount[o] \in Nat \ {0}
      /\ Forward \cap Reverse = {} /\ Forward \cap Swaps = {} /\ Reverse \cap Swaps = {}
  BY FloatAssumption DEF FloatInv
<1>1. CASE Allocate(o)
  <2>1. TypeOK' /\ PromiseEnds
    BY <1>0, <1>1 DEF Allocate, Leg, rowVars, ledgerVars, TypeOK, Status, PromiseEnds
  <2>2. Shape'
    BY <1>0, <1>1 DEF Allocate, Leg, rowVars, ledgerVars, TypeOK, Shape
  <2>3. Touches(o) /\ gap \subseteq gap' /\ ReadsNow
    BY <1>0, <1>1 DEF Allocate, Leg, rowVars, ledgerVars, TypeOK, Touches, ReadsNow
  <2>4. CbtcMove(o)
    BY <1>0, <1>1, ForwardPromise
       DEF Allocate, Leg, rowVars, ledgerVars, TypeOK, Shape, ForwardReserved, CbtcMove,
           CbtcCovered
  <2>5. WbtcMove(o)
    BY <1>0, <1>1, ForwardPromise
       DEF Allocate, Leg, rowVars, ledgerVars, TypeOK, Shape, ForwardReserved, WbtcMove,
           WbtcCovered
  <2> QED
    BY <2>1, <2>2, <2>3, <2>4, <2>5
<1>2. CASE CounterClaimed(o)
  <2>1. TypeOK' /\ PromiseEnds
    BY <1>0, <1>2
       DEF CounterClaimed, Become, Leg, rowVars, ledgerVars, TypeOK, Status, PromiseEnds
  <2>2. Shape'
    BY <1>0, <1>2 DEF CounterClaimed, Become, Leg, rowVars, ledgerVars, TypeOK, Shape
  <2>3. Touches(o) /\ gap \subseteq gap' /\ ReadsNow
    BY <1>0, <1>2
       DEF CounterClaimed, Become, Leg, rowVars, ledgerVars, TypeOK, Touches, ReadsNow
  <2>4. CbtcMove(o)
    BY <1>0, <1>2, ForwardPromise
       DEF CounterClaimed, Become, Leg, rowVars, ledgerVars, TypeOK, Shape,
           ForwardReserved, CbtcMove, CbtcCovered
  <2>5. WbtcMove(o)
    BY <1>0, <1>2, ForwardPromise
       DEF CounterClaimed, Become, Leg, rowVars, ledgerVars, TypeOK, Shape,
           ForwardReserved, WbtcMove, WbtcCovered
  <2> QED
    BY <2>1, <2>2, <2>3, <2>4, <2>5
<1>3. CASE MainClaimed(o)
  <2>1. TypeOK' /\ PromiseEnds
    BY <1>0, <1>3 DEF MainClaimed, Become, rowVars, ledgerVars, TypeOK, Status, PromiseEnds
  <2>2. Shape'
    BY <1>0, <1>3 DEF MainClaimed, Become, rowVars, ledgerVars, TypeOK, Shape
  <2>3. Touches(o) /\ gap \subseteq gap' /\ ReadsNow
    BY <1>0, <1>3 DEF MainClaimed, Become, rowVars, ledgerVars, TypeOK, Touches, ReadsNow
  <2>4. CbtcMove(o)
    BY <1>0, <1>3, ForwardPromise
       DEF MainClaimed, Become, rowVars, ledgerVars, TypeOK, Shape, ForwardReserved,
           CbtcMove, CbtcCovered
  <2>5. WbtcMove(o)
    BY <1>0, <1>3, ForwardPromise
       DEF MainClaimed, Become, rowVars, ledgerVars, TypeOK, Shape, ForwardReserved,
           WbtcMove, WbtcCovered
  <2> QED
    BY <2>1, <2>2, <2>3, <2>4, <2>5
<1>4. CASE HtlcRefund(o)
  <2>1. TypeOK' /\ PromiseEnds
    BY <1>0, <1>4 DEF HtlcRefund, Leg, rowVars, ledgerVars, TypeOK, Status, PromiseEnds
  <2>2. Shape'
    BY <1>0, <1>4 DEF HtlcRefund, Leg, rowVars, ledgerVars, TypeOK, Shape
  <2>3. Touches(o) /\ gap \subseteq gap' /\ ReadsNow
    BY <1>0, <1>4 DEF HtlcRefund, Leg, rowVars, ledgerVars, TypeOK, Touches, ReadsNow
  <2>4. CbtcMove(o)
    BY <1>0, <1>4, ForwardPromise
       DEF HtlcRefund, Leg, rowVars, ledgerVars, TypeOK, Shape, ForwardReserved,
           CbtcMove, CbtcCovered
  <2>5. WbtcMove(o)
    BY <1>0, <1>4, ForwardPromise
       DEF HtlcRefund, Leg, rowVars, ledgerVars, TypeOK, Shape, ForwardReserved,
           WbtcMove, WbtcCovered
  <2> QED
    BY <2>1, <2>2, <2>3, <2>4, <2>5
<1>5. CASE CustodyOffered(o)
  <2>1. TypeOK' /\ PromiseEnds
    BY <1>0, <1>5 DEF CustodyOffered, rowVars, ledgerVars, TypeOK, Status, PromiseEnds
  <2>2. Shape'
    BY <1>0, <1>5 DEF CustodyOffered, rowVars, ledgerVars, TypeOK, Shape
  <2>3. Touches(o) /\ gap \subseteq gap' /\ ReadsNow
    BY <1>0, <1>5 DEF CustodyOffered, rowVars, ledgerVars, TypeOK, Touches, ReadsNow
  <2>4. CbtcMove(o)
    BY <1>0, <1>5, ReversePromise
       DEF CustodyOffered, rowVars, ledgerVars, TypeOK, Shape, CustodyReserved,
           CbtcMove, CbtcCovered
  <2>5. WbtcMove(o)
    BY <1>0, <1>5, ReversePromise
       DEF CustodyOffered, rowVars, ledgerVars, TypeOK, Shape, CustodyReserved,
           WbtcMove, WbtcCovered
  <2> QED
    BY <2>1, <2>2, <2>3, <2>4, <2>5
<1>6. CASE CustodyArrives(o)
  <2>1. TypeOK' /\ PromiseEnds
    BY <1>0, <1>6 DEF CustodyArrives, rowVars, ledgerVars, TypeOK, Status, PromiseEnds
  <2>2. Shape'
    BY <1>0, <1>6 DEF CustodyArrives, rowVars, ledgerVars, TypeOK, Shape
  <2>3. Touches(o) /\ gap \subseteq gap' /\ ReadsNow
    BY <1>0, <1>6 DEF CustodyArrives, rowVars, ledgerVars, TypeOK, Touches, ReadsNow
  <2>4. CbtcMove(o)
    BY <1>0, <1>6, ReversePromise
       DEF CustodyArrives, rowVars, ledgerVars, TypeOK, Shape, CustodyReserved,
           CbtcMove, CbtcCovered
  <2>5. WbtcMove(o)
    BY <1>0, <1>6, ReversePromise
       DEF CustodyArrives, rowVars, ledgerVars, TypeOK, Shape, CustodyReserved,
           WbtcMove, WbtcCovered
  <2> QED
    BY <2>1, <2>2, <2>3, <2>4, <2>5
<1>7. CASE CustodyReturned(o)
  <2>1. TypeOK' /\ PromiseEnds
    BY <1>0, <1>7 DEF CustodyReturned, rowVars, ledgerVars, TypeOK, Status, PromiseEnds
  <2>2. Shape'
    BY <1>0, <1>7 DEF CustodyReturned, rowVars, ledgerVars, TypeOK, Shape
  <2>3. Touches(o) /\ gap \subseteq gap' /\ ReadsNow
    BY <1>0, <1>7 DEF CustodyReturned, rowVars, ledgerVars, TypeOK, Touches, ReadsNow
  <2>4. CbtcMove(o)
    BY <1>0, <1>7, ReversePromise
       DEF CustodyReturned, rowVars, ledgerVars, TypeOK, Shape, CustodyReserved,
           CbtcMove, CbtcCovered
  <2>5. WbtcMove(o)
    BY <1>0, <1>7, ReversePromise
       DEF CustodyReturned, rowVars, ledgerVars, TypeOK, Shape, CustodyReserved,
           WbtcMove, WbtcCovered
  <2> QED
    BY <2>1, <2>2, <2>3, <2>4, <2>5
<1>8. CASE LockWbtc(o)
  <2>1. TypeOK' /\ PromiseEnds
    BY <1>0, <1>8 DEF LockWbtc, Leg, rowVars, ledgerVars, TypeOK, Status, PromiseEnds
  <2>2. Shape'
    BY <1>0, <1>8 DEF LockWbtc, Leg, rowVars, ledgerVars, TypeOK, Shape
  <2>3. Touches(o) /\ gap \subseteq gap' /\ ReadsNow
    BY <1>0, <1>8 DEF LockWbtc, Leg, rowVars, ledgerVars, TypeOK, Touches, ReadsNow
  <2>4. CbtcMove(o)
    BY <1>0, <1>8, ReversePromise
       DEF LockWbtc, Leg, rowVars, ledgerVars, TypeOK, Shape, CustodyReserved, CbtcMove,
           CbtcCovered
  <2>5. WbtcMove(o)
    BY <1>0, <1>8, ReversePromise
       DEF LockWbtc, Leg, rowVars, ledgerVars, TypeOK, Shape, CustodyReserved, WbtcMove,
           WbtcCovered
  <2> QED
    BY <2>1, <2>2, <2>3, <2>4, <2>5
<1>9. CASE WbtcLeaves(o)
  <2>1. TypeOK' /\ PromiseEnds
    BY <1>0, <1>9 DEF WbtcLeaves, Leg, rowVars, ledgerVars, TypeOK, Status, PromiseEnds
  <2>2. Shape'
    <3>1. CASE Leg(o, "paid")
      BY <1>0, <1>9, <3>1
         DEF WbtcLeaves, Leg, rowVars, ledgerVars, TypeOK, Shape
    <3>2. CASE Leg(o, "returned")
      BY <1>0, <1>9, <3>2
         DEF WbtcLeaves, Leg, rowVars, ledgerVars, TypeOK, Shape
    <3> QED
      BY <1>9, <3>1, <3>2 DEF WbtcLeaves
  <2>3. Touches(o) /\ gap \subseteq gap' /\ ReadsNow
    BY <1>0, <1>9 DEF WbtcLeaves, Leg, rowVars, ledgerVars, TypeOK, Touches, ReadsNow
  <2>4. CbtcMove(o)
    BY <1>0, <1>9, ReversePromise
       DEF WbtcLeaves, Leg, rowVars, ledgerVars, TypeOK, Shape, CustodyReserved,
           CbtcMove, CbtcCovered
  <2>5. WbtcMove(o)
    BY <1>0, <1>9, ReversePromise
       DEF WbtcLeaves, Leg, rowVars, ledgerVars, TypeOK, Shape, CustodyReserved,
           WbtcMove, WbtcCovered
  <2> QED
    BY <2>1, <2>2, <2>3, <2>4, <2>5
<1>10. CASE FillSwap(o)
  <2>1. TypeOK' /\ PromiseEnds
    BY <1>0, <1>10 DEF FillSwap, Leg, rowVars, ledgerVars, TypeOK, Status, PromiseEnds
  <2>2. Shape'
    BY <1>0, <1>10 DEF FillSwap, Leg, rowVars, ledgerVars, TypeOK, Shape
  <2>3. Touches(o) /\ gap \subseteq gap' /\ ReadsNow
    BY <1>0, <1>10 DEF FillSwap, Leg, rowVars, ledgerVars, TypeOK, Touches, ReadsNow
  <2>4. CbtcMove(o)
    BY <1>0, <1>10, SwapPromise
       DEF FillSwap, Leg, rowVars, ledgerVars, TypeOK, Shape, SwapReserved, CbtcMove,
           CbtcCovered
  <2>5. WbtcMove(o)
    BY <1>0, <1>10, SwapPromise
       DEF FillSwap, Leg, rowVars, ledgerVars, TypeOK, Shape, SwapReserved, WbtcMove,
           WbtcCovered
  <2> QED
    BY <2>1, <2>2, <2>3, <2>4, <2>5
<1>11. CASE CounterOfferEnds(o)
  <2>1. TypeOK' /\ PromiseEnds
    BY <1>0, <1>11
       DEF CounterOfferEnds, Leg, rowVars, ledgerVars, TypeOK, Status, PromiseEnds
  <2>2. Shape'
    BY <1>0, <1>11 DEF CounterOfferEnds, Leg, rowVars, ledgerVars, TypeOK, Shape
  <2>3. Touches(o) /\ gap \subseteq gap' /\ ReadsNow
    BY <1>0, <1>11 DEF CounterOfferEnds, Leg, rowVars, ledgerVars, TypeOK, Touches, ReadsNow
  <2>4. CbtcMove(o)
    BY <1>0, <1>11, SwapPromise
       DEF CounterOfferEnds, Leg, rowVars, ledgerVars, TypeOK, Shape, SwapReserved,
           CbtcMove, CbtcCovered
  <2>5. WbtcMove(o)
    BY <1>0, <1>11, SwapPromise
       DEF CounterOfferEnds, Leg, rowVars, ledgerVars, TypeOK, Shape, SwapReserved,
           WbtcMove, WbtcCovered
  <2> QED
    BY <2>1, <2>2, <2>3, <2>4, <2>5
<1> QED
  BY <1>1, <1>2, <1>3, <1>4, <1>5, <1>6, <1>7, <1>8, <1>9, <1>10, <1>11 DEF LedgerStep

-----------------------------------------------------------------------------
(* The theorems.                                                           *)

\* At the start nothing is promised, and all of the float is there.
LEMMA FloatInvInit ==
    Init => FloatInv
<1> SUFFICES ASSUME Init PROVE FloatInv
  OBVIOUS
<1>1. TypeOK
  BY FloatAssumption DEF Init, TypeOK, Status
<1>2. Shape
  BY FloatAssumption DEF Init, Shape, Orders
<1>3. \A o \in Orders : status[o] \in {"open", "cancelled"} /\ ~reserved[o]
  BY DEF Init
<1>4. CbtcOwed = {} /\ WbtcOwed = {}
  BY <1>3 DEF CbtcOwed, WbtcOwed, CbtcReserved, WbtcReserved, ForwardReserved,
              CustodyReserved, SwapReserved, Orders
<1>5. Total({}) = 0
  BY FS_EmptySet DEF Total, Units
<1>6. VaultSolvent /\ WalletSolvent
  BY <1>1, <1>4, <1>5 DEF VaultSolvent, WalletSolvent, TypeOK
<1>7. Readings
  BY DEF Init, Readings
<1> QED
  BY <1>1, <1>2, <1>6, <1>7 DEF FloatInv

LEMMA FloatInvNext ==
    FloatInv /\ [Next]_vars => FloatInv'
<1> SUFFICES ASSUME FloatInv, [Next]_vars PROVE FloatInv'
  OBVIOUS
<1>1. ASSUME NEW o \in Orders, Request(o) \/ RowStep(o) \/ LedgerStep(o)
      PROVE  FloatInv'
  <2>1. /\ TypeOK' /\ Shape' /\ Touches(o) /\ CbtcMove(o) /\ WbtcMove(o)
        /\ gap \subseteq gap' /\ ReadsNow /\ PromiseEnds
    BY <1>1, RequestMoves, RowStepMoves, LedgerStepMoves
  <2>2. VaultSolvent' /\ WalletSolvent' /\ Readings'
    BY <2>1, MoveKeeps
  <2> QED
    BY <2>1, <2>2 DEF FloatInv
<1>2. CASE UNCHANGED vars
  BY <1>2 DEF vars, rowVars, ledgerVars, readVars, FloatInv, TypeOK, Shape, VaultSolvent,
        WalletSolvent, Readings, CbtcOwed, CbtcSpent, WbtcOwed, WbtcSpent, CbtcReserved,
        WbtcReserved, ForwardReserved, CustodyReserved, SwapReserved, CbtcIn, CbtcOut, WbtcOut,
        Total, Units
<1> QED
  BY <1>1, <1>2 DEF Next

\* What is promised and still in a float is covered by it, and an old reading
\* is worth the float and what was paid out of it (the SQL functions of
\* migrations 040, 041 and 042).
THEOREM FloatInvariant == Spec => []FloatInv
<1>1. Init => FloatInv
  BY FloatInvInit
<1>2. FloatInv /\ [Next]_vars => FloatInv'
  BY FloatInvNext
<1> QED
  BY <1>1, <1>2, PTL DEF Spec

\* Rows, ledgers and readings are well typed, whatever the orders.
THEOREM TypeCorrect == Spec => []TypeOK
<1>1. FloatInv => TypeOK
  BY DEF FloatInv
<1> QED
  BY <1>1, FloatInvariant, PTL

\* The vault never owes more CBTC than it has, for any number of orders of any
\* size, unless a promise was made without cover
\* (sum_vault_cbtc_reserved_sats under its advisory lock).
THEOREM VaultStaysSolvent == Spec => []VaultSolvent
<1>1. FloatInv => VaultSolvent
  BY DEF FloatInv
<1> QED
  BY <1>1, FloatInvariant, PTL

\* The solver's wallet never owes more WBTC than it has
\* (reserve_reverse_htlc_evm_float under its advisory lock).
THEOREM WalletStaysSolvent == Spec => []WalletSolvent
<1>1. FloatInv => WalletSolvent
  BY DEF FloatInv
<1> QED
  BY <1>1, FloatInvariant, PTL
=============================================================================
