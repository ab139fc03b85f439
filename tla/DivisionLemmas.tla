--------------------------- MODULE DivisionLemmas ---------------------------
(***************************************************************************)
(* Facts about \div and products that the provers lack: both page offsets  *)
(* and the windows of the rate limiter rest on them.                       *)
(***************************************************************************)
EXTENDS Integers, TLAPS

\* What \div means: the provers have it for constants only.
LEMMA DivBounds ==
  ASSUME NEW a \in Nat, NEW b \in Nat \ {0}
  PROVE  /\ a \div b \in Nat
         /\ b * (a \div b) <= a
         /\ a < b * (a \div b) + b
  BY Z3

LEMMA FactorsApart ==
  ASSUME NEW b \in Nat \ {0}, NEW p \in Int, NEW q \in Int, p < q
  PROVE  b * p + b <= b * q
  BY Z3

LEMMA DivMonotone ==
  ASSUME NEW a \in Nat, NEW c \in Nat, NEW b \in Nat \ {0}, a <= c
  PROVE  a \div b <= c \div b
<1> DEFINE p == a \div b
           q == c \div b
<1>1. /\ p \in Nat /\ b * p <= a
      /\ q \in Nat /\ c < b * q + b
  BY DivBounds
<1>2. b * p \in Int /\ b * q \in Int
  BY <1>1, Z3
<1>3. q < p => b * q + b <= b * p
  BY <1>1, FactorsApart
<1> HIDE DEF p, q
<1>4. p <= q
  BY <1>1, <1>2, <1>3
<1> QED
  BY <1>4 DEF p, q

LEMMA DivNext ==
  ASSUME NEW a \in Nat, NEW b \in Nat \ {0}
  PROVE  a \div b < (a + b) \div b
<1> DEFINE p == a \div b
           q == (a + b) \div b
<1>1. /\ p \in Nat /\ b * p <= a
      /\ q \in Nat /\ a + b < b * q + b
  BY DivBounds, a + b \in Nat
<1>2. b * p \in Int /\ b * q \in Int
  BY <1>1, Z3
<1>3. q <= p => b * q <= b * p
  <2>1. q < p => b * q + b <= b * p
    BY <1>1, FactorsApart
  <2> HIDE DEF p, q
  <2> QED
    BY <1>1, <1>2, <2>1
<1> HIDE DEF p, q
<1>4. p < q
  BY <1>1, <1>2, <1>3
<1> QED
  BY <1>4 DEF p, q
=============================================================================
