--------------------------- MODULE DivisionProofs ---------------------------
(***************************************************************************)
(* Integer division and remainder, for the proofs about block, chunk and   *)
(* page arithmetic.                                                        *)
(***************************************************************************)
EXTENDS Integers, TLAPS

(* What \div and % compute. *)
LEMMA DivMod ==
  ASSUME NEW a \in Nat, NEW d \in Nat \ {0}
  PROVE  /\ a \div d \in Nat
         /\ a % d \in 0 .. d - 1
         /\ a = d * (a \div d) + (a % d)
<1>1. a \div d \in Nat
  OBVIOUS
<1>2. a % d \in 0 .. d - 1
  OBVIOUS
<1>3. a = d * (a \div d) + (a % d)
  OBVIOUS
<1> QED
  BY <1>1, <1>2, <1>3

(* Division by a positive number is monotone. *)
LEMMA DivMonotone ==
  ASSUME NEW a \in Nat, NEW b \in Nat, NEW d \in Nat \ {0}, a <= b
  PROVE  a \div d <= b \div d
<1> DEFINE p == a \div d  q == b \div d  m == a % d  n == b % d
<1>1. p \in Nat /\ q \in Nat /\ m \in 0 .. d - 1 /\ n \in 0 .. d - 1
      /\ a = d * p + m /\ b = d * q + n
  BY DivMod
<1> HIDE DEF p, q, m, n
<1>2. SUFFICES ASSUME p >= q + 1 PROVE FALSE
  BY <1>1 DEF p, q
<1>3. d * p >= d * (q + 1)
  BY <1>1, <1>2
<1>4. d * (q + 1) = d * q + d
  BY <1>1
<1>5. d * p \in Nat /\ d * q \in Nat
  BY <1>1
<1> QED
  BY <1>1, <1>3, <1>4, <1>5

(* Quotient and remainder are the only pair that recomposes a number. *)
LEMMA DivModUnique ==
  ASSUME NEW x \in Nat, NEW d \in Nat \ {0}, NEW q \in Nat, NEW m \in 0 .. d - 1,
         x = d * q + m
  PROVE  x \div d = q /\ x % d = m
<1> DEFINE p == x \div d  n == x % d
<1>1. p \in Nat /\ n \in 0 .. d - 1 /\ x = d * p + n
  BY DivMod
<1> HIDE DEF p, n
<1>2. d * p \in Nat /\ d * q \in Nat
  BY <1>1
<1>3. ~(p >= q + 1)
  <2> SUFFICES ASSUME p >= q + 1 PROVE FALSE
    OBVIOUS
  <2>1. d * p >= d * (q + 1) /\ d * (q + 1) = d * q + d
    BY <1>1
  <2> QED
    BY <1>1, <1>2, <2>1
<1>4. ~(q >= p + 1)
  <2> SUFFICES ASSUME q >= p + 1 PROVE FALSE
    OBVIOUS
  <2>1. d * q >= d * (p + 1) /\ d * (p + 1) = d * p + d
    BY <1>1
  <2> QED
    BY <1>1, <1>2, <2>1
<1>5. p = q
  BY <1>1, <1>3, <1>4
<1>6. n = m
  BY <1>1, <1>2, <1>5
<1> QED
  BY <1>5, <1>6 DEF p, n
=============================================================================
