------------------------------ MODULE LeastElement ------------------------------
(***************************************************************************)
(* A nonempty set of naturals has a least element.  Proofs elsewhere that   *)
(* would go by induction take the least counterexample instead.             *)
(***************************************************************************)
EXTENDS Integers, WellFoundedInduction, TLAPS

(* The earliest of any set of chunk ids, list places or times.               *)
LEMMA LeastNat ==
    ASSUME NEW S \in SUBSET Nat, S # {}
    PROVE  \E m \in S : \A k \in S : m <= k
<1> DEFINE R == OpToRel(<, Nat)
<1>1. \A x, y \in Nat : <<y, x>> \in R <=> y < x
  BY DEF OpToRel
<1>2. IsWellFoundedOn(R, Nat)
  BY NatLessThanWellFounded
<1> HIDE DEF R
<1>3. PICK m \in S : \A k \in S : ~(<<k, m>> \in R)
  BY <1>2, WFMin
<1>4. \A k \in S : ~(k < m)
  BY <1>1, <1>3
<1> QED BY <1>4

(* A bounded one has a greatest, the least of its upper bounds.               *)
LEMMA GreatestNat ==
    ASSUME NEW S \in SUBSET Nat, S # {}, NEW B \in Nat, \A k \in S : k <= B
    PROVE  \E m \in S : \A k \in S : m >= k
<1> DEFINE U == {n \in Nat : \A k \in S : k <= n}
<1>1. U \in SUBSET Nat /\ U # {}
  OBVIOUS
<1>2. PICK m \in U : \A n \in U : m <= n
  <2> HIDE DEF U
  <2> QED BY <1>1, LeastNat
<1>3. m \in S
  <2> SUFFICES ASSUME m \notin S
               PROVE  FALSE
    OBVIOUS
  <2>1. \A k \in S : k \in Nat /\ k <= m /\ k # m
    OBVIOUS
  <2>2. m \in Nat /\ m > 0
    <3>1. PICK k \in S : TRUE
      OBVIOUS
    <3> QED BY <2>1, <3>1
  <2>3. \A k \in S : k <= m - 1
    BY <2>1, <2>2
  <2>4. m - 1 \in U
    BY <2>2, <2>3
  <2> QED BY <1>2, <2>2, <2>4
<1> QED BY <1>3

(* So the values of a finite sequence of naturals have a bound: the shortest prefix *)
(* without one would be one value longer than a prefix with one.                *)
LEMMA BoundedNats ==
    ASSUME NEW n \in Nat, NEW f, \A i \in 1..n : f[i] \in Nat
    PROVE  \E B \in Nat : \A i \in 1..n : f[i] <= B
<1> DEFINE U == {k \in 0..n : \A B \in Nat : \E i \in 1..k : f[i] > B}
<1>1. SUFFICES ASSUME U # {}
               PROVE  FALSE
  <2>1. SUFFICES ASSUME n \notin U
                 PROVE  \E B \in Nat : \A i \in 1..n : f[i] <= B
    OBVIOUS
  <2>2. PICK B \in Nat : \A i \in 1..n : ~(f[i] > B)
    BY <2>1
  <2>3. \A i \in 1..n : f[i] <= B
    BY <2>2
  <2> QED BY <2>3
<1>2. PICK k \in U : \A j \in U : k <= j
  <2>1. U \in SUBSET Nat
    OBVIOUS
  <2> HIDE DEF U
  <2> QED BY <1>1, <2>1, LeastNat
<1>3. k # 0
  <2>1. 0 \in Nat /\ 1..0 = {}
    OBVIOUS
  <2>2. 0 \notin U
    BY <2>1
  <2> QED BY <1>2, <2>2
<1>4. k - 1 \in 0..n /\ k - 1 \notin U
  <2>1. k \in 0..n
    OBVIOUS
  <2>2. \A j \in U : k <= j
    BY <1>2
  <2> HIDE DEF U
  <2> QED BY <1>3, <2>1, <2>2
<1>5. PICK B \in Nat : \A i \in 1..(k - 1) : f[i] <= B
  <2>1. PICK B \in Nat : \A i \in 1..(k - 1) : ~(f[i] > B)
    BY <1>4
  <2>2. \A i \in 1..(k - 1) : f[i] \in Nat
    BY <1>4
  <2>3. \A i \in 1..(k - 1) : f[i] <= B
    <3> SUFFICES ASSUME NEW i \in 1..(k - 1)
                 PROVE  f[i] <= B
      OBVIOUS
    <3>1. f[i] \in Nat /\ ~(f[i] > B)
      BY <2>1, <2>2
    <3> QED BY <3>1
  <2> QED BY <2>3
<1>6. PICK M \in Nat : M >= B /\ M >= f[k]
  <2>1. f[k] \in Nat
    BY <1>3
  <2> QED BY <2>1, <1>5
<1>7. \A i \in 1..k : f[i] <= M
  <2> SUFFICES ASSUME NEW i \in 1..k
               PROVE  f[i] <= M
    OBVIOUS
  <2>1. f[i] \in Nat /\ (i = k \/ i \in 1..(k - 1))
    BY <1>3
  <2> QED BY <1>5, <1>6, <2>1
<1>8. \E i \in 1..k : f[i] > M
  BY <1>2, <1>6
<1> QED BY <1>6, <1>7, <1>8
===============================================================================
