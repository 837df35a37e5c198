--------------------------------- MODULE Least ---------------------------------
(***************************************************************************)
(* The least and the greatest of a set of numbers.  What a recursive       *)
(* function computes is proved by the least number for which it fails.     *)
(***************************************************************************)
EXTENDS Naturals, WellFoundedInduction, TLAPS

(* A set of numbers that is not empty has a least one.                     *)
LEMMA LeastOf ==
    ASSUME NEW T, T \subseteq Nat, T # {}
    PROVE  \E n \in T : \A m \in T : n <= m
<1>1. IsWellFoundedOn(OpToRel(<, Nat), Nat)
  BY NatLessThanWellFounded
<1>2. PICK n \in T : \A m \in T : <<m, n>> \notin OpToRel(<, Nat)
  BY <1>1, WFMin
<1>3. n \in T /\ n \in Nat
  BY <1>2
<1>4. \A m \in T : m \in Nat /\ ~(m < n)
  BY <1>2 DEF OpToRel
<1>5. \A m \in T : n <= m
  BY <1>3, <1>4
<1> QED
  BY <1>3, <1>5

(* A set of numbers up to n that is not empty has a greatest one.          *)
LEMMA GreatestUpTo ==
    ASSUME NEW n \in Nat, NEW T, T \subseteq 0..n, T # {}
    PROVE  \E m \in T : \A k \in T : k <= m
<1> DEFINE D == {n - k : k \in T}
<1>1. D \subseteq Nat /\ D # {}
  <2>1. \A k \in T : n - k \in Nat
    OBVIOUS
  <2>2. PICK k \in T : TRUE
    OBVIOUS
  <2>3. n - k \in D
    OBVIOUS
  <2> QED
    BY <2>1, <2>3
<1>2. PICK d \in D : \A c \in D : d <= c
  <2> HIDE DEF D
  <2> QED
    BY <1>1, LeastOf
<1>3. PICK m \in T : d = n - m
  OBVIOUS
<1>4. \A k \in T : k <= m
  <2> SUFFICES ASSUME NEW k \in T PROVE k <= m
    OBVIOUS
  <2>1. n - k \in D
    OBVIOUS
  <2>2. n - m <= n - k
    BY <1>2, <1>3, <2>1
  <2>3. m \in Nat /\ k \in Nat
    OBVIOUS
  <2> HIDE DEF D
  <2> QED
    BY <2>2, <2>3
<1> QED
  BY <1>4
=============================================================================
