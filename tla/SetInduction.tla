---------------------------- MODULE SetInduction ----------------------------
(***************************************************************************)
(* Induction over the naturals and over sequences, stated for the set of   *)
(* those a property holds of: the theorems of the library take the         *)
(* property as an operator, which leaves them out of the provers' reach.   *)
(***************************************************************************)
EXTENDS Integers, Sequences, SequenceTheorems, WellFoundedInduction, TLAPS

LEMMA Least ==
    ASSUME NEW T \in SUBSET Nat, T # {}
    PROVE  \E m \in T : \A k \in T : m <= k
<1> DEFINE R == OpToRel(<, Nat)
<1>1. IsWellFoundedOn(R, Nat)
  BY NatLessThanWellFounded
<1>2. \A j, k \in Nat : j < k => << j, k >> \in R
  BY DEF OpToRel
<1> HIDE DEF R
<1>3. \E m \in T : \A k \in T : << k, m >> \notin R
  BY <1>1, WFMin
<1>4. PICK m \in T : \A k \in T : << k, m >> \notin R
  BY <1>3
<1>5. ASSUME NEW k \in T PROVE m <= k
  <2>1. ~(k < m)
    BY <1>2, <1>4
  <2>2. QED
    BY <2>1
<1>6. QED
  BY <1>5

LEMMA NatInduct ==
    ASSUME NEW G \in SUBSET Nat, 0 \in G, \A n \in G : n + 1 \in G
    PROVE  G = Nat
<1> SUFFICES ASSUME Nat \ G # {} PROVE FALSE
  OBVIOUS
<1>1. PICK m \in Nat \ G : \A k \in Nat \ G : m <= k
  <2>1. Nat \ G \in SUBSET Nat
    OBVIOUS
  <2>2. QED
    BY <2>1, Least
<1>2. m # 0
  OBVIOUS
<1>3. m - 1 \in Nat /\ ~(m <= m - 1) /\ m - 1 + 1 = m
  BY <1>2
<1>4. m - 1 \in G
  BY <1>1, <1>3
<1>5. QED
  BY <1>3, <1>4

LEMMA SeqInduct ==
    ASSUME NEW S, NEW G \in SUBSET Seq(S), << >> \in G, \A q \in G, e \in S : Append(q, e) \in G
    PROVE  G = Seq(S)
<1> SUFFICES ASSUME NEW p \in Seq(S), p \notin G PROVE FALSE
  OBVIOUS
<1> DEFINE T == {n \in Nat : \E q \in Seq(S) \ G : Len(q) = n}
<1>1. Len(p) \in T
  BY LenProperties
<1>2. PICK m \in T : \A k \in T : m <= k
  <2>1. T \in SUBSET Nat /\ T # {}
    BY <1>1
  <2> HIDE DEF T
  <2>2. QED
    BY <2>1, Least
<1>3. PICK q \in Seq(S) \ G : Len(q) = m
  OBVIOUS
<1>4. PICK s \in Seq(S), e \in S : q = Append(s, e)
  BY SequenceEmptyOrAppend
<1>5. Len(s) \in Nat /\ m = Len(s) + 1
  BY <1>3, <1>4, LenProperties, AppendProperties
<1>6. Len(s) \notin T
  <2>1. ~(m <= Len(s))
    BY <1>5
  <2> HIDE DEF T
  <2>2. QED
    BY <1>2, <2>1
<1>7. s \in G
  BY <1>5, <1>6
<1>8. QED
  BY <1>3, <1>4, <1>7
=============================================================================
