--------------------------- MODULE OrderingProofs ---------------------------
(***************************************************************************)
(* What InOrder returns, and the two ways to reason about numbers that the *)
(* other proofs need: a set of naturals has a least element, and a set     *)
(* that holds 0 and with a number the next one holds them all.  Both speak *)
(* of sets, not of predicates, so that the provers can apply them.         *)
(***************************************************************************)
EXTENDS Ordering, Sequences, FiniteSetTheorems, WellFoundedInduction, TLAPS

LEMMA LeastNumber ==
    ASSUME NEW T \in SUBSET Nat, T # {}
    PROVE  \E x \in T : \A y \in T : x <= y
<1> DEFINE R == OpToRel(<, Nat)
<1>1. IsWellFoundedOn(R, Nat)
  BY NatLessThanWellFounded
<1>2. \E x \in T : \A y \in T : <<y, x>> \notin R
  <2> HIDE DEF R
  <2> QED
    BY <1>1, WFMin
<1>3. \A x, y \in T : <<y, x>> \notin R => x <= y
  BY DEF OpToRel
<1> QED
  BY <1>2, <1>3

LEMMA Upward ==
    ASSUME NEW k \in Nat, NEW S, 0 \in S,
           \A i \in 0..(k - 1) : i \in S => i + 1 \in S
    PROVE  0..k \subseteq S
<1> SUFFICES ASSUME ~(0..k \subseteq S) PROVE FALSE
  OBVIOUS
<1> DEFINE T == (0..k) \ S
<1>1. PICK x \in T : \A y \in T : x <= y
  <2>1. T \in SUBSET Nat /\ T # {}
    OBVIOUS
  <2> HIDE DEF T
  <2> QED
    BY <2>1, LeastNumber
<1>2. x \in 1..k /\ x - 1 \in 0..(k - 1)
  OBVIOUS
<1>3. x - 1 \in S
  BY <1>1, <1>2
<1>4. (x - 1) + 1 \in S
  BY <1>2, <1>3
<1> QED
  BY <1>2, <1>4

-----------------------------------------------------------------------------
(* Ranks.                                                                  *)

LEMMA RankType ==
    ASSUME NEW S \in SUBSET Nat, IsFiniteSet(S), NEW x \in S
    PROVE  /\ IsFiniteSet({y \in S : y < x})
           /\ Cardinality(S) \in Nat
           /\ Rank(S, x) \in 0..(Cardinality(S) - 1)
<1> DEFINE below == {y \in S : y < x}
<1>1. IsFiniteSet(below) /\ Cardinality(below) <= Cardinality(S)
  BY FS_Subset
<1>2. below # S
  OBVIOUS
<1>3. Cardinality(S) # Cardinality(below)
  <2>1. below \in SUBSET S
    OBVIOUS
  <2> HIDE DEF below
  <2> QED
    BY <1>2, <2>1, FS_Subset
<1>4. Cardinality(below) \in Nat /\ Cardinality(S) \in Nat
  BY <1>1, FS_CardinalityType
<1> QED
  BY <1>1, <1>3, <1>4 DEF Rank

LEMMA RankGrows ==
    ASSUME NEW S \in SUBSET Nat, IsFiniteSet(S), NEW x \in S, NEW z \in S, x < z
    PROVE  Rank(S, x) < Rank(S, z)
<1> DEFINE a == {y \in S : y < x}
           b == {y \in S : y < z}
<1>1. IsFiniteSet(a) /\ IsFiniteSet(b) /\ Cardinality(a) \in Nat /\ Cardinality(b) \in Nat
  BY RankType, FS_CardinalityType
<1>2. a \cup {x} \subseteq b /\ x \notin a
  <2>1. x \in Nat /\ z \in Nat
    OBVIOUS
  <2>2. ASSUME NEW y \in S, y < x PROVE y < z
    <3>1. y \in Nat
      OBVIOUS
    <3> QED
      BY <2>1, <2>2, <3>1
  <2>3. ~(x < x)
    BY <2>1
  <2> QED
    BY <2>2, <2>3
<1> HIDE DEF a, b
<1>3. Cardinality(a \cup {x}) = Cardinality(a) + 1
  BY <1>1, <1>2, FS_AddElement
<1>4. Cardinality(a \cup {x}) <= Cardinality(b)
  BY <1>1, <1>2, FS_Subset
<1> QED
  BY <1>1, <1>3, <1>4 DEF Rank, a, b

\* Every rank below the size of the set is some element's.
LEMMA RankTaken ==
    ASSUME NEW S \in SUBSET Nat, IsFiniteSet(S), NEW i \in 0..(Cardinality(S) - 1)
    PROVE  \E x \in S : Rank(S, x) = i
<1> DEFINE n == Cardinality(S)
           Taken == {j \in Nat : \E x \in S : Rank(S, x) = j}
<1>0. n \in Nat /\ n - 1 \in Nat /\ \A y \in S : y \in Nat
  BY FS_CardinalityType
<1>1. 0 \in Taken
  <2>1. S # {}
    BY <1>0, FS_EmptySet
  <2>2. PICK x \in S : \A y \in S : x <= y
    BY <2>1, LeastNumber
  <2>3. {y \in S : y < x} = {}
    <3>1. ASSUME NEW y \in S PROVE ~(y < x)
      <4>1. x \in Nat /\ y \in Nat /\ x <= y
        BY <2>2
      <4> QED
        BY <4>1
    <3> QED
      BY <3>1
  <2> QED
    BY <2>3, FS_EmptySet DEF Rank
<1>2. ASSUME NEW j \in 0..((n - 1) - 1), j \in Taken PROVE j + 1 \in Taken
  <2>1. PICK x \in S : Rank(S, x) = j
    BY <1>2
  <2> DEFINE upto == {y \in S : y < x} \cup {x}
             above == S \ upto
  <2>2. IsFiniteSet({y \in S : y < x}) /\ Rank(S, x) \in Nat
    BY RankType
  <2>3. x \notin {y \in S : y < x}
    OBVIOUS
  <2>4. IsFiniteSet(upto) /\ Cardinality(upto) = j + 1
    BY <2>1, <2>2, <2>3, FS_AddElement DEF Rank
  <2>5. above # {}
    <3>1. upto # S
      <4> HIDE DEF upto
      <4> QED
        BY <2>4, <1>0
    <3>2. upto \subseteq S
      OBVIOUS
    <3> QED
      BY <3>1, <3>2
  <2>6. PICK z \in above : \A y \in above : z <= y
    <3>1. above \in SUBSET Nat
      OBVIOUS
    <3> HIDE DEF above
    <3> QED
      BY <2>5, <3>1, LeastNumber
  <2>7. {y \in S : y < z} = upto
    <3>1. ASSUME NEW y \in S PROVE y < z <=> y \in upto
      BY <1>0, <2>6
    <3> QED
      BY <3>1
  <2>8. z \in S /\ Rank(S, z) = j + 1
    BY <2>4, <2>7 DEF Rank
  <2> QED
    BY <2>8
<1>3. 0..(n - 1) \subseteq Taken
  <2> HIDE DEF Taken, n
  <2> QED
    BY <1>0, <1>1, <1>2, Upward
<1> QED
  BY <1>3

\* InOrder lists the elements of a finite set of numbers, each one once and in
\* increasing order.
THEOREM InOrderSorts ==
    ASSUME NEW S \in SUBSET Nat, IsFiniteSet(S)
    PROVE  /\ Cardinality(S) \in Nat
           /\ InOrder(S) \in Seq(S) /\ Len(InOrder(S)) = Cardinality(S)
           /\ \A i, j \in 1..Cardinality(S) : i < j => InOrder(S)[i] < InOrder(S)[j]
           /\ \A x \in S : \E i \in 1..Cardinality(S) : InOrder(S)[i] = x
<1> DEFINE n == Cardinality(S)
           f == InOrder(S)
<1>0. n \in Nat
  BY FS_CardinalityType
<1>1. ASSUME NEW i \in 1..n PROVE f[i] \in S /\ Rank(S, f[i]) = i - 1
  <2>1. i - 1 \in 0..(n - 1)
    BY <1>0
  <2>2. \E x \in S : Rank(S, x) = i - 1
    BY <2>1, RankTaken
  <2>3. f[i] = CHOOSE x \in S : Rank(S, x) = i - 1
    BY DEF InOrder
  <2> QED
    BY <2>2, <2>3
<1>2. f = [i \in 1..n |-> f[i]]
  BY DEF InOrder
<1> HIDE DEF f
<1>3. f \in Seq(S) /\ Len(f) = n
  BY <1>0, <1>1, <1>2
<1>4. ASSUME NEW i \in 1..n, NEW j \in 1..n, i < j PROVE f[i] < f[j]
  <2>0. f[i] \in S /\ f[j] \in S /\ Rank(S, f[i]) = i - 1 /\ Rank(S, f[j]) = j - 1
    BY <1>1
  <2>1. f[i] \in Nat /\ f[j] \in Nat /\ Rank(S, f[i]) < Rank(S, f[j])
    <3>1. i - 1 < j - 1
      BY <1>0, <1>4
    <3>2. S \subseteq Nat
      OBVIOUS
    <3> QED
      BY <2>0, <3>1, <3>2
  <2>2. Rank(S, f[i]) \in Int /\ Rank(S, f[j]) \in Int
    BY <1>1, <1>0
  <2>3. ~(f[j] < f[i])
    BY <1>1, <2>1, <2>2, RankGrows
  <2>4. f[i] # f[j]
    BY <2>1, <2>2
  <2> QED
    BY <2>1, <2>3, <2>4
<1>5. ASSUME NEW x \in S PROVE \E i \in 1..n : f[i] = x
  <2> DEFINE i == Rank(S, x) + 1
  <2>0. Rank(S, x) \in 0..(n - 1)
    BY RankType
  <2>1. i \in 1..n /\ Rank(S, x) = i - 1
    BY <1>0, <2>0
  <2>2. f[i] \in S /\ Rank(S, f[i]) = Rank(S, x)
    BY <1>1, <2>1
  <2>3. ~(f[i] < x) /\ ~(x < f[i])
    <3>1. Rank(S, x) \in Int /\ ~(Rank(S, x) < Rank(S, x))
      BY <2>0
    <3> HIDE DEF i
    <3>2. f[i] < x => Rank(S, f[i]) < Rank(S, x)
      BY <2>2, RankGrows
    <3>3. x < f[i] => Rank(S, x) < Rank(S, f[i])
      BY <2>2, RankGrows
    <3> QED
      BY <2>2, <3>1, <3>2, <3>3
  <2>4. f[i] = x
    <3>1. f[i] \in Nat /\ x \in Nat
      BY <2>2
    <3> QED
      BY <2>3, <3>1
  <2> QED
    BY <2>1, <2>4
<1> QED
  BY <1>0, <1>3, <1>4, <1>5 DEF f

-----------------------------------------------------------------------------
\* f[i] comes from f[i - 1] by the step i.
Steps(f, n, base, step) == f[0] = base /\ \A i \in 1..n : f[i] = step[<<f[i - 1], i>>]

\* A function that is defined by recursion on its argument exists.
LEMMA Iterated ==
    ASSUME NEW n \in Nat, NEW D, NEW base \in D, NEW step \in [D \X (1..n) -> D]
    PROVE  \E f \in [0..n -> D] : Steps(f, n, base, step)
<1> DEFINE Upto(f, m) == /\ f \in [0..m -> D] /\ f[0] = base
                         /\ \A i \in 1..m : f[i] = step[<<f[i - 1], i>>]
           S == {m \in Nat : \E f : Upto(f, m)}
<1>1. 0 \in S
  <2>1. Upto([i \in 0..0 |-> base], 0)
    OBVIOUS
  <2> QED
    BY <2>1
<1>2. ASSUME NEW m \in 0..(n - 1), m \in S PROVE m + 1 \in S
  <2>1. PICK f : Upto(f, m)
    BY <1>2
  <2> DEFINE g == [i \in 0..(m + 1) |-> IF i <= m THEN f[i] ELSE step[<<f[m], m + 1>>]]
  <2>2. f[m] \in D /\ m + 1 \in 1..n
    BY <2>1
  <2>3. step[<<f[m], m + 1>>] \in D
    BY <2>2
  <2>4. g \in [0..(m + 1) -> D] /\ g[0] = base
    BY <2>1, <2>3
  <2>5. ASSUME NEW i \in 1..(m + 1) PROVE g[i] = step[<<g[i - 1], i>>]
    <3>1. CASE i <= m
      <4>1. i \in 1..m /\ i \in 0..(m + 1) /\ i - 1 \in 0..(m + 1) /\ i - 1 <= m
        BY <3>1
      <4>2. g[i] = f[i] /\ g[i - 1] = f[i - 1]
        BY <3>1, <4>1
      <4> QED
        BY <2>1, <4>1, <4>2
    <3>2. CASE i = m + 1
      <4>1. ~(i <= m) /\ i \in 0..(m + 1) /\ i - 1 = m /\ m \in 0..(m + 1) /\ m <= m
        BY <3>2
      <4>2. g[i] = step[<<f[m], m + 1>>] /\ g[i - 1] = f[m]
        BY <4>1
      <4> QED
        BY <3>2, <4>2
    <3> QED
      BY <3>1, <3>2
  <2> HIDE DEF g
  <2> QED
    BY <2>4, <2>5
<1>3. n \in S
  <2> HIDE DEF S
  <2> QED
    BY <1>1, <1>2, Upward
<1>4. PICK f : Upto(f, n)
  BY <1>3
<1> QED
  BY <1>4 DEF Steps
=============================================================================
