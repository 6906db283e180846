------------------------------ MODULE Ordering ------------------------------
(***************************************************************************)
(* Hashes and ids are numbers here; what the code keeps in a std::map, or  *)
(* sorts, it reads in their order.                                         *)
(***************************************************************************)
EXTENDS Integers, FiniteSets

\* How many elements of S come before x.
Rank(S, x) == Cardinality({y \in S : y < x})

\* The numbers of the set S as a sequence, the smallest first.
InOrder(S) == [i \in 1..Cardinality(S) |-> CHOOSE x \in S : Rank(S, x) = i - 1]
=============================================================================
