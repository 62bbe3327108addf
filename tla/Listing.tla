------------------------------ MODULE Listing ------------------------------
(***************************************************************************)
(* Numbers in ascending order: the order in which a loop over the records  *)
(* or over a std::map meets its elements, and what std::sort makes of a    *)
(* vector.  An element's place is the number of those before it.           *)
(***************************************************************************)
EXTENDS Naturals, Sequences, FiniteSets

(* The elements of a set, the least first.                                 *)
InOrder(S) ==
  [k \in 1..Cardinality(S) |-> CHOOSE x \in S : Cardinality({y \in S : y < x}) = k - 1]

Ascending(s) == \A i, j \in 1..Len(s) : i <= j => s[i] <= s[j]

(* The places of s that come before place i once s is sorted.              *)
Before(s, i) == {j \in 1..Len(s) : s[j] < s[i] \/ (s[j] = s[i] /\ j < i)}

(* std::sort; a vector that is sorted stays as it is.                      *)
Sorted(s) ==
  IF Ascending(s) THEN s
  ELSE [k \in 1..Len(s) |-> s[CHOOSE i \in 1..Len(s) : Cardinality(Before(s, i)) = k - 1]]
=============================================================================
