------------------------------ MODULE Ordering -------------------------------
(***************************************************************************)
(* Sorting: the elements of a finite set in a strict total order.  The     *)
(* code sorts records by their identities, which are unique, or positions  *)
(* by a key that ends in the position itself.                              *)
(***************************************************************************)
EXTENDS Naturals, FiniteSets

(* At each place the element that has as many before it as the place has.  *)
Arranged(S, Before(_, _)) ==
    [r \in 1..Cardinality(S) |-> CHOOSE x \in S : Cardinality({y \in S : Before(y, x)}) = r - 1]
=============================================================================
