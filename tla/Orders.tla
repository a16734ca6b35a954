------------------------------- MODULE Orders -------------------------------
(***************************************************************************)
(* Sorting and selecting.  An order is a set of pairs, and so a value a    *)
(* theorem can speak of, where the comparison of SetToSortSeq is an        *)
(* operator.                                                               *)
(***************************************************************************)
EXTENDS Integers, Sequences, FiniteSets

\* The members of a finite set in their order, a set of pairs.
InOrder(S, order) ==
  [k \in 1 .. Cardinality(S) |->
     CHOOSE x \in S : Cardinality({y \in S : <<y, x>> \in order}) = k - 1]

\* The elements of a sequence at some of its places.
Sublist(s, places) ==
  LET order == InOrder(places, {p \in places \X places : p[1] < p[2]})
  IN  [k \in DOMAIN order |-> s[order[k]]]
=============================================================================
