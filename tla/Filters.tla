------------------------------ MODULE Filters ------------------------------
(***************************************************************************)
(* JavaScript's filter on a list, by the places it keeps and without       *)
(* recursion, so that its users can be reasoned about.                     *)
(***************************************************************************)
EXTENDS Integers, FiniteSets

\* The k-th of the places kept.
Kth(places, k) == CHOOSE i \in places : Cardinality({j \in places : j <= i}) = k

AtPlaces(list, places) == [k \in 1..Cardinality(places) |-> list[Kth(places, k)]]
=============================================================================
