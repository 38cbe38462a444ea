----------------------------- MODULE Subsequences -----------------------------
(* What is left of a sequence at some of its places, in its order.         *)
EXTENDS Naturals, Sequences, FiniteSets

(* The n-th of a finite set of places.                                     *)
Place(places, n) ==
  CHOOSE i \in places : Cardinality({j \in places : j <= i}) = n

AtPlaces(s, places) == [n \in 1 .. Cardinality(places) |-> s[Place(places, n)]]

=============================================================================
