------------------------------ MODULE Filters -------------------------------
(* A filter by places: no step of it depends on the one before, so that what *)
(* it keeps can be counted.                                                 *)
EXTENDS Naturals, FiniteSets

(* What s has at the places of P, in the order of s. *)
Kept(s, P) ==
  [n \in 1 .. Cardinality(P) |-> s[CHOOSE i \in P : Cardinality({j \in P : j <= i}) = n]]
=============================================================================
