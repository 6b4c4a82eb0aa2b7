------------------------------- MODULE MCStores -------------------------------
(* Stores with three attempts and products of one unit.                     *)
EXTENDS Stores, TLC

CONSTANTS a1, a2, a3, k1, k2, p1, p2

ThreeAttempts == {a1, a2, a3}
TwoKeys == {k1, k2}
TwoProducts == {p1, p2}

\* One unit: the second key that wants the product meets the limit.
OneUnit == [p \in Products |-> 1]

Symmetry ==
  Permutations(Attempts) \cup Permutations(Keys) \cup Permutations(Products)
=============================================================================
