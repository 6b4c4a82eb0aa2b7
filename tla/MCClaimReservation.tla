-------------------------- MODULE MCClaimReservation --------------------------
(* Three attempts at two products under two keys.  Liveness is checked too, *)
(* so that symmetry is used by hand: attempts, keys and products can be     *)
(* renamed in any state, and every assignment of requests is a renaming of  *)
(* one that CanonicalInit leaves.                                           *)
EXTENDS ClaimReservation

CONSTANTS a1, a2, a3, k1, k2, p1, p2

ThreeAttempts == {a1, a2, a3}
TwoKeys == {k1, k2}
TwoProducts == {p1, p2}

\* One unit: the second key that wants the product meets the limit.
OneUnit == [p \in Products |-> 1]

CanonicalInit ==
  /\ Init
  /\ request[a1] = [key |-> k1, product |-> p1]
  /\ \/ request[a2] = request[a1]
     \/ /\ request[a2] = [key |-> k1, product |-> p2]
        /\ request[a3] = [key |-> k2, product |-> p1]

CanonicalSpec == CanonicalInit /\ [][Next]_vars /\ Fairness
=============================================================================
