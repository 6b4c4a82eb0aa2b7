-------------------------- MODULE MCRailsReservation --------------------------
(* Two requests in one worker process and one in another.  Liveness is      *)
(* checked too, so that symmetry is used by hand.                           *)
EXTENDS RailsReservation

CONSTANTS a1, a2, a3, p1, p2, w1, w2

ThreeAttempts == {a1, a2, a3}
TwoProducts == {p1, p2}
TwoProcesses == {w1, w2}
MCStock == [p \in Products |-> IF p = p1 THEN 2 ELSE 1]

CanonicalInit ==
  /\ Init
  /\ process[a1] = w1 /\ process[a2] = w1 /\ process[a3] = w2
  /\ product[a1] = p1 \/ product[a2] = p2

CanonicalSpec == CanonicalInit /\ [][Next]_vars /\ Fairness
=============================================================================
