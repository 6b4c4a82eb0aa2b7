-------------------------- MODULE MCRetryingClient --------------------------
(* A small instance of RetryingClient: two clients race for a single unit. *)
EXTENDS RetryingClient, TLC

CONSTANTS c1, c2, k1, k2, p1, p2

MCClients == {c1, c2}

MCAttempts == MCClients \X (1..MaxTries)

MCKeys == {k1, k2}

MCProducts == {p1, p2}

MCStock == [p \in MCProducts |-> 1]

Symmetry == Permutations(MCClients) \cup Permutations(MCKeys) \cup Permutations(MCProducts)
=============================================================================
