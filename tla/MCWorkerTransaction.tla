-------------------------- MODULE MCWorkerTransaction --------------------------
(* Two runs on a pool of two workers, of which one may be replaced. *)
EXTENDS WorkerTransaction

CONSTANTS r1, r2

TwoRequests == {r1, r2}
ThreeConnections == 1..3
=============================================================================
