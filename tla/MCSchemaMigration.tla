-------------------------- MODULE MCSchemaMigration --------------------------
(* Three processes and a file of two products. *)
EXTENDS SchemaMigration, TLC

CONSTANTS p1, p2, p3, a, b

ThreeProcesses == {p1, p2, p3}
TwoProducts == {a, b}

Symmetry == Permutations(Processes) \cup Permutations(Products)
=============================================================================
