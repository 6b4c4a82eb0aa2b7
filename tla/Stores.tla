-------------------------------- MODULE Stores --------------------------------
(***************************************************************************)
(* The two other implementations on SQLite, each a variation of            *)
(* SqliteReservation: a deployment is one of them.                         *)
(***************************************************************************)
EXTENDS FastcrudReservation

VARIABLE service   \* the implementation that is deployed; fixed

Nest == INSTANCE NestReservation

storesVars == <<fastcrudVars, service>>

\* Without soft deletion nothing is ever retired.
StoresInit == service \in {"fastcrud", "nest"} /\ FastcrudInit

StoresNext ==
  /\ \/ service = "fastcrud" /\ FastcrudNext
     \/ service = "nest" /\ Nest!NestNext /\ UNCHANGED retired
  /\ UNCHANGED service

StoresSpec == StoresInit /\ [][StoresNext]_storesVars

-----------------------------------------------------------------------------
\* Rows match, outcomes are true, and whatever dies or fails, no request that
\* has ended keeps the write lock or a connection; only in FastCRUD's process
\* can a COMMIT outlive its request.
StoresInv ==
  /\ FastcrudTypeOK
  /\ RowsMatch
  /\ OutcomeIsTruthful
  /\ service = "nest" => Nest!NothingIsAbandoned
=============================================================================
