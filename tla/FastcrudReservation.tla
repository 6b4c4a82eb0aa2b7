------------------------- MODULE FastcrudReservation -------------------------
(***************************************************************************)
(* The reservation endpoint of the FastCRUD implementation.  Its sessions, *)
(* transactions and answers are those of the FastAPI implementation (the   *)
(* same code in another package), so SqliteReservation supplies them; its  *)
(* products can be soft-deleted, which changes three statements.           *)
(*                                                                         *)
(* Nothing in the package deletes a product yet: FastCRUD's delete takes   *)
(* part in a caller's transaction, as the tests call it.                   *)
(***************************************************************************)
EXTENDS SqliteReservation

VARIABLE retired   \* products whose committed row is marked is_deleted

fastcrudVars == <<vars, retired>>

FastcrudInit ==
  /\ Init
  /\ retired = {}

OnSale(a) == ProductOf(a) \notin retired

-----------------------------------------------------------------------------
(* The steps that do not look at is_deleted. *)

\* The session is opened, connected and begun.
OpenStep(a) ==
  \/ Arrive(a)
  \/ Connect(a) \/ ConnectFails(a)
  \/ BeginImmediate(a) \/ BeginFails(a)

\* idempotency_crud.get comes before any look at the product.
ReplayStep(a) == FindReplay(a)

\* reservation_crud.create and idempotency_crud.create, commit=False.
SaveStep(a) == SaveReservation(a) \/ SaveIdempotency(a)

\* The end of @transactional, after success or failure.
EndStep(a) ==
  \/ StatementFails(a)
  \/ Commit(a) \/ CommitFails(a) \/ CommitCancelled(a)
  \/ Rollback(a)

AnswerStep(a) == Respond(a)

-----------------------------------------------------------------------------
(* The steps that do. *)

\* decrement_stock_if_available: a deleted row does not match the UPDATE.
DecrementStock(a) ==
  \/ OnSale(a) /\ DecreaseStock(a)
  \/ /\ ~OnSale(a)
     /\ stage[a] = "decrease"
     /\ Goto(a, "find_product")
     /\ UNCHANGED <<request, result, outcome, pool, writer, db, work>>

\* Mutant: a deleted product is looked up like any other.
FindAnyProduct(a) == FindProduct(a)

\* product_crud.get with is_deleted=False, then validate_product_exists.
FindActiveProduct(a) ==
  \/ OnSale(a) /\ FindProduct(a)
  \/ /\ ~OnSale(a)
     /\ stage[a] = "find_product"
     /\ RaiseTo(a, "not_found", "rollback")
     /\ UNCHANGED <<request, outcome, pool, writer, db, work>>

\* ON CONFLICT DO NOTHING leaves an existing row, deleted or not, as it is; of
\* a deleted one the command then says "not found" and its transaction, which
\* changed nothing, is rolled back.
SeedIfAbsent(p) ==
  /\ Seed(p)
  /\ UNCHANGED retired

-----------------------------------------------------------------------------
(* The rest of the system. *)

\* product_crud.delete(commit=False) in a transaction of another caller, which
\* needs the write lock like everybody.
Retire(p) ==
  /\ writer = NoAttempt
  /\ p \in db.listed \ retired
  /\ retired' = retired \cup {p}
  /\ UNCHANGED vars

FastcrudNext ==
  \/ /\ \E a \in Attempts :
          \/ OpenStep(a) \/ ReplayStep(a) \/ DecrementStock(a)
          \/ FindActiveProduct(a) \/ SaveStep(a) \/ EndStep(a) \/ AnswerStep(a)
     /\ UNCHANGED retired
  \/ \E p \in Products : SeedIfAbsent(p) \/ Retire(p)
  \/ DriverFinishes /\ UNCHANGED retired
  \/ Crash /\ UNCHANGED retired

FastcrudSpec == FastcrudInit /\ [][FastcrudNext]_fastcrudVars

-----------------------------------------------------------------------------
(* Properties *)

FastcrudTypeOK ==
  /\ TypeOK
  /\ retired \in SUBSET db.listed

RetirableContract == INSTANCE RetirableContract WITH
  listed <- db.listed,
  available <- db.available,
  ledger <- db.replay,
  decision <- Decision

\* A key that was bound before its product was deleted is still replayed, a
\* new key of a deleted product is told PRODUCT_NOT_FOUND and never SOLD_OUT,
\* and everything else is the reservation contract, whenever the deletion
\* falls between the statements of the attempts in flight.
ImplementsRetirableContract == RetirableContract!RetirableSpec

=============================================================================
