--------------------------- MODULE NestReservation ---------------------------
(***************************************************************************)
(* The reservation endpoint of the NestJS implementation.  The statements  *)
(* are those of the FastAPI implementation, in the same order, on the same *)
(* schema and under the same write lock, so SqliteReservation supplies     *)
(* them; what differs is who executes them and how that breaks.            *)
(*                                                                         *)
(* Each connection is a worker thread.  A client that leaves cancels       *)
(* nothing; a worker may die at any moment, also between the COMMIT and    *)
(* its reply; a ROLLBACK may fail, and then its own error is thrown.       *)
(* WorkerTransaction has the pool and the messages behind this; here a     *)
(* death, its announcement and the release of the connection are one step. *)
(* `outcome` is "failed" for both rolled_back and failed.                  *)
(***************************************************************************)
EXTENDS SqliteReservation

-----------------------------------------------------------------------------
(* What is the same. *)

\* Primary.acquire and BEGIN IMMEDIATE.
OpenStep(a) ==
  \/ Arrive(a)
  \/ Connect(a) \/ ConnectFails(a)
  \/ BeginImmediate(a) \/ BeginFails(a)

\* The acquire may time out although a slot is free: a new connection is not
\* in the pool before its worker has answered a first query.
AcquireTimesOut(a) ==
  /\ stage[a] = "connect"
  /\ RaiseTo(a, "pool_timeout", "respond")
  /\ Record(a, "failed")
  /\ UNCHANGED <<request, pool, writer, db, work>>

\* findReplay and validateReplayInput.
ReplayStep(a) == FindReplay(a)

\* decreaseStock; only when it changed nothing, productExists.
StockStep(a) == DecreaseStock(a) \/ FindProduct(a)

\* saveReservation, then saveIdempotency.
SaveStep(a) == SaveReservation(a) \/ SaveIdempotency(a)

\* The body's error, or the COMMIT's, is followed by a ROLLBACK.
EndStep(a) ==
  \/ StatementFails(a)
  \/ Commit(a) \/ CommitFails(a)
  \/ Rollback(a)

AnswerStep(a) == Respond(a)

\* The seed command: another process, whose insert does nothing on conflict.
SeedOnce(p) == Seed(p)

-----------------------------------------------------------------------------
(* What differs. *)

\* Mutant: a failed ROLLBACK keeps the lock of its connection.
RollbackFailsOpen(a) ==
  /\ stage[a] = "rollback"
  /\ pool' = pool \ {a}
  /\ RaiseTo(a, "failed", "respond")
  /\ Record(a, "failed")
  /\ UNCHANGED <<request, writer, db, work>>

\* ROLLBACK fails: its error replaces the one being thrown, and the connection
\* is closed, which ends the transaction.
RollbackFails(a) ==
  /\ stage[a] = "rollback"
  /\ work' = db
  /\ Release(a)
  /\ RaiseTo(a, "failed", "respond")
  /\ Record(a, "failed")
  /\ UNCHANGED <<request, db>>

\* The worker dies while a query is under way.  SQLite drops its transaction,
\* unless the COMMIT was done and only the reply was lost; the pending query
\* and the ROLLBACK that follows are rejected with DatabaseWorkerFailed.
WorkerDies(a) ==
  /\ InTransaction(a)
  /\ db' = db \/ (stage[a] = "commit" /\ db' = work)
  /\ work' = db'
  /\ Release(a)
  /\ RaiseTo(a, "failed", "respond")
  /\ Record(a, "failed")
  /\ UNCHANGED request

NestNext ==
  \/ \E a \in Attempts :
       \/ OpenStep(a) \/ AcquireTimesOut(a)
       \/ ReplayStep(a) \/ StockStep(a) \/ SaveStep(a)
       \/ EndStep(a) \/ AnswerStep(a)
       \/ RollbackFails(a) \/ WorkerDies(a)
  \/ \E p \in Products : SeedOnce(p)
  \/ Crash

\* Three tables, empty.
NestInit == Init

NestSpec == NestInit /\ [][NestNext]_vars

-----------------------------------------------------------------------------
(* Properties: ImplementsContract and OutcomeIsTruthful, of NestSpec, and *)

\* Whatever dies or fails, nothing keeps the write lock or a connection for a
\* request that has ended: SQLite's one writer is always a running
\* transaction, and the next request can have the lock after it.
NothingIsAbandoned ==
  /\ writer # NoAttempt => InTransaction(writer)
  /\ writer = NoAttempt => work = db
  /\ pool = {a \in Attempts : stage[a] = "begin" \/ InTransaction(a)}
=============================================================================
