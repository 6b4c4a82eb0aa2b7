-------------------------- MODULE SqliteReservation --------------------------
(***************************************************************************)
(* The reservation endpoint of the FastAPI implementation: many requests   *)
(* in one process, a bounded connection pool, one SQLite file with one     *)
(* writer at a time (BEGIN IMMEDIATE), one action per SQL statement.       *)
(*                                                                         *)
(* An attempt is one call of the @transactional service `reserve`.  Its    *)
(* stage is the await it is suspended at.  Anything may happen to an       *)
(* attempt at an await: an error of the statement, a cancellation, the     *)
(* death of the process, a client that goes away before the answer.        *)
(* A retry is another attempt under the same key.                          *)
(***************************************************************************)
EXTENDS Integers, FiniteSets

CONSTANTS Attempts, Keys, Products, InitialStock, NoAttempt,
          PoolLimit    \* DB_POOL_SIZE + DB_POOL_MAX_OVERFLOW

ASSUME SqliteAssumption ==
  /\ IsFiniteSet(Keys)
  /\ InitialStock \in [Products -> Nat]
  /\ NoAttempt \notin Attempts
  /\ PoolLimit \in Nat \ {0}

VARIABLES
  request,  \* what each attempt asks for; fixed
  stage,    \* the await each attempt is suspended at
  result,   \* the value or the error an attempt carries to its caller
  outcome,  \* the transaction metric recorded for an attempt
  pool,     \* attempts that hold a pooled connection
  writer,   \* the attempt that holds SQLite's write lock
  db,       \* the committed tables
  work      \* the tables as the writer's transaction sees them

vars == <<request, stage, result, outcome, pool, writer, db, work>>

-----------------------------------------------------------------------------
Requests == [key: Keys, product: Products]
KeyOf(a) == request[a].key
ProductOf(a) == request[a].product

\* The three tables: products (the rows present, and what each has left),
\* reservations (their ids) and idempotency_keys (key -> reservation id).
Tables ==
  [listed: SUBSET Products,
   available: [Products -> Int],
   reservations: SUBSET Attempts,
   replay: [Keys -> Attempts \cup {NoAttempt}]]

Statements ==
  {"find_replay", "decrease", "find_product", "save_reservation", "save_key"}
Stages ==
  {"new", "connect", "begin", "commit", "rollback", "respond",
   "answered", "lost"} \cup Statements

InTransaction(a) == stage[a] \in Statements \cup {"commit", "rollback"}
InFlight(a) == stage[a] \notin {"new", "answered", "lost"}

\* A COMMIT is being executed: for the attempt that waits for it, or, once
\* that attempt was cancelled, by the driver's thread alone.
Abandoned == writer # NoAttempt /\ ~InTransaction(writer)
CommitPending == Abandoned \/ \E a \in Attempts : stage[a] = "commit"

CleanRefusals == {"conflict", "sold_out", "not_found", "busy", "pool_timeout"}
Results ==
  [kind: {"undecided", "created", "replayed", "failed"} \cup CleanRefusals,
   reservation: Attempts \cup {NoAttempt}]

NoResult == [kind |-> "undecided", reservation |-> NoAttempt]
Created(a) == [kind |-> "created", reservation |-> a]
Replayed(b) == [kind |-> "replayed", reservation |-> b]
Raised(kind) == [kind |-> kind, reservation |-> NoAttempt]

TypeOK ==
  /\ request \in [Attempts -> Requests]
  /\ stage \in [Attempts -> Stages]
  /\ result \in [Attempts -> Results]
  /\ outcome \in [Attempts -> {"none", "committed", "failed"}]
  /\ pool \in SUBSET Attempts
  /\ writer \in Attempts \cup {NoAttempt}
  /\ db \in Tables
  /\ work \in Tables

EmptyTables ==
  [listed |-> {}, available |-> InitialStock, reservations |-> {},
   replay |-> [k \in Keys |-> NoAttempt]]

Init ==
  /\ request \in [Attempts -> Requests]
  /\ stage = [a \in Attempts |-> "new"]
  /\ result = [a \in Attempts |-> NoResult]
  /\ outcome = [a \in Attempts |-> "none"]
  /\ pool = {}
  /\ writer = NoAttempt
  /\ db = EmptyTables
  /\ work = EmptyTables

-----------------------------------------------------------------------------
(* Control: where an attempt goes next. *)

Goto(a, s) == stage' = [stage EXCEPT ![a] = s]

\* `reserve` raises: the error travels out of `async with session.begin()`.
RaiseTo(a, kind, s) ==
  /\ result' = [result EXCEPT ![a] = Raised(kind)]
  /\ Goto(a, s)

Record(a, o) == outcome' = [outcome EXCEPT ![a] = o]

\* The session ends its transaction: lock and connection go back.
Release(a) ==
  /\ writer' = NoAttempt
  /\ pool' = pool \ {a}

\* A request arrives: a session is opened and its transaction begun; the
\* connection is asked for explicitly, before the first SQL.
Arrive(a) ==
  /\ stage[a] = "new"
  /\ Goto(a, "connect")
  /\ UNCHANGED <<request, result, outcome, pool, writer, db, work>>

Connect(a) ==
  /\ stage[a] = "connect"
  /\ Cardinality(pool) < PoolLimit
  /\ pool' = pool \cup {a}
  /\ Goto(a, "begin")
  /\ UNCHANGED <<request, result, outcome, writer, db, work>>

\* The pool stayed full for pool_timeout: DatabasePoolTimeout, 503.  An
\* attempt that fails at this stage for another reason holds nothing either.
ConnectFails(a) ==
  /\ stage[a] = "connect"
  /\ \/ Cardinality(pool) >= PoolLimit /\ RaiseTo(a, "pool_timeout", "respond")
     \/ RaiseTo(a, "failed", "respond")
  /\ Record(a, "failed")
  /\ UNCHANGED <<request, pool, writer, db, work>>

\* Mutant: a deferred BEGIN waits for nobody.
BeginDeferred(a) ==
  /\ stage[a] = "begin"
  /\ writer' = a
  /\ Goto(a, "find_replay")
  /\ UNCHANGED <<request, result, outcome, pool, db, work>>

\* BEGIN IMMEDIATE: the write lock is taken before the first read.
BeginImmediate(a) ==
  /\ stage[a] = "begin"
  /\ writer = NoAttempt
  /\ writer' = a
  /\ Goto(a, "find_replay")
  /\ UNCHANGED <<request, result, outcome, pool, db, work>>

\* Mutant: a BEGIN that failed is tried again for ever.
BeginRetries(a) ==
  /\ stage[a] = "begin"
  /\ Goto(a, "connect")
  /\ pool' = pool \ {a}
  /\ UNCHANGED <<request, result, outcome, writer, db, work>>

\* The busy timeout ran out while another writer held the lock, or BEGIN
\* failed otherwise: the connection is checked in, no transaction was begun.
BeginFails(a) ==
  /\ stage[a] = "begin"
  /\ \/ writer # NoAttempt /\ RaiseTo(a, "busy", "respond")
     \/ RaiseTo(a, "failed", "respond")
  /\ Record(a, "failed")
  /\ pool' = pool \ {a}
  /\ UNCHANGED <<request, writer, db, work>>

-----------------------------------------------------------------------------
(* The statements of `reserve`, in the writer's transaction. *)

FindReplay(a) ==
  LET first == work.replay[KeyOf(a)]
  IN  /\ stage[a] = "find_replay"
      /\ \/ /\ first = NoAttempt
            /\ Goto(a, "decrease")
            /\ UNCHANGED result
         \/ /\ first # NoAttempt
            /\ ProductOf(first) = ProductOf(a)
            /\ result' = [result EXCEPT ![a] = Replayed(first)]
            /\ Goto(a, "commit")
         \/ /\ first # NoAttempt
            /\ ProductOf(first) # ProductOf(a)
            /\ RaiseTo(a, "conflict", "rollback")
      /\ UNCHANGED <<request, outcome, pool, writer, db, work>>

\* The tables t after the UPDATE, and after each INSERT, of attempt a.
InStock(t, p) == p \in t.listed /\ t.available[p] > 0
Decreased(t, a) == [t EXCEPT !.available[ProductOf(a)] = @ - 1]
Reserved(t, a) == [t EXCEPT !.reservations = @ \cup {a}]

Bound(t, a) == [t EXCEPT !.replay[KeyOf(a)] = a]

DecreaseStock(a) ==
  /\ stage[a] = "decrease"
  /\ \/ /\ InStock(work, ProductOf(a))
        /\ work' = Decreased(work, a)
        /\ Goto(a, "save_reservation")
     \/ /\ ~InStock(work, ProductOf(a))
        /\ Goto(a, "find_product")
        /\ UNCHANGED work
  /\ UNCHANGED <<request, result, outcome, pool, writer, db>>

FindProduct(a) ==
  /\ stage[a] = "find_product"
  /\ \/ ProductOf(a) \in work.listed /\ RaiseTo(a, "sold_out", "rollback")
     \/ ProductOf(a) \notin work.listed /\ RaiseTo(a, "not_found", "rollback")
  /\ UNCHANGED <<request, outcome, pool, writer, db, work>>

SaveReservation(a) ==
  /\ stage[a] = "save_reservation"
  /\ work' = Reserved(work, a)
  /\ Goto(a, "save_key")
  /\ UNCHANGED <<request, result, outcome, pool, writer, db>>

\* Mutant: the outcome is recorded when the service returns, before COMMIT.
SaveIdempotencyRecording(a) ==
  /\ stage[a] = "save_key"
  /\ work' = Bound(work, a)
  /\ result' = [result EXCEPT ![a] = Created(a)]
  /\ Record(a, "committed")
  /\ Goto(a, "commit")
  /\ UNCHANGED <<request, pool, writer, db>>

SaveIdempotency(a) ==
  /\ stage[a] = "save_key"
  /\ work' = Bound(work, a)
  /\ result' = [result EXCEPT ![a] = Created(a)]
  /\ Goto(a, "commit")
  /\ UNCHANGED <<request, outcome, pool, writer, db>>

\* Mutant: a failure that is swallowed lets the transaction commit.
StatementFailureSwallowed(a) ==
  /\ stage[a] \in Statements
  /\ RaiseTo(a, "failed", "commit")
  /\ UNCHANGED <<request, outcome, pool, writer, db, work>>

\* A statement fails, or the task is cancelled at its await.
StatementFails(a) ==
  /\ stage[a] \in Statements
  /\ RaiseTo(a, "failed", "rollback")
  /\ UNCHANGED <<request, outcome, pool, writer, db, work>>

-----------------------------------------------------------------------------
(* The end of the transaction. *)

Commit(a) ==
  /\ stage[a] = "commit"
  /\ db' = work
  /\ Release(a)
  /\ Record(a, "committed")
  /\ Goto(a, "respond")
  /\ UNCHANGED <<request, result, work>>

\* COMMIT is refused (a reader holds the file, or an I/O error): SQLAlchemy
\* rolls back, and the caller is told busy or failed.
CommitFails(a) ==
  /\ stage[a] = "commit"
  /\ \E kind \in {"busy", "failed"} : RaiseTo(a, kind, "rollback")
  /\ UNCHANGED <<request, outcome, pool, writer, db, work>>

\* Mutant: a cancelled COMMIT is reported as if nothing could have happened.
CommitCancelledAsBusy(a) ==
  /\ stage[a] = "commit"
  /\ RaiseTo(a, "busy", "respond")
  /\ pool' = pool \ {a}
  /\ Record(a, "failed")
  /\ UNCHANGED <<request, writer, db, work>>

\* The task is cancelled while COMMIT runs in the driver's thread: the service
\* ends with an error and gives its connection up, and the thread goes on.
CommitCancelled(a) ==
  /\ stage[a] = "commit"
  /\ RaiseTo(a, "failed", "respond")
  /\ pool' = pool \ {a}
  /\ Record(a, "failed")
  /\ UNCHANGED <<request, writer, db, work>>

Rollback(a) ==
  /\ stage[a] = "rollback"
  /\ work' = db
  /\ Release(a)
  /\ Record(a, "failed")
  /\ Goto(a, "respond")
  /\ UNCHANGED <<request, result, db>>

\* The answer reaches the client, or does not.
Respond(a) ==
  /\ stage[a] = "respond"
  /\ \E s \in {"answered", "lost"} : Goto(a, s)
  /\ UNCHANGED <<request, result, outcome, pool, writer, db, work>>

-----------------------------------------------------------------------------
(* The rest of the system. *)

\* The seed command, another process: its transaction holds the same write
\* lock.  An existing row is left as it is.
Seed(p) ==
  /\ writer = NoAttempt
  /\ p \notin db.listed
  /\ db' = [db EXCEPT !.listed = @ \cup {p}]
  /\ work' = db'
  /\ UNCHANGED <<request, stage, result, outcome, pool, writer>>

\* The driver's thread ends a COMMIT nobody waits for, one way or the other,
\* and closes the connection.
DriverFinishes ==
  /\ Abandoned
  /\ db' \in {db, work}
  /\ work' = db'
  /\ writer' = NoAttempt
  /\ UNCHANGED <<request, stage, result, outcome, pool>>

\* The process dies and is restarted on the same file.  Nobody in flight gets
\* an answer; SQLite's journal decides a COMMIT that was being written.
Crash ==
  /\ Abandoned \/ \E a \in Attempts : InFlight(a)
  /\ stage' = [a \in Attempts |-> IF InFlight(a) THEN "lost" ELSE stage[a]]
  /\ db' = db \/ (CommitPending /\ db' = work)
  /\ work' = db'
  /\ writer' = NoAttempt
  /\ pool' = {}
  /\ UNCHANGED <<request, result, outcome>>

Advance(a) ==
  \/ Connect(a) \/ ConnectFails(a) \/ BeginImmediate(a) \/ BeginFails(a)
  \/ FindReplay(a) \/ DecreaseStock(a) \/ FindProduct(a)
  \/ SaveReservation(a) \/ SaveIdempotency(a) \/ StatementFails(a)
  \/ Commit(a) \/ CommitFails(a) \/ CommitCancelled(a) \/ Rollback(a)
  \/ Respond(a)

Next ==
  \/ \E a \in Attempts : Arrive(a) \/ Advance(a)
  \/ \E p \in Products : Seed(p)
  \/ DriverFinishes
  \/ Crash

Spec == Init /\ [][Next]_vars

\* What the event loop and the driver owe an attempt: a free connection or the
\* pool timeout, a free lock or the busy timeout, the end of every statement.
\* No error and no cancellation is owed to anybody.
Progress(a) ==
  \/ Connect(a) \/ BeginImmediate(a)
  \/ (ConnectFails(a) \/ BeginFails(a)) /\ result'[a] # Raised("failed")
  \/ FindReplay(a) \/ DecreaseStock(a) \/ FindProduct(a)
  \/ SaveReservation(a) \/ SaveIdempotency(a)
  \/ Commit(a) \/ Rollback(a) \/ Respond(a)

Fairness ==
  /\ \A a \in Attempts : WF_vars(Progress(a))
  /\ WF_vars(DriverFinishes)

FairSpec == Spec /\ Fairness

-----------------------------------------------------------------------------
(* Properties *)

\* What the tables and the ended attempts amount to, seen as the contract's
\* state.  An attempt is decided when its transaction has ended in the
\* database; one whose COMMIT was abandoned is decided with that COMMIT.
Decision ==
  [a \in Attempts |->
     IF outcome[a] = "none" \/ writer = a THEN NoResult ELSE result[a]]

Contract == INSTANCE ReservationContract WITH
  listed <- db.listed,
  available <- db.available,
  ledger <- db.replay,
  decision <- Decision

\* The service keeps the contract: whatever interleaving, crash, timeout or
\* cancellation, every attempt takes effect atomically and is told the truth.
ImplementsContract == Contract!Spec

\* Every reservation row is reachable through exactly one key row and every
\* key row names a reservation made under that key: the two inserts of a
\* transaction are never separated, and no key is bound twice.
RowsMatch ==
  /\ db.reservations = {db.replay[k] : k \in Keys} \ {NoAttempt}
  /\ \A k \in Keys : db.replay[k] # NoAttempt => KeyOf(db.replay[k]) = k

\* The metric says "committed" exactly for the attempts that return a
\* reservation, and that reservation is already on disk when the answer is
\* sent: commit happens before the response.
OutcomeIsTruthful ==
  \A a \in Attempts :
     /\ stage[a] \in {"respond", "answered"} =>
          (outcome[a] = "committed" <=> result[a].kind \in {"created", "replayed"})
     /\ outcome[a] = "committed" =>
          db.replay[KeyOf(a)] = result[a].reservation

\* A statement runs, and an uncommitted change exists, only under the write
\* lock; an attempt inside a transaction, or waiting to begin one, accounts
\* for exactly one pooled connection.
LockAndPoolMatch ==
  /\ \A a \in Attempts : InTransaction(a) => writer = a
  /\ work # db => writer # NoAttempt
  /\ pool = {a \in Attempts : stage[a] = "begin" \/ InTransaction(a)}
  /\ Cardinality(pool) <= PoolLimit

\* Every attempt that arrived is answered or lost: no wait for a connection or
\* for the write lock lasts for ever.
EveryAttemptEnds ==
  \A a \in Attempts : stage[a] = "connect" ~> stage[a] \in {"answered", "lost"}

-----------------------------------------------------------------------------
(* The inductive invariant behind the safety properties. *)

\* The tables a whole transaction of a turns t into.
Reservation(t, a) == Bound(Reserved(Decreased(t, a), a), a)

FreshKey(a) == db.replay[KeyOf(a)] = NoAttempt

\* What a COMMIT of a would make durable: the whole reservation, or nothing.
CommitReady(a) ==
  \/ work = db
  \/ FreshKey(a) /\ InStock(db, ProductOf(a)) /\ work = Reservation(db, a)

\* ... and what a will then tell its caller.
CommitView(a) ==
  LET first == db.replay[KeyOf(a)]
  IN  \/ /\ work = db
         /\ first # NoAttempt
         /\ ProductOf(first) = ProductOf(a)
         /\ result[a] = Replayed(first)
      \/ /\ FreshKey(a)
         /\ InStock(db, ProductOf(a))
         /\ work = Reservation(db, a)
         /\ result[a] = Created(a)

\* Why a is rolling back; a refusal is still true of the committed tables.
RollbackView(a) ==
  \/ result[a] \in {Raised("busy"), Raised("failed")}
  \/ /\ result[a] = Raised("conflict")
     /\ ~FreshKey(a)
     /\ ProductOf(db.replay[KeyOf(a)]) # ProductOf(a)
  \/ /\ result[a] = Raised("sold_out")
     /\ FreshKey(a)
     /\ ProductOf(a) \in db.listed
     /\ ~InStock(db, ProductOf(a))
  \/ /\ result[a] = Raised("not_found")
     /\ FreshKey(a)
     /\ ProductOf(a) \notin db.listed

\* Between its statements the writer sees the committed tables and its own
\* writes so far, and what it read stays true until its transaction ends.
WriterView(a) ==
  /\ stage[a] \in {"find_replay", "decrease", "find_product"} => work = db
  /\ stage[a] \in {"decrease", "find_product", "save_reservation", "save_key"}
       => FreshKey(a)
  /\ stage[a] = "find_product" => ~InStock(db, ProductOf(a))
  /\ stage[a] = "save_reservation" =>
       InStock(db, ProductOf(a)) /\ work = Decreased(db, a)
  /\ stage[a] = "save_key" =>
       InStock(db, ProductOf(a)) /\ work = Reserved(Decreased(db, a), a)
  /\ stage[a] = "commit" => CommitView(a)
  /\ stage[a] = "rollback" => RollbackView(a)
  /\ ~InTransaction(a) =>
       /\ CommitReady(a)
       /\ result[a] = Raised("failed")
       /\ outcome[a] = "failed"
       /\ stage[a] \in {"respond", "answered", "lost"}
       /\ a \notin db.reservations

\* An attempt that is still running has left no trace; one that ended has
\* been recorded, and its outcome fits its result.
History(a) ==
  /\ stage[a] \in {"new", "connect", "begin"} \/ InTransaction(a) =>
       outcome[a] = "none" /\ a \notin db.reservations
  /\ stage[a] \in {"respond", "answered"} => outcome[a] # "none"
  /\ outcome[a] = "failed" => result[a].kind \in CleanRefusals \cup {"failed"}
  /\ outcome[a] = "committed" =>
       result[a].kind \in {"created", "replayed"} /\ result[a].reservation # NoAttempt

NeverNegative == \A p \in Products : db.available[p] >= 0

\* Nothing the properties above rest on is left out: each action preserves
\* their conjunction with the writer's view and the attempts' histories.
IInv ==
  /\ TypeOK
  /\ NeverNegative
  /\ RowsMatch
  /\ OutcomeIsTruthful
  /\ LockAndPoolMatch
  /\ IsFiniteSet(pool)
  /\ writer # NoAttempt => WriterView(writer)
  /\ \A a \in Attempts : History(a)
=============================================================================
