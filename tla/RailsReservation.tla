--------------------------- MODULE RailsReservation ---------------------------
(***************************************************************************)
(* POST /v1/reservations of the Rails implementation: Puma threads in      *)
(* several worker processes, each process with its own Active Record pool, *)
(* and one SQLite file whose transactions begin with the write lock        *)
(* (IMMEDIATE).  There are no idempotency keys: every request that         *)
(* succeeds is a reservation of its own.                                   *)
(***************************************************************************)
EXTENDS Integers, FiniteSets

CONSTANTS Attempts, Products, InitialStock, NoAttempt,
          Processes,   \* WEB_CONCURRENCY workers
          PoolLimit    \* max_connections of each process

ASSUME RailsAssumption ==
  /\ IsFiniteSet(Attempts)
  /\ InitialStock \in [Products -> Nat]
  /\ NoAttempt \notin Attempts
  /\ PoolLimit \in Nat \ {0}

VARIABLES
  product,   \* what each attempt asks for; fixed
  process,   \* the worker process that serves it; fixed
  stage,     \* the statement its thread is in
  result,    \* the result or the exception it carries
  writer,    \* the attempt whose transaction holds SQLite's write lock
  db,        \* the committed tables
  work       \* the tables as the writer sees them

vars == <<product, process, stage, result, writer, db, work>>

-----------------------------------------------------------------------------
Tables ==
  [listed: SUBSET Products,
   stock: [Products -> Int],
   reservations: SUBSET Attempts]

InTransaction == {"decrement", "exists", "create", "commit", "rollback"}
HoldsConnection == {"begin"} \cup InTransaction
Ended == {"respond", "answered", "lost"}

Kinds == {"undecided", "created", "sold_out", "not_found", "busy", "pool_timeout", "failed"}
NoResult == [kind |-> "undecided", reservation |-> NoAttempt]
Raised(kind) == [kind |-> kind, reservation |-> NoAttempt]

TypeOK ==
  /\ product \in [Attempts -> Products]
  /\ process \in [Attempts -> Processes]
  /\ stage \in [Attempts -> {"new", "connect"} \cup HoldsConnection \cup Ended]
  /\ result \in [Attempts -> [kind: Kinds, reservation: Attempts \cup {NoAttempt}]]
  /\ writer \in Attempts \cup {NoAttempt}
  /\ db \in Tables /\ work \in Tables

Init ==
  /\ product \in [Attempts -> Products]
  /\ process \in [Attempts -> Processes]
  /\ stage = [a \in Attempts |-> "new"]
  /\ result = [a \in Attempts |-> NoResult]
  /\ writer = NoAttempt
  /\ db = [listed |-> {}, stock |-> InitialStock, reservations |-> {}]
  /\ work = db

-----------------------------------------------------------------------------
Goto(a, s) == stage' = [stage EXCEPT ![a] = s]
Raise(a, kind, s) == result' = [result EXCEPT ![a] = Raised(kind)] /\ Goto(a, s)
InUse(w) == {b \in Attempts : process[b] = w /\ stage[b] \in HoldsConnection}

Arrive(a) ==
  /\ stage[a] = "new"
  /\ Goto(a, "connect")
  /\ UNCHANGED <<product, process, result, writer, db, work>>

Connect(a) ==
  /\ stage[a] = "connect"
  /\ Cardinality(InUse(process[a])) < PoolLimit
  /\ Goto(a, "begin")
  /\ UNCHANGED <<product, process, result, writer, db, work>>

\* ActiveRecord::ConnectionTimeoutError becomes PoolTimeout.
ConnectFails(a) ==
  /\ stage[a] = "connect"
  /\ \/ Cardinality(InUse(process[a])) >= PoolLimit /\ Raise(a, "pool_timeout", "respond")
     \/ Raise(a, "failed", "respond")
  /\ UNCHANGED <<product, process, writer, db, work>>

\* The first statement begins the transaction, with the write lock.
Begin(a) ==
  /\ stage[a] = "begin"
  /\ writer = NoAttempt
  /\ writer' = a
  /\ Goto(a, "decrement")
  /\ UNCHANGED <<product, process, result, db, work>>

\* Mutant: a BEGIN that failed is tried again for ever.
BeginRetries(a) ==
  /\ stage[a] = "begin"
  /\ Goto(a, "connect")
  /\ UNCHANGED <<product, process, result, writer, db, work>>

\* SQLite3::BusyException after the busy timeout becomes Busy.
BeginFails(a) ==
  /\ stage[a] = "begin"
  /\ \/ writer # NoAttempt /\ Raise(a, "busy", "respond")
     \/ Raise(a, "failed", "respond")
  /\ UNCHANGED <<product, process, writer, db, work>>

-----------------------------------------------------------------------------
(* The block of Reservation.transaction. *)

\* Mutant: the UPDATE does not look at the stock.
DecrementAnyway(a) ==
  LET p == product[a]
  IN  /\ stage[a] = "decrement"
      /\ IF p \in work.listed
           THEN work' = [work EXCEPT !.stock[p] = @ - 1] /\ Goto(a, "create")
           ELSE UNCHANGED work /\ Goto(a, "exists")
      /\ UNCHANGED <<product, process, result, writer, db>>

DecrementStock(a) ==
  LET p == product[a]
  IN  /\ stage[a] = "decrement"
      /\ IF p \in work.listed /\ work.stock[p] > 0
           THEN work' = [work EXCEPT !.stock[p] = @ - 1] /\ Goto(a, "create")
           ELSE UNCHANGED work /\ Goto(a, "exists")
      /\ UNCHANGED <<product, process, result, writer, db>>

ProductExists(a) ==
  /\ stage[a] = "exists"
  /\ Raise(a, IF product[a] \in work.listed THEN "sold_out" ELSE "not_found", "rollback")
  /\ UNCHANGED <<product, process, writer, db, work>>

CreateReservation(a) ==
  /\ stage[a] = "create"
  /\ work' = [work EXCEPT !.reservations = @ \cup {a}]
  /\ result' = [result EXCEPT ![a] = [kind |-> "created", reservation |-> a]]
  /\ Goto(a, "commit")
  /\ UNCHANGED <<product, process, writer, db>>

\* A statement raises; DatabaseErrors.translate tells busy from the rest.
StatementFails(a) ==
  /\ stage[a] \in {"decrement", "exists", "create"}
  /\ \E kind \in {"busy", "failed"} : Raise(a, kind, "rollback")
  /\ UNCHANGED <<product, process, writer, db, work>>

Commit(a) ==
  /\ stage[a] = "commit"
  /\ db' = work
  /\ writer' = NoAttempt
  /\ Goto(a, "respond")
  /\ UNCHANGED <<product, process, result, work>>

\* Mutant: the exception of a COMMIT is lost on its way.
CommitFailsQuietly(a) ==
  /\ stage[a] = "commit"
  /\ Goto(a, "rollback")
  /\ UNCHANGED <<product, process, result, writer, db, work>>

CommitFails(a) ==
  /\ stage[a] = "commit"
  /\ \E kind \in {"busy", "failed"} : Raise(a, kind, "rollback")
  /\ UNCHANGED <<product, process, writer, db, work>>

Rollback(a) ==
  /\ stage[a] = "rollback"
  /\ work' = db
  /\ writer' = NoAttempt
  /\ Goto(a, "respond")
  /\ UNCHANGED <<product, process, result, db>>

Respond(a) ==
  /\ stage[a] = "respond"
  /\ \E s \in {"answered", "lost"} : Goto(a, s)
  /\ UNCHANGED <<product, process, result, writer, db, work>>

-----------------------------------------------------------------------------
\* Product.seed_unless_exists!, in a transaction of its own.
Seed(p) ==
  /\ writer = NoAttempt /\ p \notin db.listed
  /\ db' = [db EXCEPT !.listed = @ \cup {p}]
  /\ work' = db'
  /\ UNCHANGED <<product, process, stage, result, writer>>

\* One worker process dies.  The others go on: its lock is released, and its
\* transaction is gone unless COMMIT had been written.
Crash(w) ==
  LET dead == {a \in Attempts : process[a] = w /\ stage[a] \notin {"new", "answered", "lost"}}
  IN  /\ dead # {}
      /\ stage' = [a \in Attempts |-> IF a \in dead THEN "lost" ELSE stage[a]]
      /\ result' = [a \in Attempts |->
                      IF a \in dead /\ stage[a] # "respond" THEN NoResult ELSE result[a]]
      /\ IF writer \in dead
           THEN /\ writer' = NoAttempt
                /\ db' = db \/ (stage[writer] = "commit" /\ db' = work)
                /\ work' = db'
           ELSE UNCHANGED <<writer, db, work>>
      /\ UNCHANGED <<product, process>>

\* What a thread does when no statement fails, timeouts included.
Progress(a) ==
  \/ Connect(a) \/ Begin(a)
  \/ (ConnectFails(a) \/ BeginFails(a)) /\ result'[a] # Raised("failed")
  \/ DecrementStock(a) \/ ProductExists(a) \/ CreateReservation(a)
  \/ Commit(a) \/ Rollback(a) \/ Respond(a)

Next ==
  \/ \E a \in Attempts :
       \/ Arrive(a) \/ Connect(a) \/ ConnectFails(a) \/ Begin(a) \/ BeginFails(a)
       \/ DecrementStock(a) \/ ProductExists(a) \/ CreateReservation(a)
       \/ StatementFails(a) \/ Commit(a) \/ CommitFails(a) \/ Rollback(a) \/ Respond(a)
  \/ \E p \in Products : Seed(p)
  \/ \E w \in Processes : Crash(w)

Spec == Init /\ [][Next]_vars
Fairness == \A a \in Attempts : WF_vars(Progress(a))

FairSpec == Spec /\ Fairness

-----------------------------------------------------------------------------
(* Properties *)

\* Every attempt has a key of its own.
Contract == INSTANCE ReservationContract WITH
  Keys <- Attempts,
  request <- [a \in Attempts |-> [key |-> a, product |-> product[a]]],
  listed <- db.listed,
  available <- db.stock,
  ledger <- [a \in Attempts |-> IF a \in db.reservations THEN a ELSE NoAttempt],
  decision <- [a \in Attempts |-> IF stage[a] \in Ended THEN result[a] ELSE NoResult]

\* Without idempotency the service still keeps the contract, as if every
\* request had a fresh key: effects are atomic and the answers true, whichever
\* process dies.
ImplementsContract == Contract!Spec

\* The units taken from a product are its reservations, also in the tables of
\* a transaction that is about to commit: never oversold, never half done.
UnitsMatchReservations ==
  \A p \in Products :
     LET taken(t) == Cardinality({a \in t.reservations : product[a] = p})
     IN  /\ db.stock[p] >= 0
         /\ db.stock[p] + taken(db) = InitialStock[p]
         /\ (\E a \in Attempts : stage[a] = "commit") => work.stock[p] + taken(work) = InitialStock[p]

\* Statements run only under the write lock, and no process uses more
\* connections than its pool has.
LockAndPoolsMatch ==
  /\ \A a \in Attempts : stage[a] \in InTransaction <=> writer = a
  /\ writer = NoAttempt => work = db
  /\ \A w \in Processes : Cardinality(InUse(w)) <= PoolLimit

\* What holds between any two statements, in every process.
RailsInv == TypeOK /\ UnitsMatchReservations /\ LockAndPoolsMatch

\* Every request ends: no wait for a connection or for the lock is for ever,
\* even when the process that held it is gone.
EveryRequestEnds ==
  \A a \in Attempts : stage[a] = "connect" ~> stage[a] \in {"answered", "lost"}
=============================================================================
