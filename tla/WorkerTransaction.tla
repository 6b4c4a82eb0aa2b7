--------------------------- MODULE WorkerTransaction ---------------------------
(***************************************************************************)
(* How the NestJS implementation runs a transaction: TransactionRunner     *)
(* leases a Connection from the pool of Primary, Drizzle sends BEGIN       *)
(* IMMEDIATE, the statements of the body, COMMIT or ROLLBACK to the worker *)
(* thread behind it, one message at a time, and the connection goes back.  *)
(*                                                                         *)
(* The main thread knows of the worker's transaction only what the last    *)
(* reply said (inTransaction), and of the worker's death only after the    *)
(* event.  A worker may die at any moment, any statement may fail, and the *)
(* pool may be shut down while transactions run.                           *)
(***************************************************************************)
EXTENDS Integers, FiniteSets

CONSTANTS Requests, NoRequest,
          Connections, NoConnection, \* bound: Connection objects ever made, in order
          PoolSize                   \* DB_POOL_SIZE

ASSUME WorkerAssumption ==
  /\ IsFiniteSet(Connections) /\ IsFiniteSet(Requests)
  /\ Connections \subseteq Nat
  /\ NoRequest \notin Requests /\ NoConnection \notin Connections
  /\ PoolSize \in Nat \ {0}

VARIABLES
  stage,    \* the await each run is suspended at
  lease,    \* the connection each run holds
  error,    \* the error a run is throwing: the body's own, or another
  outcome,  \* the transaction metric recorded for a run
  slot,     \* the pool's view of each connection
  alive,    \* Connection.alive
  dirty,    \* Connection.inTransaction: what the last reply said
  wire,     \* the query or the reply under way on each connection
  thread,   \* the worker thread
  tx,       \* the run whose transaction is open in the worker
  disk,     \* runs whose writes are committed
  gauges,   \* db_sessions and db_connections in use
  pool      \* Primary.pool: up, being destroyed, destroyed

main == <<stage, lease, error, outcome>>
workers == <<thread, tx, disk>>
vars == <<main, slot, alive, dirty, wire, workers, gauges, pool>>

Queries == {"probe", "begin", "statement", "commit", "rollback", "close"}
Replies == {"ok", "ok_in_tx", "error", "error_in_tx", "rejected"}
Succeeded == {"ok", "ok_in_tx"}
Outcomes == {"committed", "rolled_back", "failed"}

TypeOK ==
  /\ stage \in [Requests -> {"new", "acquire", "begin", "read", "write",
                             "commit", "rollback", "close", "done"}]
  /\ lease \in [Requests -> Connections \cup {NoConnection}]
  /\ error \in [Requests -> {"none", "body", "other"}]
  /\ outcome \in [Requests -> {"none"} \cup Outcomes]
  /\ slot \in [Connections -> {"unused", "creating", "rejecting", "free",
                             "leased", "closing", "gone"}]
  /\ alive \in [Connections -> BOOLEAN] /\ dirty \in [Connections -> BOOLEAN]
  /\ wire \in [Connections -> {"idle"} \cup Queries \cup Replies]
  /\ thread \in [Connections -> {"none", "running", "exited"}]
  /\ tx \in [Connections -> Requests \cup {NoRequest}]
  /\ disk \in SUBSET Requests
  /\ gauges \in [sessions: 0..Cardinality(Requests), connections: 0..PoolSize]
  /\ pool \in {"up", "stopping", "stopped"}

Init ==
  /\ stage = [r \in Requests |-> "new"]
  /\ lease = [r \in Requests |-> NoConnection]
  /\ error = [r \in Requests |-> "none"]
  /\ outcome = [r \in Requests |-> "none"]
  /\ slot = [c \in Connections |-> "unused"]
  /\ alive = [c \in Connections |-> FALSE]
  /\ dirty = [c \in Connections |-> FALSE]
  /\ wire = [c \in Connections |-> "idle"]
  /\ thread = [c \in Connections |-> "none"]
  /\ tx = [c \in Connections |-> NoRequest]
  /\ disk = {}
  /\ gauges = [sessions |-> 0, connections |-> 0]
  /\ pool = "up"

-----------------------------------------------------------------------------
Goto(r, s) == stage' = [stage EXCEPT ![r] = s]
InSlot(c, s) == slot' = [slot EXCEPT ![c] = s]
InSlots(S) == {c \in Connections : slot[c] \in S}
Waiting == {r \in Requests : stage[r] = "acquire"}

\* Connection.query: posted to a live worker, rejected at once otherwise.
Ask(c, q) == wire' = [wire EXCEPT ![c] = IF alive[c] THEN q ELSE "rejected"]

\* Connection.settle: what a reply says of the transaction is remembered; a
\* rejection says nothing.
Told(c) ==
  IF wire[c] = "rejected" THEN dirty[c] ELSE wire[c] \in {"ok_in_tx", "error_in_tx"}
Settle(c) == dirty' = [dirty EXCEPT ![c] = Told(c)]

-----------------------------------------------------------------------------
(* Primary.acquire, and the pool behind it. *)

Arrive(r) ==
  /\ stage[r] = "new" /\ pool = "up"
  /\ Goto(r, "acquire")
  /\ gauges' = [gauges EXCEPT !.sessions = @ + 1]
  /\ UNCHANGED <<lease, error, outcome, slot, alive, dirty, wire, workers, pool>>

Valid(c) == alive[c] /\ ~dirty[c]

\* The pool hands out a valid connection, and BEGIN IMMEDIATE is sent.
Lease(r, c) ==
  /\ stage[r] = "acquire" /\ pool = "up"
  /\ slot[c] = "free" /\ Valid(c)
  /\ InSlot(c, "leased")
  /\ lease' = [lease EXCEPT ![r] = c]
  /\ Goto(r, "begin")
  /\ Ask(c, "begin")
  /\ gauges' = [gauges EXCEPT !.connections = @ + 1]
  /\ UNCHANGED <<error, outcome, alive, dirty, workers, pool>>

\* A free connection is destroyed when it is found invalid, or when the pool
\* is destroyed and nobody uses it any more.
Destroy(c) ==
  /\ slot[c] = "free"
  /\ \/ pool = "up" /\ ~Valid(c) /\ Waiting # {}
     \/ pool = "stopping" /\ Waiting = {} /\ InSlots({"creating", "rejecting", "leased"}) = {}
  /\ InSlot(c, "closing")
  /\ Ask(c, "close")
  /\ UNCHANGED <<main, alive, dirty, workers, gauges, pool>>

\* Connections are made in the order of their numbers.
NextUnused(c) ==
  slot[c] = "unused" /\ \A d \in Connections : d < c => slot[d] # "unused"

\* A new Connection starts its worker, and is probed.
Create(c) ==
  /\ NextUnused(c) /\ pool = "up"
  /\ InSlots({"free"}) = {}
  /\ Cardinality(InSlots({"creating", "rejecting", "leased"})) < PoolSize
  /\ Cardinality(InSlots({"creating", "rejecting"})) < Cardinality(Waiting)
  /\ InSlot(c, "creating")
  /\ thread' = [thread EXCEPT ![c] = "running"]
  /\ alive' = [alive EXCEPT ![c] = TRUE]
  /\ wire' = [wire EXCEPT ![c] = "probe"]
  /\ UNCHANGED <<main, dirty, tx, disk, gauges, pool>>

\* The probe's answer.
Probed(c) ==
  /\ slot[c] = "creating" /\ wire[c] \in Replies
  /\ Settle(c)
  /\ IF wire[c] \in Succeeded
       THEN InSlot(c, "free") /\ wire' = [wire EXCEPT ![c] = "idle"]
       ELSE InSlot(c, "rejecting") /\ Ask(c, "close")
  /\ UNCHANGED <<main, alive, workers, gauges, pool>>

AcquireFails(r) ==
  /\ stage[r] = "acquire"
  /\ Goto(r, "done")
  /\ outcome' = [outcome EXCEPT ![r] = "failed"]
  /\ gauges' = [gauges EXCEPT !.sessions = @ - 1]
  /\ UNCHANGED <<lease, error>>

\* acquireTimeoutMillis; or the pool is being destroyed and aborts its waiters.
AcquireTimesOut(r) ==
  /\ pool = "up" => \A c \in InSlots({"free"}) : ~Valid(c)
  /\ AcquireFails(r)
  /\ UNCHANGED <<slot, alive, dirty, wire, workers, pool>>

\* Mutant: a close that was asked for is not waited for.
ClosedAtOnce(c) ==
  /\ slot[c] \in {"closing", "rejecting"}
  /\ InSlot(c, "gone")
  /\ UNCHANGED <<main, alive, dirty, wire, workers, gauges, pool>>

\* Connection.close ends when the worker has exited.  A connection that was
\* never created gives its error to a waiting acquire, if there is one.
Closed(c) ==
  /\ slot[c] \in {"closing", "rejecting"} /\ ~alive[c]
  /\ InSlot(c, "gone")
  /\ wire' = [wire EXCEPT ![c] = "idle"]
  /\ IF slot[c] = "rejecting" /\ Waiting # {}
       THEN \E r \in Requests : AcquireFails(r)
       ELSE UNCHANGED <<main, gauges>>
  /\ UNCHANGED <<alive, dirty, workers, pool>>

-----------------------------------------------------------------------------
(* The transaction, as the main thread runs it. *)

Throw(r, e) == error' = [error EXCEPT ![r] = e]

\* Mutant: whatever was thrown, the transaction is taken to be rolled back.
OutcomeOfAnyError(e) == IF e = "none" THEN "committed" ELSE "rolled_back"

\* The end of TransactionRunner.run: "rolled_back" only for the body's own
\* error, which Drizzle rethrows after its ROLLBACK succeeded.
OutcomeOf(e) ==
  CASE e = "none"  -> "committed"
    [] e = "body"  -> "rolled_back"
    [] e = "other" -> "failed"

\* Mutant: a run that throws forgets its connection.
GiveBackOnSuccess(r, e) ==
  LET c == lease[r]
  IN  /\ Goto(r, "done")
      /\ lease' = [lease EXCEPT ![r] = NoConnection]
      /\ outcome' = [outcome EXCEPT ![r] = OutcomeOf(e)]
      /\ InSlot(c, IF e = "none" THEN "free" ELSE "leased")
      /\ wire' = [wire EXCEPT ![c] = "idle"]
      /\ gauges' = [sessions |-> gauges.sessions - 1,
                    connections |-> gauges.connections - 1]

\* The connection goes back to the pool and the outcome is recorded.
GiveBack(r, e) ==
  LET c == lease[r]
  IN  /\ Goto(r, "done")
      /\ lease' = [lease EXCEPT ![r] = NoConnection]
      /\ outcome' = [outcome EXCEPT ![r] = OutcomeOf(e)]
      /\ InSlot(c, "free")
      /\ wire' = [wire EXCEPT ![c] = "idle"]
      /\ gauges' = [sessions |-> gauges.sessions - 1,
                    connections |-> gauges.connections - 1]

\* Mutant: the connection is given back as it is.
ReleaseDirty(r, e) == Throw(r, e) /\ GiveBack(r, e)

\* Primary.release, with error e on its way: a connection whose transaction
\* may still be open is closed first.
Release(r, e) ==
  /\ Throw(r, e)
  /\ IF Told(lease[r])
       THEN /\ Goto(r, "close")
            /\ Ask(lease[r], "close")
            /\ UNCHANGED <<lease, outcome, slot, gauges>>
       ELSE GiveBack(r, e)

\* The next query of the same transaction.
Continue(r, s, q) ==
  /\ Goto(r, s)
  /\ Ask(lease[r], q)
  /\ UNCHANGED <<lease, outcome, slot, gauges>>

RollBack(r, e) == Continue(r, "rollback", "rollback") /\ Throw(r, e)

\* What follows the reply to the query each stage waits for.
Replied(r) ==
  LET c == lease[r]
      ok == wire[c] \in Succeeded
  IN  /\ stage[r] \in {"begin", "read", "write", "commit", "rollback"}
      /\ wire[c] \in Replies
      /\ Settle(c)
      /\ \/ stage[r] = "begin" /\ ok /\ Continue(r, "read", "statement") /\ UNCHANGED error
         \/ stage[r] = "begin" /\ ~ok /\ Release(r, "other")
         \/ stage[r] = "read" /\ ok /\ Continue(r, "write", "statement") /\ UNCHANGED error
         \/ stage[r] \in {"read", "write"} /\ ok /\ Continue(r, "commit", "commit") /\ UNCHANGED error
         \/ stage[r] \in {"read", "write"} /\ RollBack(r, "body")
         \/ stage[r] = "commit" /\ ok /\ Release(r, "none")
         \/ stage[r] = "commit" /\ ~ok /\ RollBack(r, "other")
         \/ stage[r] = "rollback" /\ Release(r, IF ok THEN error[r] ELSE "other")
      /\ UNCHANGED <<alive, workers, pool>>

\* Primary.release goes on once the worker has exited.
ReleaseClosed(r) ==
  /\ stage[r] = "close" /\ ~alive[lease[r]]
  /\ GiveBack(r, error[r])
  /\ UNCHANGED <<error, alive, dirty, workers, pool>>

-----------------------------------------------------------------------------
(* The worker threads and their SQLite handles. *)

Reply(c, p) == wire' = [wire EXCEPT ![c] = p]
Opens(c, r) == tx' = [tx EXCEPT ![c] = r]

\* BEGIN IMMEDIATE takes the one write lock, or fails (busy, or otherwise).
WorkerBegins(c) ==
  /\ wire[c] = "begin"
  /\ \/ /\ \A d \in Connections : tx[d] = NoRequest
        /\ \E r \in Requests : lease[r] = c /\ Opens(c, r)
        /\ Reply(c, "ok_in_tx")
     \/ Reply(c, "error") /\ UNCHANGED tx
  /\ UNCHANGED <<disk, thread>>

\* A statement succeeds, fails, or fails so badly that SQLite rolls back.
WorkerExecutes(c) ==
  /\ wire[c] = "statement"
  /\ \/ \E p \in {"ok_in_tx", "error_in_tx"} : Reply(c, p) /\ UNCHANGED tx
     \/ Reply(c, "error") /\ Opens(c, NoRequest)
  /\ UNCHANGED <<disk, thread>>

\* COMMIT may be refused and leave the transaction open.
WorkerCommits(c) ==
  /\ wire[c] = "commit"
  /\ \/ disk' = disk \cup {tx[c]} /\ Opens(c, NoRequest) /\ Reply(c, "ok")
     \/ Reply(c, "error_in_tx") /\ UNCHANGED <<tx, disk>>
     \/ Reply(c, "error") /\ Opens(c, NoRequest) /\ UNCHANGED disk
  /\ UNCHANGED thread

\* ROLLBACK without a transaction is an error.
WorkerRollsBack(c) ==
  /\ wire[c] = "rollback"
  /\ \/ tx[c] # NoRequest /\ Opens(c, NoRequest) /\ Reply(c, "ok")
     \/ tx[c] # NoRequest /\ Reply(c, "error_in_tx") /\ UNCHANGED tx
     \/ tx[c] = NoRequest /\ Reply(c, "error") /\ UNCHANGED tx
  /\ UNCHANGED <<disk, thread>>

WorkerProbes(c) ==
  /\ wire[c] = "probe"
  /\ \E p \in {"ok", "error"} : Reply(c, p)
  /\ UNCHANGED workers

\* "close" ends an open transaction and then the thread.
WorkerCloses(c) ==
  /\ wire[c] = "close"
  /\ Reply(c, "ok")
  /\ Opens(c, NoRequest)
  /\ thread' = [thread EXCEPT ![c] = "exited"]
  /\ UNCHANGED disk

Worker(c) ==
  /\ thread[c] = "running"
  /\ \/ WorkerBegins(c) \/ WorkerExecutes(c) \/ WorkerCommits(c)
     \/ WorkerRollsBack(c) \/ WorkerProbes(c) \/ WorkerCloses(c)
  /\ UNCHANGED <<main, slot, alive, dirty, gauges, pool>>

\* A worker dies: its transaction is gone, and its last reply perhaps too.
WorkerDies(c) ==
  /\ thread[c] = "running"
  /\ thread' = [thread EXCEPT ![c] = "exited"]
  /\ Opens(c, NoRequest)
  /\ UNCHANGED <<main, slot, alive, dirty, wire, disk, gauges, pool>>

\* Connection.fail, on the worker's error or exit event: whatever is pending
\* is rejected, and a reply that comes later is ignored.
Fail(c) ==
  /\ thread[c] = "exited" /\ alive[c]
  /\ alive' = [alive EXCEPT ![c] = FALSE]
  /\ wire' = [wire EXCEPT ![c] = IF @ = "idle" THEN @ ELSE "rejected"]
  /\ UNCHANGED <<main, slot, dirty, workers, gauges, pool>>

-----------------------------------------------------------------------------
(* Primary.onApplicationShutdown. *)

Stop ==
  /\ pool = "up"
  /\ pool' = "stopping"
  /\ UNCHANGED <<main, slot, alive, dirty, wire, workers, gauges>>

Stopped ==
  /\ pool = "stopping" /\ Waiting = {}
  /\ InSlots({"creating", "rejecting", "free", "leased", "closing"}) = {}
  /\ pool' = "stopped"
  /\ UNCHANGED <<main, slot, alive, dirty, wire, workers, gauges>>

Acquire(r) == AcquireTimesOut(r) \/ \E c \in Connections : Lease(r, c)
Run(r) == Replied(r) \/ ReleaseClosed(r)
Pooling(c) == Destroy(c) \/ Create(c) \/ Probed(c) \/ Closed(c)

Next ==
  \/ \E r \in Requests : Arrive(r) \/ Acquire(r) \/ Run(r)
  \/ \E c \in Connections : Pooling(c) \/ Worker(c) \/ WorkerDies(c) \/ Fail(c)
  \/ Stop \/ Stopped

Spec == Init /\ [][Next]_vars

\* The event loop goes on, a statement ends (SQLite's busy timeout), an
\* acquire is granted or times out, and an exit is announced.  No worker has
\* to die and nobody has to shut down.
FairSpec ==
  /\ Spec
  /\ \A r \in Requests : WF_vars(Acquire(r)) /\ WF_vars(Run(r))
  /\ \A c \in Connections : WF_vars(Pooling(c)) /\ WF_vars(Worker(c)) /\ WF_vars(Fail(c))
  /\ WF_vars(Stopped)

-----------------------------------------------------------------------------
(* Properties *)

\* A connection never carries a transaction to another request: whatever is
\* open in a worker belongs to the run that leases it, also after a failed
\* ROLLBACK, and a connection the pool would hand out has none.
CleanHandover ==
  \A c \in Connections :
     /\ tx[c] # NoRequest => lease[tx[c]] = c
     /\ slot[c] = "free" /\ Valid(c) => tx[c] = NoRequest

\* What was recorded is true of the file, although the main thread only knows
\* what replies told it: "committed" is on disk and "rolled_back" is not.
OutcomeMatchesDisk ==
  \A r \in Requests :
     /\ outcome[r] = "committed" => r \in disk
     /\ outcome[r] = "rolled_back" => r \notin disk
     /\ r \in disk /\ stage[r] = "done" => outcome[r] \in {"committed", "failed"}

\* Every connection that left the pool is accounted for by one run, the
\* gauges say so, and there are never more than PoolSize.
LeasesMatch ==
  LET busy == {r \in Requests : lease[r] # NoConnection}
  IN  /\ \A r \in busy : slot[lease[r]] = "leased"
      /\ \A q, r \in busy : lease[q] = lease[r] => q = r
      /\ Cardinality(InSlots({"leased"})) = Cardinality(busy)
      /\ gauges.connections = Cardinality(busy)
      /\ gauges.sessions = Cardinality(busy) + Cardinality(Waiting)
      /\ Cardinality(busy) <= PoolSize

\* The pool is destroyed only after the last transaction: then no run is half
\* done and no worker is left that would keep the process alive.
NothingOutlivesThePool ==
  pool = "stopped" =>
    /\ \A r \in Requests : stage[r] \in {"new", "done"}
    /\ \A c \in Connections : thread[c] # "running"

\* What holds between any two callbacks: leases, gauges and threads agree, and
\* no connection changes hands with a transaction open.
WorkerInv == TypeOK /\ LeasesMatch /\ NothingOutlivesThePool /\ CleanHandover

\* Dead workers, refused commits and failed rollbacks included, every run
\* ends, and so does a shutdown, which waits for them all.
EveryRunEnds == \A r \in Requests : stage[r] = "acquire" ~> stage[r] = "done"
ShutdownEnds == pool = "stopping" ~> pool = "stopped"
RunsAndShutdownEnd == EveryRunEnds /\ ShutdownEnds
=============================================================================
