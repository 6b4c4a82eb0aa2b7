--------------------------- MODULE ClaimReservation ---------------------------
(***************************************************************************)
(* The reservation endpoint of the Java and Kotlin Spring implementations: *)
(* request threads, a bounded Hikari pool, and transactions of an H2       *)
(* database at READ COMMITTED that lock the rows they write.               *)
(*                                                                         *)
(* `reserve` claims the idempotency key by inserting a claim row.  Who     *)
(* finds the key claimed rolls its transaction back and reads the winner's *)
(* reservation in a second transaction (ReservationAttempts).              *)
(*                                                                         *)
(* The file is opened by one process: the seed command runs while no       *)
(* request is in flight.                                                   *)
(***************************************************************************)
EXTENDS Integers, FiniteSets

CONSTANTS Attempts, Keys, Products, InitialStock, NoAttempt,
          PoolLimit    \* DB_POOL_SIZE

ASSUME ClaimAssumption ==
  /\ IsFiniteSet(Keys)
  /\ InitialStock \in [Products -> Nat]
  /\ NoAttempt \notin Attempts
  /\ PoolLimit \in Nat \ {0}

VARIABLES
  request,  \* what each attempt asks for; fixed
  stage,    \* the statement each attempt's thread is in
  result,   \* the value or the exception an attempt carries
  pool,     \* attempts that hold a connection
  writes,   \* the uncommitted writes of each attempt, each a row lock
  db        \* the committed tables

vars == <<request, stage, result, pool, writes, db>>

-----------------------------------------------------------------------------
Inputs == [key: Keys, product: Products]
KeyOf(a) == request[a].key
ProductOf(a) == request[a].product

Tables ==
  [listed: SUBSET Products,
   available: [Products -> Int],
   claims: SUBSET Keys,
   reservations: SUBSET Attempts,
   replay: [Keys -> Attempts \cup {NoAttempt}]]

\* The statements of `reserve`, and the one of `replay`.
Statements ==
  {"find_replay", "claim", "decrease", "product_exists", "save", "replay_find"}
Waiting == {"connect", "replay_connect"}
InTransaction == Statements \cup {"commit", "rollback"}
Ended == {"respond", "answered", "lost"}
Stages == {"new"} \cup Waiting \cup InTransaction \cup Ended
InFlight(a) == stage[a] \notin {"new", "answered", "lost"}

Kinds ==
  {"undecided", "created", "replayed", "conflict", "sold_out", "not_found",
   "busy", "pool_timeout", "failed", "claimed"}
NoResult == [kind |-> "undecided", reservation |-> NoAttempt]
Created(a) == [kind |-> "created", reservation |-> a]
Replayed(b) == [kind |-> "replayed", reservation |-> b]
Thrown(kind) == [kind |-> kind, reservation |-> NoAttempt]

TypeOK ==
  /\ request \in [Attempts -> Inputs]
  /\ stage \in [Attempts -> Stages]
  /\ result \in [Attempts -> [kind: Kinds, reservation: Attempts \cup {NoAttempt}]]
  /\ pool \in SUBSET Attempts
  /\ writes \in [Attempts -> SUBSET {"claim", "stock", "rows"}]
  /\ db \in Tables

Init ==
  /\ request \in [Attempts -> Inputs]
  /\ stage = [a \in Attempts |-> "new"]
  /\ result = [a \in Attempts |-> NoResult]
  /\ pool = {}
  /\ writes = [a \in Attempts |-> {}]
  /\ db = [listed |-> {}, available |-> InitialStock, claims |-> {},
           reservations |-> {}, replay |-> [k \in Keys |-> NoAttempt]]

-----------------------------------------------------------------------------
(* Row locks: an uncommitted write of a row keeps every other writer of    *)
(* that row waiting.                                                       *)

ClaimHolders(a) ==
  {b \in Attempts \ {a} : "claim" \in writes[b] /\ KeyOf(b) = KeyOf(a)}
StockHolders(a) ==
  {b \in Attempts \ {a} : "stock" \in writes[b] /\ ProductOf(b) = ProductOf(a)}

Goto(a, s) == stage' = [stage EXCEPT ![a] = s]
Return(a, r) == result' = [result EXCEPT ![a] = r]
Throw(a, kind) == Return(a, Thrown(kind)) /\ Goto(a, "rollback")
Write(a, w) == writes' = [writes EXCEPT ![a] = @ \cup {w}]

\* The transaction ends: its locks and its connection are released.
Release(a) ==
  /\ writes' = [writes EXCEPT ![a] = {}]
  /\ pool' = pool \ {a}

-----------------------------------------------------------------------------
(* The beginning of a transaction. *)

Arrive(a) ==
  /\ stage[a] = "new"
  /\ Goto(a, "connect")
  /\ UNCHANGED <<request, result, pool, writes, db>>

Connect(a) ==
  /\ Cardinality(pool) < PoolLimit
  /\ pool' = pool \cup {a}
  /\ \/ stage[a] = "connect" /\ Goto(a, "find_replay")
     \/ stage[a] = "replay_connect" /\ Goto(a, "replay_find")
  /\ UNCHANGED <<request, result, writes, db>>

\* The pool stayed full, or the database could not be reached.
ConnectFails(a) ==
  /\ stage[a] \in Waiting
  /\ \/ Cardinality(pool) >= PoolLimit /\ Return(a, Thrown("pool_timeout"))
     \/ Return(a, Thrown("failed"))
  /\ Goto(a, "respond")
  /\ UNCHANGED <<request, pool, writes, db>>

-----------------------------------------------------------------------------
(* ReservationService.reserve and replay. *)

\* What a committed reservation under the key means for the attempt.
Answer(a, first) ==
  \/ /\ ProductOf(first) = ProductOf(a)
     /\ Return(a, Replayed(first))
     /\ Goto(a, "commit")
  \/ /\ ProductOf(first) # ProductOf(a)
     /\ Throw(a, "conflict")

\* Mutant: the product of the stored reservation is not compared.
FindReplayOfAnyProduct(a) ==
  LET first == db.replay[KeyOf(a)]
  IN  /\ stage[a] = "find_replay"
      /\ \/ first = NoAttempt /\ Goto(a, "claim") /\ UNCHANGED result
         \/ first # NoAttempt /\ Return(a, Replayed(first)) /\ Goto(a, "commit")
      /\ UNCHANGED <<request, pool, writes, db>>

FindReplay(a) ==
  LET first == db.replay[KeyOf(a)]
  IN  /\ stage[a] = "find_replay"
      /\ \/ first = NoAttempt /\ Goto(a, "claim") /\ UNCHANGED result
         \/ first # NoAttempt /\ Answer(a, first)
      /\ UNCHANGED <<request, pool, writes, db>>

\* Mutant: an uncommitted claim already counts as a duplicate.
ClaimWithoutWaiting(a) ==
  /\ stage[a] = "claim"
  /\ \/ /\ KeyOf(a) \notin db.claims /\ ClaimHolders(a) = {}
        /\ Write(a, "claim")
        /\ Goto(a, "decrease")
        /\ UNCHANGED result
     \/ /\ KeyOf(a) \in db.claims \/ ClaimHolders(a) # {}
        /\ Throw(a, "claimed")
        /\ UNCHANGED writes
  /\ UNCHANGED <<request, pool, db>>

\* The INSERT waits for whoever inserts the same key, then succeeds or
\* reports the duplicate.
Claim(a) ==
  /\ stage[a] = "claim"
  /\ ClaimHolders(a) = {}
  /\ \/ /\ KeyOf(a) \notin db.claims
        /\ Write(a, "claim")
        /\ Goto(a, "decrease")
        /\ UNCHANGED result
     \/ /\ KeyOf(a) \in db.claims
        /\ Throw(a, "claimed")
        /\ UNCHANGED writes
  /\ UNCHANGED <<request, pool, db>>

\* The conditional UPDATE waits for whoever updated the same product.
DecreaseStock(a) ==
  /\ stage[a] = "decrease"
  /\ StockHolders(a) = {}
  /\ IF ProductOf(a) \in db.listed /\ db.available[ProductOf(a)] > 0
       THEN Write(a, "stock") /\ Goto(a, "save")
       ELSE Goto(a, "product_exists") /\ UNCHANGED writes
  /\ UNCHANGED <<request, result, pool, db>>

ProductExists(a) ==
  /\ stage[a] = "product_exists"
  /\ Throw(a, IF ProductOf(a) \in db.listed THEN "sold_out" ELSE "not_found")
  /\ UNCHANGED <<request, pool, writes, db>>

SaveReservationAndReplay(a) ==
  /\ stage[a] = "save"
  /\ Write(a, "rows")
  /\ Return(a, Created(a))
  /\ Goto(a, "commit")
  /\ UNCHANGED <<request, pool, db>>

\* `replay`, in its own transaction: the winner's reservation must be there.
ReplayFind(a) ==
  LET first == db.replay[KeyOf(a)]
  IN  /\ stage[a] = "replay_find"
      /\ \/ first = NoAttempt /\ Throw(a, "failed")
         \/ first # NoAttempt /\ Answer(a, first)
      /\ UNCHANGED <<request, pool, writes, db>>

\* H2 gives up waiting for a lock: DATABASE_BUSY.
LockTimesOut(a) ==
  /\ \/ stage[a] = "claim" /\ ClaimHolders(a) # {}
     \/ stage[a] = "decrease" /\ StockHolders(a) # {}
  /\ Throw(a, "busy")
  /\ UNCHANGED <<request, pool, writes, db>>

\* Mutant: a failed attempt is retried without a limit.
StatementFailureRetried(a) ==
  /\ stage[a] \in Statements
  /\ Release(a)
  /\ Goto(a, "connect")
  /\ UNCHANGED <<request, result, db>>

StatementFails(a) ==
  /\ stage[a] \in Statements
  /\ Throw(a, "failed")
  /\ UNCHANGED <<request, pool, writes, db>>

-----------------------------------------------------------------------------
(* The end of a transaction. *)

\* The tables once the writes of a are committed.
Committed(a) ==
  LET k == KeyOf(a)
      p == ProductOf(a)
      w == writes[a]
  IN  [db EXCEPT
        !.claims = IF "claim" \in w THEN @ \cup {k} ELSE @,
        !.available[p] = IF "stock" \in w THEN @ - 1 ELSE @,
        !.reservations = IF "rows" \in w THEN @ \cup {a} ELSE @,
        !.replay[k] = IF "rows" \in w THEN a ELSE @]

Commit(a) ==
  /\ stage[a] = "commit"
  /\ db' = Committed(a)
  /\ Release(a)
  /\ Goto(a, "respond")
  /\ UNCHANGED <<request, result>>

\* JDBC commit throws: the caller is told of an error, whatever the database
\* made of the commit; rollbackOnCommitFailure ends the transaction.
CommitFails(a) ==
  /\ stage[a] = "commit"
  /\ db' \in {db, Committed(a)}
  /\ Release(a)
  /\ Return(a, Thrown("failed"))
  /\ Goto(a, "respond")
  /\ UNCHANGED request

\* Only after the rollback does ReservationAttempts see IdempotencyClaimed.
Rollback(a) ==
  /\ stage[a] = "rollback"
  /\ Release(a)
  /\ Goto(a, IF result[a] = Thrown("claimed") THEN "replay_connect" ELSE "respond")
  /\ UNCHANGED <<request, result, db>>

Respond(a) ==
  /\ stage[a] = "respond"
  /\ \E s \in {"answered", "lost"} : Goto(a, s)
  /\ UNCHANGED <<request, result, pool, writes, db>>

-----------------------------------------------------------------------------
\* The seed command, before the server is started again.
Seed(p) ==
  /\ \A a \in Attempts : ~InFlight(a)
  /\ p \notin db.listed
  /\ db' = [db EXCEPT !.listed = @ \cup {p}]
  /\ UNCHANGED <<request, stage, result, pool, writes>>

\* The process dies.  What its threads carried is gone; a commit that was
\* being written is found whole or not at all (of several, the others that are
\* found are Commit steps that came just before).
Crash ==
  /\ \E a \in Attempts : InFlight(a)
  /\ \/ UNCHANGED db
     \/ \E a \in Attempts : stage[a] = "commit" /\ db' = Committed(a)
  /\ stage' = [a \in Attempts |-> IF InFlight(a) THEN "lost" ELSE stage[a]]
  /\ result' = [a \in Attempts |->
                  IF stage[a] \in Ended THEN result[a] ELSE NoResult]
  /\ writes' = [a \in Attempts |-> {}]
  /\ pool' = {}
  /\ UNCHANGED request

\* The steps a thread owes without any timeout or error.
Progress(a) ==
  \/ Connect(a) \/ FindReplay(a) \/ Claim(a) \/ DecreaseStock(a)
  \/ ProductExists(a) \/ SaveReservationAndReplay(a) \/ ReplayFind(a)
  \/ Commit(a) \/ Rollback(a) \/ Respond(a)

Next ==
  \/ \E a \in Attempts :
       \/ Arrive(a) \/ Progress(a) \/ ConnectFails(a) \/ LockTimesOut(a)
       \/ StatementFails(a) \/ CommitFails(a)
  \/ \E p \in Products : Seed(p)
  \/ Crash

Spec == Init /\ [][Next]_vars

Fairness == \A a \in Attempts : WF_vars(Progress(a))

FairSpec == Spec /\ Fairness

-----------------------------------------------------------------------------
(* Properties *)

\* The contract's view: an attempt is decided when its last transaction ends.
Decision ==
  [a \in Attempts |-> IF stage[a] \in Ended THEN result[a] ELSE NoResult]

Contract == INSTANCE ReservationContract WITH
  listed <- db.listed,
  available <- db.available,
  ledger <- db.replay,
  decision <- Decision

\* Row locks and the claim give each attempt one atomic effect, and what it
\* is told agrees with it, although it may take two transactions.
ImplementsContract == Contract!Spec

\* A key is claimed exactly when its reservation is there to be replayed: a
\* request that failed has used up neither the key nor a row.
ClaimsMatchReplays ==
  /\ db.claims = {k \in Keys : db.replay[k] # NoAttempt}
  /\ db.reservations = {db.replay[k] : k \in Keys} \ {NoAttempt}

\* The second transaction never misses the reservation it was sent to read
\* ("Committed replay is missing").
ReplayIsThere ==
  \A a \in Attempts :
     stage[a] \in {"replay_connect", "replay_find"} =>
        db.replay[KeyOf(a)] \notin {NoAttempt, a}

\* An uncommitted row has one writer, and no thread between transactions
\* keeps a lock or a connection.
LocksAreExclusive ==
  \A a \in Attempts :
     /\ "claim" \in writes[a] => ClaimHolders(a) = {}
     /\ "stock" \in writes[a] => StockHolders(a) = {} /\ "claim" \in writes[a]
     /\ a \in pool <=> stage[a] \in InTransaction
     /\ stage[a] \notin InTransaction => writes[a] = {}

\* What holds between any two statements: a key is used up exactly by a
\* reservation that can be replayed, and nothing but a running transaction
\* keeps a row or a connection from the others.
ClaimInv ==
  /\ TypeOK
  /\ ClaimsMatchReplays
  /\ ReplayIsThere
  /\ LocksAreExclusive

\* With no timeout and no error to help, every request still ends: the waits
\* for claims, product rows and pooled connections never close a circle (the
\* claim is taken before the product row, and a losing claimant gives its
\* connection back before it asks for another).
EveryAttemptEnds ==
  \A a \in Attempts : stage[a] = "connect" ~> stage[a] \in {"answered", "lost"}
=============================================================================
