----------------------------- MODULE StoresProofs -----------------------------
(***************************************************************************)
(* The NestJS and the FastCRUD service keep their contracts, for every set *)
(* of attempts, keys (finite) and products, every stock and pool limit.    *)
(* Both reuse what SqliteReservationProofs says of the statements.         *)
(***************************************************************************)
EXTENDS Stores, SqliteReservationProofs

-----------------------------------------------------------------------------
(* NestJS: most of its steps are those of SqliteReservation. *)

\* An acquire that times out although there is a slot.
SlowAcquire(a) ==
  /\ stage[a] = "connect"
  /\ RaiseTo(a, "pool_timeout", "respond")
  /\ Record(a, "failed")
  /\ UNCHANGED <<request, pool, writer, db, work>>

\* A worker that dies, or whose ROLLBACK fails.
Breaks(a) ==
  /\ InTransaction(a)
  /\ db' = db \/ (stage[a] = "commit" /\ db' = work)
  /\ work' = db'
  /\ Release(a)
  /\ RaiseTo(a, "failed", "respond")
  /\ Record(a, "failed")
  /\ UNCHANGED request

\* A step that leaves no COMMIT to the driver.
Served(a) ==
  \/ Arrive(a) \/ Connect(a) \/ ConnectFails(a) \/ BeginImmediate(a) \/ BeginFails(a)
  \/ FindReplay(a) \/ DecreaseStock(a) \/ FindProduct(a)
  \/ SaveReservation(a) \/ SaveIdempotency(a) \/ StatementFails(a) \/ CommitFails(a)
  \/ Commit(a) \/ Rollback(a) \/ Respond(a)

LEMMA SameCardinality == \A S : Nest!Cardinality(S) = Cardinality(S)
BY DEF Nest!Cardinality, Cardinality

\* NestNext in these words.
LEMMA NestSteps ==
  ASSUME Nest!NestNext
  PROVE  \/ \E a \in Attempts : Served(a) \/ SlowAcquire(a) \/ Breaks(a)
         \/ \E p \in Products : Seed(p)
         \/ Crash
<1>1. ASSUME NEW a \in Attempts
      PROVE  /\ Nest!Arrive(a) => Arrive(a)
             /\ Nest!Connect(a) => Connect(a)
             /\ Nest!ConnectFails(a) => ConnectFails(a)
             /\ Nest!BeginImmediate(a) => BeginImmediate(a)
             /\ Nest!BeginFails(a) => BeginFails(a)
             /\ Nest!AcquireTimesOut(a) => SlowAcquire(a)
             /\ Nest!Respond(a) => Respond(a)
  BY SameCardinality
     DEF Nest!Arrive, Nest!Connect, Nest!ConnectFails, Nest!BeginImmediate, Nest!BeginFails,
     Nest!AcquireTimesOut, Nest!Respond, Nest!Goto, Nest!RaiseTo, Nest!Raised, Nest!Record,
     Arrive, Connect, ConnectFails, BeginImmediate, BeginFails, SlowAcquire, Respond,
     Goto, RaiseTo, Raised, Record
<1>2. ASSUME NEW a \in Attempts
      PROVE  /\ Nest!FindReplay(a) => FindReplay(a)
             /\ Nest!FindProduct(a) => FindProduct(a)
             /\ Nest!DecreaseStock(a) => DecreaseStock(a)
  BY DEF Nest!FindReplay, Nest!FindProduct, Nest!DecreaseStock, Nest!InStock, Nest!Decreased,
     Nest!KeyOf, Nest!ProductOf, Nest!Replayed, Nest!Goto, Nest!RaiseTo, Nest!Raised,
     FindReplay, FindProduct, DecreaseStock, InStock, Decreased,
     KeyOf, ProductOf, Replayed, Goto, RaiseTo, Raised
<1>3. ASSUME NEW a \in Attempts
      PROVE  /\ Nest!SaveReservation(a) => SaveReservation(a)
             /\ Nest!SaveIdempotency(a) => SaveIdempotency(a)
             /\ Nest!StatementFails(a) => StatementFails(a)
  BY DEF Nest!SaveReservation, Nest!SaveIdempotency, Nest!StatementFails, Nest!Reserved,
     Nest!Bound, Nest!KeyOf, Nest!Created, Nest!Goto, Nest!RaiseTo, Nest!Raised, Nest!Statements,
     SaveReservation, SaveIdempotency, StatementFails, Reserved,
     Bound, KeyOf, Created, Goto, RaiseTo, Raised, Statements
<1>4. ASSUME NEW a \in Attempts
      PROVE  /\ Nest!Commit(a) => Commit(a)
             /\ Nest!CommitFails(a) => CommitFails(a)
             /\ Nest!Rollback(a) => Rollback(a)
  BY DEF Nest!Commit, Nest!CommitFails, Nest!Rollback, Nest!Release, Nest!Record, Nest!Goto,
     Nest!RaiseTo, Nest!Raised, Commit, CommitFails, Rollback, Release, Record, Goto,
     RaiseTo, Raised
<1>5. ASSUME NEW a \in Attempts
      PROVE  Nest!RollbackFails(a) \/ Nest!WorkerDies(a) => Breaks(a)
  BY DEF Nest!RollbackFails, Nest!WorkerDies, Nest!InTransaction, Nest!Statements, Nest!Release,
     Nest!RaiseTo, Nest!Raised, Nest!Goto, Nest!Record, Breaks, InTransaction, Statements, Release,
     RaiseTo, Raised, Goto, Record
<1>6. ASSUME NEW p \in Products, Nest!Seed(p)
      PROVE  Seed(p)
  BY <1>6 DEF Nest!Seed, Seed
<1>7. Nest!Crash => Crash
  BY DEF Nest!Crash, Nest!Abandoned, Nest!CommitPending, Nest!InFlight, Nest!InTransaction,
     Nest!Statements, Crash, Abandoned, CommitPending, InFlight, InTransaction, Statements
<1>8. QED
  BY <1>1, <1>2, <1>3, <1>4, <1>5, <1>6, <1>7
     DEF Nest!NestNext, Nest!OpenStep, Nest!ReplayStep, Nest!StockStep, Nest!SaveStep, Nest!EndStep,
     Nest!AnswerStep, Nest!SeedOnce, Served

LEMMA ServedIsStep ==
  ASSUME NEW a \in Attempts, Served(a)
  PROVE  Next
BY DEF Served, Next, Advance

LEMMA NestTypes ==
  ASSUME IInv, NEW a \in Attempts, SlowAcquire(a) \/ Breaks(a)
  PROVE  TypeOK'
<1>1. TypeOK
  BY DEF IInv
<1>2. /\ result' \in [Attempts -> Results]
      /\ stage' \in [Attempts -> Stages]
  BY <1>1, RaiseTyped DEF SlowAcquire, Breaks, CleanRefusals, Stages
<1>3. QED
  BY <1>1, <1>2 DEF TypeOK, SlowAcquire, Breaks, Release, Record

LEMMA SlowAcquireStep ==
  ASSUME IInv, NEW a \in Attempts, SlowAcquire(a)
  PROVE  IInv'
<1> TypeOK'
  BY NestTypes
<1> USE DEF IInv, TypeOK
<1>1. /\ UNCHANGED <<request, pool, writer, db, work>>
      /\ stage[a] = "connect" /\ stage' = [stage EXCEPT ![a] = "respond"]
      /\ result' = [result EXCEPT ![a] = Raised("pool_timeout")]
      /\ outcome' = [outcome EXCEPT ![a] = "failed"]
  BY DEF SlowAcquire, RaiseTo, Record, Goto
<1>2. NeverNegative' /\ RowsMatch'
  BY <1>1 DEF NeverNegative, RowsMatch, KeyOf
<1>3. LockAndPoolMatch' /\ IsFiniteSet(pool)'
  BY <1>1 DEF LockAndPoolMatch, InTransaction, Statements
<1>4. ASSUME NEW b \in Attempts
      PROVE  History(b)'
  BY <1>1 DEF History, InTransaction, Statements, Raised, CleanRefusals
<1>5. OutcomeIsTruthful'
  BY <1>1 DEF OutcomeIsTruthful, KeyOf, Raised
<1>6. writer' # NoAttempt => WriterView(writer)'
  <2>1. CASE writer = NoAttempt
    BY <1>1, <2>1
  <2>2. CASE writer # NoAttempt
    <3>1. WriterView(writer) /\ writer # a
      BY <1>1, <2>2 DEF WriterView, InTransaction, Statements
    <3>2. QED
      BY <1>1, <2>2, <3>1, ViewFrame
  <2>3. QED
    BY <2>1, <2>2
<1>7. QED
  BY <1>2, <1>3, <1>4, <1>5, <1>6

\* What a worker takes with it: its connection and, unless its COMMIT was
\* done, its transaction.
LEMMA BreaksEffect ==
  ASSUME IInv, NEW a \in Attempts, Breaks(a)
  PROVE  /\ writer = a /\ a # NoAttempt
         /\ request' = request /\ work' = db' /\ writer' = NoAttempt /\ pool' = pool \ {a}
         /\ stage' = [stage EXCEPT ![a] = "respond"]
         /\ result' = [result EXCEPT ![a] = Raised("failed")]
         /\ outcome' = [outcome EXCEPT ![a] = "failed"]
         /\ db' = db \/ (CommitReady(a) /\ db' = work)
<1>1. writer = a /\ a # NoAttempt /\ WriterView(a)
  BY SqliteAssumption DEF IInv, Breaks, LockAndPoolMatch
<1>2. stage[a] = "commit" => CommitReady(a)
  BY <1>1 DEF WriterView, CommitView, CommitReady
<1>3. QED
  BY <1>1, <1>2 DEF Breaks, Release, RaiseTo, Record, Goto

LEMMA BreaksStep ==
  ASSUME IInv, NEW a \in Attempts, Breaks(a)
  PROVE  IInv'
<1> TypeOK'
  BY NestTypes
<1> USE DEF IInv, TypeOK
<1>1. /\ writer = a /\ a # NoAttempt
      /\ request' = request /\ work' = db' /\ writer' = NoAttempt /\ pool' = pool \ {a}
      /\ stage' = [stage EXCEPT ![a] = "respond"]
      /\ result' = [result EXCEPT ![a] = Raised("failed")]
      /\ outcome' = [outcome EXCEPT ![a] = "failed"]
      /\ db' = db \/ (CommitReady(a) /\ db' = work)
  BY BreaksEffect
<1>2. /\ NeverNegative' /\ RowsMatch'
      /\ \A k \in Keys : db.replay[k] # NoAttempt => db'.replay[k] = db.replay[k]
      /\ db'.reservations \subseteq db.reservations \cup {a}
  <2>1. CASE db' = db
    BY <1>1, <2>1 DEF NeverNegative, RowsMatch, KeyOf
  <2>2. CASE CommitReady(a) /\ db' = work
    BY <1>1, <2>2, CommitEffect
  <2>3. QED
    BY <1>1, <2>1, <2>2
<1>3. LockAndPoolMatch' /\ IsFiniteSet(pool)'
  <2>1. \A b \in Attempts : InTransaction(b) => b = a
    BY <1>1 DEF LockAndPoolMatch
  <2>2. \A b \in Attempts : ~InTransaction(b)'
    BY <1>1, <2>1 DEF InTransaction, Statements
  <2>3. pool' = {b \in Attempts : stage[b] = "begin" \/ InTransaction(b)}'
    BY <1>1, <2>1, <2>2 DEF LockAndPoolMatch, Breaks
  <2>4. QED
    BY <1>1, <2>2, <2>3, PoolGive DEF LockAndPoolMatch
<1>4. ASSUME NEW b \in Attempts
      PROVE  History(b)'
  BY <1>1, <1>2 DEF History, InTransaction, Statements, Raised
<1>5. OutcomeIsTruthful'
  <2>1. ASSUME NEW b \in Attempts, b # a, outcome[b] = "committed"
        PROVE  db'.replay[KeyOf(b)] = result[b].reservation
    BY <2>1, <1>2 DEF OutcomeIsTruthful, History, KeyOf, Requests
  <2>2. QED
    BY <1>1, <2>1 DEF OutcomeIsTruthful, KeyOf, Raised
<1>6. QED
  BY <1>1, <1>2, <1>3, <1>4, <1>5

\* No COMMIT outlives its request.
NestInv == IInv /\ ~Abandoned

LEMMA NestInitInvariant ==
  ASSUME Init
  PROVE  NestInv
BY InitInvariant DEF NestInv, Init, Abandoned

LEMMA NestInvariantStep ==
  ASSUME NestInv, Nest!NestNext
  PROVE  NestInv'
<1> USE DEF NestInv
<1>1. ASSUME NEW a \in Attempts, Served(a)
      PROVE  NestInv'
  <2>1. IInv'
    BY <1>1, ServedIsStep, InvariantStep
  <2>2. IInv /\ TypeOK /\ LockAndPoolMatch /\ a # NoAttempt
    BY SqliteAssumption DEF IInv
  <2>3. CASE Arrive(a) \/ Connect(a) \/ ConnectFails(a) \/ BeginFails(a) \/ Respond(a)
    BY <2>1, <2>2, <2>3 DEF TypeOK, Arrive, Connect, ConnectFails, BeginFails, Respond, RaiseTo,
       Goto, Abandoned, InTransaction, Statements
  <2>4. CASE BeginImmediate(a)
    BY <2>1, <2>2, <2>4 DEF TypeOK, BeginImmediate, Goto, Abandoned, InTransaction, Statements
  <2>5. CASE \/ FindReplay(a) \/ DecreaseStock(a) \/ FindProduct(a) \/ SaveReservation(a)
             \/ SaveIdempotency(a) \/ StatementFails(a) \/ CommitFails(a)
    <3>1. writer' = writer /\ InTransaction(a) /\ InTransaction(a)'
      BY <2>2, <2>5 DEF TypeOK, FindReplay, DecreaseStock, FindProduct, SaveReservation,
         SaveIdempotency, StatementFails, CommitFails, RaiseTo, Goto, InTransaction, Statements
    <3>2. writer = a
      BY <2>2, <3>1 DEF LockAndPoolMatch
    <3>3. QED
      BY <2>1, <3>1, <3>2 DEF Abandoned
  <2>6. CASE Commit(a) \/ Rollback(a)
    BY <2>1, <2>6 DEF Commit, Rollback, Release, Abandoned
  <2>7. QED
    BY <1>1, <2>3, <2>4, <2>5, <2>6 DEF Served
<1>2. ASSUME NEW a \in Attempts, SlowAcquire(a)
      PROVE  NestInv'
  <2>1. IInv'
    BY <1>2, SlowAcquireStep
  <2>2. TypeOK
    BY DEF IInv
  <2>3. QED
    BY <1>2, <2>1, <2>2 DEF TypeOK, SlowAcquire, RaiseTo, Goto, Abandoned, InTransaction, Statements
<1>3. ASSUME NEW a \in Attempts, Breaks(a)
      PROVE  NestInv'
  BY <1>3, BreaksStep, BreaksEffect DEF Abandoned
<1>4. ASSUME NEW p \in Products, Seed(p)
      PROVE  NestInv'
  BY <1>4, InvariantStep DEF Next, Seed, Abandoned
<1>5. ASSUME Crash
      PROVE  NestInv'
  BY <1>5, InvariantStep DEF Next, Crash, Abandoned
<1>6. QED
  BY <1>1, <1>2, <1>3, <1>4, <1>5, NestSteps

\* Both are seen by the client as a failure; a reservation may have been made.
LEMMA NestFailure ==
  ASSUME IInv, NEW a \in Attempts, SlowAcquire(a) \/ Breaks(a)
  PROVE  Contract!Next
<1> USE DEF IInv, TypeOK
<1> DEFINE kind == IF SlowAcquire(a) THEN "pool_timeout" ELSE "failed"
<1>1. /\ request' = request /\ outcome' = [outcome EXCEPT ![a] = "failed"]
      /\ result' = [result EXCEPT ![a] = Raised(kind)] /\ writer' # a
      /\ \A b \in Attempts : b # a => (writer' = b) = (writer = b)
  <2>1. CASE SlowAcquire(a)
    <3>1. writer # a
      BY <2>1, SqliteAssumption DEF SlowAcquire, WriterView, InTransaction, Statements
    <3>2. QED
      BY <2>1, <3>1 DEF SlowAcquire, RaiseTo, Record
  <2>2. CASE ~SlowAcquire(a)
    BY <2>2, BreaksEffect, SqliteAssumption
  <2>3. QED
    BY <2>1, <2>2
<1>2. Decision[a] = NoResult /\ db.replay[KeyOf(a)] # a
  BY UndecidedFresh DEF SlowAcquire, Breaks
<1>3. kind \in {"pool_timeout", "failed"}
  OBVIOUS
<1> HIDE DEF kind
<1>4. Decision' = [Decision EXCEPT ![a] = Raised(kind)]
  <2>1. ASSUME NEW b \in Attempts
        PROVE  Decision'[b] = IF b = a THEN Raised(kind) ELSE Decision[b]
    BY <1>1 DEF Decision
  <2>2. QED
    BY <2>1 DEF Decision
<1>5. Contract!Decide(a, Contract!Refused(kind))
  BY <1>2, <1>4 DEF Contract!Decide, Contract!Undecided, Contract!Refused, NoResult, Raised
<1>6. CASE db' = db
  <2>1. Contract!Fail(a)
    BY <1>1, <1>2, <1>3, <1>5, <1>6 DEF Contract!Fail, Contract!KeyOf, KeyOf
  <2>2. QED
    BY <2>1 DEF Contract!Next, Contract!AttemptStep
<1>7. CASE db' # db
  <2>1. ~SlowAcquire(a) /\ Breaks(a)
    BY <1>7 DEF SlowAcquire
  <2>2. CommitReady(a) /\ db' = work /\ kind = "failed"
    BY <1>7, <2>1, BreaksEffect DEF kind
  <2>3. FreshKey(a) /\ InStock(db, ProductOf(a)) /\ db' = Reservation(db, a)
    BY <1>7, <2>2 DEF CommitReady
  <2>4. Contract!Reserve(a)
    BY <1>1, <1>2, <1>5, <2>2, <2>3, ReserveEffect
       DEF Contract!Reserve, Contract!Decide, Contract!KeyOf, Contract!ProductOf, KeyOf, ProductOf
  <2>5. QED
    BY <2>4 DEF Contract!Next, Contract!AttemptStep
<1>8. QED
  BY <1>6, <1>7

LEMMA NestContractStep ==
  ASSUME NestInv, Nest!NestNext
  PROVE  [Contract!Next]_(Contract!vars)
<1>1. ASSUME NEW a \in Attempts, Served(a) \/ SlowAcquire(a) \/ Breaks(a)
      PROVE  [Contract!Next]_(Contract!vars)
  BY <1>1, ServedIsStep, ContractStep, NestFailure DEF NestInv
<1>2. ASSUME NEW p \in Products, Seed(p)
      PROVE  [Contract!Next]_(Contract!vars)
  BY <1>2, ContractStep DEF NestInv, Next
<1>3. ASSUME Crash
      PROVE  [Contract!Next]_(Contract!vars)
  BY <1>3, ContractStep DEF NestInv, Next
<1>4. QED
  BY <1>1, <1>2, <1>3, NestSteps

-----------------------------------------------------------------------------
(* FastCRUD: on the tables without the deleted products, its steps are    *)
(* those of SqliteReservation, and a deletion keeps the invariant.        *)

\* The tables t with the deleted products left out.
ForSale(t) == [t EXCEPT !.listed = @ \ retired]

Sale == INSTANCE SqliteReservationProofs WITH db <- ForSale(db), work <- ForSale(work)

LEMMA SaleFinite == \A S : Sale!IsFiniteSet(S) <=> IsFiniteSet(S)
BY DEF Sale!IsFiniteSet, IsFiniteSet

LEMMA SaleCardinality == \A S : Sale!Cardinality(S) = Cardinality(S)
BY DEF Sale!Cardinality, Cardinality

LEMMA SaleFields ==
  ASSUME NEW t \in Tables
  PROVE  /\ ForSale(t).listed = t.listed \ retired
         /\ ForSale(t).available = t.available
         /\ ForSale(t).reservations = t.reservations
         /\ ForSale(t).replay = t.replay
BY DEF ForSale, Tables

\* What the service sees of the deleted products.
LEMMA SaleStock ==
  ASSUME NEW t \in Tables, NEW p
  PROVE  Sale!InStock(ForSale(t), p) <=> InStock(t, p) /\ p \notin retired
BY SaleFields DEF Sale!InStock, InStock

\* The statements that write, on both tables.
LEMMA SaleWrites ==
  ASSUME TypeOK, NEW t \in Tables, NEW a \in Attempts
  PROVE  /\ ForSale(Decreased(t, a)) = Sale!Decreased(ForSale(t), a)
         /\ ForSale(Reserved(t, a)) = Sale!Reserved(ForSale(t), a)
         /\ ForSale(Bound(t, a)) = Sale!Bound(ForSale(t), a)
BY DEF ForSale, Decreased, Reserved, Bound, Sale!Decreased, Sale!Reserved, Sale!Bound,
   KeyOf, ProductOf, Sale!KeyOf, Sale!ProductOf, Tables

\* The steps of an attempt, with the two that look at the mark.
Attempted(a) ==
  \/ Arrive(a) \/ Connect(a) \/ ConnectFails(a) \/ BeginImmediate(a) \/ BeginFails(a)
  \/ FindReplay(a) \/ DecrementStock(a) \/ FindActiveProduct(a)
  \/ SaveReservation(a) \/ SaveIdempotency(a) \/ StatementFails(a) \/ CommitFails(a)
  \/ Commit(a) \/ CommitCancelled(a) \/ Rollback(a) \/ Respond(a)

LEMMA FastcrudSteps ==
  ASSUME FastcrudNext
  PROVE  \/ /\ retired' = retired
            /\ \/ \E a \in Attempts : Attempted(a)
               \/ \E p \in Products : Seed(p)
               \/ DriverFinishes \/ Crash
         \/ \E p \in Products : Retire(p)
BY DEF FastcrudNext, OpenStep, ReplayStep, SaveStep, EndStep, AnswerStep, Attempted, SeedIfAbsent

FastcrudInv == FastcrudTypeOK /\ Sale!IInv /\ work.listed = db.listed

LEMMA AttemptedOnSale ==
  ASSUME TypeOK, NEW a \in Attempts, Attempted(a), retired' = retired
  PROVE  Sale!Next
<1>1. /\ db' = db => ForSale(db)' = ForSale(db)
      /\ db' = work => ForSale(db)' = ForSale(work)
      /\ work' = work => ForSale(work)' = ForSale(work)
      /\ work' = db => ForSale(work)' = ForSale(db)
      /\ work' = Decreased(work, a) => ForSale(work)' = ForSale(Decreased(work, a))
      /\ work' = Reserved(work, a) => ForSale(work)' = ForSale(Reserved(work, a))
      /\ work' = Bound(work, a) => ForSale(work)' = ForSale(Bound(work, a))
  BY DEF ForSale
<1>2. work \in Tables /\ db \in Tables
  BY DEF TypeOK
<1>3. CASE \/ Arrive(a) \/ Connect(a) \/ ConnectFails(a) \/ BeginImmediate(a)
           \/ BeginFails(a) \/ Respond(a)
  <2>1. \/ Sale!Arrive(a) \/ Sale!Connect(a) \/ Sale!ConnectFails(a) \/ Sale!BeginImmediate(a)
        \/ Sale!BeginFails(a) \/ Sale!Respond(a)
    BY <1>1, <1>3, SaleCardinality
       DEF Arrive, Connect, ConnectFails, BeginImmediate, BeginFails, Respond, Goto, RaiseTo,
       Raised, Record, Sale!Arrive, Sale!Connect, Sale!ConnectFails, Sale!BeginImmediate,
       Sale!BeginFails, Sale!Respond, Sale!Goto, Sale!RaiseTo, Sale!Raised, Sale!Record
  <2>2. QED
    BY <2>1 DEF Sale!Next, Sale!Advance
<1>4. CASE FindReplay(a)
  <2>1. ForSale(work).replay = work.replay
    BY <1>2, SaleFields
  <2>2. Sale!FindReplay(a)
    BY <1>1, <1>4, <2>1
       DEF FindReplay, Goto, RaiseTo, Raised, Replayed, KeyOf, ProductOf, Sale!FindReplay, Sale!Goto,
       Sale!RaiseTo, Sale!Raised, Sale!Replayed, Sale!KeyOf, Sale!ProductOf
  <2>3. QED
    BY <2>2 DEF Sale!Next, Sale!Advance
<1>5. CASE DecrementStock(a)
  <2>1. Sale!InStock(ForSale(work), ProductOf(a)) <=> InStock(work, ProductOf(a)) /\ OnSale(a)
    BY <1>2, SaleStock DEF OnSale
  <2>2. Sale!ProductOf(a) = ProductOf(a)
    BY DEF Sale!ProductOf, ProductOf
  <2>3. CASE OnSale(a) /\ InStock(work, ProductOf(a))
    <3>1. work' = Decreased(work, a)
      BY <1>5, <2>3 DEF DecrementStock, DecreaseStock
    <3>2. ForSale(work)' = Sale!Decreased(ForSale(work), a)
      BY <1>1, <1>2, <3>1, SaleWrites
    <3>3. Sale!DecreaseStock(a)
      BY <1>1, <1>5, <2>1, <2>2, <2>3, <3>2
         DEF DecrementStock, DecreaseStock, Goto, Sale!DecreaseStock, Sale!Goto
    <3>4. QED
      BY <3>3 DEF Sale!Next, Sale!Advance
  <2>4. CASE ~(OnSale(a) /\ InStock(work, ProductOf(a)))
    <3>1. Sale!DecreaseStock(a)
      BY <1>1, <1>5, <2>1, <2>2, <2>4
         DEF DecrementStock, DecreaseStock, Goto, Sale!DecreaseStock, Sale!Goto
    <3>2. QED
      BY <3>1 DEF Sale!Next, Sale!Advance
  <2>5. QED
    BY <2>3, <2>4
<1>6. CASE FindActiveProduct(a)
  <2>1. ProductOf(a) \in ForSale(work).listed <=> ProductOf(a) \in work.listed /\ OnSale(a)
    BY <1>2, SaleFields DEF OnSale
  <2>2. Sale!FindProduct(a)
    BY <1>1, <1>6, <2>1
       DEF FindActiveProduct, FindProduct, Goto, RaiseTo, Raised, ProductOf, Sale!FindProduct,
       Sale!Goto, Sale!RaiseTo, Sale!Raised, Sale!ProductOf
  <2>3. QED
    BY <2>2 DEF Sale!Next, Sale!Advance
<1>7. CASE SaveReservation(a) \/ SaveIdempotency(a)
  <2>1. /\ SaveReservation(a) => ForSale(work)' = Sale!Reserved(ForSale(work), a)
        /\ SaveIdempotency(a) => ForSale(work)' = Sale!Bound(ForSale(work), a)
    BY <1>1, <1>2, SaleWrites DEF SaveReservation, SaveIdempotency
  <2>2. Sale!SaveReservation(a) \/ Sale!SaveIdempotency(a)
    BY <1>1, <1>7, <2>1
       DEF SaveReservation, SaveIdempotency, Goto, Created, Sale!SaveReservation,
       Sale!SaveIdempotency, Sale!Goto, Sale!Created
  <2>3. QED
    BY <2>2 DEF Sale!Next, Sale!Advance
<1>8. CASE \/ StatementFails(a) \/ CommitFails(a) \/ Commit(a) \/ CommitCancelled(a)
           \/ Rollback(a)
  <2>1. \/ Sale!StatementFails(a) \/ Sale!CommitFails(a) \/ Sale!Commit(a)
        \/ Sale!CommitCancelled(a) \/ Sale!Rollback(a)
    BY <1>1, <1>8
       DEF StatementFails, CommitFails, Commit, CommitCancelled, Rollback, Statements, Goto, RaiseTo,
       Raised, Record, Release, Sale!StatementFails, Sale!CommitFails, Sale!Commit,
       Sale!CommitCancelled, Sale!Rollback, Sale!Statements, Sale!Goto, Sale!RaiseTo, Sale!Raised,
       Sale!Record, Sale!Release
  <2>2. QED
    BY <2>1 DEF Sale!Next, Sale!Advance
<1>9. QED
  BY <1>3, <1>4, <1>5, <1>6, <1>7, <1>8 DEF Attempted

LEMMA OthersOnSale ==
  ASSUME FastcrudTypeOK, retired' = retired,
         (\E p \in Products : Seed(p)) \/ DriverFinishes \/ Crash
  PROVE  Sale!Next
<1>1. db \in Tables /\ work \in Tables /\ retired \subseteq db.listed
  BY DEF FastcrudTypeOK, TypeOK
<1>2. ASSUME NEW p \in Products, Seed(p)
      PROVE  Sale!Next
  <2>1. p \notin ForSale(db).listed
    BY <1>1, <1>2, SaleFields DEF Seed
  <2>2. ForSale(db)' = [ForSale(db) EXCEPT !.listed = @ \cup {p}]
    <3>1. (db.listed \cup {p}) \ retired = (db.listed \ retired) \cup {p}
      BY <1>1, <1>2 DEF Seed
    <3>2. ForSale(db)' = [db EXCEPT !.listed = (db.listed \cup {p}) \ retired]
      BY <1>1, <1>2 DEF Seed, ForSale, Tables
    <3>3. QED
      BY <1>1, <3>1, <3>2 DEF ForSale, Tables
  <2>3. ForSale(work)' = ForSale(db)'
    BY <1>2 DEF Seed, ForSale
  <2>4. Sale!Seed(p)
    BY <1>2, <2>1, <2>2, <2>3 DEF Seed, Sale!Seed
  <2>5. QED
    BY <2>4 DEF Sale!Next
<1>3. /\ db' = db => ForSale(db)' = ForSale(db)
      /\ db' = work => ForSale(db)' = ForSale(work)
      /\ work' = db' => ForSale(work)' = ForSale(db)'
  BY DEF ForSale
<1>4. CASE DriverFinishes
  <2>1. Sale!DriverFinishes
    BY <1>3, <1>4 DEF DriverFinishes, Abandoned, InTransaction, Statements, Sale!DriverFinishes,
       Sale!Abandoned, Sale!InTransaction, Sale!Statements
  <2>2. QED
    BY <2>1 DEF Sale!Next
<1>5. CASE Crash
  <2>1. Sale!Crash
    BY <1>3, <1>5
       DEF Crash, Abandoned, CommitPending, InFlight, InTransaction, Statements, Sale!Crash,
       Sale!Abandoned, Sale!CommitPending, Sale!InFlight, Sale!InTransaction, Sale!Statements
  <2>2. QED
    BY <2>1 DEF Sale!Next
<1>6. QED
  BY <1>2, <1>4, <1>5

\* Nothing but the seed command changes the list of products, and a
\* transaction sees the committed list.
LEMMA ListingStep ==
  ASSUME TypeOK, work.listed = db.listed,
         (\E a \in Attempts : Attempted(a)) \/ DriverFinishes \/ Crash
  PROVE  db'.listed = db.listed /\ work'.listed = db.listed
<1>1. work \in Tables /\ db \in Tables
  BY DEF TypeOK
<1>2. ASSUME NEW a \in Attempts, Attempted(a)
      PROVE  db' \in {db, work} /\ work'.listed = db.listed
  <2>1. CASE DecrementStock(a)
    BY <1>1, <2>1, DecreasedFields DEF DecrementStock, DecreaseStock
  <2>2. CASE SaveReservation(a) \/ SaveIdempotency(a)
    <3>1. Reserved(work, a).listed = work.listed
      BY <1>1, ReservedFields
    <3>2. Bound(work, a).listed = work.listed
      BY <1>1, BoundFields
    <3>3. QED
      BY <2>2, <3>1, <3>2 DEF SaveReservation, SaveIdempotency
  <2>3. CASE ~(DecrementStock(a) \/ SaveReservation(a) \/ SaveIdempotency(a))
    BY <1>2, <2>3 DEF Attempted, Arrive, Connect, ConnectFails, BeginImmediate, BeginFails, FindReplay,
       FindActiveProduct, FindProduct, StatementFails, CommitFails, Commit, CommitCancelled,
       Rollback, Respond
  <2>4. QED
    BY <1>2, <2>1, <2>2, <2>3 DEF Attempted, DecrementStock, DecreaseStock, SaveReservation, SaveIdempotency
<1>3. ASSUME DriverFinishes \/ Crash
      PROVE  db' \in {db, work} /\ work' = db'
  BY <1>3 DEF DriverFinishes, Crash
<1>4. QED
  BY <1>2, <1>3

LEMMA FastcrudTypes ==
  ASSUME TypeOK,
         \/ \E a \in Attempts : Attempted(a)
         \/ \E p \in Products : Seed(p)
         \/ DriverFinishes \/ Crash
  PROVE  TypeOK'
<1>1. ASSUME NEW a \in Attempts, Attempted(a)
      PROVE  TypeOK'
  <2>1. CASE DecrementStock(a) /\ ~OnSale(a)
    BY <2>1 DEF DecrementStock, TypeOK, Goto, Stages, Statements
  <2>2. CASE FindActiveProduct(a) /\ ~OnSale(a)
    <3>1. /\ result' \in [Attempts -> Results]
          /\ stage' \in [Attempts -> Stages]
      BY <2>2, RaiseTyped DEF FindActiveProduct, CleanRefusals, Stages
    <3>2. QED
      BY <2>2, <3>1 DEF FindActiveProduct, TypeOK
  <2>3. CASE ~((DecrementStock(a) \/ FindActiveProduct(a)) /\ ~OnSale(a))
    <3>1. Next
      BY <1>1, <2>3 DEF Attempted, DecrementStock, FindActiveProduct, Next, Advance
    <3>2. QED
      BY <3>1, TypeStep
  <2>4. QED
    BY <2>1, <2>2, <2>3
<1>2. QED
  BY <1>1, TypeStep DEF Next

LEMMA SaleInit ==
  ASSUME FastcrudInit
  PROVE  FastcrudInv
<1>1. TypeOK /\ retired = {} /\ db = EmptyTables /\ work = EmptyTables
  BY InitTypes DEF FastcrudInit, Init
<1>2. ForSale(db) = EmptyTables /\ ForSale(work) = EmptyTables
  BY <1>1 DEF ForSale, EmptyTables
<1>3. Sale!Init
  BY <1>2 DEF FastcrudInit, Init, Sale!Init, EmptyTables, Requests, NoResult, Sale!EmptyTables,
     Sale!Requests, Sale!NoResult
<1>4. Sale!IInv
  BY <1>3, Sale!InitInvariant, SqliteAssumption, SaleFinite
<1>5. QED
  BY <1>1, <1>4 DEF FastcrudInv, FastcrudTypeOK

\* A deletion finds nobody at work, and takes no reservation away.
LEMMA RetireStep ==
  ASSUME FastcrudInv, NEW p \in Products, Retire(p)
  PROVE  FastcrudInv'
<1>1. /\ TypeOK /\ db \in Tables /\ work \in Tables /\ retired \subseteq db.listed
      /\ work.listed = db.listed
  BY DEF FastcrudInv, FastcrudTypeOK, TypeOK
<1>2. /\ UNCHANGED <<request, stage, result, outcome, pool, writer, db, work>>
      /\ writer = NoAttempt /\ retired' \subseteq db.listed
  BY <1>1 DEF Retire, vars
<1>3. work = db
  <2>1. ForSale(work) = ForSale(db)
    BY <1>2 DEF FastcrudInv, Sale!IInv, Sale!LockAndPoolMatch
  <2>2. /\ work.available = db.available /\ work.reservations = db.reservations
        /\ work.replay = db.replay
    BY <1>1, <2>1, SaleFields
  <2>3. QED
    BY <1>1, <2>2 DEF Tables
<1>4. /\ ForSale(db)' \in Tables /\ ForSale(work)' = ForSale(db)'
      /\ ForSale(db)'.available = ForSale(db).available
      /\ ForSale(db)'.reservations = ForSale(db).reservations
      /\ ForSale(db)'.replay = ForSale(db).replay
  BY <1>1, <1>2, <1>3 DEF ForSale, Tables
<1>5. Sale!IInv'
  <2> USE DEF FastcrudInv, Sale!IInv
  <2>1. Sale!TypeOK'
    BY <1>2, <1>4 DEF Sale!TypeOK, Sale!Requests, Sale!Stages, Sale!Statements, Sale!Results,
       Sale!CleanRefusals, Sale!Tables, Tables
  <2>2. Sale!NeverNegative' /\ Sale!RowsMatch' /\ Sale!OutcomeIsTruthful'
    BY <1>2, <1>4 DEF Sale!NeverNegative, Sale!RowsMatch, Sale!OutcomeIsTruthful, Sale!KeyOf
  <2>3. Sale!LockAndPoolMatch' /\ Sale!IsFiniteSet(pool)'
    BY <1>2, <1>4, SaleCardinality, SaleFinite DEF Sale!LockAndPoolMatch, Sale!InTransaction, Sale!Statements
  <2>4. \A a \in Attempts : Sale!History(a)'
    BY <1>2, <1>4 DEF Sale!History, Sale!InTransaction, Sale!Statements, Sale!CleanRefusals
  <2>5. QED
    BY <1>2, <2>1, <2>2, <2>3, <2>4
<1>6. QED
  BY <1>1, <1>2, <1>5 DEF FastcrudInv, FastcrudTypeOK, TypeOK

LEMMA FastcrudInvariantStep ==
  ASSUME FastcrudInv, FastcrudNext
  PROVE  FastcrudInv'
<1> USE DEF FastcrudInv, FastcrudTypeOK
<1>1. ASSUME retired' = retired,
             \/ \E a \in Attempts : Attempted(a)
             \/ \E p \in Products : Seed(p)
             \/ DriverFinishes \/ Crash
      PROVE  FastcrudInv'
  <2>1. Sale!IInv'
    BY <1>1, AttemptedOnSale, OthersOnSale, Sale!InvariantStep, SqliteAssumption, SaleFinite
  <2>2. TypeOK'
    BY <1>1, FastcrudTypes
  <2>3. work'.listed = db'.listed /\ db.listed \subseteq db'.listed
    BY <1>1, ListingStep DEF Seed, TypeOK, Tables
  <2>4. retired' \in SUBSET db'.listed
    BY <1>1, <2>3
  <2>5. QED
    BY <2>1, <2>2, <2>3, <2>4
<1>2. QED
  BY <1>1, RetireStep, FastcrudSteps

-----------------------------------------------------------------------------
(* A step of the contract without the deleted products is a step of the   *)
(* contract with them.                                                     *)

LEMMA SaleDecision == Sale!Decision = Decision
BY DEF Sale!Decision, Decision, Sale!NoResult, NoResult

LEMMA SaleContract ==
  ASSUME TypeOK, TypeOK', retired \subseteq db.listed, retired' = retired,
         db'.listed = db.listed, [Sale!Contract!Next]_(Sale!Contract!vars)
  PROVE  [RetirableContract!RetirableNext]_(RetirableContract!retirableVars)
<1>1. db \in Tables /\ db' \in Tables
  BY DEF TypeOK, Tables
<1>2. /\ ForSale(db).listed = db.listed \ retired
      /\ ForSale(db).available = db.available /\ ForSale(db).replay = db.replay
      /\ Sale!Decision = Decision
  BY <1>1, SaleFields, SaleDecision
<1>3. /\ (ForSale(db).listed)' = db.listed \ retired
      /\ (ForSale(db).available)' = db'.available /\ (ForSale(db).replay)' = db'.replay
      /\ Sale!Decision' = Decision'
  <2>1. Sale!Decision' = Decision'
    BY DEF Sale!Decision, Decision, Sale!NoResult, NoResult
  <2>2. QED
    BY <1>1, <2>1 DEF ForSale, Tables
<1>4. CASE UNCHANGED Sale!Contract!vars
  BY <1>2, <1>3, <1>4 DEF Sale!Contract!vars, RetirableContract!retirableVars, RetirableContract!vars
<1>5. ASSUME NEW p \in Products, Sale!Contract!List(p)
      PROVE  FALSE
  BY <1>2, <1>3, <1>5 DEF Sale!Contract!List
<1>6. ASSUME NEW a \in Attempts, Sale!Contract!AttemptStep(a)
      PROVE  RetirableContract!RetirableNext
  <2> DEFINE On == RetirableContract!Active(a)
  <2>1. ASSUME Sale!Contract!Reserve(a)
        PROVE  On /\ RetirableContract!Reserve(a)
    BY <1>2, <1>3, <2>1
       DEF Sale!Contract!Reserve, Sale!Contract!KeyOf, Sale!Contract!ProductOf, Sale!Contract!Decide,
       Sale!Contract!Undecided, Sale!Contract!Created, Sale!Contract!Refused,
       RetirableContract!Reserve, RetirableContract!KeyOf, RetirableContract!ProductOf,
       RetirableContract!Decide, RetirableContract!Undecided, RetirableContract!Created,
       RetirableContract!Refused, RetirableContract!Active
  <2>2. ASSUME Sale!Contract!SoldOut(a)
        PROVE  On /\ RetirableContract!SoldOut(a)
    BY <1>2, <1>3, <2>2
       DEF Sale!Contract!SoldOut, Sale!Contract!KeyOf, Sale!Contract!ProductOf, Sale!Contract!Decide,
       Sale!Contract!Undecided, Sale!Contract!Refused,
       RetirableContract!SoldOut, RetirableContract!KeyOf, RetirableContract!ProductOf,
       RetirableContract!Decide, RetirableContract!Undecided, RetirableContract!Refused,
       RetirableContract!Active
  <2>3. ASSUME Sale!Contract!NotFound(a)
        PROVE  \/ RetirableContract!NotFound(a)
               \/ RetirableContract!Withdrawn(a)
    BY <1>2, <1>3, <2>3
       DEF Sale!Contract!NotFound, Sale!Contract!KeyOf, Sale!Contract!ProductOf, Sale!Contract!Decide,
       Sale!Contract!Undecided, Sale!Contract!Refused,
       RetirableContract!NotFound, RetirableContract!Withdrawn, RetirableContract!KeyOf,
       RetirableContract!ProductOf, RetirableContract!Decide, RetirableContract!Undecided,
       RetirableContract!Refused, RetirableContract!Active
  <2>4. ASSUME Sale!Contract!Replay(a) \/ Sale!Contract!Conflict(a) \/ Sale!Contract!Fail(a)
        PROVE  RetirableContract!Replay(a) \/ RetirableContract!Conflict(a) \/ RetirableContract!Fail(a)
    BY <1>2, <1>3, <2>4
       DEF Sale!Contract!Replay, Sale!Contract!Conflict, Sale!Contract!Fail, Sale!Contract!KeyOf,
       Sale!Contract!ProductOf, Sale!Contract!Decide, Sale!Contract!Undecided, Sale!Contract!Refused,
       Sale!Contract!Replayed, RetirableContract!Replay, RetirableContract!Conflict,
       RetirableContract!Fail, RetirableContract!KeyOf, RetirableContract!ProductOf,
       RetirableContract!Decide, RetirableContract!Undecided, RetirableContract!Refused,
       RetirableContract!Replayed
  <2>5. QED
    BY <1>6, <2>1, <2>2, <2>3, <2>4
       DEF Sale!Contract!AttemptStep, RetirableContract!RetirableNext
<1>7. QED
  BY <1>4, <1>5, <1>6 DEF Sale!Contract!Next

LEMMA FastcrudContractStep ==
  ASSUME FastcrudInv, FastcrudNext
  PROVE  [RetirableContract!RetirableNext]_(RetirableContract!retirableVars)
<1> USE DEF FastcrudInv, FastcrudTypeOK
<1>1. ASSUME retired' = retired,
             (\E a \in Attempts : Attempted(a)) \/ DriverFinishes \/ Crash
      PROVE  [RetirableContract!RetirableNext]_(RetirableContract!retirableVars)
  <2>1. Sale!Next
    BY <1>1, AttemptedOnSale, OthersOnSale
  <2>2. [Sale!Contract!Next]_(Sale!Contract!vars)
    BY <2>1, Sale!ContractStep, SqliteAssumption, SaleFinite
  <2>3. TypeOK' /\ db'.listed = db.listed
    BY <1>1, FastcrudTypes, ListingStep
  <2>4. QED
    BY <1>1, <2>2, <2>3, SaleContract
<1>2. ASSUME NEW p \in Products, Seed(p), retired' = retired
      PROVE  RetirableContract!RetirableNext
  <2>1. /\ UNCHANGED <<request, result, outcome, writer>> /\ p \notin db.listed
        /\ db'.listed = db.listed \cup {p} /\ db'.available = db.available
        /\ db'.replay = db.replay
    BY <1>2 DEF Seed, TypeOK, Tables
  <2>2. RetirableContract!List(p)
    BY <2>1 DEF RetirableContract!List, Decision
  <2>3. QED
    BY <1>2, <2>2 DEF RetirableContract!RetirableNext
<1>3. ASSUME NEW p \in Products, Retire(p)
      PROVE  RetirableContract!RetirableNext
  <2>1. RetirableContract!Retire(p)
    BY <1>3 DEF Retire, vars, RetirableContract!Retire, RetirableContract!vars, Decision
  <2>2. QED
    BY <2>1 DEF RetirableContract!RetirableNext
<1>4. QED
  BY <1>1, <1>2, <1>3, FastcrudSteps

\* Where nothing is retired it is the reservation contract.
LEMMA NothingRetired ==
  ASSUME retired = {}, retired' = {}, [Contract!Next]_(Contract!vars)
  PROVE  [RetirableContract!RetirableNext]_(RetirableContract!retirableVars)
<1>1. CASE UNCHANGED Contract!vars
  BY <1>1 DEF Contract!vars, RetirableContract!retirableVars, RetirableContract!vars
<1>2. ASSUME NEW p \in Products, Contract!List(p)
      PROVE  RetirableContract!List(p)
  BY <1>2 DEF Contract!List, RetirableContract!List
<1>3. ASSUME NEW a \in Attempts
      PROVE  /\ Contract!Reserve(a) => RetirableContract!Reserve(a)
             /\ Contract!SoldOut(a) => RetirableContract!SoldOut(a)
             /\ RetirableContract!Active(a)
  BY DEF Contract!Reserve, Contract!SoldOut, Contract!KeyOf, Contract!ProductOf, Contract!Decide,
     Contract!Undecided, Contract!Created, Contract!Refused, RetirableContract!Reserve,
     RetirableContract!SoldOut, RetirableContract!KeyOf, RetirableContract!ProductOf,
     RetirableContract!Decide, RetirableContract!Undecided, RetirableContract!Created,
     RetirableContract!Refused, RetirableContract!Active
<1>4. ASSUME NEW a \in Attempts
      PROVE  /\ Contract!Replay(a) => RetirableContract!Replay(a)
             /\ Contract!Conflict(a) => RetirableContract!Conflict(a)
             /\ Contract!NotFound(a) => RetirableContract!NotFound(a)
             /\ Contract!Fail(a) => RetirableContract!Fail(a)
  BY DEF Contract!Replay, Contract!Conflict, Contract!NotFound, Contract!Fail, Contract!KeyOf,
     Contract!ProductOf, Contract!Decide, Contract!Undecided, Contract!Refused, Contract!Replayed,
     RetirableContract!Replay, RetirableContract!Conflict, RetirableContract!NotFound,
     RetirableContract!Fail, RetirableContract!KeyOf, RetirableContract!ProductOf,
     RetirableContract!Decide, RetirableContract!Undecided, RetirableContract!Refused,
     RetirableContract!Replayed
<1>5. QED
  BY <1>1, <1>2, <1>3, <1>4
     DEF Contract!Next, Contract!AttemptStep, RetirableContract!RetirableNext

-----------------------------------------------------------------------------
(* The theorems. *)

\* Whichever of the two is deployed.
StoresIInv ==
  \/ service = "nest" /\ retired = {} /\ NestInv
  \/ service = "fastcrud" /\ FastcrudInv

LEMMA StoresInvariant == StoresSpec => []StoresIInv
<1>1. StoresInit => StoresIInv
  BY NestInitInvariant, SaleInit DEF StoresInit, FastcrudInit, StoresIInv
<1>2. ASSUME StoresIInv, [StoresNext]_storesVars
      PROVE  StoresIInv'
  <2>1. CASE StoresNext
    BY <1>2, <2>1, NestInvariantStep, FastcrudInvariantStep DEF StoresNext, StoresIInv
  <2>2. CASE UNCHANGED storesVars
    <3>1. [Next]_vars /\ UNCHANGED vars /\ retired' = retired /\ service' = service
      BY <2>2 DEF storesVars, fastcrudVars
    <3>2. IInv => IInv'
      BY <3>1, InvariantStep
    <3>3. Abandoned' = Abandoned
      BY <3>1 DEF vars, Abandoned, InTransaction
    <3>4. Sale!IInv => Sale!IInv'
      <4>1. UNCHANGED Sale!vars
        BY <3>1 DEF vars, Sale!vars, ForSale
      <4>2. QED
        BY <4>1, Sale!InvariantStep, SqliteAssumption, SaleFinite
    <3>5. FastcrudTypeOK => FastcrudTypeOK'
      BY <3>1, TypeStep DEF FastcrudTypeOK, vars
    <3>6. (work.listed = db.listed)' <=> work.listed = db.listed
      BY <3>1 DEF vars
    <3>7. QED
      BY <1>2, <3>1, <3>2, <3>3, <3>4, <3>5, <3>6 DEF StoresIInv, NestInv, FastcrudInv
  <2>3. QED
    BY <1>2, <2>1, <2>2
<1>3. QED
  BY <1>1, <1>2, PTL DEF StoresSpec

\* Rows match and outcomes are true in both; and a NestJS process, whose
\* workers may die and whose ROLLBACKs may fail, leaves neither the write lock
\* nor a connection to a request that has ended: StoresInv.
THEOREM StoresAreSound == StoresSpec => []StoresInv
<1>1. ASSUME service = "nest", retired = {}, NestInv
      PROVE  StoresInv
  <2>1. IInv /\ LockAndPoolMatch /\ TypeOK /\ ~Abandoned
    BY <1>1 DEF NestInv, IInv
  <2>2. Nest!NothingIsAbandoned
    BY <2>1 DEF TypeOK, LockAndPoolMatch, Abandoned, InTransaction, Statements,
       Nest!NothingIsAbandoned, Nest!InTransaction, Nest!Statements
  <2>3. QED
    BY <1>1, <2>1, <2>2 DEF StoresInv, FastcrudTypeOK, IInv
<1>2. ASSUME service = "fastcrud", FastcrudInv
      PROVE  StoresInv
  <2>1. ForSale(db).replay = db.replay /\ ForSale(db).reservations = db.reservations
    BY <1>2, SaleFields DEF FastcrudInv, FastcrudTypeOK, TypeOK
  <2>2. RowsMatch /\ OutcomeIsTruthful
    BY <1>2, <2>1 DEF FastcrudInv, Sale!IInv, Sale!RowsMatch, Sale!OutcomeIsTruthful, Sale!KeyOf,
       RowsMatch, OutcomeIsTruthful, KeyOf
  <2>3. QED
    BY <1>2, <2>2 DEF StoresInv, FastcrudInv
<1>3. StoresIInv => StoresInv
  BY <1>1, <1>2 DEF StoresIInv
<1>4. QED
  BY <1>3, StoresInvariant, PTL

\* Each attempt takes effect in one step, at its COMMIT or at its end, and its
\* answer agrees with that step, whatever dies and whenever a product is
\* deleted: ImplementsRetirableContract.
THEOREM RetirableContractIsKept == StoresSpec => ImplementsRetirableContract
<1>1. StoresInit => RetirableContract!RetirableInit
  <2> SUFFICES ASSUME StoresInit
               PROVE  RetirableContract!RetirableInit
    OBVIOUS
  <2>1. Decision = [a \in Attempts |-> RetirableContract!Undecided]
    BY DEF StoresInit, FastcrudInit, Init, Decision, NoResult, RetirableContract!Undecided
  <2>2. QED
    BY <2>1 DEF StoresInit, FastcrudInit, Init, EmptyTables, Requests, RetirableContract!RetirableInit,
       RetirableContract!Init, RetirableContract!Requests
<1>2. ASSUME StoresIInv, [StoresNext]_storesVars
      PROVE  [RetirableContract!RetirableNext]_(RetirableContract!retirableVars)
  <2>1. CASE service = "nest" /\ Nest!NestNext /\ retired' = retired
    BY <1>2, <2>1, NestContractStep, NothingRetired DEF StoresIInv
  <2>2. CASE service = "fastcrud" /\ FastcrudNext
    BY <1>2, <2>2, FastcrudContractStep DEF StoresIInv
  <2>3. CASE UNCHANGED storesVars
    BY <2>3 DEF storesVars, fastcrudVars, vars, Decision, RetirableContract!retirableVars,
       RetirableContract!vars
  <2>4. QED
    BY <1>2, <2>1, <2>2, <2>3 DEF StoresNext
<1>3. QED
  BY <1>1, <1>2, StoresInvariant, PTL
     DEF StoresSpec, ImplementsRetirableContract, RetirableContract!RetirableSpec

\* Without deletions it is the reservation contract itself.
THEOREM NestKeepsTheContract == Nest!NestSpec => ImplementsContract
<1>1. Nest!NestInit => Init
  BY DEF Nest!NestInit, Nest!Init, Nest!EmptyTables, Nest!Requests, Nest!NoResult, Init, EmptyTables,
     Requests, NoResult
<1>2. NestInv /\ [Nest!NestNext]_(Nest!vars) => NestInv'
  <2>1. NestInv /\ UNCHANGED vars => NestInv'
    BY InvariantStep DEF NestInv, vars, Abandoned, InTransaction
  <2>2. QED
    BY <2>1, NestInvariantStep DEF vars, Nest!vars
<1>3. NestInv /\ [Nest!NestNext]_(Nest!vars) => [Contract!Next]_(Contract!vars)
  <2>1. NestInv /\ UNCHANGED vars => [Contract!Next]_(Contract!vars)
    BY ContractStep DEF NestInv
  <2>2. QED
    BY <2>1, NestContractStep DEF vars, Nest!vars
<1>4. QED
  BY <1>1, <1>2, <1>3, NestInitInvariant, InitSimulates, PTL
     DEF Nest!NestSpec, ImplementsContract, Contract!Spec


-----------------------------------------------------------------------------
(* So the promises of the contract with deletion are those of both services. *)

RetirableTheory == INSTANCE ReservationContractProofs WITH
  listed <- db.listed,
  available <- db.available,
  ledger <- db.replay,
  decision <- Decision

LEMMA RetirableTheoryFinite == \A S : RetirableTheory!IsFiniteSet(S) <=> IsFiniteSet(S)
BY DEF RetirableTheory!IsFiniteSet, IsFiniteSet

\* The theorems are about the same contract.
LEMMA RetirableTheorySpeaksOfIt ==
  /\ RetirableTheory!RetirableInit <=> RetirableContract!RetirableInit
  /\ [RetirableTheory!RetirableNext]_(RetirableTheory!retirableVars) <=> [RetirableContract!RetirableNext]_(RetirableContract!retirableVars)
  /\ RetirableTheory!Promises <=> RetirableContract!Promises
<1>1. RetirableTheory!RetirableInit <=> RetirableContract!RetirableInit
  BY DEF RetirableTheory!RetirableInit, RetirableContract!RetirableInit,
         RetirableTheory!Init, RetirableContract!Init, RetirableTheory!Requests,
         RetirableContract!Requests, RetirableTheory!Undecided, RetirableContract!Undecided
<1>2. ASSUME NEW a \in Attempts
      PROVE  /\ RetirableTheory!Reserve(a) <=> RetirableContract!Reserve(a)
             /\ RetirableTheory!SoldOut(a) <=> RetirableContract!SoldOut(a)
             /\ RetirableTheory!Replay(a) <=> RetirableContract!Replay(a)
             /\ RetirableTheory!Conflict(a) <=> RetirableContract!Conflict(a)
             /\ RetirableTheory!NotFound(a) <=> RetirableContract!NotFound(a)
             /\ RetirableTheory!Fail(a) <=> RetirableContract!Fail(a)
             /\ RetirableTheory!Withdrawn(a) <=> RetirableContract!Withdrawn(a)
             /\ RetirableTheory!Active(a) <=> RetirableContract!Active(a)
  BY DEF RetirableTheory!Reserve, RetirableContract!Reserve, RetirableTheory!Replay,
         RetirableContract!Replay, RetirableTheory!Conflict, RetirableContract!Conflict,
         RetirableTheory!SoldOut, RetirableContract!SoldOut, RetirableTheory!NotFound,
         RetirableContract!NotFound, RetirableTheory!Fail, RetirableContract!Fail,
         RetirableTheory!Decide, RetirableContract!Decide, RetirableTheory!KeyOf,
         RetirableContract!KeyOf, RetirableTheory!ProductOf, RetirableContract!ProductOf,
         RetirableTheory!Undecided, RetirableContract!Undecided, RetirableTheory!Created,
         RetirableContract!Created, RetirableTheory!Replayed, RetirableContract!Replayed,
         RetirableTheory!Refused, RetirableContract!Refused, RetirableTheory!Withdrawn,
         RetirableContract!Withdrawn, RetirableTheory!Active, RetirableContract!Active
<1>3. RetirableTheory!RetirableNext <=> RetirableContract!RetirableNext
  BY <1>2 DEF RetirableTheory!RetirableNext, RetirableContract!RetirableNext,
         RetirableTheory!List, RetirableContract!List, RetirableTheory!Retire,
         RetirableContract!Retire, RetirableTheory!vars, RetirableContract!vars
<1>4. RetirableTheory!retirableVars = RetirableContract!retirableVars /\ RetirableTheory!retirableVars' = RetirableContract!retirableVars'
  BY DEF RetirableTheory!retirableVars, RetirableContract!retirableVars,
         RetirableTheory!vars, RetirableContract!vars
<1>5. \A S : RetirableTheory!Cardinality(S) = RetirableContract!Cardinality(S)
  BY DEF RetirableTheory!Cardinality, RetirableContract!Cardinality
<1>6. RetirableTheory!Conservation <=> RetirableContract!Conservation
  BY <1>5 DEF RetirableTheory!Conservation, RetirableContract!Conservation,
         RetirableTheory!KeysFor, RetirableContract!KeysFor, RetirableTheory!ProductOf,
         RetirableContract!ProductOf
<1>7. RetirableTheory!RetriesAgree <=> RetirableContract!RetriesAgree
  BY DEF RetirableTheory!RetriesAgree, RetirableContract!RetriesAgree,
         RetirableTheory!Succeeded, RetirableContract!Succeeded, RetirableTheory!KeyOf,
         RetirableContract!KeyOf, RetirableTheory!ProductOf, RetirableContract!ProductOf
<1>8. RetirableTheory!Promises <=> RetirableContract!Promises
  BY <1>6, <1>7 DEF RetirableTheory!Promises, RetirableContract!Promises,
         RetirableTheory!CleanRefusalLeavesNothing,
         RetirableContract!CleanRefusalLeavesNothing, RetirableTheory!SoldOutIsTrue,
         RetirableContract!SoldOutIsTrue, RetirableTheory!CleanRefusals,
         RetirableContract!CleanRefusals, RetirableTheory!KeyOf, RetirableContract!KeyOf,
         RetirableTheory!ProductOf, RetirableContract!ProductOf
<1>9. QED
  BY <1>1, <1>3, <1>4, <1>8

\* For any number of attempts, keys and products: neither FastCRUD nor NestJS sells
\* more than there is, whatever worker dies and whatever product is deleted; a
\* retry is told what the first try was told; nothing is reserved of a deleted
\* product, and no key loses its reservation.
THEOREM StoresKeepTheirPromises ==
  StoresSpec => /\ []RetirableContract!Promises
                /\ RetirableContract!LedgerIsPermanent
                /\ RetirableContract!RetiredIsFinal
<1>1. RetirableTheory!RetirableSpec =>
        /\ []RetirableTheory!Promises
        /\ RetirableTheory!LedgerIsPermanent
        /\ RetirableTheory!RetiredIsFinal
  BY RetirableTheory!RetirablePromisesHold, RetirableTheory!RetirableLedgerPermanence,
     RetirableTheory!RetiredIsFinalHolds, SqliteAssumption, RetirableTheoryFinite
<1>2. [\A k \in Keys :
           db.replay[k] # NoAttempt => (db.replay')[k] = db.replay[k]]_(RetirableTheory!vars)
      => [\A k \in Keys :
           db.replay[k] # NoAttempt => (db.replay')[k] = db.replay[k]]_(RetirableContract!vars)
  BY DEF RetirableTheory!vars, RetirableContract!vars
<1>3. [\A p \in retired :
           /\ p \in retired'
           /\ (db.available')[p] = db.available[p]
           /\ RetirableTheory!KeysFor(p)' = RetirableTheory!KeysFor(p)
      ]_(RetirableTheory!retirableVars)
      => [\A p \in retired :
           /\ p \in retired'
           /\ (db.available')[p] = db.available[p]
           /\ RetirableContract!KeysFor(p)' = RetirableContract!KeysFor(p)
      ]_(RetirableContract!retirableVars)
  BY DEF RetirableTheory!retirableVars, RetirableContract!retirableVars,
         RetirableTheory!vars, RetirableContract!vars,
         RetirableTheory!KeysFor, RetirableContract!KeysFor,
         RetirableTheory!ProductOf, RetirableContract!ProductOf
<1>4. QED
  BY <1>1, <1>2, <1>3, RetirableTheorySpeaksOfIt, RetirableContractIsKept, PTL
     DEF ImplementsRetirableContract, RetirableContract!RetirableSpec,
         RetirableTheory!RetirableSpec, RetirableContract!LedgerIsPermanent,
         RetirableTheory!LedgerIsPermanent, RetirableContract!RetiredIsFinal,
         RetirableTheory!RetiredIsFinal
=============================================================================
