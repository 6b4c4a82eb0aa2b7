----------------------- MODULE SqliteReservationProofs -----------------------
(***************************************************************************)
(* SqliteReservation keeps ReservationContract, for any number of          *)
(* attempts, keys, products and connections.  The inductive invariant      *)
(* IInv says what the writer's uncommitted tables look like at each of its *)
(* statements; the step simulation follows from it.                        *)
(***************************************************************************)
EXTENDS SqliteReservation, TLAPS, FiniteSetTheorems

\* Values an attempt can carry.
LEMMA ResultTypes ==
  /\ NoResult \in Results
  /\ \A a \in Attempts : Created(a) \in Results /\ Replayed(a) \in Results
  /\ \A kind \in CleanRefusals \cup {"failed"} : Raised(kind) \in Results
BY DEF Results, NoResult, Created, Replayed, Raised, CleanRefusals

\* A raised error keeps the results and the stages typed.
LEMMA RaiseTyped ==
  ASSUME TypeOK, NEW a \in Attempts, NEW s \in Stages,
         NEW kind \in CleanRefusals \cup {"failed"}, RaiseTo(a, kind, s)
  PROVE  /\ result' \in [Attempts -> Results]
         /\ stage' \in [Attempts -> Stages]
BY ResultTypes DEF TypeOK, RaiseTo, Goto

\* What each write does to each table, and that it yields tables.
LEMMA DecreasedFields ==
  ASSUME TypeOK, NEW t \in Tables, NEW a \in Attempts
  PROVE  /\ Decreased(t, a) \in Tables
         /\ Decreased(t, a).listed = t.listed
         /\ Decreased(t, a).available = [t.available EXCEPT ![ProductOf(a)] = @ - 1]
         /\ Decreased(t, a).reservations = t.reservations
         /\ Decreased(t, a).replay = t.replay
<1>1. ProductOf(a) \in Products
  BY DEF TypeOK, Requests, ProductOf
<1>2. [t.available EXCEPT ![ProductOf(a)] = @ - 1] \in [Products -> Int]
  BY <1>1 DEF Tables
<1>3. Decreased(t, a) = [listed |-> t.listed,
                         available |-> [t.available EXCEPT ![ProductOf(a)] = @ - 1],
                         reservations |-> t.reservations,
                         replay |-> t.replay]
  BY DEF Decreased, Tables
<1>4. QED
  BY <1>2, <1>3 DEF Tables

LEMMA ReservedFields ==
  ASSUME NEW t \in Tables, NEW a \in Attempts
  PROVE  /\ Reserved(t, a) \in Tables
         /\ Reserved(t, a).listed = t.listed
         /\ Reserved(t, a).available = t.available
         /\ Reserved(t, a).reservations = t.reservations \cup {a}
         /\ Reserved(t, a).replay = t.replay
BY DEF Reserved, Tables

LEMMA BoundFields ==
  ASSUME TypeOK, NEW t \in Tables, NEW a \in Attempts
  PROVE  /\ Bound(t, a) \in Tables
         /\ Bound(t, a).listed = t.listed
         /\ Bound(t, a).available = t.available
         /\ Bound(t, a).reservations = t.reservations
         /\ Bound(t, a).replay = [t.replay EXCEPT ![KeyOf(a)] = a]
<1>1. KeyOf(a) \in Keys
  BY DEF TypeOK, Requests, KeyOf
<1>2. [t.replay EXCEPT ![KeyOf(a)] = a] \in [Keys -> Attempts \cup {NoAttempt}]
  BY <1>1 DEF Tables
<1>3. Bound(t, a) = [listed |-> t.listed,
                     available |-> t.available,
                     reservations |-> t.reservations,
                     replay |-> [t.replay EXCEPT ![KeyOf(a)] = a]]
  BY DEF Bound, Tables
<1>4. QED
  BY <1>2, <1>3 DEF Tables

\* What a whole transaction does to the tables.
LEMMA ReservationFields ==
  ASSUME TypeOK, NEW t \in Tables, NEW a \in Attempts
  PROVE  /\ Reservation(t, a) \in Tables
         /\ Reservation(t, a).listed = t.listed
         /\ Reservation(t, a).available = [t.available EXCEPT ![ProductOf(a)] = @ - 1]
         /\ Reservation(t, a).reservations = t.reservations \cup {a}
         /\ Reservation(t, a).replay = [t.replay EXCEPT ![KeyOf(a)] = a]
<1> DEFINE t1 == Decreased(t, a)
           t2 == Reserved(t1, a)
<1>1. /\ t1 \in Tables /\ t1.listed = t.listed
      /\ t1.available = [t.available EXCEPT ![ProductOf(a)] = @ - 1]
      /\ t1.reservations = t.reservations /\ t1.replay = t.replay
  BY DecreasedFields
<1>2. Reservation(t, a) = Bound(t2, a)
  BY DEF Reservation
<1> HIDE DEF t1
<1>3. /\ t2 \in Tables /\ t2.listed = t1.listed /\ t2.available = t1.available
      /\ t2.reservations = t1.reservations \cup {a} /\ t2.replay = t1.replay
  BY <1>1, ReservedFields
<1> HIDE DEF t2
<1>4. /\ Bound(t2, a) \in Tables
      /\ Bound(t2, a).listed = t2.listed
      /\ Bound(t2, a).available = t2.available
      /\ Bound(t2, a).reservations = t2.reservations
      /\ Bound(t2, a).replay = [t2.replay EXCEPT ![KeyOf(a)] = a]
  BY <1>3, BoundFields
<1>5. QED
  BY <1>1, <1>2, <1>3, <1>4

\* The variables keep their types.
LEMMA TypeStep ==
  ASSUME TypeOK, [Next]_vars
  PROVE  TypeOK'
<1>1. ASSUME NEW a \in Attempts, Arrive(a) \/ Connect(a) \/ BeginImmediate(a) \/ Respond(a)
      PROVE  TypeOK'
  BY <1>1 DEF TypeOK, Arrive, Connect, BeginImmediate, Respond, Goto, Stages, Statements
<1>2. ASSUME NEW a \in Attempts, ConnectFails(a) \/ BeginFails(a)
      PROVE  TypeOK'
  <2>1. /\ result' \in [Attempts -> Results]
        /\ stage' \in [Attempts -> Stages]
    BY <1>2, RaiseTyped DEF ConnectFails, BeginFails, CleanRefusals, Stages
  <2>2. QED
    BY <1>2, <2>1 DEF TypeOK, ConnectFails, BeginFails, Record
<1>3. ASSUME NEW a \in Attempts, FindReplay(a)
      PROVE  TypeOK'
  <2>1. work.replay[KeyOf(a)] # NoAttempt => Replayed(work.replay[KeyOf(a)]) \in Results
    BY ResultTypes DEF TypeOK, Tables, KeyOf, Requests
  <2>2. CASE RaiseTo(a, "conflict", "rollback")
    <3>1. /\ result' \in [Attempts -> Results]
          /\ stage' \in [Attempts -> Stages]
      BY <2>2, RaiseTyped DEF CleanRefusals, Stages
    <3>2. QED
      BY <1>3, <3>1 DEF TypeOK, FindReplay
  <2>3. CASE ~RaiseTo(a, "conflict", "rollback")
    BY <1>3, <2>1, <2>3 DEF TypeOK, FindReplay, Goto, Stages, Statements
  <2>4. QED
    BY <2>2, <2>3
<1>4. ASSUME NEW a \in Attempts, DecreaseStock(a)
      PROVE  TypeOK'
  <2>1. Decreased(work, a) \in Tables
    BY DecreasedFields DEF TypeOK
  <2>2. QED
    BY <1>4, <2>1 DEF TypeOK, DecreaseStock, Goto, Stages, Statements
<1>5. ASSUME NEW a \in Attempts, FindProduct(a) \/ StatementFails(a) \/ CommitFails(a)
      PROVE  TypeOK'
  <2>1. /\ result' \in [Attempts -> Results]
        /\ stage' \in [Attempts -> Stages]
    BY <1>5, RaiseTyped DEF FindProduct, StatementFails, CommitFails, CleanRefusals, Stages
  <2>2. QED
    BY <1>5, <2>1 DEF TypeOK, FindProduct, StatementFails, CommitFails
<1>6. ASSUME NEW a \in Attempts, SaveReservation(a)
      PROVE  TypeOK'
  BY <1>6, ReservedFields DEF TypeOK, SaveReservation, Goto, Stages, Statements
<1>7. ASSUME NEW a \in Attempts, SaveIdempotency(a)
      PROVE  TypeOK'
  BY <1>7, BoundFields, ResultTypes DEF TypeOK, SaveIdempotency, Goto, Stages
<1>8. ASSUME NEW a \in Attempts, Commit(a) \/ Rollback(a)
      PROVE  TypeOK'
  BY <1>8 DEF TypeOK, Commit, Rollback, Release, Record, Goto, Stages
<1>9. ASSUME NEW a \in Attempts, CommitCancelled(a)
      PROVE  TypeOK'
  <2>1. /\ result' \in [Attempts -> Results]
        /\ stage' \in [Attempts -> Stages]
    BY <1>9, RaiseTyped DEF CommitCancelled, Stages
  <2>2. QED
    BY <1>9, <2>1 DEF TypeOK, CommitCancelled, Record
<1>10. ASSUME NEW p \in Products, Seed(p)
       PROVE  TypeOK'
  BY <1>10 DEF TypeOK, Seed, Tables
<1>11. CASE DriverFinishes \/ Crash
  BY <1>11 DEF TypeOK, DriverFinishes, Crash, Stages
<1>12. CASE UNCHANGED vars
  BY <1>12 DEF TypeOK, vars
<1>13. QED
  BY <1>1, <1>2, <1>3, <1>4, <1>5, <1>6, <1>7, <1>8, <1>9, <1>10, <1>11, <1>12
     DEF Next, Advance

LEMMA InitTypes == Init => TypeOK
BY SqliteAssumption, ResultTypes DEF Init, TypeOK, Stages, Tables, EmptyTables

-----------------------------------------------------------------------------
(* The inductive invariant. *)

\* The view of the writer does not depend on the other attempts.
LEMMA ViewFrame ==
  ASSUME WriterView(writer), writer # NoAttempt, writer' = writer,
         UNCHANGED <<request, db, work>>,
         stage'[writer] = stage[writer], result'[writer] = result[writer],
         outcome'[writer] = outcome[writer]
  PROVE  WriterView(writer)'
BY DEF WriterView, CommitView, RollbackView, CommitReady, FreshKey, InTransaction,
       InStock, Decreased, Reserved, Bound, Reservation, KeyOf, ProductOf

\* Connections are only taken below the limit; returning one is always safe.
LEMMA PoolTake ==
  ASSUME IInv, NEW a \in Attempts, Cardinality(pool) < PoolLimit
  PROVE  IsFiniteSet(pool \cup {a}) /\ Cardinality(pool \cup {a}) <= PoolLimit
<1>1. IsFiniteSet(pool) /\ Cardinality(pool) \in Nat
  BY FS_CardinalityType DEF IInv
<1>2. /\ IsFiniteSet(pool \cup {a})
      /\ Cardinality(pool \cup {a}) =
           IF a \in pool THEN Cardinality(pool) ELSE Cardinality(pool) + 1
  BY <1>1, FS_AddElement
<1>3. QED
  BY <1>1, <1>2, SqliteAssumption

LEMMA PoolGive ==
  ASSUME IInv, NEW a \in Attempts
  PROVE  IsFiniteSet(pool \ {a}) /\ Cardinality(pool \ {a}) <= PoolLimit
<1>1. IsFiniteSet(pool) /\ Cardinality(pool) \in Nat /\ Cardinality(pool) <= PoolLimit
  BY FS_CardinalityType DEF IInv, LockAndPoolMatch
<1>2. /\ IsFiniteSet(pool \ {a})
      /\ Cardinality(pool \ {a}) =
           IF a \in pool THEN Cardinality(pool) - 1 ELSE Cardinality(pool)
  BY <1>1, FS_RemoveElement
<1>3. QED
  BY <1>1, <1>2, SqliteAssumption

\* Steps before the transaction, and the delivery of the answer.
LEMMA OutsideStep ==
  ASSUME IInv, TypeOK', NEW a \in Attempts,
         \/ Arrive(a) \/ Connect(a) \/ ConnectFails(a)
         \/ BeginImmediate(a) \/ BeginFails(a) \/ Respond(a)
  PROVE  IInv'
<1> USE DEF IInv, TypeOK
<1>1. UNCHANGED <<request, db, work>>
  BY DEF Arrive, Connect, ConnectFails, BeginImmediate, BeginFails, Respond
<1>2. NeverNegative' /\ RowsMatch'
  BY <1>1 DEF NeverNegative, RowsMatch, KeyOf
<1>3. \A b \in Attempts : b # a => /\ stage'[b] = stage[b]
                                 /\ result'[b] = result[b]
                                 /\ outcome'[b] = outcome[b]
  BY DEF Arrive, Connect, ConnectFails, BeginImmediate, BeginFails, Respond,
         Goto, RaiseTo, Record
<1>4. LockAndPoolMatch' /\ IsFiniteSet(pool)'
  <2>1. CASE Arrive(a) \/ ConnectFails(a) \/ Respond(a)
    BY <2>1 DEF Arrive, ConnectFails, Respond, LockAndPoolMatch,
       InTransaction, Statements, Goto, RaiseTo
  <2>2. CASE BeginImmediate(a)
    <3>1. /\ stage[a] = "begin" /\ stage' = [stage EXCEPT ![a] = "find_replay"]
          /\ writer = NoAttempt /\ writer' = a /\ pool' = pool /\ work' = db'
      BY <2>2 DEF BeginImmediate, LockAndPoolMatch, Goto
    <3>2. \A b \in Attempts : ~InTransaction(b)
      BY <3>1, SqliteAssumption DEF LockAndPoolMatch
    <3>3. pool' = {b \in Attempts : stage[b] = "begin" \/ InTransaction(b)}'
      BY <3>1 DEF LockAndPoolMatch, InTransaction, Statements
    <3>4. QED
      BY <3>1, <3>2, <3>3 DEF LockAndPoolMatch, InTransaction, Statements
  <2>3. CASE Connect(a)
    BY <2>3, PoolTake DEF Connect, LockAndPoolMatch, InTransaction, Statements, Goto
  <2>4. CASE BeginFails(a)
    BY <2>4, PoolGive DEF BeginFails, LockAndPoolMatch, InTransaction, Statements, RaiseTo, Goto
  <2>5. QED
    BY <2>1, <2>2, <2>3, <2>4
<1>5. ASSUME NEW b \in Attempts
      PROVE  History(b)'
  <2>1. CASE b # a
    BY <2>1, <1>1, <1>3 DEF History, InTransaction
  <2>2. CASE b = a
    BY <2>2, <1>1 DEF History, InTransaction, Statements, Arrive, Connect, ConnectFails,
       BeginImmediate, BeginFails, Respond, Goto, RaiseTo, Raised, Record, CleanRefusals
  <2>3. QED
    BY <2>1, <2>2
<1>6. OutcomeIsTruthful'
  <2>1. ASSUME NEW b \in Attempts, b # a
        PROVE /\ stage'[b] \in {"respond", "answered"} =>
                   (outcome'[b] = "committed" <=> result'[b].kind \in {"created", "replayed"})
              /\ outcome'[b] = "committed" =>
                   db'.replay[KeyOf(b)'] = result'[b].reservation
    BY <2>1, <1>1, <1>3 DEF OutcomeIsTruthful, KeyOf
  <2>2. /\ stage'[a] \in {"respond", "answered"} =>
                   (outcome'[a] = "committed" <=> result'[a].kind \in {"created", "replayed"})
        /\ outcome'[a] = "committed" =>
                   db'.replay[KeyOf(a)'] = result'[a].reservation
    BY <1>1 DEF OutcomeIsTruthful, KeyOf, History, InTransaction, Statements, Arrive, Connect, ConnectFails,
       BeginImmediate, BeginFails, Respond, Goto, RaiseTo, Raised, Record
  <2>3. QED
    BY <2>1, <2>2 DEF OutcomeIsTruthful
<1>7. writer' # NoAttempt => WriterView(writer)'
  <2>1. CASE BeginImmediate(a)
    BY <2>1 DEF BeginImmediate, WriterView, Goto, InTransaction, Statements, LockAndPoolMatch
  <2>2. CASE ~BeginImmediate(a) /\ writer # a /\ writer # NoAttempt
    BY <2>2, <1>1, <1>3, ViewFrame DEF Arrive, Connect, ConnectFails, BeginFails, Respond
  <2>3. CASE ~BeginImmediate(a) /\ writer = a /\ a # NoAttempt
    BY <2>3, <1>1 DEF WriterView, InTransaction, Statements, Arrive, Connect,
       ConnectFails, BeginFails, Respond, Goto, CommitReady, FreshKey, InStock,
       Reservation, Bound, Reserved, Decreased, KeyOf, ProductOf
  <2>4. CASE ~BeginImmediate(a) /\ writer = NoAttempt
    BY <2>4 DEF Arrive, Connect, ConnectFails, BeginFails, Respond
  <2>5. QED
    BY <2>1, <2>2, <2>3, <2>4
<1>8. QED
  BY <1>2, <1>4, <1>5, <1>6, <1>7

\* The statements of the writer, and a COMMIT that is refused.
LEMMA StatementStep ==
  ASSUME IInv, TypeOK', NEW a \in Attempts,
         \/ FindReplay(a) \/ DecreaseStock(a) \/ FindProduct(a)
         \/ SaveReservation(a) \/ SaveIdempotency(a) \/ StatementFails(a)
         \/ CommitFails(a)
  PROVE  IInv'
<1> USE DEF IInv, TypeOK
<1>1. /\ UNCHANGED <<request, db, outcome, pool, writer>>
      /\ stage[a] \in Statements \cup {"commit"}
      /\ stage'[a] \in Statements \cup {"commit", "rollback"}
  BY DEF FindReplay, DecreaseStock, FindProduct, SaveReservation, SaveIdempotency,
         StatementFails, CommitFails, Goto, RaiseTo, Statements
<1>2. \A b \in Attempts : b # a => /\ stage'[b] = stage[b]
                                 /\ result'[b] = result[b]
  BY DEF FindReplay, DecreaseStock, FindProduct, SaveReservation, SaveIdempotency,
         StatementFails, CommitFails, Goto, RaiseTo
<1>3. writer = a /\ a # NoAttempt /\ WriterView(a)
  BY <1>1, SqliteAssumption DEF LockAndPoolMatch, InTransaction, Statements
<1>4. NeverNegative' /\ RowsMatch'
  BY <1>1 DEF NeverNegative, RowsMatch, KeyOf
<1>5. LockAndPoolMatch' /\ IsFiniteSet(pool)'
  BY <1>1, <1>2, <1>3 DEF LockAndPoolMatch, InTransaction, Statements
<1>6. ASSUME NEW b \in Attempts
      PROVE  History(b)'
  BY <1>1, <1>2 DEF History, InTransaction, Statements
<1>7. OutcomeIsTruthful'
  BY <1>1, <1>2, <1>6 DEF OutcomeIsTruthful, History, InTransaction, Statements, KeyOf
<1>8. \A t \in Tables : /\ Decreased(t, a)' = Decreased(t, a)
                       /\ Reserved(t, a)' = Reserved(t, a)
                       /\ Bound(t, a)' = Bound(t, a)
                       /\ Reservation(t, a)' = Reservation(t, a)
  BY <1>1 DEF Reservation, Decreased, Reserved, Bound, KeyOf, ProductOf
<1>9. WriterView(a)'
  <2>1. /\ FreshKey(a)' = FreshKey(a) /\ ProductOf(a)' = ProductOf(a)
        /\ KeyOf(a)' = KeyOf(a)
        /\ InStock(db, ProductOf(a))' = InStock(db, ProductOf(a))
    BY <1>1 DEF FreshKey, KeyOf, ProductOf, InStock
  <2>2. CASE FindReplay(a)
    <3>1. work = db /\ work' = db'
      BY <2>2, <1>1, <1>3 DEF FindReplay, WriterView
    <3>2. CASE work.replay[KeyOf(a)] = NoAttempt
      BY <2>2, <3>1, <3>2, <2>1
         DEF FindReplay, WriterView, FreshKey, Goto, InTransaction, Statements
    <3>3. CASE work.replay[KeyOf(a)] # NoAttempt
               /\ ProductOf(work.replay[KeyOf(a)]) = ProductOf(a)
      <4>1. CommitView(a)'
        BY <2>2, <3>1, <3>3, <2>1, <1>1 DEF FindReplay, CommitView, Replayed, ProductOf, KeyOf
      <4>2. QED
        BY <2>2, <3>3, <4>1 DEF FindReplay, WriterView, Goto, InTransaction, Statements
    <3>4. CASE work.replay[KeyOf(a)] # NoAttempt
               /\ ProductOf(work.replay[KeyOf(a)]) # ProductOf(a)
      <4>1. RollbackView(a)'
        BY <2>2, <3>1, <3>4, <2>1, <1>1
           DEF FindReplay, RollbackView, RaiseTo, Raised, FreshKey, ProductOf, KeyOf
      <4>2. QED
        BY <2>2, <3>4, <4>1 DEF FindReplay, WriterView, RaiseTo, Goto, InTransaction, Statements
    <3>5. QED
      BY <3>2, <3>3, <3>4
  <2>3. CASE DecreaseStock(a)
    <3>1. work = db /\ FreshKey(a)
      BY <2>3, <1>3 DEF DecreaseStock, WriterView
    <3>2. CASE InStock(work, ProductOf(a))
      <4>1. work' = Decreased(db, a)' /\ InStock(db, ProductOf(a))' /\ FreshKey(a)'
        BY <2>3, <3>1, <3>2, <2>1, <1>1, <1>8 DEF DecreaseStock
      <4>2. QED
        BY <2>3, <3>2, <4>1 DEF DecreaseStock, WriterView, Goto, InTransaction, Statements
    <3>3. CASE ~InStock(work, ProductOf(a))
      <4>1. work' = db' /\ ~InStock(db, ProductOf(a))' /\ FreshKey(a)'
        BY <2>3, <3>1, <3>3, <2>1, <1>1 DEF DecreaseStock
      <4>2. QED
        BY <2>3, <3>3, <4>1 DEF DecreaseStock, WriterView, Goto, InTransaction, Statements
    <3>4. QED
      BY <3>2, <3>3
  <2>4. CASE FindProduct(a)
    <3>1. work = db /\ FreshKey(a) /\ ~InStock(db, ProductOf(a))
      BY <2>4, <1>3 DEF FindProduct, WriterView
    <3>2. RollbackView(a)'
      BY <2>4, <3>1, <2>1, <1>1 DEF FindProduct, RollbackView, RaiseTo, Raised
    <3>3. QED
      BY <2>4, <3>2 DEF FindProduct, WriterView, RaiseTo, Goto, InTransaction, Statements
  <2>5. CASE SaveReservation(a)
    <3>1. work = Decreased(db, a) /\ FreshKey(a) /\ InStock(db, ProductOf(a))
      BY <2>5, <1>3 DEF SaveReservation, WriterView
    <3>2. /\ work' = Reserved(Decreased(db, a), a)'
          /\ FreshKey(a)' /\ InStock(db, ProductOf(a))'
      BY <2>5, <3>1, <2>1, <1>1 DEF SaveReservation, Reserved, Decreased, ProductOf
    <3>3. QED
      BY <2>5, <3>2 DEF SaveReservation, WriterView, Goto, InTransaction, Statements
  <2>6. CASE SaveIdempotency(a)
    <3>1. /\ work = Reserved(Decreased(db, a), a)
          /\ FreshKey(a) /\ InStock(db, ProductOf(a))
      BY <2>6, <1>3 DEF SaveIdempotency, WriterView
    <3>2. /\ work' = Reservation(db, a)'
          /\ FreshKey(a)' /\ InStock(db, ProductOf(a))'
      BY <2>6, <3>1, <2>1, <1>1
         DEF SaveIdempotency, Reservation, Bound, Reserved, Decreased, ProductOf, KeyOf
    <3>3. CommitView(a)'
      BY <2>6, <3>2 DEF SaveIdempotency, CommitView, Created
    <3>4. QED
      BY <2>6, <3>3 DEF SaveIdempotency, WriterView, Goto, InTransaction, Statements
  <2>7. CASE StatementFails(a) \/ CommitFails(a)
    BY <2>7 DEF StatementFails, CommitFails, WriterView, RollbackView, RaiseTo, Goto,
       InTransaction, Statements
  <2>8. QED
    BY <2>2, <2>3, <2>4, <2>5, <2>6, <2>7
<1>10. QED
  BY <1>1, <1>3, <1>4, <1>5, <1>6, <1>7, <1>9

\* What a COMMIT makes durable keeps the tables consistent, keeps every key
\* that was bound, and adds at most the reservation of its own attempt.
LEMMA CommitEffect ==
  ASSUME IInv, NEW a \in Attempts, CommitReady(a), request' = request, db' = work
  PROVE  /\ NeverNegative' /\ RowsMatch'
         /\ \A k \in Keys : db.replay[k] # NoAttempt => db'.replay[k] = db.replay[k]
         /\ db'.reservations \subseteq db.reservations \cup {a}
<1> USE DEF IInv, TypeOK
<1>1. a # NoAttempt /\ KeyOf(a) \in Keys /\ ProductOf(a) \in Products
  BY SqliteAssumption DEF KeyOf, ProductOf, Requests
<1>2. CASE work = db
  BY <1>2 DEF NeverNegative, RowsMatch, KeyOf
<1>3. CASE FreshKey(a) /\ InStock(db, ProductOf(a)) /\ work = Reservation(db, a)
  <2>1. /\ db'.available = [db.available EXCEPT ![ProductOf(a)] = @ - 1]
        /\ db'.reservations = db.reservations \cup {a}
        /\ db'.replay = [db.replay EXCEPT ![KeyOf(a)] = a]
    BY <1>3, ReservationFields
  <2>2. NeverNegative'
    BY <1>1, <1>3, <2>1 DEF NeverNegative, InStock, Tables
  <2>3. db.replay[KeyOf(a)] = NoAttempt
    BY <1>3 DEF FreshKey
  <2>4. \A k \in Keys : db'.replay[k] = IF k = KeyOf(a) THEN a ELSE db.replay[k]
    BY <1>1, <2>1 DEF Tables
  <2>5. \A k \in Keys : db'.replay[k] # NoAttempt => KeyOf(db'.replay[k]) = k
    BY <1>1, <2>4 DEF RowsMatch
  <2>6. db'.reservations = {db'.replay[k] : k \in Keys} \ {NoAttempt}
    BY <1>1, <2>1, <2>3, <2>4 DEF RowsMatch
  <2>7. RowsMatch'
    BY <2>5, <2>6 DEF RowsMatch, KeyOf
  <2>8. QED
    BY <2>1, <2>2, <2>3, <2>4, <2>7
<1>4. QED
  BY <1>2, <1>3 DEF CommitReady

\* The end of a transaction.
LEMMA TransactionEnds ==
  ASSUME IInv, TypeOK', NEW a \in Attempts,
         Commit(a) \/ CommitCancelled(a) \/ Rollback(a)
  PROVE  IInv'
<1> USE DEF IInv, TypeOK
<1>1. /\ writer = a /\ a # NoAttempt /\ WriterView(a)
      /\ stage[a] \in {"commit", "rollback"} /\ a \in pool
      /\ stage' = [stage EXCEPT ![a] = "respond"]
      /\ pool' = pool \ {a} /\ request' = request
  BY SqliteAssumption DEF Commit, CommitCancelled, Rollback, Goto, RaiseTo, Release,
     LockAndPoolMatch, InTransaction, Statements
<1>2. \A b \in Attempts : b # a => /\ stage'[b] = stage[b]
                                 /\ result'[b] = result[b]
                                 /\ outcome'[b] = outcome[b]
  BY DEF Commit, CommitCancelled, Rollback, Goto, RaiseTo, Record
<1>3. outcome[a] = "none" /\ a \notin db.reservations
  BY <1>1 DEF History, InTransaction
<1>4. /\ IsFiniteSet(pool') /\ Cardinality(pool') <= PoolLimit
      /\ pool' = {b \in Attempts : stage[b] = "begin" \/ InTransaction(b)}'
  BY <1>1, PoolGive DEF LockAndPoolMatch, InTransaction, Statements
<1>5. \A b \in Attempts : ~InTransaction(b)'
  BY <1>1 DEF LockAndPoolMatch, InTransaction, Statements
<1>6. CASE Commit(a)
  <2>1. CommitView(a) /\ CommitReady(a) /\ db' = work /\ work' = db' /\ writer' = NoAttempt
        /\ result' = result /\ outcome'[a] = "committed"
    BY <1>1, <1>6 DEF Commit, WriterView, CommitView, CommitReady, Release, Record
  <2>2. /\ NeverNegative' /\ RowsMatch'
        /\ \A k \in Keys : db.replay[k] # NoAttempt => db'.replay[k] = db.replay[k]
        /\ db'.reservations \subseteq db.reservations \cup {a}
    BY <1>1, <2>1, CommitEffect
  <2>3. LockAndPoolMatch'
    BY <1>4, <1>5, <2>1 DEF LockAndPoolMatch
  <2>4. /\ db'.replay[KeyOf(a)] = result[a].reservation
        /\ result[a].kind \in {"created", "replayed"} /\ result[a].reservation # NoAttempt
    <3>1. CASE /\ work = db
               /\ db.replay[KeyOf(a)] # NoAttempt
               /\ result[a] = Replayed(db.replay[KeyOf(a)])
      BY <2>1, <3>1 DEF Replayed
    <3>2. CASE work = Reservation(db, a) /\ result[a] = Created(a)
      <4>1. work.replay = [db.replay EXCEPT ![KeyOf(a)] = a]
        BY <3>2, ReservationFields
      <4>2. work.replay[KeyOf(a)] = a
        BY <4>1 DEF Tables, KeyOf, Requests
      <4>3. QED
        BY <2>1, <3>2, <4>2, <1>1 DEF Created
    <3>3. QED
      BY <2>1, <3>1, <3>2 DEF CommitView
  <2>5. ASSUME NEW b \in Attempts
        PROVE  History(b)'
    <3>1. CASE b = a
      BY <3>1, <1>1, <2>1, <2>4 DEF History, InTransaction, Statements
    <3>2. CASE b # a
      BY <3>2, <1>2, <2>2 DEF History, InTransaction
    <3>3. QED
      BY <3>1, <3>2
  <2>6. OutcomeIsTruthful'
    <3>1. ASSUME NEW b \in Attempts, outcome'[b] = "committed"
          PROVE  db'.replay[KeyOf(b)] = result'[b].reservation
      <4>1. CASE b = a
        BY <4>1, <2>1, <2>4
      <4>2. CASE b # a
        <5>1. /\ db.replay[KeyOf(b)] = result[b].reservation
              /\ result[b].reservation # NoAttempt /\ KeyOf(b) \in Keys
          BY <4>2, <3>1, <1>2 DEF OutcomeIsTruthful, History, KeyOf, Requests
        <5>2. QED
          BY <4>2, <5>1, <2>2, <1>2
      <4>3. QED
        BY <4>1, <4>2
    <3>2. ASSUME NEW b \in Attempts, stage'[b] \in {"respond", "answered"}
          PROVE  outcome'[b] = "committed" <=> result'[b].kind \in {"created", "replayed"}
      BY <3>2, <1>2, <2>1, <2>4 DEF OutcomeIsTruthful
    <3>3. QED
      BY <3>1, <3>2, <1>1 DEF OutcomeIsTruthful, KeyOf
  <2>7. QED
    BY <1>4, <2>1, <2>2, <2>3, <2>5, <2>6
<1>7. CASE Rollback(a) \/ CommitCancelled(a)
  <2>1. db' = db /\ outcome'[a] = "failed"
    BY <1>7 DEF Rollback, CommitCancelled, Record
  <2>2. NeverNegative' /\ RowsMatch'
    BY <1>1, <2>1 DEF NeverNegative, RowsMatch, KeyOf
  <2>3. LockAndPoolMatch'
    BY <1>1, <1>4, <1>5, <1>7 DEF LockAndPoolMatch, Rollback, CommitCancelled, Release
  <2>4. result'[a].kind \in {"conflict", "sold_out", "not_found", "busy", "failed"}
    BY <1>1, <1>7 DEF Rollback, CommitCancelled, WriterView, RollbackView, RaiseTo, Raised
  <2>5. ASSUME NEW b \in Attempts
        PROVE  History(b)'
    BY <1>1, <1>2, <2>1, <2>4 DEF History, InTransaction, Statements, CleanRefusals
  <2>6. OutcomeIsTruthful'
    BY <1>1, <1>2, <2>1, <2>4 DEF OutcomeIsTruthful, KeyOf
  <2>7. writer' # NoAttempt => WriterView(writer)'
    <3>1. CASE Rollback(a)
      BY <3>1 DEF Rollback, Release
    <3>2. CASE CommitCancelled(a)
      <4>1. CommitReady(a)'
        BY <3>2, <1>1 DEF CommitCancelled, WriterView, CommitView, CommitReady, FreshKey,
           InStock, Reservation, Bound, Reserved, Decreased, KeyOf, ProductOf
      <4>2. /\ writer' = a /\ stage'[a] = "respond" /\ result'[a] = Raised("failed")
            /\ outcome'[a] = "failed" /\ a \notin db'.reservations
        BY <3>2, <1>1, <1>3, <2>1 DEF CommitCancelled, RaiseTo, Record
      <4>3. QED
        BY <4>1, <4>2 DEF WriterView, InTransaction, Statements, Raised
    <3>3. QED
      BY <1>7, <3>1, <3>2
  <2>8. QED
    BY <1>4, <2>2, <2>3, <2>5, <2>6, <2>7
<1>8. QED
  BY <1>6, <1>7

\* The seed command.
LEMMA SeedStep ==
  ASSUME IInv, TypeOK', NEW p \in Products, Seed(p)
  PROVE  IInv'
<1> USE DEF IInv, TypeOK
<1>1. /\ UNCHANGED <<request, stage, result, outcome, pool, writer>>
      /\ writer = NoAttempt /\ work' = db'
      /\ db'.available = db.available /\ db'.reservations = db.reservations
      /\ db'.replay = db.replay
  BY DEF Seed, Tables
<1>2. NeverNegative' /\ RowsMatch' /\ OutcomeIsTruthful'
  BY <1>1 DEF NeverNegative, RowsMatch, OutcomeIsTruthful, KeyOf
<1>3. LockAndPoolMatch' /\ IsFiniteSet(pool)'
  BY <1>1 DEF LockAndPoolMatch, InTransaction
<1>4. \A b \in Attempts : History(b)'
  BY <1>1 DEF History, InTransaction
<1>5. QED
  BY <1>1, <1>2, <1>3, <1>4

\* Nobody is in a transaction while a COMMIT is abandoned, and that COMMIT
\* is still ready.
LEMMA AbandonedCommit ==
  ASSUME IInv, Abandoned
  PROVE  /\ writer \in Attempts /\ CommitReady(writer)
         /\ stage[writer] \in {"respond", "answered", "lost"}
         /\ result[writer] = Raised("failed") /\ outcome[writer] = "failed"
         /\ writer \notin db.reservations
         /\ \A b \in Attempts : ~InTransaction(b)
BY DEF IInv, TypeOK, Abandoned, WriterView, LockAndPoolMatch, InTransaction, Statements

LEMMA DriverStep ==
  ASSUME IInv, TypeOK', DriverFinishes
  PROVE  IInv'
<1> USE DEF IInv, TypeOK
<1>1. /\ UNCHANGED <<request, stage, result, outcome, pool>>
      /\ writer' = NoAttempt /\ work' = db' /\ db' \in {db, work} /\ Abandoned
  BY DEF DriverFinishes
<1>2. /\ writer \in Attempts /\ CommitReady(writer)
      /\ stage[writer] \in {"respond", "answered", "lost"}
      /\ outcome[writer] = "failed"
      /\ \A b \in Attempts : ~InTransaction(b)
  BY <1>1, AbandonedCommit
<1>3. /\ NeverNegative' /\ RowsMatch'
      /\ \A k \in Keys : db.replay[k] # NoAttempt => db'.replay[k] = db.replay[k]
      /\ db'.reservations \subseteq db.reservations \cup {writer}
  <2>1. CASE db' = db
    BY <1>1, <2>1 DEF NeverNegative, RowsMatch, KeyOf
  <2>2. CASE db' = work
    BY <1>1, <1>2, <2>2, CommitEffect
  <2>3. QED
    BY <1>1, <2>1, <2>2
<1>4. LockAndPoolMatch' /\ IsFiniteSet(pool)'
  BY <1>1, <1>2 DEF LockAndPoolMatch, InTransaction
<1>5. ASSUME NEW b \in Attempts
      PROVE  History(b)'
  BY <1>1, <1>2, <1>3 DEF History, InTransaction
<1>6. OutcomeIsTruthful'
  <2>1. ASSUME NEW b \in Attempts, outcome[b] = "committed"
        PROVE  db'.replay[KeyOf(b)] = result[b].reservation
    BY <2>1, <1>3 DEF OutcomeIsTruthful, History, KeyOf, Requests
  <2>2. QED
    BY <1>1, <2>1 DEF OutcomeIsTruthful, KeyOf
<1>7. QED
  BY <1>1, <1>3, <1>4, <1>5, <1>6

\* What a COMMIT of the writer would do, whoever waits for it.
LEMMA PendingCommit ==
  ASSUME IInv, CommitPending
  PROVE  /\ writer \in Attempts /\ CommitReady(writer)
         /\ writer \notin db.reservations
         /\ InFlight(writer) \/ Abandoned
         /\ outcome[writer] # "committed"
<1> USE DEF IInv, TypeOK
<1>1. CASE Abandoned
  BY <1>1, AbandonedCommit
<1>2. CASE \E a \in Attempts : stage[a] = "commit"
  <2>1. PICK a \in Attempts : stage[a] = "commit"
    BY <1>2
  <2>2. writer = a /\ WriterView(a) /\ History(a)
    BY <2>1, SqliteAssumption DEF LockAndPoolMatch, InTransaction
  <2>3. QED
    BY <2>1, <2>2 DEF WriterView, CommitView, CommitReady, History, InTransaction, InFlight
<1>3. QED
  BY <1>1, <1>2 DEF CommitPending

LEMMA CrashStep ==
  ASSUME IInv, TypeOK', Crash
  PROVE  IInv'
<1> USE DEF IInv, TypeOK
<1>1. /\ UNCHANGED <<request, result, outcome>>
      /\ writer' = NoAttempt /\ work' = db' /\ pool' = {}
      /\ stage' = [a \in Attempts |-> IF InFlight(a) THEN "lost" ELSE stage[a]]
      /\ db' = db \/ (CommitPending /\ db' = work)
  BY DEF Crash
<1>2. \A b \in Attempts : stage'[b] = "lost" \/ (stage'[b] = stage[b] /\ stage[b] \in {"new", "answered"})
  BY <1>1 DEF InFlight
<1>3. /\ NeverNegative' /\ RowsMatch'
      /\ \A k \in Keys : db.replay[k] # NoAttempt => db'.replay[k] = db.replay[k]
      /\ db' # db => /\ CommitPending
                     /\ db'.reservations \subseteq db.reservations \cup {writer}
  <2>1. CASE db' = db
    BY <1>1, <2>1 DEF NeverNegative, RowsMatch, KeyOf
  <2>2. CASE CommitPending /\ db' = work
    BY <1>1, <2>2, PendingCommit, CommitEffect
  <2>3. QED
    BY <1>1, <2>1, <2>2
<1>4. LockAndPoolMatch' /\ IsFiniteSet(pool)'
  <2>1. IsFiniteSet({}) /\ Cardinality({}) = 0
    BY FS_EmptySet
  <2>2. \A b \in Attempts : stage'[b] # "begin" /\ ~InTransaction(b)'
    BY <1>2 DEF InTransaction, Statements
  <2>3. QED
    BY <1>1, <2>1, <2>2, SqliteAssumption DEF LockAndPoolMatch
<1>5. ASSUME NEW b \in Attempts
      PROVE  History(b)'
  <2>1. stage'[b] \in {"respond", "answered"} => stage'[b] = stage[b]
    BY <1>2
  <2>2. ~InTransaction(b)' /\ stage'[b] \notin {"connect", "begin"}
    BY <1>2 DEF InTransaction, Statements
  <2>3. stage'[b] = "new" => b \notin db'.reservations /\ outcome[b] = "none"
    <3>1. SUFFICES ASSUME stage[b] = "new", db' # db
                   PROVE  b # writer
      BY <1>2, <1>3 DEF History
    <3>2. InFlight(writer) \/ Abandoned
      BY <1>3, <3>1, PendingCommit
    <3>3. QED
      BY <3>1, <3>2, AbandonedCommit DEF InFlight
  <2>4. QED
    BY <1>1, <2>1, <2>2, <2>3 DEF History
<1>6. OutcomeIsTruthful'
  <2>1. ASSUME NEW b \in Attempts, outcome[b] = "committed"
        PROVE  db'.replay[KeyOf(b)] = result[b].reservation
    BY <2>1, <1>3 DEF OutcomeIsTruthful, History, KeyOf, Requests
  <2>2. QED
    BY <1>1, <1>2, <2>1 DEF OutcomeIsTruthful, KeyOf
<1>7. QED
  BY <1>1, <1>3, <1>4, <1>5, <1>6

\* The invariant holds initially and every step keeps it.
LEMMA InitInvariant ==
  ASSUME Init
  PROVE  IInv
<1>1. TypeOK
  BY InitTypes
<1>2. NeverNegative /\ RowsMatch
  BY SqliteAssumption DEF Init, EmptyTables, NeverNegative, RowsMatch
<1>3. IsFiniteSet({}) /\ Cardinality({}) = 0
  BY FS_EmptySet
<1>4. LockAndPoolMatch /\ IsFiniteSet(pool)
  BY <1>3, SqliteAssumption DEF Init, LockAndPoolMatch, InTransaction, Statements
<1>5. OutcomeIsTruthful /\ \A a \in Attempts : History(a)
  BY DEF Init, EmptyTables, OutcomeIsTruthful, History
<1>6. QED
  BY <1>1, <1>2, <1>4, <1>5 DEF Init, IInv

LEMMA InvariantStep ==
  ASSUME IInv, [Next]_vars
  PROVE  IInv'
<1> TypeOK'
  BY TypeStep DEF IInv
<1>1. CASE \E a \in Attempts : Arrive(a) \/ Advance(a)
  BY <1>1, OutsideStep, StatementStep, TransactionEnds DEF Advance
<1>2. CASE \E p \in Products : Seed(p)
  BY <1>2, SeedStep
<1>3. CASE DriverFinishes
  BY <1>3, DriverStep
<1>4. CASE Crash
  BY <1>4, CrashStep
<1>5. CASE UNCHANGED vars
  BY <1>5 DEF vars, IInv, TypeOK, NeverNegative, RowsMatch, OutcomeIsTruthful,
     LockAndPoolMatch, WriterView, History, CommitView, CommitReady, RollbackView,
     FreshKey, InStock, Reservation, Bound, Reserved, Decreased, InTransaction,
     KeyOf, ProductOf
<1>6. QED
  BY <1>1, <1>2, <1>3, <1>4, <1>5 DEF Next

LEMMA InvariantHolds == Spec => []IInv
BY InitInvariant, InvariantStep, PTL DEF Spec

\* The two inserts of a reservation are never separated, whatever fails.
THEOREM RowsAlwaysMatch == Spec => []RowsMatch
BY InvariantHolds, PTL DEF IInv

\* "committed" is recorded exactly for a reservation that is on disk, before
\* the answer is sent.
THEOREM OutcomesAreTruthful == Spec => []OutcomeIsTruthful
BY InvariantHolds, PTL DEF IInv

\* One writer at a time, and no connection beyond the pool's limit or lost.
THEOREM LockAndPoolAlwaysMatch == Spec => []LockAndPoolMatch
BY InvariantHolds, PTL DEF IInv

-----------------------------------------------------------------------------
(* The contract is kept, step by step. *)

\* An attempt whose transaction has not ended is undecided and has no row.
LEMMA UndecidedFresh ==
  ASSUME IInv, NEW a \in Attempts,
         \/ stage[a] \in {"new", "connect", "begin"} \/ InTransaction(a)
         \/ Abandoned /\ writer = a
  PROVE  /\ Decision[a] = NoResult
         /\ db.replay[KeyOf(a)] # a
<1>1. a \notin db.reservations /\ a # NoAttempt /\ KeyOf(a) \in Keys
  BY AbandonedCommit, SqliteAssumption DEF IInv, TypeOK, History, KeyOf, Requests
<1>2. db.replay[KeyOf(a)] # a
  BY <1>1 DEF IInv, RowsMatch
<1>3. outcome[a] = "none" \/ writer = a
  BY DEF IInv, History
<1>4. QED
  BY <1>2, <1>3 DEF Decision

\* The committed tables after a whole transaction, as the contract sees them.
LEMMA ReserveEffect ==
  ASSUME IInv, NEW a \in Attempts, FreshKey(a), InStock(db, ProductOf(a)),
         db' = Reservation(db, a)
  PROVE  /\ db.replay[KeyOf(a)] = NoAttempt
         /\ ProductOf(a) \in db.listed
         /\ db.available[ProductOf(a)] > 0
         /\ db'.replay = [db.replay EXCEPT ![KeyOf(a)] = a]
         /\ db'.available = [db.available EXCEPT ![ProductOf(a)] = @ - 1]
         /\ db'.listed = db.listed
BY ReservationFields DEF IInv, TypeOK, FreshKey, InStock

\* Steps that the contract does not see.
LEMMA QuietStep ==
  ASSUME IInv, NEW a \in Attempts,
         \/ Arrive(a) \/ Connect(a) \/ BeginImmediate(a) \/ FindReplay(a)
         \/ DecreaseStock(a) \/ FindProduct(a) \/ SaveReservation(a)
         \/ SaveIdempotency(a) \/ StatementFails(a) \/ CommitFails(a)
         \/ CommitCancelled(a) \/ Respond(a)
  PROVE  UNCHANGED Contract!vars
<1>1. UNCHANGED <<request, db>>
  BY DEF Arrive, Connect, BeginImmediate, FindReplay, DecreaseStock, FindProduct,
     SaveReservation, SaveIdempotency, StatementFails, CommitFails,
     CommitCancelled, Respond
<1>2. \A b \in Attempts : b # a => /\ result'[b] = result[b]
                                 /\ outcome'[b] = outcome[b]
                                 /\ (writer' = b) = (writer = b)
  BY SqliteAssumption
     DEF IInv, TypeOK, Arrive, Connect, BeginImmediate, FindReplay, DecreaseStock,
     FindProduct, SaveReservation, SaveIdempotency, StatementFails, CommitFails,
     CommitCancelled, Respond, RaiseTo, Record
<1>3. CASE Respond(a)
  BY <1>1, <1>3 DEF Respond, Contract!vars, Decision
<1>4. CASE ~Respond(a)
  <2>1. outcome[a] = "none"
    BY <1>4 DEF IInv, History, InTransaction, Statements, Arrive, Connect,
       BeginImmediate, FindReplay, DecreaseStock, FindProduct, SaveReservation,
       SaveIdempotency, StatementFails, CommitFails, CommitCancelled
  <2>2. outcome'[a] = "none" \/ writer' = a
    <3>1. CASE CommitCancelled(a)
      BY <3>1 DEF IInv, LockAndPoolMatch, InTransaction, CommitCancelled
    <3>2. CASE ~CommitCancelled(a)
      BY <1>4, <2>1, <3>2 DEF Arrive, Connect,
         BeginImmediate, FindReplay, DecreaseStock, FindProduct, SaveReservation,
         SaveIdempotency, StatementFails, CommitFails
    <3>3. QED
      BY <3>1, <3>2
  <2>3. ASSUME NEW b \in Attempts
        PROVE  Decision'[b] = Decision[b]
    <3>1. CASE b = a
      BY <2>1, <2>2, <3>1 DEF Decision
    <3>2. CASE b # a
      BY <1>2, <3>2 DEF Decision
    <3>3. QED
      BY <3>1, <3>2
  <2>4. Decision' = Decision
    BY <2>3 DEF Decision
  <2>5. QED
    BY <1>1, <2>4 DEF Contract!vars
<1>5. QED
  BY <1>3, <1>4

\* The failures before the transaction, and the rollback, decide an attempt
\* without touching the tables, and what they report is true of the tables.
LEMMA RefusalStep ==
  ASSUME IInv, NEW a \in Attempts, ConnectFails(a) \/ BeginFails(a) \/ Rollback(a)
  PROVE  Contract!Next
<1> USE DEF IInv, TypeOK
<1>1. UNCHANGED <<request, db>> /\ outcome'[a] = "failed" /\ writer' # a
  BY SqliteAssumption
     DEF ConnectFails, BeginFails, Rollback, Record, Release, LockAndPoolMatch,
     WriterView, InTransaction, Statements
<1>2. Decision[a] = NoResult /\ db.replay[KeyOf(a)] # a
  BY UndecidedFresh DEF ConnectFails, BeginFails, Rollback, InTransaction
<1>3. \A b \in Attempts : b # a => /\ result'[b] = result[b]
                                 /\ outcome'[b] = outcome[b]
                                 /\ (writer' = b) = (writer = b)
  BY SqliteAssumption
     DEF ConnectFails, BeginFails, Rollback, Record, Release, RaiseTo,
     LockAndPoolMatch, InTransaction
<1>4. Decision' = [Decision EXCEPT ![a] = result'[a]]
  <2>1. ASSUME NEW b \in Attempts
        PROVE  Decision'[b] = IF b = a THEN result'[a] ELSE Decision[b]
    <3>1. CASE b = a
      BY <1>1, <3>1 DEF Decision
    <3>2. CASE b # a
      BY <1>3, <3>2 DEF Decision
    <3>3. QED
      BY <3>1, <3>2
  <2>2. QED
    BY <2>1 DEF Decision
<1>5. \A kind \in {"conflict", "sold_out", "not_found", "busy", "pool_timeout", "failed"} :
        result'[a] = Raised(kind) => Contract!Decide(a, Contract!Refused(kind))
  BY <1>2, <1>4 DEF Contract!Decide, Contract!Undecided, Contract!Refused, NoResult, Raised
<1>6. CASE result'[a] \in {Raised("busy"), Raised("pool_timeout"), Raised("failed")}
  <2>1. Contract!Fail(a)
    BY <1>1, <1>2, <1>5, <1>6 DEF Contract!Fail, Contract!KeyOf, KeyOf
  <2>2. QED
    BY <2>1 DEF Contract!Next, Contract!AttemptStep
<1>7. CASE result'[a] \notin {Raised("busy"), Raised("pool_timeout"), Raised("failed")}
  <2>1. stage[a] = "rollback" /\ result' = result
    BY <1>7 DEF ConnectFails, BeginFails, Rollback, RaiseTo
  <2>2. writer = a /\ a # NoAttempt
    BY <2>1, SqliteAssumption DEF LockAndPoolMatch, InTransaction
  <2>3. RollbackView(a)
    BY <2>1, <2>2 DEF WriterView
  <2>4. ProductOf(a) \in Products
    BY DEF ProductOf, Requests
  <2>5. CASE /\ result[a] = Raised("conflict") /\ ~FreshKey(a)
             /\ ProductOf(db.replay[KeyOf(a)]) # ProductOf(a)
    <3>1. Contract!Conflict(a)
      BY <1>1, <1>2, <1>5, <2>1, <2>5
         DEF Contract!Conflict, Contract!KeyOf, Contract!ProductOf, KeyOf, ProductOf, FreshKey
    <3>2. QED
      BY <3>1 DEF Contract!Next, Contract!AttemptStep
  <2>6. CASE /\ result[a] = Raised("sold_out") /\ FreshKey(a)
             /\ ProductOf(a) \in db.listed /\ ~InStock(db, ProductOf(a))
    <3>1. db.available[ProductOf(a)] \in Int
      BY <2>4 DEF Tables
    <3>2. db.available[ProductOf(a)] = 0
      BY <2>4, <2>6, <3>1 DEF NeverNegative, InStock
    <3>3. Contract!SoldOut(a)
      BY <1>1, <1>5, <2>1, <2>6, <3>2
         DEF Contract!SoldOut, Contract!KeyOf, Contract!ProductOf, KeyOf, ProductOf, FreshKey
    <3>4. QED
      BY <3>3 DEF Contract!Next, Contract!AttemptStep
  <2>7. CASE /\ result[a] = Raised("not_found") /\ FreshKey(a)
             /\ ProductOf(a) \notin db.listed
    <3>1. Contract!NotFound(a)
      BY <1>1, <1>5, <2>1, <2>7
         DEF Contract!NotFound, Contract!KeyOf, Contract!ProductOf, KeyOf, ProductOf, FreshKey
    <3>2. QED
      BY <3>1 DEF Contract!Next, Contract!AttemptStep
  <2>8. QED
    BY <1>7, <2>1, <2>3, <2>5, <2>6, <2>7 DEF RollbackView
<1>8. QED
  BY <1>6, <1>7

\* COMMIT is where a success takes effect.
LEMMA CommitStep ==
  ASSUME IInv, NEW a \in Attempts, Commit(a)
  PROVE  Contract!Next
<1> USE DEF IInv, TypeOK
<1>1. /\ writer = a /\ CommitView(a) /\ db' = work
      /\ request' = request /\ result' = result
      /\ outcome' = [outcome EXCEPT ![a] = "committed"] /\ writer' = NoAttempt
  BY SqliteAssumption
     DEF Commit, Release, Record, LockAndPoolMatch, InTransaction, WriterView
<1>2. Decision[a] = NoResult /\ db.replay[KeyOf(a)] # a
  BY UndecidedFresh DEF Commit, InTransaction
<1>3. Decision' = [Decision EXCEPT ![a] = result[a]]
  BY <1>1, SqliteAssumption DEF Decision
<1>4. CASE /\ work = db /\ db.replay[KeyOf(a)] # NoAttempt
           /\ ProductOf(db.replay[KeyOf(a)]) = ProductOf(a)
           /\ result[a] = Replayed(db.replay[KeyOf(a)])
  <2>1. Contract!Replay(a)
    BY <1>1, <1>2, <1>3, <1>4
       DEF Contract!Replay, Contract!Decide, Contract!Undecided, Contract!Replayed,
       Contract!KeyOf, Contract!ProductOf, KeyOf, ProductOf, NoResult, Replayed
  <2>2. QED
    BY <2>1 DEF Contract!Next, Contract!AttemptStep
<1>5. CASE /\ FreshKey(a) /\ InStock(db, ProductOf(a))
           /\ work = Reservation(db, a) /\ result[a] = Created(a)
  <2>1. Contract!Reserve(a)
    BY <1>1, <1>2, <1>3, <1>5, ReserveEffect
       DEF Contract!Reserve, Contract!Decide, Contract!Undecided, Contract!Created,
       Contract!KeyOf, Contract!ProductOf, KeyOf, ProductOf, NoResult, Created
  <2>2. QED
    BY <2>1 DEF Contract!Next, Contract!AttemptStep
<1>6. QED
  BY <1>1, <1>4, <1>5 DEF CommitView

\* An abandoned COMMIT ends, or the process dies: the reservation is made or
\* it is not, and whoever was told "failed" was not lied to.
LEMMA SilentEnd ==
  ASSUME IInv, DriverFinishes \/ Crash
  PROVE  [Contract!Next]_(Contract!vars)
<1> USE DEF IInv, TypeOK
<1>1. /\ UNCHANGED <<request, result, outcome>> /\ writer' = NoAttempt
      /\ db' = db \/ (CommitPending /\ db' = work)
  BY DEF DriverFinishes, Crash, CommitPending
<1>2. CASE Abandoned
  <2>1. /\ writer \in Attempts /\ CommitReady(writer)
        /\ result[writer] = Raised("failed") /\ outcome[writer] = "failed"
    BY <1>2, AbandonedCommit
  <2>2. Decision[writer] = NoResult /\ db.replay[KeyOf(writer)] # writer
    BY <1>2, <2>1, UndecidedFresh
  <2>3. Decision' = [Decision EXCEPT ![writer] = Raised("failed")]
    BY <1>1, <2>1, SqliteAssumption DEF Decision
  <2>4. Contract!Decide(writer, Contract!Refused("failed"))
    BY <2>2, <2>3 DEF Contract!Decide, Contract!Undecided, Contract!Refused, NoResult, Raised
  <2>5. CASE db' = db
    <3>1. Contract!Fail(writer)
      BY <1>1, <2>2, <2>4, <2>5 DEF Contract!Fail, Contract!KeyOf, KeyOf
    <3>2. QED
      BY <2>1, <3>1 DEF Contract!Next, Contract!AttemptStep
  <2>6. CASE db' # db
    <3>1. /\ FreshKey(writer) /\ InStock(db, ProductOf(writer))
          /\ db' = Reservation(db, writer)
      BY <1>1, <2>1, <2>6 DEF CommitReady
    <3>2. Contract!Reserve(writer)
      BY <1>1, <2>1, <2>2, <2>4, <3>1, ReserveEffect
         DEF Contract!Reserve, Contract!Decide, Contract!KeyOf, Contract!ProductOf, KeyOf, ProductOf
    <3>3. QED
      BY <2>1, <3>2 DEF Contract!Next, Contract!AttemptStep
  <2>7. QED
    BY <2>5, <2>6
<1>3. CASE ~Abandoned
  <2>1. writer # NoAttempt => writer \in Attempts /\ outcome[writer] = "none"
    BY <1>3 DEF Abandoned, History
  <2>2. Decision' = Decision
    BY <1>1, <2>1, SqliteAssumption DEF Decision
  <2>3. CASE db' = db
    BY <1>1, <2>2, <2>3 DEF Contract!vars
  <2>4. CASE db' # db
    <3>1. /\ CommitPending /\ db' = work
          /\ writer \in Attempts /\ CommitReady(writer)
      BY <1>1, <2>4, PendingCommit
    <3>2. /\ FreshKey(writer) /\ InStock(db, ProductOf(writer))
          /\ db' = Reservation(db, writer)
      BY <3>1, <2>4 DEF CommitReady
    <3>3. Decision[writer] = NoResult
      BY <2>1, <3>1, SqliteAssumption DEF Decision
    <3>4. Contract!Reserve(writer)
      BY <1>1, <2>2, <3>1, <3>2, <3>3, ReserveEffect
         DEF Contract!Reserve, Contract!Undecided, NoResult,
         Contract!KeyOf, Contract!ProductOf, KeyOf, ProductOf
    <3>5. QED
      BY <3>1, <3>4 DEF Contract!Next, Contract!AttemptStep
  <2>5. QED
    BY <2>3, <2>4
<1>4. QED
  BY <1>2, <1>3

LEMMA SeedSimulates ==
  ASSUME IInv, NEW p \in Products, Seed(p)
  PROVE  Contract!Next
<1>1. /\ UNCHANGED <<request, stage, result, outcome, writer>>
      /\ db' = [db EXCEPT !.listed = @ \cup {p}] /\ p \notin db.listed
  BY DEF Seed
<1>2. /\ db'.listed = db.listed \cup {p} /\ db'.available = db.available
      /\ db'.replay = db.replay
  BY <1>1 DEF IInv, TypeOK, Tables
<1>3. Contract!List(p)
  BY <1>1, <1>2 DEF Contract!List, Decision
<1>4. QED
  BY <1>3 DEF Contract!Next

LEMMA InitSimulates ==
  ASSUME Init
  PROVE  Contract!Init
<1>1. Decision = [a \in Attempts |-> Contract!Undecided]
  BY DEF Init, Decision, NoResult, Contract!Undecided
<1>2. QED
  BY <1>1 DEF Init, EmptyTables, Contract!Init, Requests, Contract!Requests

LEMMA ContractStep ==
  ASSUME IInv, [Next]_vars
  PROVE  [Contract!Next]_(Contract!vars)
<1>1. CASE \E a \in Attempts : Arrive(a) \/ Advance(a)
  BY <1>1, QuietStep, RefusalStep, CommitStep DEF Advance
<1>2. CASE \E p \in Products : Seed(p)
  BY <1>2, SeedSimulates
<1>3. CASE DriverFinishes \/ Crash
  BY <1>3, SilentEnd
<1>4. CASE UNCHANGED vars
  BY <1>4 DEF vars, Contract!vars, Decision
<1>5. QED
  BY <1>1, <1>2, <1>3, <1>4 DEF Next

\* For any number of attempts, keys, products and connections, whatever
\* fails, is cancelled or dies: each attempt takes effect in one step, at its
\* COMMIT or at its end, and its answer agrees with that step.
THEOREM ContractIsKept == Spec => ImplementsContract
BY InitSimulates, ContractStep, InvariantHolds, PTL DEF Spec, ImplementsContract, Contract!Spec

-----------------------------------------------------------------------------
(* So the contract's promises are the service's. *)

Theory == INSTANCE ReservationContractProofs WITH
  listed <- db.listed,
  available <- db.available,
  ledger <- db.replay,
  decision <- Decision,
  retired <- {}

LEMMA TheoryFinite == \A S : Theory!IsFiniteSet(S) <=> IsFiniteSet(S)
BY DEF Theory!IsFiniteSet, IsFiniteSet

\* The theorems are about the same contract.
LEMMA TheorySpeaksOfTheContract ==
  /\ Theory!Init <=> Contract!Init
  /\ [Theory!Next]_(Theory!vars) <=> [Contract!Next]_(Contract!vars)
  /\ Theory!Promises <=> Contract!Promises
<1>1. Theory!Init <=> Contract!Init
  BY DEF Theory!Init, Contract!Init, Theory!Requests, Contract!Requests, Theory!Undecided,
     Contract!Undecided
<1>2. ASSUME NEW a \in Attempts
      PROVE  Theory!AttemptStep(a) <=> Contract!AttemptStep(a)
  BY DEF Theory!AttemptStep, Contract!AttemptStep, Theory!Reserve, Contract!Reserve,
     Theory!Replay, Contract!Replay, Theory!Conflict, Contract!Conflict, Theory!SoldOut,
     Contract!SoldOut, Theory!NotFound, Contract!NotFound, Theory!Fail, Contract!Fail,
     Theory!Decide, Contract!Decide, Theory!KeyOf, Contract!KeyOf, Theory!ProductOf,
     Contract!ProductOf, Theory!Undecided, Contract!Undecided, Theory!Created,
     Contract!Created, Theory!Replayed, Contract!Replayed, Theory!Refused, Contract!Refused
<1>3. Theory!Next <=> Contract!Next
  BY <1>2 DEF Theory!Next, Contract!Next, Theory!List, Contract!List
<1>4. Theory!vars = Contract!vars /\ (Theory!vars' = Contract!vars')
  BY DEF Theory!vars, Contract!vars
<1>5. \A S : Theory!Cardinality(S) = Contract!Cardinality(S)
  BY DEF Theory!Cardinality, Contract!Cardinality
<1>6. Theory!Conservation <=> Contract!Conservation
  BY <1>5 DEF Theory!Conservation, Contract!Conservation, Theory!KeysFor, Contract!KeysFor,
     Theory!ProductOf, Contract!ProductOf
<1>7. Theory!RetriesAgree <=> Contract!RetriesAgree
  BY DEF Theory!RetriesAgree, Contract!RetriesAgree, Theory!Succeeded, Contract!Succeeded,
     Theory!KeyOf, Contract!KeyOf, Theory!ProductOf, Contract!ProductOf
<1>8. Theory!Promises <=> Contract!Promises
  BY <1>6, <1>7 DEF Theory!Promises, Contract!Promises, Theory!CleanRefusalLeavesNothing,
     Contract!CleanRefusalLeavesNothing, Theory!SoldOutIsTrue, Contract!SoldOutIsTrue,
     Theory!CleanRefusals, Contract!CleanRefusals, Theory!KeyOf, Contract!KeyOf,
     Theory!ProductOf, Contract!ProductOf
<1>9. QED
  BY <1>1, <1>3, <1>4, <1>8

\* For any number of attempts, keys, products and connections: FastAPI's service
\* sells what it has and no more, in its file as in its answers, repeats an
\* answer to whoever repeats the request, and leaves nothing of what it refuses.
THEOREM FastapiKeepsItsPromises == Spec => []Contract!Promises /\ Contract!LedgerIsPermanent
<1>1. Theory!Spec => []Theory!Promises /\ Theory!LedgerIsPermanent
  BY Theory!PromisesHold, Theory!LedgerPermanence, SqliteAssumption, TheoryFinite
<1>2. [\A k \in Keys :
           db.replay[k] # NoAttempt => (db.replay')[k] = db.replay[k]]_(Theory!vars)
      => [\A k \in Keys :
           db.replay[k] # NoAttempt => (db.replay')[k] = db.replay[k]]_(Contract!vars)
  BY DEF Theory!vars, Contract!vars
<1>3. QED
  BY <1>1, <1>2, TheorySpeaksOfTheContract, ContractIsKept, PTL
     DEF ImplementsContract, Contract!Spec, Theory!Spec, Contract!LedgerIsPermanent,
         Theory!LedgerIsPermanent

=============================================================================
