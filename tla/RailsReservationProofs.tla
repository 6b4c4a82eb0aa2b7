----------------------- MODULE RailsReservationProofs -----------------------
(***************************************************************************)
(* The Rails reservations for any number of requests, processes and        *)
(* products, and connections: never oversold, never half done, and each an *)
(* implementation of ReservationContract under a key of its own.           *)
(***************************************************************************)
EXTENDS RailsReservation, TLAPS, FiniteSetTheorems

-----------------------------------------------------------------------------
(* The inductive invariant. *)

Taken(t, p) == {a \in t.reservations : product[a] = p}

Decremented(t, a) == [t EXCEPT !.stock[product[a]] = @ - 1]
Reserved(t, a) == [Decremented(t, a) EXCEPT !.reservations = @ \cup {a}]

InStock(p) == p \in db.listed /\ db.stock[p] > 0

\* Units taken from the committed stock are committed reservations.
Conserved ==
  \A p \in Products :
     db.stock[p] >= 0 /\ db.stock[p] + Cardinality(Taken(db, p)) = InitialStock[p]

\* What an attempt carries from statement to statement.
Carries(a) ==
  /\ stage[a] \in {"new", "connect", "begin", "decrement", "exists", "create"}
       => result[a] = NoResult
  /\ stage[a] = "commit" => result[a] = [kind |-> "created", reservation |-> a]
  /\ stage[a] = "rollback" =>
       \E kind \in {"sold_out", "not_found", "busy", "failed"} : result[a] = Raised(kind)
  /\ stage[a] \notin Ended => a \notin db.reservations

\* What the writer's tables are at each of its statements, and what it has
\* seen in them, which nobody else can change.
WriterView(a) ==
  /\ stage[a] \in {"decrement", "exists"} => work = db
  /\ stage[a] = "exists" => ~InStock(product[a])
  /\ stage[a] \in {"create", "commit"} => InStock(product[a])
  /\ stage[a] = "create" => work = Decremented(db, a)
  /\ stage[a] = "commit" => work = Reserved(db, a)
  /\ stage[a] = "rollback" =>
       /\ result[a] = Raised("sold_out") =>
            product[a] \in db.listed /\ ~InStock(product[a])
       /\ result[a] = Raised("not_found") => product[a] \notin db.listed

IInv ==
  /\ TypeOK
  /\ LockAndPoolsMatch
  /\ Conserved
  /\ \A a \in Attempts : Carries(a) /\ WriterView(a)

-----------------------------------------------------------------------------
(* What the operators do. *)

LEMMA DecrementedFields ==
  ASSUME TypeOK, NEW t \in Tables, NEW a \in Attempts
  PROVE  /\ Decremented(t, a) \in Tables
         /\ Decremented(t, a).listed = t.listed
         /\ Decremented(t, a).stock = [t.stock EXCEPT ![product[a]] = @ - 1]
         /\ Decremented(t, a).reservations = t.reservations
<1>1. [t.stock EXCEPT ![product[a]] = @ - 1] \in [Products -> Int]
  BY DEF TypeOK, Tables
<1>2. Decremented(t, a) = [listed |-> t.listed,
                           stock |-> [t.stock EXCEPT ![product[a]] = @ - 1],
                           reservations |-> t.reservations]
  BY DEF Decremented, Tables
<1>3. QED
  BY <1>1, <1>2 DEF Tables

LEMMA ReservedFields ==
  ASSUME TypeOK, NEW t \in Tables, NEW a \in Attempts
  PROVE  /\ Reserved(t, a) \in Tables
         /\ Reserved(t, a).listed = t.listed
         /\ Reserved(t, a).stock = [t.stock EXCEPT ![product[a]] = @ - 1]
         /\ Reserved(t, a).reservations = t.reservations \cup {a}
BY DecrementedFields DEF Reserved, Tables

\* A reservation takes one unit of its product and counts as one.
LEMMA ReservedCounts ==
  ASSUME IInv, NEW a \in Attempts, a \notin db.reservations, InStock(product[a]),
         NEW p \in Products
  PROVE  LET t == Reserved(db, a)
         IN  t.stock[p] >= 0 /\ t.stock[p] + Cardinality(Taken(t, p)) = InitialStock[p]
<1> DEFINE t == Reserved(db, a)
<1>1. /\ db \in Tables /\ product[a] \in Products /\ InitialStock[p] \in Nat
      /\ db.stock[p] \in Int /\ db.stock[p] >= 0
      /\ db.stock[p] + Cardinality(Taken(db, p)) = InitialStock[p]
  BY RailsAssumption DEF IInv, TypeOK, Tables, Conserved
<1>2. /\ t.stock = [db.stock EXCEPT ![product[a]] = @ - 1]
      /\ t.reservations = db.reservations \cup {a}
  BY <1>1, ReservedFields DEF IInv
<1>3. Taken(t, p) = IF p = product[a] THEN Taken(db, p) \cup {a} ELSE Taken(db, p)
  BY <1>2 DEF Taken
<1>4. IsFiniteSet(Taken(db, p)) /\ a \notin Taken(db, p)
  <2>1. Taken(db, p) \subseteq Attempts
    BY <1>1 DEF Taken, Tables
  <2>2. QED
    BY <2>1, RailsAssumption, FS_Subset DEF Taken
<1>5. /\ Cardinality(Taken(db, p)) \in Nat
      /\ Cardinality(Taken(db, p) \cup {a}) = Cardinality(Taken(db, p)) + 1
  BY <1>4, FS_AddElement, FS_CardinalityType
<1>6. CASE p = product[a]
  <2>1. t.stock[p] = db.stock[p] - 1 /\ db.stock[p] > 0
    BY <1>1, <1>2, <1>6 DEF InStock, Tables
  <2>2. QED
    BY <1>1, <1>3, <1>5, <1>6, <2>1
<1>7. CASE p # product[a]
  BY <1>1, <1>2, <1>3, <1>7 DEF Tables
<1>8. QED
  BY <1>6, <1>7

\* A connection is only taken below the limit, and the connections in use
\* can be counted.
LEMMA InUseFinite ==
  ASSUME NEW w \in Processes
  PROVE  IsFiniteSet(InUse(w)) /\ IsFiniteSet(InUse(w)')
<1>1. InUse(w) \subseteq Attempts /\ InUse(w)' \subseteq Attempts
  BY DEF InUse
<1>2. QED
  BY <1>1, RailsAssumption, FS_Subset

\* Whoever keeps to the connections in use stays below the limit.
LEMMA InUseShrinks ==
  ASSUME LockAndPoolsMatch, NEW w \in Processes, InUse(w)' \subseteq InUse(w)
  PROVE  Cardinality(InUse(w)') <= PoolLimit
<1>1. /\ Cardinality(InUse(w)') <= Cardinality(InUse(w))
      /\ Cardinality(InUse(w)') \in Nat /\ Cardinality(InUse(w)) \in Nat
  BY InUseFinite, FS_Subset, FS_CardinalityType
<1>2. Cardinality(InUse(w)) <= PoolLimit
  BY DEF LockAndPoolsMatch
<1>3. QED
  BY <1>1, <1>2, RailsAssumption

LEMMA InUseGrows ==
  ASSUME NEW a \in Attempts, NEW w \in Processes, Cardinality(InUse(w)) < PoolLimit,
         InUse(w)' \subseteq InUse(w) \cup {a}
  PROVE  Cardinality(InUse(w)') <= PoolLimit
<1>1. /\ IsFiniteSet(InUse(w) \cup {a}) /\ Cardinality(InUse(w)) \in Nat
      /\ Cardinality(InUse(w) \cup {a}) <= Cardinality(InUse(w)) + 1
      /\ Cardinality(InUse(w) \cup {a}) \in Nat
  <2>1. IsFiniteSet(InUse(w)) /\ Cardinality(InUse(w)) \in Nat
    BY InUseFinite, FS_CardinalityType
  <2>2. /\ IsFiniteSet(InUse(w) \cup {a})
        /\ Cardinality(InUse(w) \cup {a}) =
             IF a \in InUse(w) THEN Cardinality(InUse(w)) ELSE Cardinality(InUse(w)) + 1
    BY <2>1, FS_AddElement
  <2>3. QED
    BY <2>1, <2>2
<1>2. /\ Cardinality(InUse(w)') <= Cardinality(InUse(w) \cup {a})
      /\ Cardinality(InUse(w)') \in Nat
  BY <1>1, InUseFinite, FS_Subset, FS_CardinalityType
<1>3. QED
  BY <1>1, <1>2, RailsAssumption

-----------------------------------------------------------------------------
(* Types. *)

Results == [kind: Kinds, reservation: Attempts \cup {NoAttempt}]
Stages == {"new", "connect"} \cup HoldsConnection \cup Ended

\* A raised exception keeps results and stages typed.
LEMMA RaiseTyped ==
  ASSUME TypeOK, NEW a \in Attempts, NEW kind \in Kinds, NEW s \in Stages, Raise(a, kind, s)
  PROVE  result' \in [Attempts -> Results] /\ stage' \in [Attempts -> Stages]
BY DEF TypeOK, Raise, Raised, Goto, Results, Stages

LEMMA TypeStep ==
  ASSUME TypeOK, [Next]_vars
  PROVE  TypeOK'
<1> USE DEF TypeOK, HoldsConnection, InTransaction, Ended
<1>1. ASSUME NEW a \in Attempts,
             \/ Arrive(a) \/ Connect(a) \/ Begin(a) \/ Commit(a) \/ Rollback(a) \/ Respond(a)
      PROVE  TypeOK'
  BY <1>1 DEF Arrive, Connect, Begin, Commit, Rollback, Respond, Goto
<1>2. ASSUME NEW a \in Attempts,
             \/ ConnectFails(a) \/ BeginFails(a) \/ ProductExists(a)
             \/ StatementFails(a) \/ CommitFails(a)
      PROVE  TypeOK'
  <2>1. \E kind \in Kinds : \E s \in Stages : Raise(a, kind, s)
    BY <1>2 DEF ConnectFails, BeginFails, ProductExists, StatementFails, CommitFails,
       Kinds, Stages
  <2>2. result' \in [Attempts -> Results] /\ stage' \in [Attempts -> Stages]
    BY <2>1, RaiseTyped
  <2>3. UNCHANGED <<product, process, writer, db, work>>
    BY <1>2 DEF ConnectFails, BeginFails, ProductExists, StatementFails, CommitFails
  <2>4. QED
    BY <2>2, <2>3 DEF Results, Stages
<1>3. ASSUME NEW a \in Attempts, DecrementStock(a)
      PROVE  TypeOK'
  <2>1. work' = work \/ work' = Decremented(work, a)
    BY <1>3 DEF DecrementStock, Decremented
  <2>2. Decremented(work, a) \in Tables
    BY DecrementedFields
  <2>3. QED
    BY <1>3, <2>1, <2>2 DEF DecrementStock, Goto
<1>4. ASSUME NEW a \in Attempts, CreateReservation(a)
      PROVE  TypeOK'
  BY <1>4 DEF CreateReservation, Goto, Tables, Kinds
<1>5. ASSUME NEW p \in Products, Seed(p)
      PROVE  TypeOK'
  BY <1>5 DEF Seed, Tables
<1>6. ASSUME NEW w \in Processes, Crash(w)
      PROVE  TypeOK'
  <2>1. /\ stage' \in [Attempts -> Stages]
        /\ result' \in [Attempts -> Results]
    BY <1>6 DEF Crash, NoResult, Kinds, Results, Stages
  <2>2. writer' \in Attempts \cup {NoAttempt} /\ db' \in Tables /\ work' \in Tables
    BY <1>6 DEF Crash
  <2>3. QED
    BY <1>6, <2>1, <2>2 DEF Crash, Results, Stages
<1>7. CASE UNCHANGED vars
  BY <1>7 DEF vars
<1>8. QED
  BY <1>1, <1>2, <1>3, <1>4, <1>5, <1>6, <1>7 DEF Next

-----------------------------------------------------------------------------
(* The steps. *)

\* An attempt that a step leaves alone, with its product and the tables.
LEMMA Frame ==
  ASSUME NEW b \in Attempts, Carries(b), WriterView(b), UNCHANGED <<product, db, work>>,
         stage'[b] = stage[b], result'[b] = result[b]
  PROVE  Carries(b)' /\ WriterView(b)'
BY DEF Carries, WriterView, InStock, Reserved, Decremented

\* Whoever is in no statement sees nothing of the tables.
LEMMA FrameOutside ==
  ASSUME NEW b \in Attempts, stage'[b] \notin InTransaction
  PROVE  WriterView(b)'
BY DEF WriterView, InTransaction

LEMMA Alone ==
  ASSUME IInv, NEW a \in Attempts, stage[a] \in InTransaction
  PROVE  /\ writer = a /\ a # NoAttempt
         /\ \A b \in Attempts : b # a => stage[b] \notin InTransaction
BY RailsAssumption DEF IInv, LockAndPoolsMatch

LEMMA OutsideStep ==
  ASSUME IInv, TypeOK', NEW a \in Attempts,
         \/ Arrive(a) \/ Connect(a) \/ ConnectFails(a) \/ Begin(a) \/ BeginFails(a)
         \/ Respond(a)
  PROVE  IInv'
<1> USE DEF IInv, TypeOK
<1>1. /\ UNCHANGED <<product, process, db, work>>
      /\ stage[a] \in {"new", "connect", "begin", "respond"}
      /\ stage'[a] \in {"connect", "begin", "decrement"} \cup Ended
      /\ stage'[a] = "decrement" <=> Begin(a)
      /\ stage'[a] \in HoldsConnection => stage[a] \in HoldsConnection \/ Connect(a)
      /\ stage'[a] \notin Ended => result'[a] = NoResult /\ stage[a] \notin Ended
  BY DEF Arrive, Connect, ConnectFails, Begin, BeginFails, Respond, Raise, Goto,
         HoldsConnection, InTransaction, Ended, Carries
<1>2. \A b \in Attempts : b # a => stage'[b] = stage[b] /\ result'[b] = result[b]
  BY DEF Arrive, Connect, ConnectFails, Begin, BeginFails, Respond, Raise, Goto
<1>3. Conserved'
  BY <1>1 DEF Conserved, Taken
<1>4. ASSUME NEW b \in Attempts
      PROVE  Carries(b)' /\ WriterView(b)'
  <2>1. CASE b # a
    BY <1>1, <1>2, <2>1, Frame
  <2>2. CASE b = a
    <3>1. Carries(a)'
      BY <1>1 DEF Carries, Ended
    <3>2. WriterView(a)'
      BY <1>1 DEF WriterView, Ended, Begin, LockAndPoolsMatch
    <3>3. QED
      BY <2>2, <3>1, <3>2
  <2>3. QED
    BY <2>1, <2>2
<1>5. LockAndPoolsMatch'
  <2>1. ASSUME NEW b \in Attempts
        PROVE  stage'[b] \in InTransaction <=> writer' = b
    <3>1. CASE Begin(a)
      BY <1>1, <1>2, <3>1, RailsAssumption DEF Begin, LockAndPoolsMatch, InTransaction
    <3>2. CASE ~Begin(a)
      BY <1>1, <1>2, <3>2 DEF Arrive, Connect, ConnectFails, BeginFails, Respond,
         LockAndPoolsMatch, InTransaction, Ended
    <3>3. QED
      BY <3>1, <3>2
  <2>2. writer' = NoAttempt => work' = db'
    BY <1>1, RailsAssumption DEF Arrive, Connect, ConnectFails, Begin, BeginFails, Respond,
       LockAndPoolsMatch
  <2>3. ASSUME NEW w \in Processes
        PROVE  Cardinality(InUse(w)') <= PoolLimit
    <3>1. CASE Connect(a) /\ process[a] = w
      <4>1. InUse(w)' \subseteq InUse(w) \cup {a}
        BY <1>1, <1>2 DEF InUse
      <4>2. QED
        BY <3>1, <4>1, InUseGrows DEF Connect
    <3>2. CASE ~(Connect(a) /\ process[a] = w)
      <4>1. InUse(w)' \subseteq InUse(w)
        BY <1>1, <1>2, <3>2 DEF InUse
      <4>2. QED
        BY <4>1, InUseShrinks
    <3>3. QED
      BY <3>1, <3>2
  <2>4. QED
    BY <2>1, <2>2, <2>3 DEF LockAndPoolsMatch
<1>6. QED
  BY <1>3, <1>4, <1>5

\* The statements of the writer, those that raise included.
LEMMA StatementStep ==
  ASSUME IInv, TypeOK', NEW a \in Attempts,
         \/ DecrementStock(a) \/ ProductExists(a) \/ CreateReservation(a)
         \/ StatementFails(a) \/ CommitFails(a)
  PROVE  IInv'
<1> USE DEF IInv, TypeOK
<1>1. /\ UNCHANGED <<product, process, db, writer>>
      /\ stage[a] \in InTransaction /\ stage'[a] \in InTransaction
  BY DEF DecrementStock, ProductExists, CreateReservation, StatementFails, CommitFails,
         Raise, Goto, InTransaction
<1>2. \A b \in Attempts : b # a => stage'[b] = stage[b] /\ result'[b] = result[b]
  BY DEF DecrementStock, ProductExists, CreateReservation, StatementFails, CommitFails,
         Raise, Goto
<1>3. /\ writer = a /\ a # NoAttempt
      /\ \A b \in Attempts : b # a => stage[b] \notin InTransaction
  BY <1>1, Alone
<1>4. Conserved'
  BY <1>1 DEF Conserved, Taken
<1>5. LockAndPoolsMatch'
  <2>1. \A b \in Attempts : stage'[b] \in InTransaction <=> writer' = b
    BY <1>1, <1>2, <1>3
  <2>2. ASSUME NEW w \in Processes
        PROVE  Cardinality(InUse(w)') <= PoolLimit
    <3>1. InUse(w)' \subseteq InUse(w)
      BY <1>1, <1>2 DEF InUse, HoldsConnection
    <3>2. QED
      BY <3>1, InUseShrinks
  <2>3. QED
    BY <1>1, <1>3, <2>1, <2>2 DEF LockAndPoolsMatch
<1>6. ASSUME NEW b \in Attempts, b # a
      PROVE  Carries(b)' /\ WriterView(b)'
  <2>1. Carries(b)'
    BY <1>1, <1>2, <1>6 DEF Carries
  <2>2. QED
    BY <1>2, <1>3, <1>6, <2>1, FrameOutside
<1>7. a \notin db.reservations /\ Carries(a) /\ WriterView(a)
  BY <1>1 DEF Carries, InTransaction, Ended
<1>8. /\ (InStock(product[a]))' = InStock(product[a])
      /\ Decremented(db, a)' = Decremented(db, a) /\ Reserved(db, a)' = Reserved(db, a)
  BY <1>1 DEF InStock, Reserved, Decremented
<1>9. Carries(a)' /\ WriterView(a)'
  <2>1. CASE DecrementStock(a)
    <3>1. /\ stage[a] = "decrement" /\ work = db /\ result'[a] = NoResult
          /\ stage'[a] = IF InStock(product[a]) THEN "create" ELSE "exists"
          /\ work' = IF InStock(product[a]) THEN Decremented(db, a) ELSE db
      BY <1>7, <2>1 DEF DecrementStock, Carries, WriterView, InStock, Decremented, Goto
    <3>2. QED
      BY <1>1, <1>7, <1>8, <3>1 DEF Carries, WriterView, Ended
  <2>2. CASE ProductExists(a)
    <3>1. /\ ~InStock(product[a]) /\ stage'[a] = "rollback"
          /\ result'[a] = Raised(IF product[a] \in db.listed THEN "sold_out" ELSE "not_found")
      BY <1>7, <2>2 DEF ProductExists, WriterView, Raise, Goto
    <3>2. Raised("sold_out") # Raised("not_found")
      BY DEF Raised
    <3>3. QED
      BY <1>1, <1>7, <1>8, <3>1, <3>2 DEF Carries, WriterView, Ended
  <2>3. CASE CreateReservation(a)
    <3>1. /\ InStock(product[a]) /\ work = Decremented(db, a) /\ stage'[a] = "commit"
          /\ work' = [work EXCEPT !.reservations = @ \cup {a}]
          /\ result'[a] = [kind |-> "created", reservation |-> a]
      BY <1>7, <2>3 DEF CreateReservation, WriterView, Goto
    <3>2. work' = Reserved(db, a)
      BY <3>1 DEF Reserved
    <3>3. QED
      BY <1>1, <1>7, <1>8, <3>1, <3>2 DEF Carries, WriterView, Ended
  <2>4. CASE StatementFails(a) \/ CommitFails(a)
    <3>1. stage'[a] = "rollback" /\ \E kind \in {"busy", "failed"} : result'[a] = Raised(kind)
      BY <2>4 DEF StatementFails, CommitFails, Raise, Goto
    <3>2. result'[a] \notin {Raised("sold_out"), Raised("not_found")}
      BY <3>1 DEF Raised
    <3>3. QED
      BY <1>1, <1>7, <3>1, <3>2 DEF Carries, WriterView, Ended
  <2>5. QED
    BY <2>1, <2>2, <2>3, <2>4
<1>10. QED
  BY <1>4, <1>5, <1>6, <1>9

\* COMMIT publishes a whole reservation, ROLLBACK nothing.
LEMMA EndStep ==
  ASSUME IInv, TypeOK', NEW a \in Attempts, Commit(a) \/ Rollback(a)
  PROVE  IInv'
<1> USE DEF IInv, TypeOK
<1>1. /\ UNCHANGED <<product, process, result>> /\ writer' = NoAttempt /\ work' = db'
      /\ stage' = [stage EXCEPT ![a] = "respond"]
      /\ stage[a] \in InTransaction
  BY DEF Commit, Rollback, Goto, InTransaction
<1>2. \A b \in Attempts : b # a => stage[b] \notin InTransaction /\ stage'[b] = stage[b]
  BY <1>1, Alone
<1>3. \A b \in Attempts : stage'[b] \notin InTransaction
  BY <1>1, <1>2 DEF InTransaction
<1>4. db' = db \/ (Commit(a) /\ db' = Reserved(db, a))
  BY DEF Commit, Rollback, WriterView
<1>5. Conserved'
  <2>1. CASE db' = db
    BY <1>1, <2>1 DEF Conserved, Taken
  <2>2. CASE Commit(a) /\ db' = Reserved(db, a)
    <3>1. a \notin db.reservations /\ InStock(product[a])
      BY <2>2 DEF Commit, Carries, WriterView, Ended
    <3>2. \A p \in Products : Taken(db, p)' = Taken(db', p)
      BY <1>1 DEF Taken
    <3>3. QED
      BY <2>2, <3>1, <3>2, ReservedCounts DEF Conserved
  <2>3. QED
    BY <1>4, <2>1, <2>2
<1>6. ASSUME NEW b \in Attempts
      PROVE  Carries(b)' /\ WriterView(b)'
  <2>1. db'.reservations \subseteq db.reservations \cup {a}
    <3>1. db \in Tables
      OBVIOUS
    <3>2. Reserved(db, a).reservations = db.reservations \cup {a}
      BY <3>1, ReservedFields
    <3>3. QED
      BY <1>4, <3>2
  <2>2. Carries(b)'
    BY <1>1, <1>2, <2>1 DEF Carries, Ended, InTransaction
  <2>3. QED
    BY <1>3, <2>2, FrameOutside
<1>7. LockAndPoolsMatch'
  <2>1. ASSUME NEW w \in Processes
        PROVE  Cardinality(InUse(w)') <= PoolLimit
    <3>1. InUse(w)' \subseteq InUse(w)
      BY <1>1 DEF InUse, HoldsConnection, InTransaction
    <3>2. QED
      BY <3>1, InUseShrinks
  <2>2. QED
    BY <1>1, <1>3, <2>1, RailsAssumption DEF LockAndPoolsMatch
<1>8. QED
  BY <1>5, <1>6, <1>7

LEMMA SeedStep ==
  ASSUME IInv, TypeOK', NEW p \in Products, Seed(p)
  PROVE  IInv'
<1> USE DEF IInv, TypeOK
<1>1. /\ UNCHANGED <<product, process, stage, result, writer>> /\ writer = NoAttempt
      /\ work' = db' /\ db' = [db EXCEPT !.listed = @ \cup {p}]
  BY DEF Seed
<1>2. db'.stock = db.stock /\ db'.reservations = db.reservations
  BY <1>1 DEF Tables
<1>3. Conserved'
  BY <1>1, <1>2 DEF Conserved, Taken
<1>4. \A a \in Attempts : stage'[a] \notin InTransaction
  BY <1>1, RailsAssumption DEF LockAndPoolsMatch
<1>5. \A a \in Attempts : Carries(a)' /\ WriterView(a)'
  BY <1>1, <1>2, <1>4, FrameOutside DEF Carries
<1>6. LockAndPoolsMatch'
  BY <1>1, <1>4, RailsAssumption DEF LockAndPoolsMatch, InUse
<1>7. QED
  BY <1>3, <1>5, <1>6

\* What the death of a process leaves of the transaction under way.
LEMMA CrashKeeps ==
  ASSUME IInv, NEW w \in Processes, Crash(w)
  PROVE  /\ UNCHANGED <<product, process>>
         /\ \A a \in Attempts :
              (stage'[a] = stage[a] /\ result'[a] = result[a]) \/ stage'[a] = "lost"
         /\ \/ UNCHANGED <<writer, db, work>>
               /\ \A a \in Attempts :
                    stage[a] \in InTransaction => stage'[a] = stage[a]
            \/ /\ writer \in Attempts /\ stage'[writer] = "lost"
               /\ writer' = NoAttempt /\ work' = db'
               /\ \A a \in Attempts : stage'[a] \notin InTransaction
               /\ \/ db' = db
                  \/ stage[writer] = "commit" /\ db' = Reserved(db, writer)
<1> USE DEF IInv, TypeOK
<1> DEFINE dead == {a \in Attempts : process[a] = w /\ stage[a] \notin {"new", "answered", "lost"}}
<1>1. /\ UNCHANGED <<product, process>>
      /\ stage' = [a \in Attempts |-> IF a \in dead THEN "lost" ELSE stage[a]]
      /\ result' = [a \in Attempts |->
                      IF a \in dead /\ stage[a] # "respond" THEN NoResult ELSE result[a]]
      /\ IF writer \in dead
           THEN /\ writer' = NoAttempt
                /\ db' = db \/ (stage[writer] = "commit" /\ db' = work)
                /\ work' = db'
           ELSE UNCHANGED <<writer, db, work>>
  BY DEF Crash
<1>2. \A a \in Attempts :
        (stage'[a] = stage[a] /\ result'[a] = result[a]) \/ stage'[a] = "lost"
  BY <1>1
<1>3. CASE writer \in dead
  <2>1. \A a \in Attempts : stage'[a] \notin InTransaction
    BY <1>1, <1>3 DEF LockAndPoolsMatch, InTransaction
  <2>2. stage[writer] = "commit" => work = Reserved(db, writer)
    BY <1>3 DEF WriterView
  <2>3. QED
    BY <1>1, <1>2, <1>3, <2>1, <2>2
<1>4. CASE writer \notin dead
  <2>1. \A a \in Attempts : stage[a] \in InTransaction => stage'[a] = stage[a]
    BY <1>1, <1>4 DEF LockAndPoolsMatch
  <2>2. QED
    BY <1>1, <1>2, <1>4, <2>1
<1>5. QED
  BY <1>3, <1>4

LEMMA CrashStep ==
  ASSUME IInv, TypeOK', NEW w \in Processes, Crash(w)
  PROVE  IInv'
<1> USE DEF IInv, TypeOK
<1>1. /\ UNCHANGED <<product, process>>
      /\ \A a \in Attempts :
           (stage'[a] = stage[a] /\ result'[a] = result[a]) \/ stage'[a] = "lost"
  BY CrashKeeps
<1>2. ASSUME NEW v \in Processes
      PROVE  Cardinality(InUse(v)') <= PoolLimit
  <2>1. InUse(v)' \subseteq InUse(v)
    BY <1>1 DEF InUse, HoldsConnection, InTransaction
  <2>2. QED
    BY <2>1, InUseShrinks
<1>3. CASE /\ UNCHANGED <<writer, db, work>>
           /\ \A a \in Attempts : stage[a] \in InTransaction => stage'[a] = stage[a]
  <2>1. Conserved'
    BY <1>1, <1>3 DEF Conserved, Taken
  <2>2. ASSUME NEW a \in Attempts
        PROVE  Carries(a)' /\ WriterView(a)'
    <3>1. CASE stage'[a] = stage[a] /\ result'[a] = result[a]
      BY <1>1, <1>3, <3>1, Frame
    <3>2. CASE stage'[a] = "lost"
      BY <3>2, FrameOutside DEF Carries, Ended, InTransaction
    <3>3. QED
      BY <1>1, <3>1, <3>2
  <2>3. LockAndPoolsMatch'
    BY <1>1, <1>2, <1>3 DEF LockAndPoolsMatch, InTransaction
  <2>4. QED
    BY <2>1, <2>2, <2>3
<1>4. CASE /\ writer \in Attempts /\ stage'[writer] = "lost"
           /\ writer' = NoAttempt /\ work' = db'
           /\ \A a \in Attempts : stage'[a] \notin InTransaction
           /\ \/ db' = db
              \/ stage[writer] = "commit" /\ db' = Reserved(db, writer)
  <2>1. Conserved'
    <3>1. CASE db' = db
      BY <1>1, <3>1 DEF Conserved, Taken
    <3>2. CASE stage[writer] = "commit" /\ db' = Reserved(db, writer)
      <4>1. writer \notin db.reservations /\ InStock(product[writer])
        BY <1>4, <3>2 DEF Carries, WriterView, Ended
      <4>2. \A p \in Products : Taken(db, p)' = Taken(db', p)
        BY <1>1 DEF Taken
      <4>3. QED
        BY <1>4, <3>2, <4>1, <4>2, ReservedCounts DEF Conserved
    <3>3. QED
      BY <1>4, <3>1, <3>2
  <2>2. ASSUME NEW a \in Attempts
        PROVE  Carries(a)' /\ WriterView(a)'
    <3>1. db'.reservations \subseteq db.reservations \cup {writer}
      <4>1. db \in Tables
        OBVIOUS
      <4>2. Reserved(db, writer).reservations = db.reservations \cup {writer}
        BY <1>4, <4>1, ReservedFields
      <4>3. QED
        BY <1>4, <4>2
    <3>2. Carries(a)'
      BY <1>1, <1>4, <3>1 DEF Carries, Ended
    <3>3. QED
      BY <1>4, <3>2, FrameOutside
  <2>3. LockAndPoolsMatch'
    BY <1>2, <1>4, RailsAssumption DEF LockAndPoolsMatch
  <2>4. QED
    BY <2>1, <2>2, <2>3
<1>5. QED
  BY <1>3, <1>4, CrashKeeps

LEMMA StutterStep ==
  ASSUME IInv, UNCHANGED vars
  PROVE  IInv'
<1> USE DEF IInv, vars
<1>1. Conserved' /\ LockAndPoolsMatch' /\ TypeOK'
  BY DEF Conserved, Taken, LockAndPoolsMatch, InUse, TypeOK
<1>2. \A a \in Attempts : Carries(a)' /\ WriterView(a)'
  BY Frame
<1>3. QED
  BY <1>1, <1>2

LEMMA InitHolds == Init => IInv
<1> SUFFICES ASSUME Init
             PROVE  IInv
  OBVIOUS
<1> USE RailsAssumption DEF Init
<1>1. TypeOK
  BY DEF TypeOK, Tables, NoResult, Kinds
<1>2. ASSUME NEW w \in Processes
      PROVE  Cardinality(InUse(w)) <= PoolLimit
  <2>1. InUse(w) = {}
    BY DEF InUse, HoldsConnection, InTransaction
  <2>2. QED
    BY <2>1, FS_EmptySet
<1>3. LockAndPoolsMatch
  BY <1>2 DEF LockAndPoolsMatch, InTransaction
<1>4. Conserved
  <2>1. \A p \in Products : Taken(db, p) = {}
    BY DEF Taken
  <2>2. \A p \in Products : db.stock[p] = InitialStock[p] /\ InitialStock[p] \in Nat
    OBVIOUS
  <2>3. \A p \in Products : Cardinality(Taken(db, p)) = 0
    BY <2>1, FS_EmptySet
  <2> HIDE DEF Init
  <2>4. QED
    BY <2>2, <2>3 DEF Conserved
<1>5. QED
  BY <1>1, <1>3, <1>4 DEF IInv, Carries, WriterView

LEMMA InvariantHolds == Spec => []IInv
<1>1. IInv /\ [Next]_vars => IInv'
  <2> SUFFICES ASSUME IInv, [Next]_vars
               PROVE  IInv'
    OBVIOUS
  <2>1. TypeOK'
    BY TypeStep DEF IInv
  <2>2. ASSUME NEW a \in Attempts,
               \/ Arrive(a) \/ Connect(a) \/ ConnectFails(a) \/ Begin(a) \/ BeginFails(a)
               \/ DecrementStock(a) \/ ProductExists(a) \/ CreateReservation(a)
               \/ StatementFails(a) \/ Commit(a) \/ CommitFails(a) \/ Rollback(a) \/ Respond(a)
        PROVE  IInv'
    BY <2>1, <2>2, OutsideStep, StatementStep, EndStep
  <2>3. QED
    BY <2>1, <2>2, SeedStep, CrashStep, StutterStep DEF Next
<1>2. QED
  BY <1>1, InitHolds, PTL DEF Spec

\* Between any two statements, in every process: units taken are reservations
\* made, in the committed tables and in those of a writer about to commit, and
\* lock and connections are with those who use them.
THEOREM NeverOversold == Spec => []RailsInv
<1>1. ASSUME IInv
      PROVE  RailsInv
  <2>1. ASSUME NEW p \in Products, NEW a \in Attempts, stage[a] = "commit"
        PROVE  work.stock[p] + Cardinality(Taken(work, p)) = InitialStock[p]
    <3>1. work = Reserved(db, a) /\ a \notin db.reservations /\ InStock(product[a])
      BY <1>1, <2>1 DEF IInv, WriterView, Carries, Ended
    <3>2. QED
      BY <1>1, <3>1, ReservedCounts
  <2>2. UnitsMatchReservations
    BY <1>1, <2>1 DEF IInv, Conserved, UnitsMatchReservations, Taken
  <2>3. QED
    BY <1>1, <2>2 DEF IInv, RailsInv
<1>2. QED
  BY <1>1, InvariantHolds, PTL

-----------------------------------------------------------------------------
(* The contract is kept, step by step. *)

\* What the contract sees of the attempts.
Decision == [a \in Attempts |-> IF stage[a] \in Ended THEN result[a] ELSE NoResult]
Ledger == [a \in Attempts |-> IF a \in db.reservations THEN a ELSE NoAttempt]
Request == [a \in Attempts |-> [key |-> a, product |-> product[a]]]

LEMMA ContractView ==
  /\ Contract!vars = <<Request, db.listed, db.stock, Ledger, Decision>>
  /\ \A a \in Attempts : Contract!KeyOf(a) = a /\ Contract!ProductOf(a) = product[a]
BY DEF Contract!vars, Contract!KeyOf, Contract!ProductOf, Decision, Ledger, Request

\* Deciding one attempt, as the contract's Decide.
Decided(a, d) == Decision[a] = NoResult /\ Decision' = [Decision EXCEPT ![a] = d]

LEMMA Decides ==
  ASSUME NEW a \in Attempts, stage[a] \notin Ended, stage'[a] \in Ended,
         \A b \in Attempts : b # a => stage'[b] = stage[b] /\ result'[b] = result[b],
         NEW d, d = result'[a]
  PROVE  Decided(a, d)
BY DEF Decided, Decision

\* Statements and their errors leave everything as the contract sees it.
LEMMA QuietSteps ==
  ASSUME IInv, NEW a \in Attempts,
         \/ Arrive(a) \/ Connect(a) \/ Begin(a) \/ DecrementStock(a) \/ ProductExists(a)
         \/ CreateReservation(a) \/ StatementFails(a) \/ CommitFails(a) \/ Respond(a)
  PROVE  UNCHANGED Contract!vars
<1>1. UNCHANGED <<product, db>>
  BY DEF Arrive, Connect, Begin, DecrementStock, ProductExists, CreateReservation,
     StatementFails, CommitFails, Respond
<1>2. ASSUME NEW b \in Attempts
      PROVE  \/ stage[b] \in Ended /\ stage'[b] \in Ended /\ result'[b] = result[b]
             \/ stage[b] \notin Ended /\ stage'[b] \notin Ended
  BY DEF IInv, TypeOK, Arrive, Connect, Begin, DecrementStock, ProductExists, CreateReservation,
     StatementFails, CommitFails, Respond, Raise, Goto, Ended
<1>3. Decision' = Decision
  BY <1>2 DEF Decision
<1>4. Request' = Request /\ Ledger' = Ledger
  BY <1>1 DEF Request, Ledger
<1>5. QED
  BY <1>1, <1>3, <1>4, ContractView DEF Contract!vars, Decision, Request, Ledger

\* An attempt that gets no connection or no lock reserved nothing.
LEMMA FailureStep ==
  ASSUME IInv, NEW a \in Attempts, ConnectFails(a) \/ BeginFails(a)
  PROVE  Contract!Fail(a)
<1> USE DEF IInv, TypeOK
<1>1. /\ UNCHANGED <<product, db>> /\ stage[a] \in {"connect", "begin"} /\ stage'[a] = "respond"
      /\ \A b \in Attempts : b # a => stage'[b] = stage[b] /\ result'[b] = result[b]
  BY DEF ConnectFails, BeginFails, Raise, Goto
<1>2. \E kind \in {"busy", "pool_timeout", "failed"} : result'[a] = Contract!Refused(kind)
  BY DEF ConnectFails, BeginFails, Raise, Raised, Contract!Refused
<1>3. Decided(a, result'[a])
  BY <1>1, Decides DEF Ended, HoldsConnection, InTransaction
<1>4. Ledger[a] # a
  BY <1>1, RailsAssumption DEF Carries, Ended, Ledger
<1>5. UNCHANGED <<Request, db.listed, db.stock, Ledger>>
  BY <1>1 DEF Request, Ledger
<1>6. QED
  BY <1>2, <1>3, <1>4, <1>5, ContractView
  DEF Contract!Fail, Contract!Decide, Contract!Undecided, NoResult,
       Decided, Decision, Request, Ledger

\* A refusal is still true when ROLLBACK makes it the answer.
LEMMA RollbackStep ==
  ASSUME IInv, NEW a \in Attempts, Rollback(a)
  PROVE  Contract!SoldOut(a) \/ Contract!NotFound(a) \/ Contract!Fail(a)
<1> USE DEF IInv, TypeOK
<1>1. /\ UNCHANGED <<product, result, db>> /\ stage[a] = "rollback" /\ stage'[a] = "respond"
      /\ \A b \in Attempts : b # a => stage'[b] = stage[b] /\ result'[b] = result[b]
  BY DEF Rollback, Goto
<1>2. Decided(a, result[a])
  BY <1>1, Decides DEF Ended
<1>3. Ledger[a] = NoAttempt /\ NoAttempt # a
  BY <1>1, RailsAssumption DEF Carries, Ended, Ledger
<1>4. UNCHANGED <<Request, db.listed, db.stock, Ledger>>
  BY <1>1 DEF Request, Ledger
<1>5. PICK kind \in {"sold_out", "not_found", "busy", "failed"} :
        result[a] = Raised(kind) /\ result[a] = Contract!Refused(kind)
  BY <1>1 DEF Carries, Raised, Contract!Refused
<1>6. CASE kind = "sold_out"
  <2>1. product[a] \in db.listed /\ ~InStock(product[a])
    BY <1>1, <1>5, <1>6 DEF WriterView
  <2>2. db.stock[product[a]] = 0
    <3>1. db \in Tables /\ product[a] \in Products
      OBVIOUS
    <3>2. db.stock[product[a]] \in Int /\ db.stock[product[a]] >= 0
      BY <3>1 DEF Conserved, Tables
    <3>3. QED
      BY <2>1, <3>2 DEF InStock
  <2>3. QED
    BY <1>2, <1>3, <1>4, <1>5, <1>6, <2>1, <2>2, ContractView
    DEF Contract!SoldOut, Contract!Decide, Contract!Undecided, NoResult,
         Decided, Decision, Request, Ledger
<1>7. CASE kind = "not_found"
  <2>1. product[a] \notin db.listed
    BY <1>1, <1>5, <1>7 DEF WriterView
  <2>2. QED
    BY <1>2, <1>3, <1>4, <1>5, <1>7, <2>1, ContractView
    DEF Contract!NotFound, Contract!Decide, Contract!Undecided, NoResult,
         Decided, Decision, Request, Ledger
<1>8. CASE kind \in {"busy", "failed"}
  BY <1>2, <1>3, <1>4, <1>5, <1>8, ContractView
  DEF Contract!Fail, Contract!Decide, Contract!Undecided, NoResult,
       Decided, Decision, Request, Ledger
<1>9. QED
  BY <1>5, <1>6, <1>7, <1>8

\* Publishing a reservation is the contract's Reserve, whatever its author is
\* then told.
LEMMA PublishStep ==
  ASSUME IInv, NEW a \in Attempts, stage[a] = "commit",
         UNCHANGED product, db' = Reserved(db, a),
         Decided(a, Contract!Created(a)) \/ Decision' = Decision
  PROVE  Contract!Reserve(a)
<1> USE DEF IInv, TypeOK
<1>1. a \notin db.reservations /\ InStock(product[a]) /\ Decision[a] = NoResult
  BY DEF Carries, WriterView, Ended, Decision
<1>2. db \in Tables
  OBVIOUS
<1>3. /\ db'.listed = db.listed
      /\ db'.stock = [db.stock EXCEPT ![product[a]] = @ - 1]
      /\ db'.reservations = db.reservations \cup {a}
  BY <1>2, ReservedFields
<1>4. Ledger' = [Ledger EXCEPT ![a] = a]
  BY <1>3 DEF Ledger
<1>5. /\ Ledger[a] = NoAttempt /\ Contract!Undecided = NoResult
      /\ Request' = Request
  BY <1>1 DEF Ledger, Request, Contract!Undecided, NoResult
<1>6. QED
  BY <1>1, <1>3, <1>4, <1>5, ContractView
  DEF Contract!Reserve, InStock, Contract!Decide, Decided, Request, Ledger, Decision

LEMMA CommitReserves ==
  ASSUME IInv, NEW a \in Attempts, Commit(a)
  PROVE  Contract!Reserve(a)
<1>1. /\ UNCHANGED <<product, result>> /\ db' = work
      /\ stage[a] = "commit" /\ stage'[a] = "respond"
      /\ \A b \in Attempts : b # a => stage'[b] = stage[b] /\ result'[b] = result[b]
  BY DEF Commit, Goto, IInv, TypeOK
<1>2. work = Reserved(db, a) /\ result'[a] = Contract!Created(a)
  BY <1>1 DEF IInv, WriterView, Carries, Contract!Created
<1>3. Decided(a, Contract!Created(a))
  BY <1>1, <1>2, Decides DEF Ended
<1>4. QED
  BY <1>1, <1>2, <1>3, PublishStep

\* A dead process publishes the whole reservation whose COMMIT had been
\* written, or nothing.
LEMMA CrashReserves ==
  ASSUME IInv, NEW w \in Processes, Crash(w)
  PROVE  UNCHANGED Contract!vars \/ \E a \in Attempts : Contract!Reserve(a)
<1> USE DEF IInv, TypeOK
<1>1. Decision' = Decision
  <2>1. ASSUME NEW a \in Attempts
        PROVE  /\ stage[a] \in Ended => stage'[a] \in Ended /\ result'[a] = result[a]
               /\ stage[a] \notin Ended => stage'[a] \notin Ended \/ result'[a] = NoResult
    BY DEF Crash, Ended
  <2>2. QED
    BY <2>1 DEF Decision
<1>2. UNCHANGED product
  BY CrashKeeps
<1>3. CASE db' = db
  <2>1. Request' = Request /\ Ledger' = Ledger
    BY <1>2, <1>3 DEF Request, Ledger
  <2>2. QED
    BY <1>1, <1>3, <2>1, ContractView DEF Contract!vars, Decision, Request, Ledger
<1>4. CASE writer \in Attempts /\ stage[writer] = "commit" /\ db' = Reserved(db, writer)
  BY <1>1, <1>2, <1>4, PublishStep
<1>5. QED
  BY <1>3, <1>4, CrashKeeps

LEMMA SeedLists ==
  ASSUME IInv, NEW p \in Products, Seed(p)
  PROVE  Contract!List(p)
<1>1. /\ UNCHANGED <<product, stage, result>> /\ p \notin db.listed
      /\ db' = [db EXCEPT !.listed = @ \cup {p}]
  BY DEF Seed
<1>2. /\ db'.listed = db.listed \cup {p} /\ db'.stock = db.stock
      /\ db'.reservations = db.reservations
  BY <1>1 DEF IInv, TypeOK, Tables
<1>3. UNCHANGED <<Request, Ledger, Decision>>
  BY <1>1, <1>2 DEF Request, Ledger, Decision
<1>4. QED
  BY <1>1, <1>2, <1>3 DEF Contract!List, Request, Ledger, Decision

LEMMA InitRefines ==
  ASSUME Init
  PROVE  Contract!Init
<1>1. \A a \in Attempts : Request[a] \in Contract!Requests
  BY DEF Init, Request, Contract!Requests
<1>2. /\ Request \in [Attempts -> Contract!Requests]
      /\ Ledger = [a \in Attempts |-> NoAttempt]
      /\ Decision = [a \in Attempts |-> Contract!Undecided]
  BY <1>1 DEF Init, Request, Ledger, Decision, NoResult, Contract!Undecided, Ended
<1>3. QED
  BY <1>2 DEF Init, Contract!Init, Request, Ledger, Decision

\* Without idempotency keys the service still behaves as if every request had
\* one of its own: effects in one step, answers that agree with it, whichever
\* process dies.
THEOREM ContractIsKept == Spec => ImplementsContract
<1>1. ASSUME IInv, [Next]_vars
      PROVE  [Contract!Next]_(Contract!vars)
  <2>1. ASSUME NEW a \in Attempts,
               \/ Arrive(a) \/ Connect(a) \/ ConnectFails(a) \/ Begin(a) \/ BeginFails(a)
               \/ DecrementStock(a) \/ ProductExists(a) \/ CreateReservation(a)
               \/ StatementFails(a) \/ Commit(a) \/ CommitFails(a) \/ Rollback(a) \/ Respond(a)
        PROVE  UNCHANGED Contract!vars \/ Contract!AttemptStep(a)
    BY <1>1, <2>1, QuietSteps, FailureStep, RollbackStep, CommitReserves
    DEF Contract!AttemptStep
  <2>2. ASSUME NEW p \in Products, Seed(p)
        PROVE  Contract!List(p)
    BY <1>1, <2>2, SeedLists
  <2>3. ASSUME NEW w \in Processes, Crash(w)
        PROVE  UNCHANGED Contract!vars \/ \E a \in Attempts : Contract!AttemptStep(a)
    BY <1>1, <2>3, CrashReserves DEF Contract!AttemptStep
  <2>4. UNCHANGED vars => UNCHANGED Contract!vars
    BY ContractView DEF vars, Contract!vars, Decision, Request, Ledger
  <2>5. QED
    BY <1>1, <2>1, <2>2, <2>3, <2>4 DEF Next, Contract!Next
<1>2. QED
  BY <1>1, InvariantHolds, InitRefines, PTL DEF Spec, ImplementsContract, Contract!Spec

-----------------------------------------------------------------------------
(* So the contract's promises are the service's. *)

Theory == INSTANCE ReservationContractProofs WITH
  Keys <- Attempts,
  request <- [a \in Attempts |-> [key |-> a, product |-> product[a]]],
  listed <- db.listed,
  available <- db.stock,
  ledger <- [a \in Attempts |-> IF a \in db.reservations THEN a ELSE NoAttempt],
  decision <- [a \in Attempts |-> IF stage[a] \in Ended THEN result[a] ELSE NoResult],
  retired <- {}

LEMMA TheoryFinite == \A S : Theory!IsFiniteSet(S) <=> IsFiniteSet(S)
BY DEF Theory!IsFiniteSet, IsFiniteSet

\* The theorems are about the same contract.
LEMMA TheorySpeaksOfTheContract ==
  /\ Theory!Init <=> Contract!Init
  /\ [Theory!Next]_(Theory!vars) <=> [Contract!Next]_(Contract!vars)
  /\ Theory!Promises <=> Contract!Promises
<1>1. Theory!Init <=> Contract!Init
  BY DEF Theory!Init, Contract!Init, Theory!Requests, Contract!Requests, Theory!Undecided,
         Contract!Undecided
<1>2. ASSUME NEW a \in Attempts
      PROVE  Theory!AttemptStep(a) <=> Contract!AttemptStep(a)
  BY DEF Theory!AttemptStep, Contract!AttemptStep, Theory!Reserve, Contract!Reserve,
         Theory!Replay, Contract!Replay, Theory!Conflict, Contract!Conflict, Theory!SoldOut,
         Contract!SoldOut, Theory!NotFound, Contract!NotFound, Theory!Fail, Contract!Fail,
         Theory!Decide, Contract!Decide, Theory!KeyOf, Contract!KeyOf, Theory!ProductOf,
         Contract!ProductOf, Theory!Undecided, Contract!Undecided, Theory!Created,
         Contract!Created, Theory!Replayed, Contract!Replayed, Theory!Refused,
         Contract!Refused
<1>3. Theory!Next <=> Contract!Next
  BY <1>2 DEF Theory!Next, Contract!Next, Theory!List, Contract!List
<1>4. Theory!vars = Contract!vars /\ Theory!vars' = Contract!vars'
  BY DEF Theory!vars, Contract!vars
<1>5. \A S : Theory!Cardinality(S) = Contract!Cardinality(S)
  BY DEF Theory!Cardinality, Contract!Cardinality
<1>6. Theory!Conservation <=> Contract!Conservation
  BY <1>5 DEF Theory!Conservation, Contract!Conservation, Theory!KeysFor,
         Contract!KeysFor, Theory!ProductOf, Contract!ProductOf
<1>7. Theory!RetriesAgree <=> Contract!RetriesAgree
  BY DEF Theory!RetriesAgree, Contract!RetriesAgree, Theory!Succeeded, Contract!Succeeded,
         Theory!KeyOf, Contract!KeyOf, Theory!ProductOf, Contract!ProductOf
<1>8. Theory!Promises <=> Contract!Promises
  BY <1>6, <1>7 DEF Theory!Promises, Contract!Promises, Theory!CleanRefusalLeavesNothing,
         Contract!CleanRefusalLeavesNothing, Theory!SoldOutIsTrue, Contract!SoldOutIsTrue,
         Theory!CleanRefusals, Contract!CleanRefusals, Theory!KeyOf, Contract!KeyOf,
         Theory!ProductOf, Contract!ProductOf
<1>9. QED
  BY <1>1, <1>3, <1>4, <1>8

\* For any number of requests and processes: the Rails service sells what it has
\* and no more, whichever process dies, leaves nothing of what it refuses, and
\* "sold out" stays true.
THEOREM RailsKeepsItsPromises == Spec => []Contract!Promises /\ Contract!LedgerIsPermanent
<1>1. Theory!Spec => []Theory!Promises /\ Theory!LedgerIsPermanent
  BY Theory!PromisesHold, Theory!LedgerPermanence, RailsAssumption, TheoryFinite
<1>2. [\A k \in Attempts :
           [a \in Attempts |-> IF a \in db.reservations THEN a ELSE NoAttempt][k] # NoAttempt
           => ([a \in Attempts |-> IF a \in db.reservations THEN a ELSE NoAttempt]')[k]
              = [a \in Attempts |-> IF a \in db.reservations THEN a ELSE NoAttempt][k]
      ]_(Theory!vars)
      => [\A k \in Attempts :
           [a \in Attempts |-> IF a \in db.reservations THEN a ELSE NoAttempt][k] # NoAttempt
           => ([a \in Attempts |-> IF a \in db.reservations THEN a ELSE NoAttempt]')[k]
              = [a \in Attempts |-> IF a \in db.reservations THEN a ELSE NoAttempt][k]
      ]_(Contract!vars)
  BY DEF Theory!vars, Contract!vars
<1>3. QED
  BY <1>1, <1>2, TheorySpeaksOfTheContract, ContractIsKept, PTL
     DEF ImplementsContract, Contract!Spec, Theory!Spec, Contract!LedgerIsPermanent,
         Theory!LedgerIsPermanent
=============================================================================
