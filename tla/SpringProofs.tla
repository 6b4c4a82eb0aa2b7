----------------------------- MODULE SpringProofs -----------------------------
(***************************************************************************)
(* The Spring services for any number of requests, keys, products,         *)
(* connections, transactions and threads.                                  *)
(*                                                                         *)
(* Reservations: claims and row locks keep two transactions of one request *)
(* and all transactions of all requests apart, and the endpoint keeps      *)
(* ReservationContract.  Transaction metrics: what is counted is true of   *)
(* the database.  Request filter: each thread logs under its own request.  *)
(* Beside the filter stands what a NestJS process records (MCExchanges).   *)
(***************************************************************************)
EXTENDS ClaimReservation, TransactionListener, MCExchanges, FiniteSetTheorems, TLAPS

-----------------------------------------------------------------------------
(* Reservations: the inductive invariant. *)

InStock(p) == p \in db.listed /\ db.available[p] > 0
First(a) == db.replay[KeyOf(a)]

Reservation == {"claim", "stock", "rows"}

StockLeft == \A p \in Products : db.available[p] >= 0

\* What an attempt has written and carries from statement to statement.
Carries(a) ==
  /\ stage[a] \in {"new", "connect", "find_replay", "claim", "decrease", "product_exists", "save"}
       => result[a] = NoResult
  /\ stage[a] \in {"find_replay", "claim", "replay_find"} => writes[a] = {}
  /\ stage[a] \in {"decrease", "product_exists"} => writes[a] = {"claim"}
  /\ stage[a] = "save" => writes[a] = {"claim", "stock"}
  /\ stage[a] = "commit" =>
       \/ writes[a] = Reservation /\ result[a] = Created(a)
       \/ /\ writes[a] = {} /\ result[a] = Replayed(First(a))
          /\ First(a) # NoAttempt /\ ProductOf(First(a)) = ProductOf(a)
  /\ stage[a] = "rollback" =>
       \E kind \in {"conflict", "claimed", "sold_out", "not_found", "busy", "failed"} :
          result[a] = Thrown(kind)

\* What it has seen in the committed tables and may rely on until it ends.
Sees(a) ==
  /\ stage[a] \notin Ended => a \notin db.reservations
  /\ "claim" \in writes[a] => KeyOf(a) \notin db.claims
  /\ "stock" \in writes[a] => InStock(ProductOf(a))
  /\ stage[a] = "product_exists" => ~InStock(ProductOf(a))
  /\ stage[a] = "rollback" =>
       /\ result[a] = Thrown("conflict") =>
            First(a) # NoAttempt /\ ProductOf(First(a)) # ProductOf(a)
       /\ result[a] = Thrown("claimed") => First(a) # NoAttempt
       /\ result[a] = Thrown("sold_out") =>
            /\ "claim" \in writes[a]
            /\ ProductOf(a) \in db.listed /\ ~InStock(ProductOf(a))
       /\ result[a] = Thrown("not_found") =>
            "claim" \in writes[a] /\ ProductOf(a) \notin db.listed

IInv ==
  /\ TypeOK
  /\ ClaimsMatchReplays
  /\ ReplayIsThere
  /\ LocksAreExclusive
  /\ StockLeft
  /\ \A a \in Attempts : Carries(a) /\ Sees(a)

-----------------------------------------------------------------------------
(* What the operators do. *)

\* The committed tables, table by table.
LEMMA CommittedTables ==
  ASSUME TypeOK, NEW a \in Attempts
  PROVE  /\ KeyOf(a) \in Keys /\ ProductOf(a) \in Products
         /\ Committed(a) \in Tables
         /\ Committed(a) =
              [listed |-> db.listed,
               available |->
                 [db.available EXCEPT ![ProductOf(a)] =
                    IF "stock" \in writes[a] THEN @ - 1 ELSE @],
               claims |-> IF "claim" \in writes[a] THEN db.claims \cup {KeyOf(a)} ELSE db.claims,
               reservations |->
                 IF "rows" \in writes[a] THEN db.reservations \cup {a} ELSE db.reservations,
               replay |->
                 [db.replay EXCEPT ![KeyOf(a)] = IF "rows" \in writes[a] THEN a ELSE @]]
<1>1. KeyOf(a) \in Keys /\ ProductOf(a) \in Products
  BY DEF TypeOK, Inputs, KeyOf, ProductOf
<1>2. db \in Tables
  BY DEF TypeOK
<1> DEFINE n == IF "stock" \in writes[a] THEN db.available[ProductOf(a)] - 1
                                          ELSE db.available[ProductOf(a)]
           b == IF "rows" \in writes[a] THEN a ELSE db.replay[KeyOf(a)]
           claims == IF "claim" \in writes[a] THEN db.claims \cup {KeyOf(a)} ELSE db.claims
           reservations ==
             IF "rows" \in writes[a] THEN db.reservations \cup {a} ELSE db.reservations
<1>3. /\ n \in Int /\ claims \in SUBSET Keys
      /\ reservations \in SUBSET Attempts /\ b \in Attempts \cup {NoAttempt}
  BY <1>1, <1>2 DEF Tables
<1> DEFINE t == [db EXCEPT !.claims = claims]
           u == [t EXCEPT !.available[ProductOf(a)] = n]
           v == [u EXCEPT !.reservations = reservations]
           w == [v EXCEPT !.replay[KeyOf(a)] = b]
<1>4. Committed(a) = w
  BY DEF Committed
<1>5. Committed(a) = [listed |-> db.listed,
                      available |-> [db.available EXCEPT ![ProductOf(a)] = n],
                      claims |-> claims, reservations |-> reservations,
                      replay |-> [db.replay EXCEPT ![KeyOf(a)] = b]]
  <2> HIDE DEF n, b, claims, reservations
  <2>1. t \in Tables /\ t = [listed |-> db.listed, available |-> db.available, claims |-> claims,
                             reservations |-> db.reservations, replay |-> db.replay]
    BY <1>2, <1>3 DEF Tables
  <2>2. u \in Tables /\ u = [listed |-> t.listed, claims |-> t.claims,
                             available |-> [t.available EXCEPT ![ProductOf(a)] = n],
                             reservations |-> t.reservations, replay |-> t.replay]
    <3> HIDE DEF t
    <3> QED
      BY <1>1, <1>3, <2>1 DEF Tables
  <2>3. v \in Tables /\ v = [listed |-> u.listed, available |-> u.available, claims |-> u.claims,
                             reservations |-> reservations, replay |-> u.replay]
    <3> HIDE DEF u
    <3> QED
      BY <1>3, <2>2 DEF Tables
  <2>4. w = [listed |-> v.listed, available |-> v.available, claims |-> v.claims,
             reservations |-> v.reservations, replay |-> [v.replay EXCEPT ![KeyOf(a)] = b]]
    <3> HIDE DEF v
    <3> QED
      BY <1>1, <1>3, <2>3 DEF Tables
  <2>5. QED
    <3> HIDE DEF t, u, v, w
    <3> QED
      BY <1>4, <2>1, <2>2, <2>3, <2>4
<1>6. Committed(a) \in Tables
  <2> HIDE DEF n, b, claims, reservations
  <2>1. /\ [db.available EXCEPT ![ProductOf(a)] = n] \in [Products -> Int]
        /\ [db.replay EXCEPT ![KeyOf(a)] = b] \in [Keys -> Attempts \cup {NoAttempt}]
    BY <1>1, <1>2, <1>3 DEF Tables
  <2>2. QED
    BY <1>2, <1>3, <1>5, <2>1 DEF Tables
<1>7. QED
  BY <1>1, <1>5, <1>6

\* Committing a whole reservation.
LEMMA CommittedFields ==
  ASSUME TypeOK, NEW a \in Attempts, writes[a] = Reservation
  PROVE  /\ Committed(a).listed = db.listed
         /\ Committed(a).claims = db.claims \cup {KeyOf(a)}
         /\ Committed(a).available = [db.available EXCEPT ![ProductOf(a)] = @ - 1]
         /\ Committed(a).reservations = db.reservations \cup {a}
         /\ Committed(a).replay = [db.replay EXCEPT ![KeyOf(a)] = a]
BY CommittedTables DEF Reservation

\* A transaction that wrote nothing commits nothing.
LEMMA CommittedNothing ==
  ASSUME TypeOK, NEW a \in Attempts, writes[a] = {}
  PROVE  Committed(a) = db
<1>1. db \in Tables
  BY DEF TypeOK
<1>2. /\ db.available = [db.available EXCEPT ![ProductOf(a)] = @]
      /\ db.replay = [db.replay EXCEPT ![KeyOf(a)] = @]
  BY <1>1 DEF Tables
<1>3. db = [listed |-> db.listed, available |-> db.available, claims |-> db.claims,
            reservations |-> db.reservations, replay |-> db.replay]
  BY <1>1 DEF Tables
<1>4. QED
  BY <1>2, <1>3, CommittedTables

\* Two attempts never hold one row.
LEMMA Exclusive ==
  LocksAreExclusive <=>
    \A a \in Attempts :
       /\ a \in pool <=> stage[a] \in InTransaction
       /\ stage[a] \notin InTransaction => writes[a] = {}
       /\ "stock" \in writes[a] => "claim" \in writes[a]
       /\ \A b \in Attempts \ {a} :
            /\ "claim" \in writes[a] /\ "claim" \in writes[b] => KeyOf(a) # KeyOf(b)
            /\ "stock" \in writes[a] /\ "stock" \in writes[b] => ProductOf(a) # ProductOf(b)
BY DEF LocksAreExclusive, ClaimHolders, StockHolders

\* The reservation under a key was made by an attempt that is no longer
\* running.
LEMMA FirstIsAnother ==
  ASSUME IInv, NEW a \in Attempts, First(a) # NoAttempt
  PROVE  /\ First(a) \in db.reservations /\ First(a) \in Attempts
         /\ stage[a] \notin Ended => First(a) # a
<1>1. KeyOf(a) \in Keys /\ db \in Tables
  BY DEF IInv, TypeOK, Inputs, KeyOf
<1>2. First(a) \in db.reservations /\ First(a) \in Attempts
  BY <1>1 DEF IInv, ClaimsMatchReplays, First, Tables
<1>3. QED
  BY <1>2 DEF IInv, Sees

-----------------------------------------------------------------------------
(* Types. *)

LEMMA TypeStep ==
  ASSUME TypeOK, [Next]_vars
  PROVE  TypeOK'
<1> USE DEF TypeOK, Goto, Return, Throw, Thrown, Release, Write, NoResult, Kinds,
            Stages, Waiting, InTransaction, Statements, Ended
<1>1. ASSUME NEW a \in Attempts, Arrive(a)
      PROVE  TypeOK'
  BY <1>1 DEF Arrive
<1>2. ASSUME NEW a \in Attempts, Connect(a)
      PROVE  TypeOK'
  BY <1>2 DEF Connect
<1>3. ASSUME NEW a \in Attempts, ConnectFails(a)
      PROVE  TypeOK'
  BY <1>3 DEF ConnectFails
<1>4. ASSUME NEW a \in Attempts, FindReplay(a)
      PROVE  TypeOK'
  <2>1. db.replay[KeyOf(a)] \in Attempts \cup {NoAttempt}
    BY DEF Tables, KeyOf, Inputs
  <2>2. QED
    BY <1>4, <2>1 DEF FindReplay, Answer, Replayed
<1>5. ASSUME NEW a \in Attempts, Claim(a)
      PROVE  TypeOK'
  BY <1>5 DEF Claim
<1>6. ASSUME NEW a \in Attempts, DecreaseStock(a)
      PROVE  TypeOK'
  BY <1>6 DEF DecreaseStock
<1>7. ASSUME NEW a \in Attempts, ProductExists(a)
      PROVE  TypeOK'
  BY <1>7 DEF ProductExists
<1>8. ASSUME NEW a \in Attempts, SaveReservationAndReplay(a)
      PROVE  TypeOK'
  BY <1>8 DEF SaveReservationAndReplay, Created
<1>9. ASSUME NEW a \in Attempts, ReplayFind(a)
      PROVE  TypeOK'
  <2>1. db.replay[KeyOf(a)] \in Attempts \cup {NoAttempt}
    BY DEF Tables, KeyOf, Inputs
  <2>2. QED
    BY <1>9, <2>1 DEF ReplayFind, Answer, Replayed
<1>10. ASSUME NEW a \in Attempts, LockTimesOut(a) \/ StatementFails(a)
       PROVE  TypeOK'
  BY <1>10 DEF LockTimesOut, StatementFails
<1>11. \A a \in Attempts : Committed(a) \in Tables
  BY CommittedTables
<1>12. ASSUME NEW a \in Attempts, Commit(a) \/ CommitFails(a)
       PROVE  TypeOK'
  BY <1>11, <1>12 DEF Commit, CommitFails
<1>13. ASSUME NEW a \in Attempts, Rollback(a) \/ Respond(a)
       PROVE  TypeOK'
  BY <1>13 DEF Rollback, Respond
<1>14. ASSUME NEW p \in Products, Seed(p)
       PROVE  TypeOK'
  BY <1>14 DEF Seed, Tables
<1>15. CASE Crash
  BY <1>11, <1>15 DEF Crash
<1>16. CASE UNCHANGED vars
  BY <1>16 DEF vars
<1>17. QED
  BY <1>1, <1>2, <1>3, <1>4, <1>5, <1>6, <1>7, <1>8, <1>9, <1>10, <1>12, <1>13, <1>14,
     <1>15, <1>16 DEF Next, Progress

-----------------------------------------------------------------------------
(* Each step keeps the invariant. *)

LEMMA Frame ==
  ASSUME NEW b \in Attempts, Carries(b), Sees(b), UNCHANGED <<request, db>>,
         stage'[b] = stage[b], result'[b] = result[b], writes'[b] = writes[b]
  PROVE  Carries(b)' /\ Sees(b)'
BY DEF Carries, Sees, First, InStock, KeyOf, ProductOf

\* What an attempt has to see to, for a step of its own that leaves the
\* committed tables alone.
StepsAside(a) ==
  /\ UNCHANGED <<request, db>>
  /\ \A b \in Attempts \ {a} :
       /\ stage'[b] = stage[b] /\ result'[b] = result[b] /\ writes'[b] = writes[b]
       /\ b \in pool' <=> b \in pool
  /\ a \in pool' <=> stage'[a] \in InTransaction
  /\ stage'[a] \notin InTransaction => writes'[a] = {}
  /\ "claim" \in writes'[a] => "claim" \in writes[a] \/ ClaimHolders(a) = {}
  /\ "stock" \in writes'[a] => "stock" \in writes[a] \/ StockHolders(a) = {}
  /\ "stock" \in writes'[a] => "claim" \in writes'[a]
  /\ stage'[a] \in {"replay_connect", "replay_find"} => First(a) # NoAttempt
  /\ stage'[a] \notin Ended => stage[a] \notin Ended

LEMMA AsideStep ==
  ASSUME IInv, TypeOK', NEW a \in Attempts, StepsAside(a), Carries(a)', Sees(a)'
  PROVE  IInv'
<1>1. UNCHANGED <<request, db>> /\ \A b \in Attempts : KeyOf(b)' = KeyOf(b) /\ ProductOf(b)' = ProductOf(b)
  BY DEF StepsAside, KeyOf, ProductOf
<1>2. ClaimsMatchReplays' /\ StockLeft'
  BY <1>1 DEF IInv, ClaimsMatchReplays, StockLeft
<1>3. \A b \in Attempts : Carries(b)' /\ Sees(b)'
  BY Frame DEF IInv, StepsAside
<1>4. ReplayIsThere'
  <2>1. ASSUME NEW b \in Attempts, stage'[b] \in {"replay_connect", "replay_find"}
        PROVE  First(b) \notin {NoAttempt, b}
    <3>1. CASE b = a
      BY <2>1, <3>1, FirstIsAnother DEF StepsAside, Ended
    <3>2. CASE b # a
      BY <2>1, <3>2 DEF IInv, StepsAside, ReplayIsThere, First
    <3>3. QED
      BY <3>1, <3>2
  <2>2. QED
    BY <1>1, <2>1 DEF ReplayIsThere, First
<1>5. LocksAreExclusive'
  <2>1. \A b, c \in Attempts :
          b # c =>
            /\ "claim" \in writes'[b] /\ "claim" \in writes'[c] => KeyOf(b) # KeyOf(c)
            /\ "stock" \in writes'[b] /\ "stock" \in writes'[c] => ProductOf(b) # ProductOf(c)
    BY DEF IInv, StepsAside, LocksAreExclusive, ClaimHolders, StockHolders
  <2>2. \A b \in Attempts :
          /\ b \in pool' <=> stage'[b] \in InTransaction
          /\ stage'[b] \notin InTransaction => writes'[b] = {}
          /\ "stock" \in writes'[b] => "claim" \in writes'[b]
    BY DEF IInv, StepsAside, LocksAreExclusive
  <2>3. QED
    BY <1>1, <2>1, <2>2 DEF LocksAreExclusive, ClaimHolders, StockHolders
<1>6. QED
  BY <1>2, <1>3, <1>4, <1>5 DEF IInv

\* The steps before and between transactions, and after them.
LEMMA OutsideStep ==
  ASSUME IInv, TypeOK', NEW a \in Attempts,
         Arrive(a) \/ Connect(a) \/ ConnectFails(a) \/ Respond(a)
  PROVE  IInv'
<1> USE DEF IInv, TypeOK, Stages, Waiting, InTransaction, Statements, Ended
<1>1. Carries(a) /\ Sees(a) /\ (stage[a] = "replay_connect" => First(a) # NoAttempt)
  BY DEF ReplayIsThere, First
<1>2. writes[a] = {} /\ UNCHANGED <<request, db, writes>>
  BY DEF Arrive, Connect, ConnectFails, Respond, LocksAreExclusive
<1>3. \A b \in Attempts \ {a} :
        stage'[b] = stage[b] /\ result'[b] = result[b] /\ (b \in pool' <=> b \in pool)
  BY DEF Arrive, Connect, ConnectFails, Respond, Goto, Return
<1>4. \/ stage[a] = "new" /\ stage'[a] = "connect" /\ result'[a] = NoResult /\ a \notin pool'
      \/ stage[a] = "connect" /\ stage'[a] = "find_replay" /\ result'[a] = NoResult /\ a \in pool'
      \/ stage[a] = "replay_connect" /\ stage'[a] = "replay_find" /\ a \in pool'
      \/ /\ stage[a] \in {"connect", "replay_connect", "respond"}
         /\ stage'[a] \in {"respond", "answered", "lost"} /\ a \notin pool'
  BY <1>1 DEF Arrive, Connect, ConnectFails, Respond, Goto, Return, Carries, LocksAreExclusive
<1>5. Carries(a)'
  BY <1>2, <1>4 DEF Carries
<1>6. Sees(a)'
  BY <1>1, <1>2, <1>4 DEF Sees
<1>7. StepsAside(a)
  BY <1>1, <1>2, <1>3, <1>4 DEF StepsAside
<1>8. QED
  BY <1>5, <1>6, <1>7, AsideStep

\* The statements of a transaction, and the errors they end it with.
LEMMA StatementStep ==
  ASSUME IInv, TypeOK', NEW a \in Attempts,
         \/ FindReplay(a) \/ Claim(a) \/ DecreaseStock(a) \/ ProductExists(a)
         \/ SaveReservationAndReplay(a) \/ ReplayFind(a) \/ LockTimesOut(a) \/ StatementFails(a)
  PROVE  IInv'
<1> USE DEF IInv, TypeOK
<1>1. /\ Carries(a) /\ Sees(a) /\ UNCHANGED <<request, db, pool>>
      /\ stage[a] \in Statements /\ a \in pool /\ a \notin db.reservations
      /\ KeyOf(a)' = KeyOf(a) /\ ProductOf(a)' = ProductOf(a) /\ First(a)' = First(a)
      /\ InStock(ProductOf(a))' = InStock(ProductOf(a))
      /\ "stock" \in writes[a] => "claim" \in writes[a]
  <2>1. UNCHANGED <<request, db, pool>> /\ stage[a] \in Statements
    BY DEF FindReplay, Claim, DecreaseStock, ProductExists, SaveReservationAndReplay,
           ReplayFind, LockTimesOut, StatementFails, Statements
  <2>2. a \in pool /\ ("stock" \in writes[a] => "claim" \in writes[a])
    BY <2>1 DEF LocksAreExclusive, InTransaction
  <2>3. QED
    BY <2>1, <2>2 DEF Sees, Statements, Ended, KeyOf, ProductOf, First, InStock
<1>2. \A b \in Attempts \ {a} :
        stage'[b] = stage[b] /\ result'[b] = result[b] /\ writes'[b] = writes[b]
  BY DEF FindReplay, Claim, DecreaseStock, ProductExists, SaveReservationAndReplay,
         ReplayFind, LockTimesOut, StatementFails, Answer, Throw, Return, Goto, Write
<1>3. CASE FindReplay(a) \/ ReplayFind(a)
  <2>1. /\ writes'[a] = {}
        /\ \/ stage'[a] = "claim" /\ result'[a] = NoResult
           \/ /\ stage'[a] = "commit" /\ result'[a] = Replayed(First(a))
              /\ First(a) # NoAttempt /\ ProductOf(First(a)) = ProductOf(a)
           \/ /\ stage'[a] = "rollback" /\ result'[a] = Thrown("conflict")
              /\ First(a) # NoAttempt /\ ProductOf(First(a)) # ProductOf(a)
           \/ stage'[a] = "rollback" /\ result'[a] = Thrown("failed")
    BY <1>1, <1>3 DEF FindReplay, ReplayFind, Answer, Throw, Return, Goto, Carries, First
  <2>2. Carries(a)'
    BY <1>1, <2>1 DEF Carries, ProductOf
  <2>3. Sees(a)'
    BY <1>1, <2>1 DEF Sees, ProductOf, Thrown
  <2>4. StepsAside(a)
    BY <1>1, <1>2, <2>1 DEF StepsAside, InTransaction, Statements, Ended
  <2>5. QED
    BY <2>2, <2>3, <2>4, AsideStep
<1>4. CASE Claim(a)
  <2>1. \/ /\ stage'[a] = "decrease" /\ writes'[a] = {"claim"} /\ result'[a] = NoResult
           /\ KeyOf(a) \notin db.claims /\ ClaimHolders(a) = {}
        \/ /\ stage'[a] = "rollback" /\ result'[a] = Thrown("claimed") /\ writes'[a] = {}
           /\ First(a) # NoAttempt
    BY <1>1, <1>4 DEF Claim, Throw, Return, Goto, Write, Carries, First, ClaimsMatchReplays
  <2>2. Carries(a)' /\ Sees(a)'
    BY <1>1, <2>1 DEF Carries, Sees, Thrown
  <2>3. StepsAside(a)
    BY <1>1, <1>2, <2>1 DEF StepsAside, InTransaction, Statements, Ended
  <2>4. QED
    BY <2>2, <2>3, AsideStep
<1>5. CASE DecreaseStock(a)
  <2>1. \/ /\ stage'[a] = "save" /\ writes'[a] = {"claim", "stock"} /\ result'[a] = NoResult
           /\ "claim" \in writes[a] /\ StockHolders(a) = {} /\ InStock(ProductOf(a))
        \/ /\ stage'[a] = "product_exists" /\ writes'[a] = {"claim"} /\ result'[a] = NoResult
           /\ "claim" \in writes[a] /\ ~InStock(ProductOf(a))
    BY <1>1, <1>5 DEF DecreaseStock, Goto, Write, Carries, InStock
  <2>2. Carries(a)' /\ Sees(a)'
    BY <1>1, <2>1 DEF Carries, Sees
  <2>3. StepsAside(a)
    BY <1>1, <1>2, <2>1 DEF StepsAside, InTransaction, Statements, Ended
  <2>4. QED
    BY <2>2, <2>3, AsideStep
<1>6. CASE ProductExists(a) \/ LockTimesOut(a) \/ StatementFails(a)
  <2>1. /\ stage'[a] = "rollback" /\ writes'[a] = writes[a]
        /\ \/ /\ result'[a] = Thrown("sold_out") /\ "claim" \in writes[a]
              /\ ProductOf(a) \in db.listed /\ ~InStock(ProductOf(a))
           \/ /\ result'[a] = Thrown("not_found") /\ "claim" \in writes[a]
              /\ ProductOf(a) \notin db.listed
           \/ result'[a] \in {Thrown("busy"), Thrown("failed")}
    BY <1>1, <1>6 DEF ProductExists, LockTimesOut, StatementFails, Throw, Return, Goto,
                      Carries, Sees
  <2>2. Carries(a)'
    BY <2>1 DEF Carries
  <2>3. Sees(a)'
    BY <1>1, <2>1 DEF Sees, Thrown
  <2>4. StepsAside(a)
    BY <1>1, <1>2, <2>1 DEF StepsAside, InTransaction, Statements, Ended
  <2>5. QED
    BY <2>2, <2>3, <2>4, AsideStep
<1>7. CASE SaveReservationAndReplay(a)
  <2>1. /\ stage'[a] = "commit" /\ result'[a] = Created(a)
        /\ writes[a] = {"claim", "stock"} /\ writes'[a] = Reservation
    BY <1>1, <1>7 DEF SaveReservationAndReplay, Return, Goto, Write, Carries, Reservation
  <2>2. Carries(a)'
    BY <2>1 DEF Carries
  <2>3. Sees(a)'
    BY <1>1, <2>1 DEF Sees, Reservation
  <2>4. StepsAside(a)
    BY <1>1, <1>2, <2>1 DEF StepsAside, InTransaction, Statements, Ended, Reservation
  <2>5. QED
    BY <2>2, <2>3, <2>4, AsideStep
<1>8. QED
  BY <1>3, <1>4, <1>5, <1>6, <1>7

\* A transaction that leaves nothing behind: ROLLBACK, or COMMIT of nothing.
LEMMA EndAsideStep ==
  ASSUME IInv, TypeOK', NEW a \in Attempts,
         Rollback(a) \/ (db' = db /\ (Commit(a) \/ CommitFails(a)))
  PROVE  IInv'
<1> USE DEF IInv, TypeOK
<1>1. /\ UNCHANGED <<request, db>> /\ Carries(a) /\ Sees(a) /\ pool' = pool \ {a}
      /\ stage[a] \in {"commit", "rollback"}
      /\ First(a)' = First(a) /\ KeyOf(a)' = KeyOf(a)
  BY DEF Rollback, Commit, CommitFails, Release, First, KeyOf
<1>2. \A b \in Attempts \ {a} :
        stage'[b] = stage[b] /\ result'[b] = result[b] /\ writes'[b] = writes[b]
  BY DEF Rollback, Commit, CommitFails, Release, Return, Goto
<1>3. /\ writes'[a] = {} /\ stage'[a] \in {"respond", "replay_connect"}
      /\ stage'[a] = "replay_connect" => First(a) # NoAttempt
  BY <1>1 DEF Rollback, Commit, CommitFails, Release, Goto, Sees
<1>4. Carries(a)' /\ Sees(a)'
  BY <1>1, <1>3 DEF Carries, Sees, Ended
<1>5. StepsAside(a)
  BY <1>1, <1>2, <1>3 DEF StepsAside, InTransaction, Statements, Ended
<1>6. QED
  BY <1>4, <1>5, AsideStep

\* Publishing a reservation: the key is bound, a unit is gone, and what the
\* other attempts have seen is as it was.
Publishes(a) ==
  /\ stage[a] = "commit" /\ writes[a] = Reservation
  /\ db' = Committed(a) /\ UNCHANGED request

LEMMA PublishedTables ==
  ASSUME IInv, NEW a \in Attempts, Publishes(a)
  PROVE  /\ First(a) = NoAttempt /\ InStock(ProductOf(a)) /\ KeyOf(a) \notin db.claims
         /\ ClaimsMatchReplays' /\ StockLeft'
<1> USE DEF IInv, TypeOK
<1>1. /\ KeyOf(a) \in Keys /\ ProductOf(a) \in Products /\ db \in Tables
      /\ a # NoAttempt /\ a \notin db.reservations
  BY CommittedTables, ClaimAssumption DEF Publishes, Sees, Ended
<1>2. KeyOf(a) \notin db.claims /\ InStock(ProductOf(a))
  BY DEF Publishes, Sees, Reservation
<1>3. First(a) = NoAttempt
  BY <1>1, <1>2 DEF ClaimsMatchReplays, First
<1>4. /\ db'.claims = db.claims \cup {KeyOf(a)}
      /\ db'.available = [db.available EXCEPT ![ProductOf(a)] = @ - 1]
      /\ db'.reservations = db.reservations \cup {a}
      /\ db'.replay = [db.replay EXCEPT ![KeyOf(a)] = a]
  BY CommittedFields DEF Publishes
<1>5. db.replay \in [Keys -> Attempts \cup {NoAttempt}] /\ db.available \in [Products -> Int]
  BY <1>1 DEF Tables
<1>6. ClaimsMatchReplays'
  <2>1. db'.claims = {k \in Keys : db'.replay[k] # NoAttempt}
    BY <1>1, <1>4, <1>5 DEF ClaimsMatchReplays
  <2>2. \A k \in Keys : db'.replay[k] = IF k = KeyOf(a) THEN a ELSE db.replay[k]
    BY <1>4, <1>5
  <2>3. db'.reservations = {db'.replay[k] : k \in Keys} \ {NoAttempt}
    BY <1>1, <1>3, <1>4, <2>2 DEF ClaimsMatchReplays, First
  <2>4. QED
    BY <2>1, <2>3 DEF ClaimsMatchReplays
<1>7. StockLeft'
  <2>1. \A p \in Products :
          /\ db.available[p] \in Int /\ db.available[p] >= 0
          /\ db'.available[p] = IF p = ProductOf(a) THEN db.available[p] - 1 ELSE db.available[p]
    BY <1>4, <1>5 DEF StockLeft
  <2>2. QED
    BY <1>2, <2>1 DEF StockLeft, InStock
<1>8. QED
  BY <1>2, <1>3, <1>6, <1>7

LEMMA PublishedFrame ==
  ASSUME IInv, NEW a \in Attempts, Publishes(a), NEW b \in Attempts \ {a},
         stage'[b] = stage[b], result'[b] = result[b], writes'[b] = writes[b]
  PROVE  /\ Carries(b)' /\ Sees(b)'
         /\ First(b) # NoAttempt => First(b)' = First(b)
<1> USE DEF IInv, TypeOK
<1>1. /\ KeyOf(b) \in Keys /\ ProductOf(b) \in Products /\ db \in Tables
      /\ KeyOf(b)' = KeyOf(b) /\ ProductOf(b)' = ProductOf(b)
      /\ First(a) = NoAttempt /\ KeyOf(a) \in Keys /\ ProductOf(a) \in Products
      /\ InStock(ProductOf(a))
  BY CommittedTables, PublishedTables DEF Publishes, KeyOf, ProductOf
<1>2. /\ db'.listed = db.listed
      /\ db'.claims = db.claims \cup {KeyOf(a)}
      /\ db'.available = [db.available EXCEPT ![ProductOf(a)] = @ - 1]
      /\ db'.reservations = db.reservations \cup {a}
      /\ db'.replay = [db.replay EXCEPT ![KeyOf(a)] = a]
  BY CommittedFields DEF Publishes
<1>3. db.replay \in [Keys -> Attempts \cup {NoAttempt}] /\ db.available \in [Products -> Int]
  BY <1>1 DEF Tables
<1>4. First(b) # NoAttempt => First(b)' = First(b) /\ ProductOf(First(b))' = ProductOf(First(b))
  <2>1. First(b) # NoAttempt => KeyOf(b) # KeyOf(a)
    BY <1>1 DEF First
  <2>2. db'.replay[KeyOf(b)] = IF KeyOf(b) = KeyOf(a) THEN a ELSE db.replay[KeyOf(b)]
    BY <1>1, <1>2, <1>3
  <2>3. First(b) # NoAttempt => First(b)' = First(b)
    BY <1>1, <2>1, <2>2 DEF First
  <2>4. QED
    BY <2>3 DEF Publishes, ProductOf
<1>5. "claim" \in writes[b] => KeyOf(b) # KeyOf(a)
  BY Exclusive DEF Publishes, Reservation
<1>6. "stock" \in writes[b] => ProductOf(b) # ProductOf(a)
  BY Exclusive DEF Publishes, Reservation
<1>7. InStock(ProductOf(b)) /\ ProductOf(b) # ProductOf(a) => InStock(ProductOf(b))'
  BY <1>1, <1>2, <1>3 DEF InStock
<1>8. ~InStock(ProductOf(b)) => ~InStock(ProductOf(b))'
  BY <1>1, <1>2, <1>3 DEF InStock
<1>9. Carries(b) /\ Sees(b)
  OBVIOUS
<1>10. Carries(b)'
  BY <1>1, <1>4, <1>9 DEF Carries
<1>11. Sees(b)'
  BY <1>1, <1>2, <1>4, <1>5, <1>6, <1>7, <1>8, <1>9 DEF Sees
<1>12. QED
  BY <1>4, <1>10, <1>11

LEMMA CommitStep ==
  ASSUME IInv, TypeOK', NEW a \in Attempts, Commit(a) \/ CommitFails(a)
  PROVE  IInv'
<1> USE DEF IInv, TypeOK
<1>1. /\ stage[a] = "commit" /\ UNCHANGED request /\ db' \in {db, Committed(a)}
      /\ writes' = [writes EXCEPT ![a] = {}] /\ pool' = pool \ {a}
      /\ stage' = [stage EXCEPT ![a] = "respond"]
      /\ \A b \in Attempts \ {a} : result'[b] = result[b]
  BY DEF Commit, CommitFails, Release, Goto, Return
<1>2. writes[a] = {} \/ writes[a] = Reservation
  BY <1>1 DEF Carries
<1>3. CASE db' = db
  BY <1>3, EndAsideStep
<1>4. CASE db' # db
  <2>1. Publishes(a)
    BY <1>1, <1>2, <1>4, CommittedNothing DEF Publishes
  <2>2. ClaimsMatchReplays' /\ StockLeft'
    BY <2>1, PublishedTables
  <2>3. \A b \in Attempts \ {a} : Carries(b)' /\ Sees(b)'
    BY <1>1, <2>1, PublishedFrame
  <2>4. Carries(a)' /\ Sees(a)'
    BY <1>1 DEF Carries, Sees, Ended
  <2>5. ReplayIsThere'
    <3>1. ASSUME NEW b \in Attempts, stage'[b] \in {"replay_connect", "replay_find"}
          PROVE  First(b)' \notin {NoAttempt, b}
      <4>1. b # a /\ stage'[b] = stage[b] /\ result'[b] = result[b] /\ writes'[b] = writes[b]
        BY <1>1, <3>1
      <4>2. First(b) \notin {NoAttempt, b}
        BY <3>1, <4>1 DEF ReplayIsThere, First
      <4>3. First(b) # NoAttempt => First(b)' = First(b)
        BY <2>1, <4>1, PublishedFrame
      <4>4. QED
        BY <4>2, <4>3
    <3>2. QED
      BY <3>1 DEF ReplayIsThere, First
  <2>6. LocksAreExclusive'
    <3>1. \A b \in Attempts : KeyOf(b)' = KeyOf(b) /\ ProductOf(b)' = ProductOf(b)
      BY <1>1 DEF KeyOf, ProductOf
    <3>2. \A b \in Attempts : writes'[b] \subseteq writes[b]
      BY <1>1
    <3>3. \A b \in Attempts :
            /\ b \in pool' <=> stage'[b] \in InTransaction
            /\ stage'[b] \notin InTransaction => writes'[b] = {}
            /\ "stock" \in writes'[b] => "claim" \in writes'[b]
      BY <1>1 DEF LocksAreExclusive, InTransaction, Statements
    <3>4. QED
      BY <3>1, <3>2, <3>3 DEF LocksAreExclusive, ClaimHolders, StockHolders
  <2>7. QED
    BY <2>2, <2>3, <2>4, <2>5, <2>6
<1>5. QED
  BY <1>3, <1>4

\* With no attempt in flight there is nothing that a new product could
\* contradict.
LEMMA SeedStep ==
  ASSUME IInv, TypeOK', NEW p \in Products, Seed(p)
  PROVE  IInv'
<1> USE DEF IInv, TypeOK
<1>1. /\ UNCHANGED <<request, stage, result, pool, writes>>
      /\ db' = [db EXCEPT !.listed = @ \cup {p}] /\ db \in Tables
      /\ \A a \in Attempts : stage[a] \in {"new", "answered", "lost"}
  BY DEF Seed, InFlight
<1>2. /\ db'.available = db.available /\ db'.claims = db.claims
      /\ db'.reservations = db.reservations /\ db'.replay = db.replay
  BY <1>1 DEF Tables
<1>3. ClaimsMatchReplays' /\ StockLeft' /\ ReplayIsThere'
  BY <1>1, <1>2 DEF ClaimsMatchReplays, StockLeft, ReplayIsThere
<1>4. LocksAreExclusive'
  BY <1>1 DEF LocksAreExclusive, ClaimHolders, StockHolders, KeyOf, ProductOf
<1>5. \A a \in Attempts : writes[a] = {}
  BY <1>1 DEF LocksAreExclusive, InTransaction, Statements
<1>6. ASSUME NEW a \in Attempts
      PROVE  Carries(a)' /\ Sees(a)'
  <2>1. Carries(a) /\ Sees(a) /\ writes'[a] = {} /\ stage'[a] = stage[a] /\ result'[a] = result[a]
    BY <1>1, <1>5
  <2>2. QED
    BY <1>1, <1>2, <2>1 DEF Carries, Sees
<1>7. QED
  BY <1>3, <1>4, <1>6

\* The process dies: all that is left is what was committed.
LEMMA CrashStep ==
  ASSUME IInv, TypeOK', Crash
  PROVE  IInv'
<1> USE DEF IInv, TypeOK
<1>1. /\ UNCHANGED request
      /\ stage' = [a \in Attempts |-> IF InFlight(a) THEN "lost" ELSE stage[a]]
      /\ result' = [a \in Attempts |-> IF stage[a] \in Ended THEN result[a] ELSE NoResult]
      /\ writes' = [a \in Attempts |-> {}] /\ pool' = {}
      /\ db' = db \/ \E a \in Attempts : stage[a] = "commit" /\ db' = Committed(a)
  BY DEF Crash
<1>2. /\ \A a \in Attempts : stage'[a] \in {"new", "answered", "lost"}
      /\ \A a \in Attempts : stage'[a] = "new" => stage[a] = "new" /\ result'[a] = NoResult
  BY <1>1 DEF InFlight, Ended
<1>3. LocksAreExclusive' /\ ReplayIsThere'
  BY <1>1, <1>2 DEF LocksAreExclusive, ReplayIsThere, InTransaction, Statements
<1>4. db' = db \/ \E a \in Attempts : Publishes(a)
  BY <1>1, CommittedNothing DEF Publishes, Carries
<1>5. ClaimsMatchReplays' /\ StockLeft'
  <2>1. CASE db' = db
    BY <2>1 DEF ClaimsMatchReplays, StockLeft
  <2>2. QED
    BY <1>4, <2>1, PublishedTables
<1>6. \A a \in Attempts : stage'[a] = "new" => a \notin db'.reservations
  <2>1. ASSUME NEW a \in Attempts, Publishes(a)
        PROVE  db'.reservations = db.reservations \cup {a} /\ stage[a] # "new"
    BY <2>1, CommittedFields DEF Publishes
  <2>2. \A a \in Attempts : stage[a] = "new" => a \notin db.reservations
    BY DEF Sees, Ended
  <2>3. QED
    BY <1>2, <1>4, <2>1, <2>2
<1>7. \A a \in Attempts : Carries(a)' /\ Sees(a)'
  BY <1>1, <1>2, <1>6 DEF Carries, Sees, Ended
<1>8. QED
  BY <1>3, <1>5, <1>7

LEMMA StutterStep ==
  ASSUME IInv, UNCHANGED vars
  PROVE  IInv'
<1> USE DEF IInv, vars
<1>1. TypeOK' /\ ClaimsMatchReplays' /\ ReplayIsThere' /\ StockLeft'
  BY DEF TypeOK, ClaimsMatchReplays, ReplayIsThere, StockLeft, KeyOf
<1>2. LocksAreExclusive'
  BY DEF LocksAreExclusive, ClaimHolders, StockHolders, KeyOf, ProductOf
<1>3. \A a \in Attempts : Carries(a)' /\ Sees(a)'
  BY Frame
<1>4. QED
  BY <1>1, <1>2, <1>3

LEMMA InitHolds == Init => IInv
<1> SUFFICES ASSUME Init
             PROVE  IInv
  OBVIOUS
<1> USE ClaimAssumption DEF Init
<1>1. TypeOK
  BY DEF TypeOK, Tables, NoResult, Kinds, Stages
<1>2. ClaimsMatchReplays /\ ReplayIsThere
  BY DEF ClaimsMatchReplays, ReplayIsThere
<1>3. StockLeft
  BY DEF StockLeft
<1>4. LocksAreExclusive
  BY DEF LocksAreExclusive, InTransaction, Statements
<1>5. \A a \in Attempts : Carries(a) /\ Sees(a)
  BY DEF Carries, Sees
<1>6. QED
  BY <1>1, <1>2, <1>3, <1>4, <1>5 DEF IInv

LEMMA InvariantHolds == Spec => []IInv
<1>1. IInv /\ [Next]_vars => IInv'
  <2> SUFFICES ASSUME IInv, [Next]_vars
               PROVE  IInv'
    OBVIOUS
  <2>1. TypeOK'
    BY TypeStep DEF IInv
  <2>2. ASSUME NEW a \in Attempts,
               \/ Arrive(a) \/ Progress(a) \/ ConnectFails(a) \/ LockTimesOut(a)
               \/ StatementFails(a) \/ CommitFails(a)
        PROVE  IInv'
    BY <2>1, <2>2, OutsideStep, StatementStep, EndAsideStep, CommitStep DEF Progress
  <2>3. QED
    BY <2>1, <2>2, SeedStep, CrashStep, StutterStep DEF Next
<1>2. QED
  BY <1>1, InitHolds, PTL DEF Spec

\* Between any two statements: a key is used up exactly by a reservation that
\* can be replayed, the replaying transaction always finds it, and rows and
\* connections are only kept by running transactions.
THEOREM ClaimsAlwaysMatch == Spec => []ClaimInv
<1>1. IInv => ClaimInv
  BY DEF IInv, ClaimInv
<1>2. QED
  BY <1>1, InvariantHolds, PTL

-----------------------------------------------------------------------------
(* The contract is kept, step by step. *)

LEMMA ContractView ==
  /\ Contract!vars = <<request, db.listed, db.available, db.replay, Decision>>
  /\ \A a : Contract!KeyOf(a) = KeyOf(a) /\ Contract!ProductOf(a) = ProductOf(a)
  /\ Contract!Undecided = NoResult
  /\ \A kind : Contract!Refused(kind) = Thrown(kind)
  /\ \A a : Contract!Created(a) = Created(a) /\ Contract!Replayed(a) = Replayed(a)
BY DEF Contract!vars, Contract!KeyOf, Contract!ProductOf, Contract!Undecided, Contract!Refused,
       Contract!Created, Contract!Replayed, KeyOf, ProductOf, NoResult, Thrown, Created, Replayed

\* Deciding one attempt, as the contract's Decide.
Decided(a, d) == Decision[a] = NoResult /\ Decision' = [Decision EXCEPT ![a] = d]

LEMMA Decides ==
  ASSUME NEW a \in Attempts, stage[a] \notin Ended, stage'[a] \in Ended,
         \A b \in Attempts : b # a => stage'[b] = stage[b] /\ result'[b] = result[b],
         NEW d, d = result'[a]
  PROVE  Decided(a, d)
BY DEF Decided, Decision

\* Statements, and the rollback that sends a losing claimant to the replay,
\* leave everything as the contract sees it.
LEMMA QuietSteps ==
  ASSUME IInv, NEW a \in Attempts,
         \/ Arrive(a) \/ Connect(a) \/ FindReplay(a) \/ Claim(a) \/ DecreaseStock(a)
         \/ ProductExists(a) \/ SaveReservationAndReplay(a) \/ ReplayFind(a)
         \/ LockTimesOut(a) \/ StatementFails(a) \/ Respond(a)
         \/ (Rollback(a) /\ result[a] = Thrown("claimed"))
  PROVE  UNCHANGED Contract!vars
<1>1. UNCHANGED <<request, db>>
  BY DEF Arrive, Connect, FindReplay, Claim, DecreaseStock, ProductExists,
     SaveReservationAndReplay, ReplayFind, LockTimesOut, StatementFails, Respond, Rollback
<1>2. ASSUME NEW b \in Attempts
      PROVE  \/ stage[b] \in Ended /\ stage'[b] \in Ended /\ result'[b] = result[b]
             \/ stage[b] \notin Ended /\ stage'[b] \notin Ended
  <2>1. CASE b # a
    BY <2>1 DEF IInv, TypeOK, Arrive, Connect, FindReplay, Claim, DecreaseStock, ProductExists,
       SaveReservationAndReplay, ReplayFind, LockTimesOut, StatementFails, Respond, Rollback,
       Answer, Throw, Return, Goto
  <2>2. CASE b = a
    BY <2>2 DEF IInv, TypeOK, Arrive, Connect, FindReplay, Claim, DecreaseStock, ProductExists,
       SaveReservationAndReplay, ReplayFind, LockTimesOut, StatementFails, Respond, Rollback,
       Answer, Throw, Return, Goto, Ended, Statements
  <2>3. QED
    BY <2>1, <2>2
<1>3. Decision' = Decision
  BY <1>2 DEF Decision
<1>4. QED
  BY <1>1, <1>3, ContractView DEF Contract!vars, Decision

\* No connection, or a COMMIT that failed and left nothing.
LEMMA FailureStep ==
  ASSUME IInv, NEW a \in Attempts, ConnectFails(a) \/ (CommitFails(a) /\ db' = db)
  PROVE  Contract!Fail(a)
<1> USE DEF IInv, TypeOK
<1>1. /\ UNCHANGED <<request, db>> /\ stage[a] \in Waiting \cup {"commit"}
      /\ stage'[a] = "respond"
      /\ \A b \in Attempts : b # a => stage'[b] = stage[b] /\ result'[b] = result[b]
  BY DEF ConnectFails, CommitFails, Return, Goto
<1>2. result'[a] \in {Thrown("pool_timeout"), Thrown("failed")}
  BY DEF ConnectFails, CommitFails, Return
<1>3. Decided(a, result'[a])
  BY <1>1, Decides DEF Ended, Waiting
<1>4. First(a) # a
  BY <1>1, FirstIsAnother, ClaimAssumption DEF Ended, Waiting
<1>5. QED
  BY <1>1, <1>2, <1>3, <1>4, ContractView
  DEF Contract!Fail, Contract!Decide, Decided, Decision, First

\* A refusal is still true when ROLLBACK makes it the answer.
LEMMA RollbackStep ==
  ASSUME IInv, NEW a \in Attempts, Rollback(a), result[a] # Thrown("claimed")
  PROVE  \/ Contract!Conflict(a) \/ Contract!SoldOut(a) \/ Contract!NotFound(a)
         \/ Contract!Fail(a)
<1> USE DEF IInv, TypeOK
<1>1. /\ UNCHANGED <<request, result, db>> /\ stage[a] = "rollback" /\ stage'[a] = "respond"
      /\ \A b \in Attempts : b # a => stage'[b] = stage[b] /\ result'[b] = result[b]
      /\ Sees(a) /\ db \in Tables /\ KeyOf(a) \in Keys /\ ProductOf(a) \in Products
  BY CommittedTables DEF Rollback, Goto
<1>2. Decided(a, result[a])
  BY <1>1, Decides DEF Ended
<1>3. First(a) # a
  BY <1>1, FirstIsAnother, ClaimAssumption DEF Ended
<1>4. PICK kind \in {"conflict", "sold_out", "not_found", "busy", "failed"} :
        result[a] = Thrown(kind)
  BY <1>1 DEF Carries
<1>5. "claim" \in writes[a] => First(a) = NoAttempt
  BY <1>1 DEF Sees, ClaimsMatchReplays, First
<1>6. CASE kind = "conflict"
  <2>1. First(a) # NoAttempt /\ ProductOf(First(a)) # ProductOf(a)
    BY <1>1, <1>4, <1>6 DEF Sees
  <2>2. QED
    BY <1>1, <1>2, <1>3, <1>4, <1>6, <2>1, ContractView
    DEF Contract!Conflict, Contract!Decide, Decided, Decision, First
<1>7. CASE kind = "sold_out"
  <2>1. ProductOf(a) \in db.listed /\ ~InStock(ProductOf(a)) /\ First(a) = NoAttempt
    BY <1>1, <1>4, <1>5, <1>7 DEF Sees
  <2>2. db.available[ProductOf(a)] = 0
    <3>1. db.available[ProductOf(a)] \in Int /\ db.available[ProductOf(a)] >= 0
      BY <1>1 DEF Tables, StockLeft
    <3>2. QED
      BY <2>1, <3>1 DEF InStock
  <2>3. QED
    BY <1>1, <1>2, <1>4, <1>7, <2>1, <2>2, ContractView
    DEF Contract!SoldOut, Contract!Decide, Decided, Decision, First
<1>8. CASE kind = "not_found"
  <2>1. ProductOf(a) \notin db.listed /\ First(a) = NoAttempt
    BY <1>1, <1>4, <1>5, <1>8 DEF Sees
  <2>2. QED
    BY <1>1, <1>2, <1>4, <1>8, <2>1, ContractView
    DEF Contract!NotFound, Contract!Decide, Decided, Decision, First
<1>9. CASE kind \in {"busy", "failed"}
  BY <1>1, <1>2, <1>3, <1>4, <1>9, ContractView
  DEF Contract!Fail, Contract!Decide, Decided, Decision, First
<1>10. QED
  BY <1>4, <1>6, <1>7, <1>8, <1>9

\* Publishing a reservation is the contract's Reserve, whatever its author is
\* then told.
LEMMA PublishStep ==
  ASSUME IInv, NEW a \in Attempts, Publishes(a),
         \/ Decided(a, Created(a)) \/ Decided(a, Thrown("failed")) \/ Decision' = Decision
  PROVE  Contract!Reserve(a)
<1>1. First(a) = NoAttempt /\ InStock(ProductOf(a))
  BY PublishedTables
<1>2. Decision[a] = NoResult
  BY DEF Decision, Publishes, Ended
<1>3. /\ db'.listed = db.listed
      /\ db'.available = [db.available EXCEPT ![ProductOf(a)] = @ - 1]
      /\ db'.replay = [db.replay EXCEPT ![KeyOf(a)] = a]
      /\ UNCHANGED request
  BY CommittedFields DEF Publishes, IInv
<1>4. QED
  BY <1>1, <1>2, <1>3, ContractView
  DEF Contract!Reserve, Contract!Decide, Decided, Decision, First, InStock

\* COMMIT decides: a reservation of its own, the replay of another's, or an
\* error although the reservation is there.
LEMMA CommitDecides ==
  ASSUME IInv, NEW a \in Attempts, Commit(a) \/ (CommitFails(a) /\ db' # db)
  PROVE  Contract!Reserve(a) \/ Contract!Replay(a)
<1> USE DEF IInv, TypeOK
<1>1. /\ UNCHANGED request /\ stage[a] = "commit" /\ stage'[a] = "respond"
      /\ \A b \in Attempts : b # a => stage'[b] = stage[b] /\ result'[b] = result[b]
      /\ Carries(a) /\ db' = Committed(a)
      /\ Commit(a) => result'[a] = result[a]
      /\ CommitFails(a) => result'[a] = Thrown("failed")
  BY DEF Commit, CommitFails, Return, Goto
<1>2. Decided(a, result'[a])
  BY <1>1, Decides DEF Ended
<1>3. CASE writes[a] = Reservation
  <2>1. Publishes(a) /\ result'[a] \in {Created(a), Thrown("failed")}
    BY <1>1, <1>3 DEF Publishes, Carries, Reservation
  <2>2. QED
    BY <1>2, <2>1, PublishStep DEF Decided
<1>4. CASE writes[a] # Reservation
  <2>1. /\ writes[a] = {} /\ result[a] = Replayed(First(a))
        /\ First(a) # NoAttempt /\ ProductOf(First(a)) = ProductOf(a)
    BY <1>1, <1>4 DEF Carries
  <2>2. db' = db /\ result'[a] = result[a]
    BY <1>1, <2>1, CommittedNothing
  <2>3. First(a) # a
    BY <1>1, <2>1, FirstIsAnother DEF Ended
  <2>4. QED
    BY <1>1, <1>2, <2>1, <2>2, <2>3, ContractView
    DEF Contract!Replay, Contract!Decide, Decided, Decision, First
<1>5. QED
  BY <1>3, <1>4

\* A dead process publishes a whole reservation or nothing, and tells nobody.
LEMMA CrashReserves ==
  ASSUME IInv, Crash
  PROVE  UNCHANGED Contract!vars \/ \E a \in Attempts : Contract!Reserve(a)
<1>1. Decision' = Decision
  <2>1. ASSUME NEW a \in Attempts
        PROVE  /\ stage[a] \in Ended => stage'[a] \in Ended /\ result'[a] = result[a]
               /\ stage[a] \notin Ended => stage'[a] \notin Ended \/ result'[a] = NoResult
    BY DEF Crash, Ended, InFlight
  <2>2. QED
    BY <2>1 DEF Decision
<1>2. UNCHANGED request
  BY DEF Crash
<1>3. db' = db \/ \E a \in Attempts : Publishes(a)
  BY CommittedNothing DEF Crash, Publishes, Carries, IInv
<1>4. CASE db' = db
  BY <1>1, <1>2, <1>4, ContractView DEF Contract!vars, Decision
<1>5. QED
  BY <1>1, <1>3, <1>4, PublishStep

\* The Spring services keep the contract of the reservation endpoint: although
\* an attempt may take two transactions, it has one effect, and what it is
\* told agrees with it.
THEOREM ContractIsKept == Spec => ImplementsContract
<1>1. Init => Contract!Init
  BY DEF Init, Contract!Init, Contract!Requests, Inputs, Decision, NoResult,
         Contract!Undecided, Ended
<1>2. ASSUME IInv, [Next]_vars
      PROVE  [Contract!Next]_(Contract!vars)
  <2>1. ASSUME NEW a \in Attempts,
               \/ Arrive(a) \/ Progress(a) \/ ConnectFails(a) \/ LockTimesOut(a)
               \/ StatementFails(a) \/ CommitFails(a)
        PROVE  UNCHANGED Contract!vars \/ Contract!AttemptStep(a)
    BY <1>2, <2>1, QuietSteps, FailureStep, RollbackStep, CommitDecides
    DEF Progress, Contract!AttemptStep
  <2>2. ASSUME NEW p \in Products, Seed(p)
        PROVE  Contract!List(p)
    <3>1. /\ UNCHANGED <<request, stage, result>> /\ p \notin db.listed
          /\ db'.listed = db.listed \cup {p} /\ db'.available = db.available
          /\ db'.replay = db.replay
      BY <1>2, <2>2 DEF Seed, IInv, TypeOK, Tables
    <3>2. QED
      BY <3>1 DEF Contract!List, Decision
  <2>3. Crash => UNCHANGED Contract!vars \/ \E a \in Attempts : Contract!AttemptStep(a)
    BY <1>2, CrashReserves DEF Contract!AttemptStep
  <2>4. UNCHANGED vars => UNCHANGED Contract!vars
    BY ContractView DEF vars, Contract!vars, Decision
  <2>5. QED
    BY <1>2, <2>1, <2>2, <2>3, <2>4 DEF Next, Contract!Next
<1>3. QED
  BY <1>1, <1>2, InvariantHolds, PTL DEF Spec, ImplementsContract, Contract!Spec

-----------------------------------------------------------------------------
(* So the contract's promises are the service's. *)

ClaimTheory == INSTANCE ReservationContractProofs WITH
  listed <- db.listed,
  available <- db.available,
  ledger <- db.replay,
  decision <- Decision,
  retired <- {}

LEMMA ClaimTheoryFinite == \A S : ClaimTheory!IsFiniteSet(S) <=> IsFiniteSet(S)
BY DEF ClaimTheory!IsFiniteSet, IsFiniteSet

\* The theorems are about the same contract.
LEMMA ClaimTheorySpeaksOfTheContract ==
  /\ ClaimTheory!Init <=> Contract!Init
  /\ [ClaimTheory!Next]_(ClaimTheory!vars) <=> [Contract!Next]_(Contract!vars)
  /\ ClaimTheory!Promises <=> Contract!Promises
<1>1. ClaimTheory!Init <=> Contract!Init
  BY DEF ClaimTheory!Init, Contract!Init, ClaimTheory!Requests, Contract!Requests,
         ClaimTheory!Undecided, Contract!Undecided
<1>2. ASSUME NEW a \in Attempts
      PROVE  ClaimTheory!AttemptStep(a) <=> Contract!AttemptStep(a)
  BY DEF ClaimTheory!AttemptStep, Contract!AttemptStep, ClaimTheory!Reserve,
         Contract!Reserve, ClaimTheory!Replay, Contract!Replay, ClaimTheory!Conflict,
         Contract!Conflict, ClaimTheory!SoldOut, Contract!SoldOut, ClaimTheory!NotFound,
         Contract!NotFound, ClaimTheory!Fail, Contract!Fail, ClaimTheory!Decide,
         Contract!Decide, ClaimTheory!KeyOf, Contract!KeyOf, ClaimTheory!ProductOf,
         Contract!ProductOf, ClaimTheory!Undecided, Contract!Undecided, ClaimTheory!Created,
         Contract!Created, ClaimTheory!Replayed, Contract!Replayed, ClaimTheory!Refused,
         Contract!Refused
<1>3. ClaimTheory!Next <=> Contract!Next
  BY <1>2 DEF ClaimTheory!Next, Contract!Next, ClaimTheory!List, Contract!List
<1>4. ClaimTheory!vars = Contract!vars /\ ClaimTheory!vars' = Contract!vars'
  BY DEF ClaimTheory!vars, Contract!vars
<1>5. \A S : ClaimTheory!Cardinality(S) = Contract!Cardinality(S)
  BY DEF ClaimTheory!Cardinality, Contract!Cardinality
<1>6. ClaimTheory!Conservation <=> Contract!Conservation
  BY <1>5 DEF ClaimTheory!Conservation, Contract!Conservation, ClaimTheory!KeysFor,
         Contract!KeysFor, ClaimTheory!ProductOf, Contract!ProductOf
<1>7. ClaimTheory!RetriesAgree <=> Contract!RetriesAgree
  BY DEF ClaimTheory!RetriesAgree, Contract!RetriesAgree, ClaimTheory!Succeeded,
         Contract!Succeeded, ClaimTheory!KeyOf, Contract!KeyOf, ClaimTheory!ProductOf,
         Contract!ProductOf
<1>8. ClaimTheory!Promises <=> Contract!Promises
  BY <1>6, <1>7 DEF ClaimTheory!Promises, Contract!Promises,
         ClaimTheory!CleanRefusalLeavesNothing, Contract!CleanRefusalLeavesNothing,
         ClaimTheory!SoldOutIsTrue, Contract!SoldOutIsTrue, ClaimTheory!CleanRefusals,
         Contract!CleanRefusals, ClaimTheory!KeyOf, Contract!KeyOf, ClaimTheory!ProductOf,
         Contract!ProductOf
<1>9. QED
  BY <1>1, <1>3, <1>4, <1>8

\* For any number of attempts, keys and products: the Spring services sell what
\* they have and no more, give every retry the reservation of the first, and
\* leave nothing of what they refuse, with as many transactions open as you like.
THEOREM SpringKeepsItsPromises == Spec => []Contract!Promises /\ Contract!LedgerIsPermanent
<1>1. ClaimTheory!Spec => []ClaimTheory!Promises /\ ClaimTheory!LedgerIsPermanent
  BY ClaimTheory!PromisesHold, ClaimTheory!LedgerPermanence, ClaimAssumption, ClaimTheoryFinite
<1>2. [\A k \in Keys :
           db.replay[k] # NoAttempt => (db.replay')[k] = db.replay[k]]_(ClaimTheory!vars)
      => [\A k \in Keys :
           db.replay[k] # NoAttempt => (db.replay')[k] = db.replay[k]]_(Contract!vars)
  BY DEF ClaimTheory!vars, Contract!vars
<1>3. QED
  BY <1>1, <1>2, ClaimTheorySpeaksOfTheContract, ContractIsKept, PTL
     DEF ImplementsContract, Contract!Spec, ClaimTheory!Spec, Contract!LedgerIsPermanent,
         ClaimTheory!LedgerIsPermanent

-----------------------------------------------------------------------------
(* The Spring transaction metrics are true of the database.  Every step     *)
(* concerns one transaction; the invariant says of each what its phase      *)
(* implies.                                                                 *)


\* What the invariant says of one transaction.
Sound(t) ==
  /\ counter[t]["committed"] > 0 => onDisk[t]
  /\ counter[t]["rolled_back"] > 0 => ~onDisk[t]
  /\ active[t] # "absent" <=> manager[t] \notin {"new", "ended"}
  /\ counter[t]["committed"] + counter[t]["rolled_back"] + counter[t]["failed"]
       <= (IF manager[t] = "ended" THEN 1 ELSE 0)
  /\ \A o \in Outcomes : duration[t][o] <= counter[t][o]
  /\ Uncounted(t) /\ FlagIsSet(t) /\ OnlyCommitWrites(t)

LEMMA EachTransaction ==
  ListenerInv <=> ListenerTypeOK /\ \A t \in Transactions : Sound(t)
BY DEF ListenerInv, Sound, OutcomeMatchesDatabase, OnlyRunningTransactionsAreTracked,
       CountedAtMostOnce

\* finish, called at the end of a transaction that was not counted: the entry
\* goes, and at most the counter and the timer of one outcome are 1.
LEMMA FinishEffect ==
  ASSUME ListenerTypeOK, NEW t \in Transactions, NEW o \in Outcomes, Uncounted(t),
         manager[t] # "ended", FinishObservation(t, o)
  PROVE  /\ active' = [active EXCEPT ![t] = "absent"]
         /\ counter' \in [Transactions -> [Outcomes -> 0..1]]
         /\ duration' \in [Transactions -> [Outcomes -> 0..1]]
         /\ \A u \in Transactions \ {t} :
              counter'[u] = counter[u] /\ duration'[u] = duration[u]
         /\ \A p \in Outcomes :
              /\ p # o => counter'[t][p] = 0
              /\ duration'[t][p] <= counter'[t][p]
<1>1. /\ counter[t] \in [Outcomes -> 0..1] /\ duration[t] \in [Outcomes -> 0..1]
      /\ \A p \in Outcomes : counter[t][p] = 0 /\ duration[t][p] = 0
  BY DEF ListenerTypeOK, Uncounted
<1>2. CASE UNCHANGED <<counter, duration>>
  BY <1>1, <1>2 DEF FinishObservation, ListenerTypeOK
<1>3. CASE /\ counter' = [counter EXCEPT ![t][o] = @ + 1]
           /\ UNCHANGED duration
  <2>1. counter'[t] = [counter[t] EXCEPT ![o] = 1]
    <3>1. counter'[t] = [counter[t] EXCEPT ![o] = counter[t][o] + 1]
      BY <1>3 DEF ListenerTypeOK
    <3>2. counter[t][o] + 1 = 1
      BY <1>1
    <3>3. QED
      BY <3>1, <3>2
  <2>2. counter'[t] \in [Outcomes -> 0..1]
    BY <1>1, <2>1
  <2>3. \A u \in Transactions \ {t} : counter'[u] = counter[u]
    BY <1>3 DEF ListenerTypeOK
  <2>4. counter' \in [Transactions -> [Outcomes -> 0..1]]
    BY <1>3, <2>2, <2>3 DEF ListenerTypeOK
  <2>5. QED
    BY <1>1, <1>3, <2>1, <2>3, <2>4 DEF FinishObservation, ListenerTypeOK
<1>4. CASE /\ counter' = [counter EXCEPT ![t][o] = @ + 1]
           /\ duration' = [duration EXCEPT ![t][o] = @ + 1]
  <2>1. /\ counter'[t] = [counter[t] EXCEPT ![o] = 1]
        /\ duration'[t] = [duration[t] EXCEPT ![o] = 1]
    <3>1. /\ counter'[t] = [counter[t] EXCEPT ![o] = counter[t][o] + 1]
          /\ duration'[t] = [duration[t] EXCEPT ![o] = duration[t][o] + 1]
      BY <1>4 DEF ListenerTypeOK
    <3>2. counter[t][o] + 1 = 1 /\ duration[t][o] + 1 = 1
      BY <1>1
    <3>3. QED
      BY <3>1, <3>2
  <2>2. /\ counter'[t] \in [Outcomes -> 0..1]
        /\ duration'[t] \in [Outcomes -> 0..1]
    BY <1>1, <2>1
  <2>3. \A u \in Transactions \ {t} :
          counter'[u] = counter[u] /\ duration'[u] = duration[u]
    BY <1>4 DEF ListenerTypeOK
  <2>4. counter' \in [Transactions -> [Outcomes -> 0..1]]
    BY <1>4, <2>2, <2>3 DEF ListenerTypeOK
  <2>5. duration' \in [Transactions -> [Outcomes -> 0..1]]
    BY <1>4, <2>2, <2>3 DEF ListenerTypeOK
  <2>6. QED
    BY <1>1, <2>1, <2>3, <2>4, <2>5 DEF FinishObservation
<1>5. QED
  BY <1>2, <1>3, <1>4 DEF FinishObservation

\* A step to the end that calls finish with an outcome that is true of what is
\* then on disk.
LEMMA EndStep ==
  ASSUME ListenerInv, NEW t \in Transactions, NEW o \in Outcomes,
         manager[t] \notin {"new", "ended"}, MoveTo(t, "ended"), FinishObservation(t, o),
         onDisk' \in [Transactions -> BOOLEAN],
         \A u \in Transactions \ {t} : onDisk'[u] = onDisk[u],
         o = "committed" => onDisk'[t],
         o = "rolled_back" => ~onDisk'[t]
  PROVE  ListenerInv'
<1>1. ListenerTypeOK /\ \A u \in Transactions : Sound(u)
  BY EachTransaction
<1>2. /\ active' = [active EXCEPT ![t] = "absent"]
      /\ counter' \in [Transactions -> [Outcomes -> 0..1]]
      /\ duration' \in [Transactions -> [Outcomes -> 0..1]]
      /\ \A u \in Transactions \ {t} :
           counter'[u] = counter[u] /\ duration'[u] = duration[u]
      /\ \A p \in Outcomes :
           (p # o => counter'[t][p] = 0) /\ duration'[t][p] <= counter'[t][p]
  BY <1>1, FinishEffect DEF Sound
<1>3. manager' = [manager EXCEPT ![t] = "ended"]
  BY DEF MoveTo
<1>4. ListenerTypeOK'
  BY <1>1, <1>2, <1>3 DEF ListenerTypeOK, Phases, Entries
<1>5. ASSUME NEW u \in Transactions \ {t}
      PROVE  Sound(u)'
  BY <1>1, <1>2, <1>3, <1>5 DEF Sound, Uncounted, FlagIsSet, OnlyCommitWrites, ListenerTypeOK
<1>6. Sound(t)'
  <2>1. counter'[t] \in [Outcomes -> 0..1]
    BY <1>2
  <2>2. active'[t] = "absent" /\ manager'[t] = "ended"
    BY <1>1, <1>2, <1>3 DEF ListenerTypeOK
  <2>3. /\ counter'[t]["committed"] + counter'[t]["rolled_back"] + counter'[t]["failed"] <= 1
        /\ counter'[t]["committed"] > 0 => onDisk'[t]
        /\ counter'[t]["rolled_back"] > 0 => ~onDisk'[t]
    BY <1>2, <2>1 DEF Outcomes
  <2>4. QED
    BY <1>2, <2>2, <2>3 DEF Sound, Uncounted, FlagIsSet, OnlyCommitWrites
<1>7. QED
  BY <1>4, <1>5, <1>6 DEF ListenerInv, Sound, OutcomeMatchesDatabase,
     OnlyRunningTransactionsAreTracked, CountedAtMostOnce

\* A step before the end: one phase and one entry of the map change, and
\* perhaps what a COMMIT that failed left on disk.
LEMMA InnerStep ==
  ASSUME ListenerInv, NEW t \in Transactions,
         Start(t) \/ EnterCommit(t) \/ EnterRollback(t) \/ DoCommitFails(t)
           \/ (manager[t] = "beginning" /\ MoveTo(t, "running") /\ AfterBegin(t, FALSE)
                 /\ UNCHANGED onDisk)
  PROVE  ListenerInv'
<1>1. ListenerTypeOK /\ \A u \in Transactions : Sound(u)
  BY EachTransaction
<1>2. UNCHANGED <<counter, duration>>
  BY DEF Start, EnterCommit, EnterRollback, DoCommitFails, AfterBegin
<1>3. ListenerTypeOK'
  <2>1. manager' \in [Transactions -> Phases]
    BY <1>1 DEF ListenerTypeOK, Phases, Start, EnterCommit, EnterRollback, DoCommitFails, MoveTo
  <2>2. active' \in [Transactions -> Entries]
    BY <1>1 DEF ListenerTypeOK, Entries, Start, EnterCommit, EnterRollback, DoCommitFails,
                AfterBegin, BeforeBegin, BeforeCommit
  <2>3. onDisk' \in [Transactions -> BOOLEAN]
    BY <1>1 DEF ListenerTypeOK, Start, EnterCommit, EnterRollback, DoCommitFails
  <2>4. QED
    BY <1>1, <1>2, <2>1, <2>2, <2>3 DEF ListenerTypeOK
<1>4. ASSUME NEW u \in Transactions
      PROVE  Sound(u)'
  <2>1. /\ counter'[u] = counter[u] /\ duration'[u] = duration[u]
    BY <1>2
  <2>2. CASE u # t
    <3>1. /\ manager'[u] = manager[u] /\ active'[u] = active[u] /\ onDisk'[u] = onDisk[u]
      BY <1>1, <2>2 DEF ListenerTypeOK, Start, EnterCommit, EnterRollback, DoCommitFails,
                        AfterBegin, BeforeBegin, BeforeCommit, MoveTo
    <3>2. QED
      BY <1>1, <2>1, <3>1 DEF Sound, Uncounted, FlagIsSet, OnlyCommitWrites
  <2>3. CASE u = t
    <3>1. /\ Sound(t) /\ manager[t] # "ended" /\ manager'[t] # "ended" /\ manager'[t] # "new"
          /\ active'[t] = (IF manager'[t] \in {"committing", "commit_failed"}
                             THEN "committing" ELSE "started")
          /\ manager'[t] = "commit_failed" \/ ~onDisk'[t]
      BY <1>1 DEF ListenerTypeOK, Start, EnterCommit, EnterRollback, DoCommitFails, Sound,
                  FlagIsSet, OnlyCommitWrites, Entries,
                  AfterBegin, BeforeBegin, BeforeCommit, MoveTo
    <3>2. \A o \in Outcomes : counter'[t][o] = 0 /\ duration'[t][o] = 0
      BY <2>1, <2>3, <3>1 DEF Sound, Uncounted
    <3>3. QED
      BY <2>3, <3>1, <3>2 DEF Sound, Uncounted, FlagIsSet, OnlyCommitWrites, Outcomes
  <2>4. QED
    BY <2>2, <2>3
<1>5. QED
  BY <1>3, <1>4 DEF ListenerInv, Sound, OutcomeMatchesDatabase,
     OnlyRunningTransactionsAreTracked, CountedAtMostOnce

LEMMA ListenerInvariant == ListenerSpec => []ListenerInv
<1>1. ListenerInit => ListenerInv
  BY DEF ListenerInit, ListenerInv, ListenerTypeOK, NoCount, Phases, Entries, Outcomes, OutcomeMatchesDatabase,
         OnlyRunningTransactionsAreTracked, CountedAtMostOnce, Uncounted, FlagIsSet,
         OnlyCommitWrites
<1>2. ListenerInv /\ [ListenerNext]_listenerVars => ListenerInv'
  <2> SUFFICES ASSUME ListenerInv, [ListenerNext]_listenerVars
               PROVE  ListenerInv'
    OBVIOUS
  <2> USE DEF ListenerInv, ListenerTypeOK
  <2>1. ASSUME NEW t \in Transactions, DoBegin(t)
        PROVE  ListenerInv'
    <3>1. CASE MoveTo(t, "running")
      BY <2>1, <3>1, InnerStep DEF DoBegin, AfterBegin, MoveTo
    <3>2. CASE MoveTo(t, "ended") /\ AfterBegin(t, TRUE)
      BY <2>1, <3>2, EndStep DEF DoBegin, AfterBegin, Outcomes
    <3>3. QED
      BY <2>1, <3>1, <3>2 DEF DoBegin
  <2>2. ASSUME NEW t \in Transactions, DoCommit(t)
        PROVE  ListenerInv'
    BY <2>2, EndStep DEF DoCommit, AfterCommit, Outcomes
  <2>3. ASSUME NEW t \in Transactions, DoRollback(t)
        PROVE  ListenerInv'
    <3>1. PICK fails \in BOOLEAN : AfterRollback(t, fails)
      BY <2>3 DEF DoRollback
    <3>2. manager[t] = "rolling_back" => ~onDisk[t]
      BY DEF OnlyCommitWrites
    <3>3. manager[t] = "commit_failed" => active[t] = "committing"
      BY DEF FlagIsSet
    <3>4. CASE fails \/ active[t] = "committing"
      BY <2>3, <3>1, <3>4, EndStep DEF DoRollback, AfterRollback, Outcomes
    <3>5. CASE ~(fails \/ active[t] = "committing")
      BY <2>3, <3>1, <3>2, <3>3, <3>5, EndStep DEF DoRollback, AfterRollback, Outcomes
    <3>6. QED
      BY <3>4, <3>5
  <2>4. CASE UNCHANGED listenerVars
    BY <2>4 DEF listenerVars, OutcomeMatchesDatabase, OnlyRunningTransactionsAreTracked,
                CountedAtMostOnce, Uncounted, FlagIsSet, OnlyCommitWrites
  <2>5. QED
    BY <2>1, <2>2, <2>3, <2>4, InnerStep DEF ListenerNext
<1>3. QED
  BY <1>1, <1>2, PTL DEF ListenerSpec

\* However many transactions run, and whatever of begin, COMMIT, ROLLBACK and
\* the meters fails: what is counted is true of the database, and each
\* transaction is counted at most once, when it has ended.
THEOREM CountsAreAlwaysTrue == ListenerSpec => []CountsAreTrue
BY ListenerInvariant, PTL DEF ListenerInv, CountsAreTrue

\* The listener's map holds exactly the transactions under way.
THEOREM NothingAccumulates == ListenerSpec => []OnlyRunningTransactionsAreTracked
BY ListenerInvariant, PTL DEF ListenerInv

-----------------------------------------------------------------------------
(* The request filter: the inductive invariant. *)

\* A thread runs one request's code.
OneRequestPerThread ==
  \A r, q \in Requests :
     req[r].thread # None /\ req[r].thread = req[q].thread => r = q

\* Where a request is in the filter, in its asynchronous cycle and on a thread.
\* One that has left without being over has the listener on its cycle.
PlaceIsSound(r) ==
  LET x == req[r]
  IN  /\ x.thread # None <=> x.place \in {"chain", "leaving", "completing"} \/ x.async = "dispatched"
      /\ x.place = "new" => x.async = "none"
      /\ x.place = "completing" => x.async = "over"
      /\ x.async = "dispatched" => x.place = "left"
      /\ x.async = "over" => x.place \in {"completing", "left"}
      /\ x.place = "left" => x.async # "none" /\ (x.async # "over" => x.listener)
      /\ x.completed <=> x.async = "over"

\* The status and error.type tell a failure, and the status is set once.
FailureIsNoted(r) ==
  LET x == req[r]
  IN  /\ x.failed <=> x.status = "server_error" \/ x.error
      /\ x.async \in {"started", "dispatched"} \/ (x.async = "none" /\ x.place \in {"new", "chain"})
           => x.status = "ok"

\* A summary is the last thing that happens to a request.
SummaryIsLast(r) ==
  summary[r] # <<>> =>
    /\ summary[r] = <<IF req[r].failed THEN "failure" ELSE "success">>
    /\ req[r].place = "left" /\ req[r].async = "over"
    /\ \A t \in Threads : callback[t].request # r

\* The request whose code in the filter thread t runs is x, or there is none.
IsOwn(t, x) ==
  \/ x \in Requests /\ req[x].thread = t /\ req[x].place # "left"
  \/ x = None /\ \A r \in Requests : req[r].thread = t => req[r].place = "left"

\* A completion is of a request that is over, called by one thread, and
\* remembers the context that it interrupts; the code of the filter that it
\* interrupts stands still.
CallbackIsSound(t) ==
  callback[t] # NoCallback =>
    /\ callback[t].request \in Requests
    /\ req[callback[t].request].async = "over" /\ req[callback[t].request].place = "left"
    /\ summary[callback[t].request] = <<>>
    /\ IsOwn(t, callback[t].previous)
    /\ \A q \in Requests : req[q].thread = t => req[q].place \in {"chain", "left"}
    /\ \A u \in Threads : callback[u].request = callback[t].request => u = t

ContextIsSound(t) ==
  IF callback[t] = NoCallback THEN IsOwn(t, mdc[t]) ELSE mdc[t] = callback[t].request

FilterInv ==
  /\ FilterTypeOK
  /\ OneRequestPerThread
  /\ \A r \in Requests : PlaceIsSound(r) /\ FailureIsNoted(r) /\ SummaryIsLast(r)
  /\ \A t \in Threads : CallbackIsSound(t) /\ ContextIsSound(t)

-----------------------------------------------------------------------------
(* Each step of a request keeps it. *)

\* A step of a request that is not over, on the thread it had or on none, or,
\* when it is dispatched, on an idle one.
LEMMA InnerRequestStep ==
  ASSUME FilterInv, NEW r \in Requests, NEW x \in RequestStates,
         req[r].async # "over", req' = [req EXCEPT ![r] = x],
         UNCHANGED <<summary, mdc, callback>>,
         x.place = "left" <=> req[r].place = "left",
         x.thread \in {None, req[r].thread} \/ Idle(x.thread),
         x.place # "left" => x.thread = req[r].thread,
         x.place = req[r].place \/ Runs(r),
         PlaceIsSound(r)', FailureIsNoted(r)'
  PROVE  FilterInv'
<1> USE DEF FilterInv, FilterTypeOK
<1>1. /\ req'[r] = x
      /\ \A q \in Requests : q # r => req'[q] = req[q]
  OBVIOUS
<1>2. FilterTypeOK'
  OBVIOUS
<1>3. OneRequestPerThread'
  <2>1. ASSUME NEW p \in Requests, NEW q \in Requests, p # q,
               req'[p].thread # None, req'[p].thread = req'[q].thread
        PROVE  FALSE
    BY <1>1, <2>1 DEF OneRequestPerThread, Idle
  <2>2. QED
    BY <2>1 DEF OneRequestPerThread
<1>4. ASSUME NEW q \in Requests
      PROVE  PlaceIsSound(q)' /\ FailureIsNoted(q)' /\ SummaryIsLast(q)'
  <2>1. CASE q = r
    BY <1>1, <2>1 DEF SummaryIsLast
  <2>2. CASE q # r
    BY <1>1, <2>2 DEF PlaceIsSound, FailureIsNoted, SummaryIsLast
  <2>3. QED
    BY <2>1, <2>2
<1>5. ASSUME NEW t \in Threads, NEW y
      PROVE  IsOwn(t, y) => IsOwn(t, y)'
  BY <1>1 DEF IsOwn
<1>6. ASSUME NEW t \in Threads
      PROVE  CallbackIsSound(t)' /\ ContextIsSound(t)'
  <2>1. ContextIsSound(t)'
    BY <1>5 DEF ContextIsSound
  <2>2. ASSUME callback[t] # NoCallback
        PROVE  /\ req'[callback[t].request] = req[callback[t].request]
               /\ IsOwn(t, callback[t].previous)'
    BY <1>1, <1>5, <2>2 DEF CallbackIsSound
  <2>3. ASSUME callback[t] # NoCallback, NEW q \in Requests, req'[q].thread = t
        PROVE  req'[q].place \in {"chain", "left"}
    BY <1>1, <2>3, FilterAssumption DEF CallbackIsSound, Runs, Idle
  <2>4. QED
    BY <2>1, <2>2, <2>3 DEF CallbackIsSound
<1>7. QED
  BY <1>2, <1>3, <1>4, <1>6

LEMMA ChainStep ==
  ASSUME FilterInv, NEW r \in Requests,
         StartAsync(r) \/ ChainReturns(r) \/ ChainThrows(r) \/ CompleteInFilter(r)
  PROVE  FilterInv'
<1> USE DEF FilterInv, FilterTypeOK
<1>1. Runs(r) /\ req[r].thread # None /\ req[r] \in RequestStates
      /\ PlaceIsSound(r) /\ FailureIsNoted(r)
  BY DEF StartAsync, ChainReturns, ChainThrows, CompleteInFilter, InChain, Leaving, Runs
<1>2. CASE StartAsync(r)
  <2> DEFINE x == [req[r] EXCEPT !.async = "started"]
  <2>1. x \in RequestStates /\ req' = [req EXCEPT ![r] = x]
    BY <1>1, <1>2 DEF StartAsync, RequestStates
  <2>2. req'[r] = x
    BY <2>1
  <2>3. PlaceIsSound(r)' /\ FailureIsNoted(r)'
    BY <1>1, <1>2, <2>2 DEF StartAsync, InChain, PlaceIsSound, FailureIsNoted, RequestStates
  <2>4. QED
    BY <1>1, <1>2, <2>1, <2>3, InnerRequestStep DEF StartAsync, InChain, RequestStates
<1>3. CASE ChainReturns(r)
  <2>1. PICK s \in Statuses, noted \in BOOLEAN :
          req' = [req EXCEPT ![r] =
                   IF req[r].async = "none" THEN [Ends(req[r], s, noted) EXCEPT !.place = "leaving"]
                                            ELSE [req[r] EXCEPT !.place = "leaving"]]
    BY <1>3 DEF ChainReturns, Statuses
  <2> DEFINE x == IF req[r].async = "none" THEN [Ends(req[r], s, noted) EXCEPT !.place = "leaving"]
                                           ELSE [req[r] EXCEPT !.place = "leaving"]
  <2>2. /\ x \in RequestStates /\ x.place = "leaving" /\ x.thread = req[r].thread
        /\ x.async = req[r].async /\ x.completed = req[r].completed
        /\ req[r].async = "none" => /\ x.status = s /\ x.error = (req[r].error \/ noted)
                                    /\ x.failed = (req[r].failed \/ noted \/ s = "server_error")
        /\ req[r].async # "none" => /\ x.status = req[r].status /\ x.error = req[r].error
                                    /\ x.failed = req[r].failed
    BY <1>1 DEF Ends, RequestStates, Statuses
  <2>3. req'[r] = x /\ req' = [req EXCEPT ![r] = x]
    BY <2>1
  <2> HIDE DEF x
  <2>4. PlaceIsSound(r)' /\ FailureIsNoted(r)'
    BY <1>1, <1>3, <2>2, <2>3 DEF ChainReturns, InChain, PlaceIsSound, FailureIsNoted, RequestStates, Statuses
  <2>5. QED
    BY <1>1, <1>3, <2>2, <2>3, <2>4, InnerRequestStep DEF ChainReturns, InChain, PlaceIsSound
<1>4. CASE ChainThrows(r)
  <2> DEFINE x == [req[r] EXCEPT !.place = "leaving", !.failed = TRUE, !.error = TRUE]
  <2>1. x \in RequestStates /\ req' = [req EXCEPT ![r] = x]
    BY <1>1, <1>4 DEF ChainThrows, RequestStates
  <2>2. req'[r] = x
    BY <2>1
  <2>3. PlaceIsSound(r)' /\ FailureIsNoted(r)'
    BY <1>1, <1>4, <2>2 DEF ChainThrows, InChain, PlaceIsSound, FailureIsNoted, RequestStates
  <2>4. /\ req[r].async # "over" /\ req[r].place = "chain" /\ UNCHANGED <<summary, mdc, callback>>
        /\ x.place = "leaving" /\ x.thread = req[r].thread
    BY <1>1, <1>4 DEF ChainThrows, InChain, PlaceIsSound, RequestStates
  <2>5. QED
    BY <1>1, <2>1, <2>3, <2>4, InnerRequestStep
<1>5. CASE CompleteInFilter(r)
  <2> DEFINE x == [req[r] EXCEPT !.place = "completing", !.completed = TRUE, !.async = "over"]
  <2>1. x \in RequestStates /\ req' = [req EXCEPT ![r] = x]
    BY <1>1, <1>5 DEF CompleteInFilter, RequestStates
  <2>2. req'[r] = x
    BY <2>1
  <2>3. PlaceIsSound(r)' /\ FailureIsNoted(r)'
    BY <1>1, <1>5, <2>2 DEF CompleteInFilter, Leaving, PlaceIsSound, FailureIsNoted, RequestStates
  <2>4. QED
    BY <1>1, <1>5, <2>1, <2>3, InnerRequestStep DEF CompleteInFilter, Leaving, RequestStates
<1>6. QED
  BY <1>2, <1>3, <1>4, <1>5

\* The ends of an asynchronous request, and its dispatches.
LEMMA AsyncStep ==
  ASSUME FilterInv, NEW r \in Requests,
         \/ AsyncCompletes(r) \/ AsyncFails(r) \/ DispatchEnds(r) \/ DispatchRestarts(r)
         \/ \E t \in Threads : Dispatch(t, r)
  PROVE  FilterInv'
<1> USE DEF FilterInv, FilterTypeOK
<1>1. req[r] \in RequestStates /\ PlaceIsSound(r) /\ FailureIsNoted(r)
  OBVIOUS
<1>2. CASE AsyncCompletes(r)
  <2>1. PICK s \in Statuses, noted \in BOOLEAN :
          req' = [req EXCEPT ![r] = [Ends(req[r], s, noted) EXCEPT !.async = "ended"]]
    BY <1>2 DEF AsyncCompletes
  <2> DEFINE x == [Ends(req[r], s, noted) EXCEPT !.async = "ended"]
  <2>2. /\ x \in RequestStates /\ x.place = req[r].place /\ x.thread = req[r].thread
        /\ x.async = "ended" /\ x.listener = req[r].listener /\ x.completed = req[r].completed
        /\ x.status = s /\ x.error = (req[r].error \/ noted)
        /\ x.failed = (req[r].failed \/ noted \/ s = "server_error")
    BY <1>1 DEF Ends, RequestStates, Statuses
  <2>3. req' = [req EXCEPT ![r] = x] /\ req'[r] = x
    BY <2>1
  <2> HIDE DEF x
  <2>4. req[r].async = "started" /\ UNCHANGED <<summary, mdc, callback>>
    BY <1>2 DEF AsyncCompletes
  <2>5. PlaceIsSound(r)' /\ FailureIsNoted(r)'
    BY <1>1, <2>2, <2>3, <2>4 DEF PlaceIsSound, FailureIsNoted, RequestStates, Statuses
  <2>6. QED
    BY <2>2, <2>3, <2>4, <2>5, InnerRequestStep
<1>3. CASE AsyncFails(r)
  <2>1. PICK s \in Statuses :
          req' = [req EXCEPT ![r].async = "ended", ![r].status = s, ![r].failed = TRUE,
                             ![r].error = @ \/ req[r].listener]
    BY <1>3 DEF AsyncFails
  <2> DEFINE x == [req[r] EXCEPT !.async = "ended", !.status = s, !.failed = TRUE,
                                 !.error = @ \/ req[r].listener]
  <2>2. req[r].async = "started" /\ req[r].place = "left" /\ UNCHANGED <<summary, mdc, callback>>
    BY <1>3 DEF AsyncFails
  <2>3. /\ x \in RequestStates /\ x.place = "left" /\ x.thread = req[r].thread
        /\ x.async = "ended" /\ x.listener = req[r].listener /\ x.completed = req[r].completed
        /\ x.status = s /\ x.error = (req[r].error \/ req[r].listener) /\ x.failed = TRUE
    BY <1>1, <2>2 DEF RequestStates, Statuses
  <2>4. req' = [req EXCEPT ![r] = x] /\ req'[r] = x
    BY <2>1
  <2> HIDE DEF x
  <2>5. PlaceIsSound(r)' /\ FailureIsNoted(r)'
    BY <1>1, <2>2, <2>3, <2>4 DEF PlaceIsSound, FailureIsNoted, RequestStates, Statuses
  <2>6. QED
    BY <2>2, <2>3, <2>4, <2>5, InnerRequestStep
<1>4. CASE DispatchEnds(r)
  <2>1. PICK s \in Statuses, noted \in BOOLEAN :
          req' = [req EXCEPT ![r] =
                   [Ends(req[r], s, noted) EXCEPT !.async = "ended", !.thread = None]]
    BY <1>4 DEF DispatchEnds
  <2> DEFINE x == [Ends(req[r], s, noted) EXCEPT !.async = "ended", !.thread = None]
  <2>2. /\ x \in RequestStates /\ x.place = req[r].place /\ x.thread = None
        /\ x.async = "ended" /\ x.listener = req[r].listener /\ x.completed = req[r].completed
        /\ x.status = s /\ x.error = (req[r].error \/ noted)
        /\ x.failed = (req[r].failed \/ noted \/ s = "server_error")
    BY <1>1 DEF Ends, RequestStates, Statuses
  <2>3. req' = [req EXCEPT ![r] = x] /\ req'[r] = x
    BY <2>1
  <2> HIDE DEF x
  <2>4. req[r].async = "dispatched" /\ req[r].place = "left" /\ UNCHANGED <<summary, mdc, callback>>
    BY <1>1, <1>4 DEF DispatchEnds, PlaceIsSound
  <2>5. PlaceIsSound(r)' /\ FailureIsNoted(r)'
    BY <1>1, <2>2, <2>3, <2>4 DEF PlaceIsSound, FailureIsNoted, RequestStates, Statuses
  <2>6. QED
    BY <2>2, <2>3, <2>4, <2>5, InnerRequestStep
<1>5. CASE DispatchRestarts(r)
  <2> DEFINE x == [req[r] EXCEPT !.async = "started", !.thread = None, !.restarts = @ + 1]
  <2>1. /\ req[r].async = "dispatched" /\ req[r].place = "left" /\ req[r].restarts < MaxRestarts
        /\ UNCHANGED <<summary, mdc, callback>>
    BY <1>1, <1>5 DEF DispatchRestarts, PlaceIsSound
  <2>2. /\ x \in RequestStates /\ x.place = "left" /\ x.thread = None
        /\ x.async = "started" /\ x.listener = req[r].listener /\ x.completed = req[r].completed
        /\ x.status = req[r].status /\ x.error = req[r].error /\ x.failed = req[r].failed
    <3>1. req[r].restarts + 1 \in 0..MaxRestarts
      BY <1>1, <2>1, FilterAssumption DEF RequestStates
    <3>2. QED
      BY <1>1, <2>1, <3>1 DEF RequestStates
  <2>3. req' = [req EXCEPT ![r] = x] /\ req'[r] = x
    <3>1. req' = [req EXCEPT ![r] = x]
      BY <1>5 DEF DispatchRestarts, OnStartAsync
    <3>2. QED
      BY <3>1
  <2> HIDE DEF x
  <2>4. PlaceIsSound(r)' /\ FailureIsNoted(r)'
    BY <1>1, <2>1, <2>2, <2>3 DEF PlaceIsSound, FailureIsNoted, RequestStates
  <2>5. QED
    BY <2>1, <2>2, <2>3, <2>4, InnerRequestStep
<1>6. ASSUME NEW t \in Threads, Dispatch(t, r)
      PROVE  FilterInv'
  <2> DEFINE x == [req[r] EXCEPT !.async = "dispatched", !.thread = t]
  <2>1. /\ req[r].async = "started" /\ req[r].place = "left" /\ Idle(t)
        /\ UNCHANGED <<summary, mdc, callback>>
    BY <1>6 DEF Dispatch
  <2>2. /\ x \in RequestStates /\ x.place = "left" /\ x.thread = t
        /\ x.async = "dispatched" /\ x.listener = req[r].listener /\ x.completed = req[r].completed
        /\ x.status = req[r].status /\ x.error = req[r].error /\ x.failed = req[r].failed
    BY <1>1, <2>1 DEF RequestStates
  <2>3. req' = [req EXCEPT ![r] = x] /\ req'[r] = x
    BY <1>6 DEF Dispatch
  <2> HIDE DEF x
  <2>4. PlaceIsSound(r)' /\ FailureIsNoted(r)'
    BY <1>1, <2>1, <2>2, <2>3, FilterAssumption DEF PlaceIsSound, FailureIsNoted, RequestStates
  <2>5. QED
    BY <2>1, <2>2, <2>3, <2>4, InnerRequestStep
<1>7. QED
  BY <1>2, <1>3, <1>4, <1>5, <1>6

\* A thread takes a request up and gets its context.
LEMMA EnterStep ==
  ASSUME FilterInv, NEW t \in Threads, NEW r \in Requests, Enter(t, r)
  PROVE  FilterInv'
<1> USE DEF FilterInv, FilterTypeOK
<1> DEFINE x == [req[r] EXCEPT !.place = "chain", !.thread = t]
<1>1. /\ req[r] \in RequestStates /\ PlaceIsSound(r) /\ FailureIsNoted(r)
      /\ req[r].place = "new" /\ Idle(t) /\ UNCHANGED <<summary, callback>>
      /\ req' = [req EXCEPT ![r] = x] /\ mdc' = [mdc EXCEPT ![t] = r]
  BY DEF Enter
<1>2. /\ x \in RequestStates /\ x.place = "chain" /\ x.thread = t
      /\ x.async = req[r].async /\ x.completed = req[r].completed
      /\ x.status = req[r].status /\ x.error = req[r].error /\ x.failed = req[r].failed
  BY <1>1 DEF RequestStates
<1> HIDE DEF x
<1>3. /\ req'[r] = x
      /\ \A q \in Requests : q # r => req'[q] = req[q]
      /\ t # None /\ callback[t] = NoCallback
      /\ \A q \in Requests : req[q].thread # t
  BY <1>1, FilterAssumption DEF Idle
<1>4. FilterTypeOK'
  BY <1>1, <1>2
<1>5. OneRequestPerThread'
  BY <1>2, <1>3 DEF OneRequestPerThread
<1>6. ASSUME NEW q \in Requests
      PROVE  PlaceIsSound(q)' /\ FailureIsNoted(q)' /\ SummaryIsLast(q)'
  <2>1. CASE q = r
    <3>1. PlaceIsSound(r)'
      BY <1>1, <1>2, <1>3 DEF PlaceIsSound
    <3>2. FailureIsNoted(r)'
      BY <1>1, <1>2, <1>3 DEF FailureIsNoted, PlaceIsSound
    <3>3. SummaryIsLast(r)'
      BY <1>1 DEF SummaryIsLast
    <3>4. QED
      BY <2>1, <3>1, <3>2, <3>3
  <2>2. CASE q # r
    BY <1>1, <1>3, <2>2 DEF PlaceIsSound, FailureIsNoted, SummaryIsLast
  <2>3. QED
    BY <2>1, <2>2
<1>7. ASSUME NEW u \in Threads, u # t, NEW y
      PROVE  IsOwn(u, y) => IsOwn(u, y)'
  BY <1>1, <1>2, <1>3, <1>7, FilterAssumption DEF IsOwn, PlaceIsSound
<1>8. ASSUME NEW u \in Threads
      PROVE  CallbackIsSound(u)' /\ ContextIsSound(u)'
  <2>1. CASE u = t
    BY <1>1, <1>2, <1>3, <2>1 DEF CallbackIsSound, ContextIsSound, IsOwn
  <2>2. CASE u # t
    <3>1. ContextIsSound(u)'
      BY <1>1, <1>7, <2>2 DEF ContextIsSound
    <3>2. ASSUME callback[u] # NoCallback
          PROVE  /\ req'[callback[u].request] = req[callback[u].request]
                 /\ IsOwn(u, callback[u].previous)'
                 /\ \A q \in Requests : req'[q].thread = u => req[q].thread = u /\ req'[q] = req[q]
      BY <1>1, <1>2, <1>3, <1>7, <2>2, <3>2 DEF CallbackIsSound
    <3>3. QED
      BY <1>1, <3>1, <3>2 DEF CallbackIsSound
  <2>3. QED
    BY <2>1, <2>2
<1>9. QED
  BY <1>4, <1>5, <1>6, <1>8

\* A thread leaves the filter and its context is cleared: the listener is on
\* the request's cycle, or the request is over and summarized.
LEMMA LeaveStep ==
  ASSUME FilterInv, NEW r \in Requests, Register(r) \/ CompletedInFilter(r)
  PROVE  FilterInv'
<1> USE DEF FilterInv, FilterTypeOK
<1> DEFINE t == req[r].thread
           x == IF Register(r) THEN [Left(req[r]) EXCEPT !.listener = TRUE] ELSE Left(req[r])
<1>1. /\ req[r] \in RequestStates /\ PlaceIsSound(r) /\ FailureIsNoted(r) /\ SummaryIsLast(r)
      /\ req[r].place \in {"leaving", "completing"}
      /\ req' = [req EXCEPT ![r] = x] /\ mdc' = [mdc EXCEPT ![t] = None] /\ callback' = callback
  BY DEF Register, CompletedInFilter, Leaving, ClearContext, Left
<1>2. /\ x \in RequestStates /\ x.place = "left" /\ x.thread = None
      /\ x.async = req[r].async /\ x.completed = req[r].completed
      /\ x.status = req[r].status /\ x.error = req[r].error /\ x.failed = req[r].failed
      /\ x.async # "over" => x.listener
      /\ x.async \in {"started", "ended", "over"}
  <2>1. CASE Register(r)
    BY <1>1, <2>1 DEF Left, Register, RequestStates
  <2>2. CASE ~Register(r)
    BY <1>1, <2>2 DEF Left, CompletedInFilter, RequestStates, PlaceIsSound
  <2>3. QED
    BY <2>1, <2>2
<1>3. /\ t \in Threads /\ callback[t] = NoCallback
      /\ \A q \in Requests : q # r => req'[q] = req[q] /\ req[q].thread # t
      /\ req'[r] = x
  <2>1. t \in Threads
    BY <1>1 DEF PlaceIsSound, RequestStates
  <2>2. callback[t] = NoCallback
    BY <1>1, <2>1 DEF CallbackIsSound
  <2>3. QED
    BY <1>1, <2>1, <2>2, FilterAssumption DEF OneRequestPerThread
<1>4. /\ \A q \in Requests : q # r => summary'[q] = summary[q]
      /\ summary' \in [Requests -> {<<>>, <<"success">>, <<"failure">>}]
      /\ summary'[r] # <<>> => /\ summary'[r] = <<IF req[r].failed THEN "failure" ELSE "success">>
                               /\ req[r].async = "over"
  <2>1. summary[r] = <<>>
    BY <1>1 DEF SummaryIsLast
  <2>2. CASE summary' = summary
    BY <2>1, <2>2
  <2>3. CASE summary' # summary
    <3>1. req[r].place = "completing" /\ Summarize(r)
      BY <2>3 DEF Register, CompletedInFilter
    <3>2. summary' = [summary EXCEPT ![r] = <<IF req[r].failed THEN "failure" ELSE "success">>]
      <4>1. req[r].failed <=> req[r].status = "server_error" \/ req[r].error
        BY <1>1 DEF FailureIsNoted
      <4>2. summary' = [summary EXCEPT ![r] = Append(summary[r], IF req[r].failed THEN "failure" ELSE "success")]
        BY <2>3, <3>1, <4>1 DEF Summarize
      <4>3. Append(<<>>, "failure") = <<"failure">> /\ Append(<<>>, "success") = <<"success">>
        OBVIOUS
      <4>4. QED
        BY <2>1, <4>2, <4>3
    <3>3. QED
      BY <1>1, <3>1, <3>2 DEF PlaceIsSound
  <2>4. QED
    BY <2>2, <2>3
<1> HIDE DEF t, x
<1>5. FilterTypeOK'
  BY <1>1, <1>2, <1>4
<1>6. OneRequestPerThread'
  BY <1>2, <1>3 DEF OneRequestPerThread
<1>7. ASSUME NEW q \in Requests
      PROVE  PlaceIsSound(q)' /\ FailureIsNoted(q)' /\ SummaryIsLast(q)'
  <2>1. CASE q = r
    <3>1. PlaceIsSound(r)'
      BY <1>1, <1>2, <1>3 DEF PlaceIsSound
    <3>2. FailureIsNoted(r)'
      BY <1>1, <1>2, <1>3 DEF FailureIsNoted
    <3>3. \A u \in Threads : callback[u].request # r
      BY <1>1, FilterAssumption DEF CallbackIsSound, NoCallback
    <3>4. SummaryIsLast(r)'
      BY <1>1, <1>2, <1>3, <1>4, <3>3 DEF SummaryIsLast
    <3>5. QED
      BY <2>1, <3>1, <3>2, <3>4
  <2>2. CASE q # r
    BY <1>1, <1>3, <1>4, <2>2 DEF PlaceIsSound, FailureIsNoted, SummaryIsLast
  <2>3. QED
    BY <2>1, <2>2
<1>8. ASSUME NEW u \in Threads, u # t, NEW y
      PROVE  IsOwn(u, y) => IsOwn(u, y)'
  BY <1>1, <1>2, <1>3, <1>8 DEF IsOwn, t
<1>9. ASSUME NEW u \in Threads
      PROVE  CallbackIsSound(u)' /\ ContextIsSound(u)'
  <2>1. CASE u = t
    BY <1>1, <1>2, <1>3, <2>1, FilterAssumption DEF CallbackIsSound, ContextIsSound, IsOwn
  <2>2. CASE u # t
    <3>1. ContextIsSound(u)'
      BY <1>1, <1>8, <2>2 DEF ContextIsSound
    <3>2. ASSUME callback[u] # NoCallback
          PROVE  /\ callback[u].request # r /\ callback[u].request \in Requests
                 /\ req'[callback[u].request] = req[callback[u].request]
                 /\ summary'[callback[u].request] = summary[callback[u].request]
                 /\ IsOwn(u, callback[u].previous)'
                 /\ \A q \in Requests : req'[q].thread = u => req[q].thread = u /\ req'[q] = req[q]
      BY <1>1, <1>2, <1>3, <1>4, <1>8, <2>2, <3>2, FilterAssumption DEF CallbackIsSound
    <3>3. QED
      BY <1>1, <3>1, <3>2 DEF CallbackIsSound
  <2>3. QED
    BY <2>1, <2>2
<1>10. QED
  BY <1>5, <1>6, <1>7, <1>9

\* A thread begins a completion, perhaps in the middle of another request.
LEMMA OnCompleteStep ==
  ASSUME FilterInv, NEW t \in Threads, NEW r \in Requests, OnComplete(t, r)
  PROVE  FilterInv'
<1> USE DEF FilterInv, FilterTypeOK
<1> DEFINE x == [req[r] EXCEPT !.async = "over", !.completed = TRUE]
<1>1. /\ req[r] \in RequestStates /\ PlaceIsSound(r) /\ FailureIsNoted(r) /\ SummaryIsLast(r)
      /\ req[r].place = "left" /\ req[r].async = "ended" /\ callback[t] = NoCallback
      /\ \A q \in Requests : req[q].thread = t => req[q].place \in {"chain", "left"}
      /\ req' = [req EXCEPT ![r] = x] /\ summary' = summary
      /\ callback' = [callback EXCEPT ![t] = [request |-> r, previous |-> mdc[t]]]
      /\ mdc' = [mdc EXCEPT ![t] = r]
  BY DEF OnComplete
<1>2. /\ x \in RequestStates /\ x.place = "left" /\ x.thread = req[r].thread
      /\ x.async = "over" /\ x.completed = TRUE /\ x.listener = req[r].listener
      /\ x.status = req[r].status /\ x.error = req[r].error /\ x.failed = req[r].failed
  BY <1>1 DEF RequestStates
<1> HIDE DEF x
<1>3. /\ req'[r] = x /\ summary[r] = <<>>
      /\ \A q \in Requests : q # r => req'[q] = req[q]
      /\ callback'[t] = [request |-> r, previous |-> mdc[t]] /\ callback'[t] # NoCallback
      /\ \A u \in Threads : u # t => callback'[u] = callback[u]
  BY <1>1, FilterAssumption DEF SummaryIsLast, NoCallback
<1>4. FilterTypeOK'
  BY <1>1, <1>2
<1>5. OneRequestPerThread'
  BY <1>2, <1>3 DEF OneRequestPerThread
<1>6. ASSUME NEW q \in Requests
      PROVE  PlaceIsSound(q)' /\ FailureIsNoted(q)' /\ SummaryIsLast(q)'
  <2>1. CASE q = r
    BY <1>1, <1>2, <1>3, <2>1 DEF PlaceIsSound, FailureIsNoted, SummaryIsLast
  <2>2. CASE q # r
    <3>1. PlaceIsSound(q)' /\ FailureIsNoted(q)'
      BY <1>3, <2>2 DEF PlaceIsSound, FailureIsNoted
    <3>2. SummaryIsLast(q)'
      BY <1>1, <1>3, <2>2 DEF SummaryIsLast
    <3>3. QED
      BY <3>1, <3>2
  <2>3. QED
    BY <2>1, <2>2
<1>7. ASSUME NEW u \in Threads, NEW y
      PROVE  IsOwn(u, y) => IsOwn(u, y)'
  BY <1>1, <1>2, <1>3 DEF IsOwn
<1>8. \A u \in Threads : callback[u].request # r
  BY <1>1, FilterAssumption DEF CallbackIsSound, NoCallback
<1>9. ASSUME NEW u \in Threads
      PROVE  CallbackIsSound(u)' /\ ContextIsSound(u)'
  <2>1. CASE u = t
    <3>1. \A q \in Requests : req'[q].thread = t => req'[q].place \in {"chain", "left"}
      BY <1>1, <1>2, <1>3
    <3>2. CallbackIsSound(t)'
      BY <1>1, <1>2, <1>3, <1>7, <1>8, <3>1 DEF CallbackIsSound, ContextIsSound
    <3>3. ContextIsSound(t)'
      BY <1>1, <1>3 DEF ContextIsSound
    <3>4. QED
      BY <2>1, <3>2, <3>3
  <2>2. CASE u # t
    <3>1. ContextIsSound(u)'
      BY <1>1, <1>3, <1>7, <2>2 DEF ContextIsSound
    <3>2. ASSUME callback[u] # NoCallback
          PROVE  /\ req'[callback[u].request] = req[callback[u].request]
                 /\ IsOwn(u, callback[u].previous)'
                 /\ \A q \in Requests : req'[q].thread = u => req[q].thread = u /\ req'[q].place = req[q].place
      BY <1>1, <1>2, <1>3, <1>7, <1>8, <2>2, <3>2 DEF CallbackIsSound
    <3>3. QED
      BY <1>1, <1>3, <1>8, <2>2, <3>1, <3>2 DEF CallbackIsSound
  <2>3. QED
    BY <2>1, <2>2
<1>10. QED
  BY <1>4, <1>5, <1>6, <1>9

\* It ends it, and the thread gets back the context it had.
LEMMA OnCompletedStep ==
  ASSUME FilterInv, NEW t \in Threads, OnCompleted(t)
  PROVE  FilterInv'
<1> USE DEF FilterInv, FilterTypeOK
<1> DEFINE r == callback[t].request
<1>1. /\ callback[t] # NoCallback /\ req' = req /\ Summarize(r)
      /\ mdc' = [mdc EXCEPT ![t] = callback[t].previous]
      /\ callback' = [callback EXCEPT ![t] = NoCallback]
  BY DEF OnCompleted, Restore
<1>2. /\ r \in Requests /\ req[r].async = "over" /\ req[r].place = "left" /\ summary[r] = <<>>
      /\ IsOwn(t, callback[t].previous)
      /\ \A u \in Threads : callback[u].request = r => u = t
  BY <1>1 DEF CallbackIsSound
<1>3. summary' = summary \/ summary' = [summary EXCEPT ![r] = <<IF req[r].failed THEN "failure" ELSE "success">>]
  <2>1. req[r].failed <=> req[r].status = "server_error" \/ req[r].error
    BY <1>2 DEF FailureIsNoted
  <2>2. \/ summary' = summary
        \/ summary' = [summary EXCEPT ![r] = Append(summary[r], IF req[r].failed THEN "failure" ELSE "success")]
    BY <1>1, <2>1 DEF Summarize
  <2>3. Append(<<>>, "failure") = <<"failure">> /\ Append(<<>>, "success") = <<"success">>
    OBVIOUS
  <2>4. QED
    BY <1>2, <2>2, <2>3
<1> HIDE DEF r
<1>4. /\ \A q \in Requests : q # r => summary'[q] = summary[q]
      /\ summary'[r] # <<>> => summary'[r] = <<IF req[r].failed THEN "failure" ELSE "success">>
      /\ \A u \in Threads : u # t => callback'[u] = callback[u] /\ callback'[u].request # r
      /\ callback'[t] = NoCallback /\ mdc'[t] = callback[t].previous
  BY <1>1, <1>2, <1>3
<1>5. FilterTypeOK'
  BY <1>1, <1>2, <1>3 DEF NoCallback
<1>6. OneRequestPerThread'
  BY <1>1 DEF OneRequestPerThread
<1>7. ASSUME NEW q \in Requests
      PROVE  PlaceIsSound(q)' /\ FailureIsNoted(q)' /\ SummaryIsLast(q)'
  <2>1. PlaceIsSound(q)' /\ FailureIsNoted(q)'
    BY <1>1 DEF PlaceIsSound, FailureIsNoted
  <2>2. callback'[t].request # q
    BY <1>4, FilterAssumption DEF NoCallback
  <2>3. SummaryIsLast(q)'
    BY <1>1, <1>2, <1>4, <2>2 DEF SummaryIsLast
  <2>4. QED
    BY <2>1, <2>3
<1>8. ASSUME NEW u \in Threads
      PROVE  CallbackIsSound(u)' /\ ContextIsSound(u)'
  <2>1. \A y : IsOwn(u, y) => IsOwn(u, y)'
    BY <1>1 DEF IsOwn
  <2>2. CASE u = t
    BY <1>2, <1>4, <2>1, <2>2 DEF CallbackIsSound, ContextIsSound
  <2>3. CASE u # t
    <3>1. mdc'[u] = mdc[u] /\ callback'[u] = callback[u]
      BY <1>1, <1>4, <2>3
    <3>2. ContextIsSound(u)'
      BY <2>1, <3>1 DEF ContextIsSound
    <3>3. ASSUME callback[u] # NoCallback
          PROVE  /\ callback[u].request \in Requests /\ callback[u].request # r
                 /\ summary'[callback[u].request] = summary[callback[u].request]
                 /\ callback'[t].request # callback[u].request
                 /\ IsOwn(u, callback[u].previous)'
      BY <1>4, <2>1, <2>3, <3>1, <3>3, FilterAssumption DEF CallbackIsSound, NoCallback
    <3>4. QED
      BY <1>1, <1>4, <3>1, <3>2, <3>3 DEF CallbackIsSound
  <2>4. QED
    BY <2>2, <2>3
<1>9. QED
  BY <1>5, <1>6, <1>7, <1>8

LEMMA FilterInvariant == FilterSpec => []FilterInv
<1>1. FilterInit => FilterInv
  <2> SUFFICES ASSUME FilterInit
               PROVE  FilterInv
    OBVIOUS
  <2>1. Fresh \in RequestStates
    BY FilterAssumption DEF Fresh, RequestStates, Statuses
  <2>2. FilterTypeOK
    BY <2>1 DEF FilterInit, FilterTypeOK, NoCallback
  <2>3. \A r \in Requests : PlaceIsSound(r) /\ FailureIsNoted(r) /\ SummaryIsLast(r)
    BY DEF FilterInit, Fresh, PlaceIsSound, FailureIsNoted, SummaryIsLast
  <2>4. OneRequestPerThread
    BY DEF FilterInit, Fresh, OneRequestPerThread
  <2>5. \A t \in Threads : CallbackIsSound(t) /\ ContextIsSound(t)
    BY FilterAssumption DEF FilterInit, Fresh, CallbackIsSound, ContextIsSound, IsOwn
  <2>6. QED
    BY <2>2, <2>3, <2>4, <2>5 DEF FilterInv
<1>2. FilterInv /\ UNCHANGED filterVars => FilterInv'
  BY DEF filterVars, FilterInv, FilterTypeOK, OneRequestPerThread, PlaceIsSound, FailureIsNoted,
     SummaryIsLast, CallbackIsSound, ContextIsSound, IsOwn
<1>3. FilterInv /\ FilterNext => FilterInv'
  BY ChainStep, AsyncStep, EnterStep, LeaveStep, OnCompleteStep, OnCompletedStep DEF FilterNext
<1>4. QED
  BY <1>1, <1>2, <1>3, PTL DEF FilterSpec

\* Whichever threads run, interrupt and complete the requests, every thread
\* logs under the request whose code it runs.
THEOREM ContextIsAlwaysOwn == FilterSpec => []ContextIsOwn
<1>1. FilterInv => ContextIsOwn
  <2> SUFFICES ASSUME FilterInv, NEW t \in Threads
               PROVE  mdc[t] = IF callback[t] # NoCallback THEN callback[t].request
                               ELSE IF \E r \in Requests : req[r].thread = t /\ req[r].place # "left"
                                 THEN CHOOSE r \in Requests : req[r].thread = t /\ req[r].place # "left"
                                 ELSE None
    BY DEF ContextIsOwn
  <2>1. CASE callback[t] # NoCallback
    BY <2>1 DEF FilterInv, ContextIsSound
  <2>2. CASE callback[t] = NoCallback
    <3>1. IsOwn(t, mdc[t])
      BY <2>2 DEF FilterInv, ContextIsSound
    <3>2. \A r, q \in Requests : req[r].thread = t /\ req[q].thread = t => r = q
      BY FilterAssumption DEF FilterInv, OneRequestPerThread
    <3>3. QED
      BY <2>2, <3>1, <3>2 DEF IsOwn
  <2>3. QED
    BY <2>1, <2>2
<1>2. QED
  BY <1>1, FilterInvariant, PTL

\* Its summary is written once at most, when it is over, and says whether it failed.
THEOREM SummariesAreTruthful == FilterSpec => []SummaryIsTruthful
<1>1. FilterInv => SummaryIsTruthful
  BY DEF FilterInv, SummaryIsLast, SummaryIsTruthful
<1>2. QED
  BY <1>1, FilterInvariant, PTL

-----------------------------------------------------------------------------
(* What a NestJS process records of its exchanges: the inductive invariant. *)

\* How far Express, the response and the connection are, and what each end
\* has left in the Observation.
ExchangeIsSound(r) ==
  LET o == observed[r]
  IN  /\ node_stage[r] = "new" => o = Node!Fresh
      /\ node_stage[r] # "answered" => status[r] = "none" /\ socket[r] = "open"
      /\ socket[r] = "finished" => o.terminal # Node!NotYet
      /\ o.terminal # Node!NotYet => closed[r] \/ socket[r] = "finished"
      /\ o.recorded => o.terminal # Node!NotYet /\ o.as \in Node!HttpExecution

\* What the transport recorded is what the response and the status were.
CompletionIsSound(r) ==
  LET seen == observed[r].terminal
  IN  seen # Node!NotYet =>
        /\ (seen.completion = "complete") = (socket[r] = "finished")
        /\ seen.status \in {"none", status[r]}
        /\ socket[r] = "finished" => seen.status = status[r]

\* A failure is remembered, and one that came too late to be recorded is of an
\* exchange whose client had left.
FailureIsRemembered(r) ==
  LET o == observed[r]
  IN  /\ failure[r] # "none" => o.unexpected
      /\ o.unexpected => o.execution = "error"
      /\ failure[r] = "response" /\ o.recorded => o.as = "error"
      /\ failure[r] = "handler" /\ o.recorded =>
           o.as = "error" \/ (closed[r] /\ socket[r] # "finished")

\* The exchanges recorded with these labels, and what the counter says of them:
\* less than there are only if the Observation has failed.
RecordedAs(l) ==
  {r \in Requests \ excluded : observed[r].recorded /\ Node!ResultOf(observed[r]) = l}

CountsAreSound ==
  \A l \in Node!Results :
    /\ IsFiniteSet(RecordedAs(l))
    /\ ~failed => requests[l] = Cardinality(RecordedAs(l))

ObservationInv ==
  /\ Node!TypeOK
  /\ \A r \in Requests : ExchangeIsSound(r) /\ CompletionIsSound(r) /\ FailureIsRemembered(r)
  /\ CountsAreSound

-----------------------------------------------------------------------------
(* The class Observation. *)

Terminals == [completion: Node!HttpCompletion, status: Node!Statuses]

Observations ==
  [execution: Node!HttpExecution \cup {"pending"}, unexpected: BOOLEAN,
   terminal: Terminals \cup {Node!NotYet}, recorded: BOOLEAN,
   as: Node!HttpExecution \cup {"nothing"}]

\* What was recorded, and what the transport said, is never changed.
Keeps(old, new) ==
  /\ old.terminal # Node!NotYet => new.terminal = old.terminal
  /\ old.recorded => new.recorded /\ new.as = old.as
  /\ new.recorded => new.terminal # Node!NotYet /\ new.as \in Node!HttpExecution

\* What is recorded is the execution of the moment.
Captures(old, new) == new.recorded /\ ~old.recorded => new.as = new.execution

\* A recorded observation has labels.
Labelled(o) == o.recorded => o.terminal # Node!NotYet /\ o.as \in Node!HttpExecution

LEMMA NotYetIsNone == Node!NotYet \notin Terminals
BY DEF Node!NotYet, Terminals, Node!HttpCompletion

LEMMA RecordEffect ==
  ASSUME NEW o \in Observations, Labelled(o)
  PROVE  LET new == Node!Record(o)
         IN  /\ new \in Observations /\ Keeps(o, new) /\ Captures(o, new) /\ Labelled(new)
             /\ new.terminal = o.terminal /\ new.unexpected = o.unexpected
             /\ new.execution = o.execution
             /\ new.recorded <=>
                  o.recorded \/ (o.terminal # Node!NotYet /\ o.execution # "pending")
BY DEF Node!Record, Observations, Labelled, Keeps, Captures, Node!HttpExecution

\* What endExecution makes of an observation.
ExecutionEnded(old, new, unexpected) ==
  /\ new \in Observations /\ Keeps(old, new) /\ Captures(old, new) /\ Labelled(new)
  /\ new.terminal = old.terminal
  /\ new.unexpected <=> old.unexpected \/ unexpected
  /\ new.execution = IF old.unexpected \/ unexpected THEN "error" ELSE "returned"
  /\ new.recorded <=> old.terminal # Node!NotYet

LEMMA EndExecutionEffect ==
  ASSUME NEW o \in Observations, Labelled(o), NEW u \in BOOLEAN
  PROVE  ExecutionEnded(o, Node!EndExecution(o, u), u)
<1> DEFINE failing == o.unexpected \/ u
           mid == [o EXCEPT !.unexpected = failing,
                            !.execution = IF failing THEN "error" ELSE "returned"]
<1>1. /\ mid \in Observations /\ Labelled(mid)
      /\ mid.terminal = o.terminal /\ mid.unexpected = failing
      /\ mid.execution = (IF failing THEN "error" ELSE "returned")
      /\ mid.recorded = o.recorded /\ mid.as = o.as
  BY DEF Observations, Labelled, Node!HttpExecution
<1>2. Node!EndExecution(o, u) = Node!Record(mid)
  BY DEF Node!EndExecution
<1> DEFINE new == Node!EndExecution(o, u)
<1> HIDE DEF mid
<1>3. /\ new \in Observations /\ Keeps(mid, new) /\ Captures(mid, new) /\ Labelled(new)
      /\ new.terminal = o.terminal /\ new.unexpected = failing
      /\ new.execution = (IF failing THEN "error" ELSE "returned")
      /\ new.recorded <=> o.recorded \/ (o.terminal # Node!NotYet /\ mid.execution # "pending")
  BY <1>1, <1>2, RecordEffect
<1>4. mid.execution # "pending"  BY <1>1
<1>5. new.recorded <=> o.terminal # Node!NotYet
  BY <1>3, <1>4 DEF Labelled
<1>6. Keeps(o, new) /\ Captures(o, new)
  BY <1>1, <1>3 DEF Keeps, Captures
<1>7. new.unexpected <=> o.unexpected \/ u
  BY <1>3
<1> QED  BY <1>3, <1>5, <1>6, <1>7 DEF ExecutionEnded

LEMMA EndTransportEffect ==
  ASSUME NEW o \in Observations, Labelled(o), NEW complete \in BOOLEAN,
         NEW sent \in Node!Statuses
  PROVE  LET new == Node!EndTransport(o, complete, sent)
         IN  /\ new \in Observations /\ Keeps(o, new) /\ Captures(o, new) /\ Labelled(new)
             /\ new.unexpected = o.unexpected /\ new.execution = o.execution
             /\ o.terminal = Node!NotYet =>
                  new.terminal = [completion |-> IF complete THEN "complete" ELSE "disconnected",
                                  status |-> sent]
             /\ new.terminal # Node!NotYet
             /\ new.recorded => o.recorded \/ o.execution # "pending"
<1>1. CASE o.terminal # Node!NotYet
  BY <1>1, RecordEffect DEF Node!EndTransport, Keeps, Captures, Labelled
<1>2. CASE o.terminal = Node!NotYet
  <2> DEFINE seen == [completion |-> IF complete THEN "complete" ELSE "disconnected",
                      status |-> sent]
             mid == [o EXCEPT !.terminal = seen]
  <2>1. seen \in Terminals  BY DEF Terminals, Node!HttpCompletion
  <2>2. ~o.recorded  BY <1>2 DEF Labelled
  <2>3. /\ mid \in Observations /\ mid.terminal = seen /\ mid.unexpected = o.unexpected
        /\ mid.execution = o.execution /\ ~mid.recorded /\ mid.as = o.as
    BY <2>1, <2>2 DEF Observations
  <2>4. Node!EndTransport(o, complete, sent) = Node!Record(mid)
    BY <1>2 DEF Node!EndTransport
  <2>5. seen # Node!NotYet  BY <2>1, NotYetIsNone
  <2> HIDE DEF mid, seen
  <2>6. Labelled(mid)  BY <2>3 DEF Labelled
  <2>7. LET new == Node!Record(mid)
        IN  /\ new \in Observations /\ Keeps(mid, new) /\ Captures(mid, new) /\ Labelled(new)
            /\ new.terminal = seen /\ new.unexpected = o.unexpected
            /\ new.execution = o.execution
            /\ new.recorded => o.execution # "pending"
    BY <2>3, <2>6, RecordEffect
  <2> QED  BY <1>2, <2>2, <2>3, <2>4, <2>5, <2>7 DEF Keeps, Captures, Labelled, seen
<1> QED  BY <1>1, <1>2

-----------------------------------------------------------------------------
(* Steps that observe something of one exchange. *)

\* The same operator seen through the instance.
LEMMA SameCount == \A S : Node!Cardinality(S) = Cardinality(S)
BY DEF Node!Cardinality, Cardinality

LEMMA ObservationTypes ==
  Node!TypeOK => observed \in [Requests -> Observations]
BY DEF Node!TypeOK, Observations, Terminals

\* An exchange is counted when it is recorded, and only then.
LEMMA CountStep ==
  ASSUME ObservationInv, NEW r \in Requests, NEW o \in Observations,
         Keeps(observed[r], o), Node!Observe(r, o), UNCHANGED excluded
  PROVE  /\ CountsAreSound'
         /\ requests' \in [Node!Results -> Nat] /\ failed' \in BOOLEAN
         /\ observed' = [observed EXCEPT ![r] = o]
         /\ observed' \in [Requests -> Observations]
<1> DEFINE old == observed[r]
           counted == o.recorded /\ ~old.recorded /\ r \notin excluded
           label == Node!ResultOf(o)
<1>1. /\ observed \in [Requests -> Observations] /\ requests \in [Node!Results -> Nat]
      /\ failed \in BOOLEAN
  BY ObservationTypes DEF ObservationInv, Node!TypeOK
<1>2. /\ observed' = [observed EXCEPT ![r] = o]
      /\ observed' \in [Requests -> Observations]
  BY <1>1 DEF Node!Observe
<1>3. ~counted => UNCHANGED <<requests, failed>>
  BY DEF Node!Observe
<1>4. counted => \/ /\ requests' = [requests EXCEPT ![label] = @ + 1]
                    /\ failed' \in {failed, TRUE}
                 \/ requests' = requests /\ failed' = TRUE
  BY DEF Node!Observe
<1>5. counted => label \in Node!Results
  BY DEF Keeps, Node!ResultOf, Node!Results, Observations, Terminals
<1>6. requests' \in [Node!Results -> Nat] /\ failed' \in BOOLEAN
  <2> HIDE DEF counted, label
  <2>1. CASE counted
    <3>1. requests[label] + 1 \in Nat  BY <1>1, <1>5, <2>1
    <3>2. [requests EXCEPT ![label] = @ + 1] \in [Node!Results -> Nat]  BY <1>1, <3>1
    <3>3. requests' \in [Node!Results -> Nat]  BY <1>1, <1>4, <2>1, <3>2
    <3>4. failed' \in BOOLEAN  BY <1>1, <1>4, <2>1
    <3> QED  BY <3>3, <3>4
  <2>2. CASE ~counted
    BY <1>1, <1>3, <2>2
  <2> QED  BY <2>1, <2>2
<1>7. old.recorded => o.recorded /\ label = Node!ResultOf(old)
  BY <1>1 DEF Keeps, ObservationInv, ExchangeIsSound, Node!ResultOf
<1>8. \A l : RecordedAs(l)' = IF counted /\ label = l THEN RecordedAs(l) \cup {r} ELSE RecordedAs(l)
  BY <1>1, <1>2, <1>7 DEF RecordedAs, Node!ResultOf
<1>9. \A l : counted => r \notin RecordedAs(l)
  BY DEF RecordedAs
<1>10. CountsAreSound'
  <2> HIDE DEF counted, label
  <2> SUFFICES ASSUME NEW l \in Node!Results
               PROVE  /\ IsFiniteSet(RecordedAs(l)')
                      /\ ~failed' => requests'[l] = Cardinality(RecordedAs(l)')
    BY DEF CountsAreSound
  <2>1. IsFiniteSet(RecordedAs(l)) /\ (~failed => requests[l] = Cardinality(RecordedAs(l)))
    BY DEF ObservationInv, CountsAreSound
  <2>2. CASE counted /\ label = l
    <3>1. IsFiniteSet(RecordedAs(l)')
          /\ Cardinality(RecordedAs(l)') = Cardinality(RecordedAs(l)) + 1
      BY <1>8, <1>9, <2>1, <2>2, FS_AddElement
    <3>2. ~failed' => ~failed /\ requests'[l] = requests[l] + 1
      BY <1>1, <1>4, <2>2
    <3> QED  BY <2>1, <3>1, <3>2
  <2>3. CASE ~(counted /\ label = l)
    <3>1. RecordedAs(l)' = RecordedAs(l)  BY <1>8, <2>3
    <3>2. ~failed' => ~failed /\ requests'[l] = requests[l]
      BY <1>1, <1>3, <1>4, <1>5, <2>3
    <3> QED  BY <2>1, <3>1, <3>2
  <2> QED  BY <2>2, <2>3
<1> QED  BY <1>2, <1>6, <1>10

\* The other exchanges are left alone.
LEMMA OneExchange ==
  ASSUME ObservationInv, NEW r \in Requests, NEW o \in Observations,
         Keeps(observed[r], o), Node!Observe(r, o), UNCHANGED excluded,
         node_stage' \in [Requests -> {"new", "parsing", "handling", "sending", "answered"}],
         failure' \in [Requests -> {"none", "handler", "response"}],
         socket' \in [Requests -> {"open", "ended", "finished"}],
         closed' \in [Requests -> BOOLEAN],
         status' \in [Requests -> Node!Statuses],
         \A q \in Requests \ {r} :
           /\ node_stage'[q] = node_stage[q] /\ failure'[q] = failure[q]
           /\ socket'[q] = socket[q] /\ closed'[q] = closed[q] /\ status'[q] = status[q],
         observed'[r] = o =>
           ExchangeIsSound(r)' /\ CompletionIsSound(r)' /\ FailureIsRemembered(r)'
  PROVE  ObservationInv'
<1>1. /\ CountsAreSound'
      /\ requests' \in [Node!Results -> Nat] /\ failed' \in BOOLEAN
      /\ observed' = [observed EXCEPT ![r] = o]
      /\ observed' \in [Requests -> Observations]
  BY CountStep
<1>2. Node!TypeOK'
  BY <1>1 DEF ObservationInv, Node!TypeOK, Observations, Terminals
<1>3. observed'[r] = o /\ \A q \in Requests \ {r} : observed'[q] = observed[q]
  BY <1>1, ObservationTypes DEF ObservationInv
<1>4. ASSUME NEW q \in Requests \ {r}
      PROVE  ExchangeIsSound(q)' /\ CompletionIsSound(q)' /\ FailureIsRemembered(q)'
  BY <1>3 DEF ObservationInv, ExchangeIsSound, CompletionIsSound, FailureIsRemembered
<1> QED  BY <1>1, <1>2, <1>3, <1>4 DEF ObservationInv

\* Nothing is observed of the step.
LEMMA Unobserved ==
  ASSUME ObservationInv, NEW r \in Requests, UNCHANGED <<excluded, observed, requests, failed>>,
         node_stage' \in [Requests -> {"new", "parsing", "handling", "sending", "answered"}],
         failure' \in [Requests -> {"none", "handler", "response"}],
         socket' \in [Requests -> {"open", "ended", "finished"}],
         closed' \in [Requests -> BOOLEAN],
         status' \in [Requests -> Node!Statuses],
         \A q \in Requests \ {r} :
           /\ node_stage'[q] = node_stage[q] /\ failure'[q] = failure[q]
           /\ socket'[q] = socket[q] /\ closed'[q] = closed[q] /\ status'[q] = status[q],
         ExchangeIsSound(r)' /\ CompletionIsSound(r)' /\ FailureIsRemembered(r)'
  PROVE  ObservationInv'
<1>1. Node!TypeOK'
  BY DEF ObservationInv, Node!TypeOK
<1>2. ASSUME NEW q \in Requests \ {r}
      PROVE  ExchangeIsSound(q)' /\ CompletionIsSound(q)' /\ FailureIsRemembered(q)'
  BY DEF ObservationInv, ExchangeIsSound, CompletionIsSound, FailureIsRemembered
<1>3. CountsAreSound'
  BY DEF ObservationInv, CountsAreSound, RecordedAs
<1> QED  BY <1>1, <1>2, <1>3 DEF ObservationInv

-----------------------------------------------------------------------------
(* Every step of an exchange. *)

\* What is known of an exchange before each step.
LEMMA KnownOf ==
  ASSUME ObservationInv, NEW r \in Requests
  PROVE  /\ observed[r] \in Observations /\ Labelled(observed[r])
         /\ ExchangeIsSound(r) /\ CompletionIsSound(r) /\ FailureIsRemembered(r)
         /\ status[r] \in Node!Statuses
BY ObservationTypes DEF ObservationInv, Labelled, ExchangeIsSound, Node!TypeOK

LEMMA ArriveStep ==
  ASSUME ObservationInv, NEW r \in Requests, Node!Arrive(r)
  PROVE  ObservationInv'
<1> USE DEF Node!Arrive, Node!Goto
<1> DEFINE o == IF r \in excluded THEN Node!EndExecution(Node!Fresh, FALSE) ELSE Node!Fresh
<1>1. Node!Fresh \in Observations /\ Labelled(Node!Fresh) /\ observed[r] = Node!Fresh
  BY KnownOf DEF Node!Fresh, Observations, Labelled, ExchangeIsSound, Node!HttpExecution
<1>2. /\ o \in Observations /\ Keeps(observed[r], o) /\ o.terminal = Node!NotYet
      /\ ~o.recorded /\ ~o.unexpected
  <2>1. Node!Fresh.terminal = Node!NotYet /\ Node!Fresh.recorded = FALSE
        /\ Node!Fresh.unexpected = FALSE
    BY DEF Node!Fresh
  <2> DEFINE new == Node!EndExecution(Node!Fresh, FALSE)
  <2>2. /\ new \in Observations /\ Keeps(Node!Fresh, new) /\ new.terminal = Node!NotYet
        /\ ~new.recorded /\ ~new.unexpected
    BY <1>1, <2>1, EndExecutionEffect DEF ExecutionEnded
  <2>3. Keeps(Node!Fresh, Node!Fresh)
    BY <2>1 DEF Keeps
  <2> HIDE DEF new
  <2>4. CASE r \in excluded
    BY <1>1, <2>2, <2>4 DEF new
  <2>5. CASE r \notin excluded
    BY <1>1, <2>1, <2>3, <2>5
  <2> QED  BY <2>4, <2>5
<1> HIDE DEF o
<1>3. Node!Observe(r, o)  BY DEF o
<1>4. node_stage'[r] = "parsing" /\ status[r] = "none" /\ socket[r] = "open" /\ failure[r] = "none"
  <2>1. node_stage[r] = "new" /\ node_stage'[r] = "parsing"
    BY DEF ObservationInv, Node!TypeOK
  <2>2. status[r] = "none" /\ socket[r] = "open"
    BY <2>1, KnownOf DEF ExchangeIsSound
  <2>3. ~observed[r].unexpected
    BY <1>1 DEF Node!Fresh
  <2>4. failure[r] = "none"
    BY <2>3, KnownOf DEF FailureIsRemembered
  <2> QED  BY <2>1, <2>2, <2>4
<1>5. observed'[r] = o => ExchangeIsSound(r)' /\ CompletionIsSound(r)' /\ FailureIsRemembered(r)'
  BY <1>2, <1>4 DEF ExchangeIsSound, CompletionIsSound, FailureIsRemembered
<1> QED  BY <1>2, <1>3, <1>5, OneExchange DEF ObservationInv, Node!TypeOK

\* The middlewares and the filter refuse: the execution ends, then the answer
\* is sent, unless nobody is there.
LEMMA RefuseStep ==
  ASSUME ObservationInv, NEW r \in Requests, Node!Refuse(r)
  PROVE  ObservationInv'
<1> USE DEF Node!Refuse, Node!Goto, Node!Answer
<1> DEFINE o == Node!EndExecution(observed[r], FALSE)
<1>1. ExecutionEnded(observed[r], o, FALSE)
  BY KnownOf, EndExecutionEffect
<1>2. Node!Observe(r, o)  OBVIOUS
<1> HIDE DEF o
<1>3. /\ node_stage'[r] = "answered" /\ status'[r] = "problem" /\ status[r] = "none"
      /\ socket'[r] = (IF closed[r] THEN "open" ELSE "ended") /\ socket[r] = "open"
      /\ closed'[r] = closed[r] /\ failure'[r] = failure[r]
  BY KnownOf DEF ObservationInv, Node!TypeOK, ExchangeIsSound
<1>4. observed'[r] = o => ExchangeIsSound(r)' /\ CompletionIsSound(r)' /\ FailureIsRemembered(r)'
  BY <1>1, <1>3, KnownOf DEF ExchangeIsSound, CompletionIsSound, FailureIsRemembered, ExecutionEnded,
     Keeps, Captures, Labelled
<1>5. \A q \in Requests \ {r} :
        /\ node_stage'[q] = node_stage[q] /\ failure'[q] = failure[q]
        /\ socket'[q] = socket[q] /\ closed'[q] = closed[q] /\ status'[q] = status[q]
  BY DEF ObservationInv, Node!TypeOK
<1> QED  BY <1>1, <1>2, <1>4, <1>5, OneExchange DEF ExecutionEnded, ObservationInv, Node!TypeOK, Node!Statuses

\* Nest calls the handler, and sends what came of it.
LEMMA UnobservedStep ==
  ASSUME ObservationInv, NEW r \in Requests, Node!Handle(r) \/ Node!Send(r)
  PROVE  ObservationInv'
<1> USE DEF Node!Goto, Node!Answer
<1>1. \A q \in Requests \ {r} :
        /\ node_stage'[q] = node_stage[q] /\ failure'[q] = failure[q]
        /\ socket'[q] = socket[q] /\ closed'[q] = closed[q] /\ status'[q] = status[q]
  BY DEF Node!Handle, Node!Send, ObservationInv, Node!TypeOK
<1>2. CASE Node!Handle(r)
  <2>1. node_stage[r] = "parsing" /\ node_stage'[r] = "handling"
    BY <1>2 DEF Node!Handle, ObservationInv, Node!TypeOK
  <2>2. ExchangeIsSound(r)' /\ CompletionIsSound(r)' /\ FailureIsRemembered(r)'
    BY <1>2, <2>1, KnownOf
       DEF Node!Handle, ExchangeIsSound, CompletionIsSound, FailureIsRemembered
  <2> QED  BY <1>1, <1>2, <2>2, Unobserved DEF Node!Handle, ObservationInv, Node!TypeOK
<1>3. CASE Node!Send(r)
  <2>1. /\ node_stage[r] = "sending" /\ node_stage'[r] = "answered"
        /\ status'[r] = "ok" /\ status[r] = "none" /\ socket[r] = "open"
        /\ socket'[r] = (IF closed[r] THEN "open" ELSE "ended")
    BY <1>3, KnownOf DEF Node!Send, ObservationInv, Node!TypeOK, ExchangeIsSound
  <2>2. ExchangeIsSound(r)' /\ CompletionIsSound(r)' /\ FailureIsRemembered(r)'
    BY <1>3, <2>1, KnownOf
       DEF Node!Send, ExchangeIsSound, CompletionIsSound, FailureIsRemembered
  <2> QED
    BY <1>1, <1>3, <2>2, Unobserved DEF Node!Send, ObservationInv, Node!TypeOK, Node!Statuses
<1> QED  BY <1>2, <1>3

\* The Observable completes.
LEMMA CompletesStep ==
  ASSUME ObservationInv, NEW r \in Requests, Node!Completes(r)
  PROVE  ObservationInv'
<1> USE DEF Node!Completes, Node!Goto
<1> DEFINE o == Node!EndExecution(observed[r], FALSE)
<1>1. ExecutionEnded(observed[r], o, FALSE)
  BY KnownOf, EndExecutionEffect
<1>2. Node!Observe(r, o)  OBVIOUS
<1> HIDE DEF o
<1>3. node_stage[r] = "handling" /\ node_stage'[r] = "sending"
  BY DEF ObservationInv, Node!TypeOK
<1>4. observed'[r] = o => ExchangeIsSound(r)' /\ CompletionIsSound(r)' /\ FailureIsRemembered(r)'
  BY <1>1, <1>3, KnownOf DEF ExchangeIsSound, CompletionIsSound, FailureIsRemembered, ExecutionEnded,
     Keeps, Captures, Labelled
<1> QED  BY <1>1, <1>2, <1>4, OneExchange DEF ExecutionEnded, ObservationInv, Node!TypeOK

\* ProblemFilter, for an observation m that the interceptor may have ended
\* before: a failure that was not seen then is of a client that had left.
LEMMA FilterStep ==
  ASSUME ObservationInv, NEW r \in Requests, node_stage[r] \in {"handling", "sending"},
         NEW m \in Observations, Labelled(m), Keeps(observed[r], m),
         m.terminal = observed[r].terminal,
         failure[r] # "none" => m.unexpected,
         failure[r] = "response" /\ m.recorded => m.as = "error",
         NEW u \in BOOLEAN, Node!Filter(r, m, u)
  PROVE  ObservationInv'
<1> USE DEF Node!Filter, Node!Goto, Node!Answer
<1> DEFINE o == Node!EndExecution(m, u)
<1>1. ExecutionEnded(m, o, u)
  BY EndExecutionEffect
<1>2. Node!Observe(r, o)  OBVIOUS
<1> HIDE DEF o
<1>3. /\ node_stage'[r] = "answered" /\ status'[r] = "problem" /\ status[r] = "none"
      /\ socket[r] = "open" /\ socket'[r] = (IF closed[r] THEN "open" ELSE "ended")
      /\ closed'[r] = closed[r]
      /\ failure'[r] = (IF failure[r] = "none" /\ u THEN "handler" ELSE failure[r])
  BY KnownOf DEF ObservationInv, Node!TypeOK, ExchangeIsSound
<1>4. o \in Observations /\ Keeps(observed[r], o) /\ o.terminal = observed[r].terminal
  BY <1>1 DEF ExecutionEnded, Keeps
<1>5. o.recorded => closed[r]
  BY <1>1, <1>3, KnownOf DEF ExecutionEnded, ExchangeIsSound
<1>6. observed'[r] = o => ExchangeIsSound(r)' /\ CompletionIsSound(r)'
  BY <1>3, <1>4, KnownOf DEF ExchangeIsSound, CompletionIsSound, Keeps
<1>7. observed'[r] = o => FailureIsRemembered(r)'
  <2>1. failure'[r] # "none" => o.unexpected
    BY <1>1, <1>3 DEF ExecutionEnded
  <2>2. o.unexpected => o.execution = "error"
    BY <1>1 DEF ExecutionEnded
  <2>3. failure'[r] = "response" /\ o.recorded => o.as = "error"
    BY <1>1, <1>3 DEF ExecutionEnded, Keeps, Captures
  <2>4. (closed'[r] /\ socket'[r] # "finished") \/ ~o.recorded
    BY <1>3, <1>5
  <2> QED  BY <2>1, <2>2, <2>3, <2>4 DEF FailureIsRemembered
<1>8. /\ failure' \in [Requests -> {"none", "handler", "response"}]
      /\ \A q \in Requests \ {r} :
           /\ node_stage'[q] = node_stage[q] /\ failure'[q] = failure[q]
           /\ socket'[q] = socket[q] /\ closed'[q] = closed[q] /\ status'[q] = status[q]
  BY DEF ObservationInv, Node!TypeOK
<1> QED
  BY <1>2, <1>4, <1>6, <1>7, <1>8, OneExchange DEF ObservationInv, Node!TypeOK, Node!Statuses

LEMMA HandlerFailsStep ==
  ASSUME ObservationInv, NEW r \in Requests, Node!Throws(r) \/ Node!SendThrows(r)
  PROVE  ObservationInv'
<1>1. CASE Node!SendThrows(r)
  BY <1>1, FilterStep, KnownOf DEF Node!SendThrows, FailureIsRemembered, Labelled, Keeps
<1>2. CASE Node!Throws(r)
  <2> DEFINE m == Node!EndExecution(observed[r], FALSE)
  <2>1. PICK u \in BOOLEAN : Node!Filter(r, m, u)
    BY <1>2 DEF Node!Throws
  <2>2. ExecutionEnded(observed[r], m, FALSE)
    BY KnownOf, EndExecutionEffect
  <2> HIDE DEF m
  <2>3. /\ failure[r] # "none" => m.unexpected
        /\ failure[r] = "response" /\ m.recorded => m.as = "error"
    BY <2>2, KnownOf DEF ExecutionEnded, FailureIsRemembered, Keeps, Captures
  <2> QED  BY <1>2, <2>1, <2>2, <2>3, FilterStep DEF Node!Throws, ExecutionEnded
<1> QED  BY <1>1, <1>2

\* What endTransport makes of an observation.
LEMMA TransportEnds ==
  ASSUME ObservationInv, NEW r \in Requests, NEW complete \in BOOLEAN
  PROVE  LET o == Node!EndTransport(observed[r], complete, status[r])
         IN  /\ o \in Observations /\ Keeps(observed[r], o) /\ Captures(observed[r], o)
             /\ o.unexpected = observed[r].unexpected /\ o.execution = observed[r].execution
             /\ observed[r].terminal = Node!NotYet =>
                  /\ (o.terminal.completion = "complete") = complete
                  /\ o.terminal.status = status[r]
             /\ o.terminal # Node!NotYet
<1> DEFINE old == observed[r]
           o == Node!EndTransport(old, complete, status[r])
           seen == [completion |-> IF complete THEN "complete" ELSE "disconnected",
                    status |-> status[r]]
<1>1. /\ o \in Observations /\ Keeps(old, o) /\ Captures(old, o)
      /\ o.unexpected = old.unexpected /\ o.execution = old.execution
      /\ old.terminal = Node!NotYet => o.terminal = seen
      /\ o.terminal # Node!NotYet
  BY KnownOf, EndTransportEffect
<1>2. (seen.completion = "complete") = complete /\ seen.status = status[r]
  OBVIOUS
<1> HIDE DEF o, seen
<1> QED  BY <1>1, <1>2 DEF o

LEMMA FinishStep ==
  ASSUME ObservationInv, NEW r \in Requests, Node!Finish(r)
  PROVE  ObservationInv'
<1> USE DEF Node!Finish
<1> DEFINE o == Node!EndTransport(observed[r], TRUE, status[r])
<1>1. observed[r].terminal = Node!NotYet /\ node_stage[r] = "answered"
  BY KnownOf DEF ExchangeIsSound
<1>2. /\ o \in Observations /\ Keeps(observed[r], o) /\ Captures(observed[r], o)
      /\ o.unexpected = observed[r].unexpected /\ o.execution = observed[r].execution
      /\ o.terminal.completion = "complete" /\ o.terminal.status = status[r]
      /\ o.terminal # Node!NotYet
  BY <1>1, TransportEnds
<1>3. Node!Observe(r, o)  OBVIOUS
<1> HIDE DEF o
<1>4. socket'[r] = "finished" /\ ~observed[r].recorded
  BY <1>1, KnownOf DEF ObservationInv, Node!TypeOK, ExchangeIsSound
<1>5. observed'[r] = o => ExchangeIsSound(r)' /\ CompletionIsSound(r)'
  BY <1>1, <1>2, <1>4 DEF ExchangeIsSound, CompletionIsSound, Keeps
<1>6. observed'[r] = o => FailureIsRemembered(r)'
  BY <1>2, <1>4, KnownOf DEF FailureIsRemembered, Captures
<1> QED  BY <1>2, <1>3, <1>5, <1>6, OneExchange DEF ObservationInv, Node!TypeOK

LEMMA CloseStep ==
  ASSUME ObservationInv, NEW r \in Requests, Node!Close(r)
  PROVE  ObservationInv'
<1> USE DEF Node!Close
<1> DEFINE o == Node!EndTransport(observed[r], socket[r] = "finished", status[r])
<1>1. observed[r].terminal = Node!NotYet => socket[r] # "finished"
  BY KnownOf DEF ExchangeIsSound
<1>2. /\ o \in Observations /\ Keeps(observed[r], o) /\ Captures(observed[r], o)
      /\ o.unexpected = observed[r].unexpected /\ o.execution = observed[r].execution
      /\ observed[r].terminal = Node!NotYet =>
           o.terminal.completion # "complete" /\ o.terminal.status = status[r]
      /\ o.terminal # Node!NotYet
  <2>1. (socket[r] = "finished") \in BOOLEAN  OBVIOUS
  <2> QED  BY <1>1, <2>1, TransportEnds
<1>3. Node!Observe(r, o)  OBVIOUS
<1> HIDE DEF o
<1>4. closed'[r] = TRUE
  BY DEF ObservationInv, Node!TypeOK
<1>5. observed'[r] = o => ExchangeIsSound(r)'
  BY <1>2, <1>4, KnownOf DEF ExchangeIsSound, Keeps
<1>6. observed'[r] = o => CompletionIsSound(r)'
  BY <1>1, <1>2, KnownOf DEF CompletionIsSound, Keeps
<1>7. observed'[r] = o => FailureIsRemembered(r)'
  BY <1>2, <1>4, KnownOf DEF FailureIsRemembered, Keeps, Captures
<1> QED  BY <1>2, <1>3, <1>5, <1>6, <1>7, OneExchange DEF ObservationInv, Node!TypeOK

\* The response breaks while it can still be recorded as an error.
LEMMA ResponseErrorStep ==
  ASSUME ObservationInv, NEW r \in Requests, Node!ResponseErrors(r)
  PROVE  ObservationInv'
<1> USE DEF Node!ResponseErrors
<1> DEFINE o == Node!EndExecution(observed[r], TRUE)
<1>1. ExecutionEnded(observed[r], o, TRUE)
  BY KnownOf, EndExecutionEffect
<1>2. Node!Observe(r, o)  OBVIOUS
<1> HIDE DEF o
<1>3. /\ observed[r].terminal = Node!NotYet /\ ~o.recorded
      /\ o.unexpected /\ o.execution = "error" /\ o.terminal = Node!NotYet
  BY <1>1, KnownOf DEF ExecutionEnded, ExchangeIsSound
<1>4. observed'[r] = o => ExchangeIsSound(r)' /\ CompletionIsSound(r)' /\ FailureIsRemembered(r)'
  BY <1>3, KnownOf DEF ExchangeIsSound, CompletionIsSound, FailureIsRemembered
<1> QED  BY <1>1, <1>2, <1>4, OneExchange DEF ExecutionEnded, ObservationInv, Node!TypeOK

LEMMA ObservationInitHolds == Node!Init => ObservationInv
<1> SUFFICES ASSUME Node!Init PROVE ObservationInv  OBVIOUS
<1> USE DEF Node!Init
<1>1. /\ Node!Fresh \in Observations /\ Node!Fresh.terminal = Node!NotYet
      /\ ~Node!Fresh.recorded /\ ~Node!Fresh.unexpected
  BY DEF Node!Fresh, Observations
<1>2. observed \in [Requests -> Observations]
  BY <1>1
<1>3. /\ node_stage \in [Requests -> {"new", "parsing", "handling", "sending", "answered"}]
      /\ failure \in [Requests -> {"none", "handler", "response"}]
      /\ socket \in [Requests -> {"open", "ended", "finished"}]
      /\ closed \in [Requests -> BOOLEAN] /\ status \in [Requests -> Node!Statuses]
      /\ requests \in [Node!Results -> Nat] /\ failed \in BOOLEAN
  BY DEF Node!Statuses
<1>4. Node!TypeOK
  BY <1>2, <1>3 DEF Node!TypeOK, Observations, Terminals
<1>5. \A r \in Requests : ExchangeIsSound(r) /\ CompletionIsSound(r) /\ FailureIsRemembered(r)
  BY <1>1 DEF ExchangeIsSound, CompletionIsSound, FailureIsRemembered
<1>6. CountsAreSound
  <2>1. \A l : RecordedAs(l) = {}
    BY <1>1 DEF RecordedAs
  <2> QED  BY <2>1, FS_EmptySet DEF CountsAreSound
<1> QED  BY <1>4, <1>5, <1>6 DEF ObservationInv

LEMMA ObservationInvariant == Node!Spec => []ObservationInv
<1>1. ObservationInv /\ [Node!Next]_(Node!vars) => ObservationInv'
  <2> SUFFICES ASSUME ObservationInv, [Node!Next]_(Node!vars) PROVE ObservationInv'  OBVIOUS
  <2>1. CASE UNCHANGED Node!vars
    BY <2>1 DEF Node!vars, Node!server, ObservationInv, Node!TypeOK, ExchangeIsSound,
                CompletionIsSound, FailureIsRemembered, CountsAreSound, RecordedAs
  <2>2. ASSUME NEW r \in Requests, Node!Nest(r)
        PROVE  ObservationInv'
    BY <2>2, RefuseStep, UnobservedStep, CompletesStep, HandlerFailsStep DEF Node!Nest
  <2> QED
    BY <2>1, <2>2, ArriveStep, FinishStep, CloseStep, ResponseErrorStep DEF Node!Next
<1> QED  BY <1>1, ObservationInitHolds, PTL DEF Node!Spec

-----------------------------------------------------------------------------
(* Both processes. *)

\* A deployment is one of the two, beside one that serves nobody.
LEMMA DeploymentsObserve == ExchangesSpec => FilterSpec /\ Node!Spec
<1>1. ExchangesInit => FilterInit /\ Node!Init
  BY DEF ExchangesInit
<1>2. [ExchangesNext]_allVars => [FilterNext]_filterVars /\ [Node!Next]_(Node!vars)
  BY DEF ExchangesNext, NestRuns, SpringRuns, allVars, nodeVars, Node!vars, Node!server
<1> QED  BY <1>1, <1>2, PTL DEF ExchangesSpec, FilterSpec, Node!Spec

LEMMA ObservationsAreTrue ==
  ObservationInv => /\ Node!TypeOK /\ Node!CompletionIsTruthful
                    /\ Node!VisibleFailuresAreErrors /\ Node!EveryExchangeIsCountedOnce
<1> SUFFICES ASSUME ObservationInv
             PROVE  /\ Node!TypeOK /\ Node!CompletionIsTruthful
                    /\ Node!VisibleFailuresAreErrors /\ Node!EveryExchangeIsCountedOnce
  OBVIOUS
<1>1. Node!TypeOK  BY DEF ObservationInv
<1>2. Node!CompletionIsTruthful
  BY DEF ObservationInv, CompletionIsSound, Node!CompletionIsTruthful
<1>3. Node!VisibleFailuresAreErrors
  <2> SUFFICES ASSUME NEW r \in Requests, observed[r].recorded, failure[r] # "none"
               PROVE  \/ failure[r] = "handler" /\ socket[r] # "finished"
                      \/ observed[r].as = "error"
    BY DEF Node!VisibleFailuresAreErrors
  <2>1. failure[r] \in {"handler", "response"}
    BY <1>1 DEF Node!TypeOK
  <2> QED  BY <2>1 DEF ObservationInv, FailureIsRemembered
<1>4. Node!EveryExchangeIsCountedOnce
  <2>1. \A l : Node!Recorded(l) = Cardinality(RecordedAs(l))
    BY SameCount DEF Node!Recorded, RecordedAs
  <2> QED
    BY <2>1 DEF ObservationInv, CountsAreSound, Node!EveryExchangeIsCountedOnce
<1> QED  BY <1>1, <1>2, <1>3, <1>4

\* What the Observation of NestJS, from both its ends, and the filter of
\* Spring say of an exchange is what happened to it, and is said once.
THEOREM RecordsAreAlwaysTruthful == ExchangesSpec => []RecordsAreTruthful
<1>1. FilterInv => FilterTypeOK /\ SummaryIsTruthful
  BY DEF FilterInv, SummaryIsLast, SummaryIsTruthful
<1>2. FilterInv /\ ObservationInv => RecordsAreTruthful
  BY <1>1, ObservationsAreTrue DEF RecordsAreTruthful
<1> QED
  BY <1>2, DeploymentsObserve, FilterInvariant, ObservationInvariant, PTL

=============================================================================
