---------------------- MODULE ReservationContractProofs ----------------------
(***************************************************************************)
(* Theorems about ReservationContract, for every set of attempts, keys and *)
(* products and every initial stock.  Only the keys have to be finite: the *)
(* stock of a product is compared with the number of keys bound to it.     *)
(*                                                                         *)
(* Then about RetirableContract, whose products can be deleted.  Whoever   *)
(* implements a contract makes its promises: the proofs about the          *)
(* implementations instantiate this module with what they are seen as.     *)
(***************************************************************************)
EXTENDS RetirableContract, TLAPS, FiniteSetTheorems

-----------------------------------------------------------------------------
(* The contract. *)

\* The keys bound to a product are finitely many.
LEMMA KeysForFinite ==
  ASSUME NEW p \in Products
  PROVE  IsFiniteSet(KeysFor(p))
<1>1. KeysFor(p) \subseteq Keys
  BY DEF KeysFor
<1>2. QED
  BY <1>1, ContractAssumption, FS_Subset

\* What a decided attempt was told stays true of the ledger and the stock.
\* SuccessIsRecorded alone does not give RetriesAgree: the product the first
\* reservation was made for has to be the one the attempt asks for.
PromiseInv ==
  /\ SuccessIsRecorded
  /\ \A a \in Attempts : Succeeded(decision[a]) =>
        /\ decision[a].reservation # NoAttempt
        /\ ProductOf(decision[a].reservation) = ProductOf(a)
  /\ CleanRefusalLeavesNothing
  /\ SoldOutIsTrue

\* Decisions in the words of the invariants.
LEMMA DecisionKinds ==
  /\ ~Succeeded(Undecided) /\ Undecided.kind \notin CleanRefusals
  /\ \A a : Succeeded(Created(a)) /\ Created(a).reservation = a
            /\ Created(a).kind \notin CleanRefusals
  /\ \A a : Succeeded(Replayed(a)) /\ Replayed(a).reservation = a
            /\ Replayed(a).kind \notin CleanRefusals
  /\ \A kind \in CleanRefusals \cup {"failed"} :
        ~Succeeded(Refused(kind)) /\ Refused(kind).kind = kind
BY DEF Succeeded, Undecided, Created, Replayed, Refused, CleanRefusals

\* Nothing is listed, bound or decided yet.
LEMMA ContractInitially == Init => TypeOK /\ Conservation /\ PromiseInv
<1> SUFFICES ASSUME Init
             PROVE  TypeOK /\ Conservation /\ PromiseInv
  OBVIOUS
<1>1. TypeOK
  BY ContractAssumption DEF Init, TypeOK, Requests, Decisions, Undecided
<1>2. ASSUME NEW p \in Products
      PROVE  /\ available[p] >= 0
             /\ available[p] + Cardinality(KeysFor(p)) = InitialStock[p]
  <2>1. KeysFor(p) = {}
    BY DEF Init, KeysFor
  <2>2. QED
    BY <2>1, ContractAssumption, FS_EmptySet DEF Init
<1>3. PromiseInv
  BY DecisionKinds
     DEF Init, PromiseInv, SuccessIsRecorded, CleanRefusalLeavesNothing, SoldOutIsTrue, Undecided
<1>4. QED
  BY <1>1, <1>2, <1>3 DEF Conservation

\* A step keeps the types.
LEMMA TypeStep ==
  TypeOK /\ [Next]_vars => TypeOK'
<1> SUFFICES ASSUME TypeOK, [Next]_vars
             PROVE  TypeOK'
  OBVIOUS
<1> USE DEF TypeOK, Requests
<1>1. ASSUME NEW p \in Products, List(p)
      PROVE  TypeOK'
  BY <1>1 DEF List
<1>2. ASSUME NEW a \in Attempts, NEW d \in Decisions, Decide(a, d)
      PROVE  decision' \in [Attempts -> Decisions]
  BY <1>2 DEF Decide
<1>3. ASSUME NEW a \in Attempts, Reserve(a)
      PROVE  TypeOK'
  <2>1. /\ Created(a) \in Decisions
        /\ Refused("failed") \in Decisions
    BY DEF Created, Refused, Decisions
  <2>2. decision' \in [Attempts -> Decisions]
    BY <1>3, <2>1, <1>2 DEF Reserve
  <2>3. /\ ledger' \in [Keys -> Attempts \cup {NoAttempt}]
        /\ available' \in [Products -> Int]
    BY <1>3 DEF Reserve, KeyOf, ProductOf
  <2>4. QED
    BY <1>3, <2>2, <2>3 DEF Reserve
<1>4. ASSUME NEW a \in Attempts, Replay(a)
      PROVE  TypeOK'
  <2>1. Replayed(ledger[KeyOf(a)]) \in Decisions
    BY DEF Replayed, Decisions, KeyOf
  <2>2. QED
    BY <1>4, <2>1, <1>2 DEF Replay
<1>5. ASSUME NEW a \in Attempts,
             Conflict(a) \/ SoldOut(a) \/ NotFound(a) \/ Fail(a)
      PROVE  TypeOK'
  <2>1. \A kind \in CleanRefusals \cup {"failed"} : Refused(kind) \in Decisions
    BY DEF CleanRefusals, Refused, Decisions
  <2>2. decision' \in [Attempts -> Decisions]
    BY <1>5, <2>1, <1>2 DEF Conflict, SoldOut, NotFound, Fail, CleanRefusals
  <2>3. QED
    BY <1>5, <2>2 DEF Conflict, SoldOut, NotFound, Fail
<1>6. CASE UNCHANGED vars
  BY <1>6 DEF vars
<1>7. QED
  BY <1>1, <1>3, <1>4, <1>5, <1>6 DEF Next, AttemptStep

\* The variables keep their types.
LEMMA TypeCorrect == Spec => []TypeOK
BY ContractInitially, TypeStep, PTL DEF Spec

\* Binding a fresh key adds exactly that key to the keys of the product.
LEMMA ReserveCounts ==
  ASSUME TypeOK, NEW a \in Attempts, Reserve(a), NEW p \in Products
  PROVE  KeysFor(p)' = IF p = ProductOf(a) THEN KeysFor(p) \cup {KeyOf(a)}
                                          ELSE KeysFor(p)
<1>1. /\ KeyOf(a) \in Keys
      /\ ledger[KeyOf(a)] = NoAttempt
      /\ ledger' = [ledger EXCEPT ![KeyOf(a)] = a]
      /\ request' = request
      /\ a # NoAttempt
  BY ContractAssumption DEF TypeOK, Requests, KeyOf, Reserve
<1>2. \A k \in Keys : ledger'[k] = IF k = KeyOf(a) THEN a ELSE ledger[k]
  BY <1>1 DEF TypeOK
<1>3. KeysFor(p)' = {k \in Keys : ledger'[k] # NoAttempt /\ ProductOf(ledger'[k]) = p}
  BY <1>1 DEF KeysFor, ProductOf
<1>4. QED
  BY <1>1, <1>2, <1>3 DEF KeysFor

\* No step but Reserve touches the ledger or the stock.
LEMMA OthersKeepLedger ==
  ASSUME Next, \A a \in Attempts : ~Reserve(a)
  PROVE  UNCHANGED <<request, available, ledger>>
BY DEF Next, AttemptStep, List, Replay, Conflict, SoldOut, NotFound, Fail

\* Only Reserve changes either side, by one.
LEMMA ConservationStep ==
  TypeOK /\ Conservation /\ [Next]_vars => Conservation'
<1> SUFFICES ASSUME TypeOK, Conservation, [Next]_vars, NEW p \in Products
             PROVE  /\ available'[p] >= 0
                    /\ available'[p] + Cardinality(KeysFor(p)') = InitialStock[p]
  BY DEF Conservation
<1>1. /\ available[p] \in Int /\ available[p] >= 0
      /\ available[p] + Cardinality(KeysFor(p)) = InitialStock[p]
      /\ InitialStock[p] \in Nat
  BY ContractAssumption DEF Conservation, TypeOK
<1>2. IsFiniteSet(KeysFor(p)) /\ Cardinality(KeysFor(p)) \in Nat
  BY KeysForFinite, FS_CardinalityType
<1>3. ASSUME NEW a \in Attempts, Reserve(a), p = ProductOf(a)
      PROVE  /\ available'[p] >= 0
             /\ available'[p] + Cardinality(KeysFor(p)') = InitialStock[p]
  <2>1. available[p] > 0 /\ available'[p] = available[p] - 1
    BY <1>3 DEF Reserve, TypeOK
  <2>2. KeyOf(a) \notin KeysFor(p)
    BY <1>3 DEF Reserve, KeysFor
  <2>3. Cardinality(KeysFor(p)') = Cardinality(KeysFor(p)) + 1
    BY <1>2, <1>3, <2>2, ReserveCounts, FS_AddElement
  <2>4. QED
    BY <1>1, <1>2, <2>1, <2>3
<1>4. ASSUME NEW a \in Attempts, Reserve(a), p # ProductOf(a)
      PROVE  available'[p] = available[p] /\ KeysFor(p)' = KeysFor(p)
  <2>1. available'[p] = available[p]
    BY <1>4 DEF Reserve, TypeOK
  <2>2. QED
    BY <1>4, <2>1, ReserveCounts
<1>5. ASSUME UNCHANGED <<request, available, ledger>>
      PROVE  available'[p] = available[p] /\ KeysFor(p)' = KeysFor(p)
  BY <1>5 DEF KeysFor, ProductOf
<1>6. QED
  BY <1>1, <1>3, <1>4, <1>5, OthersKeepLedger DEF vars

\* Stock and bound keys always add up to the seeded stock, and the stock is
\* never negative: no product is oversold and no unit disappears.
THEOREM ConservationHolds == Spec => []Conservation
BY ContractInitially, ConservationStep, TypeCorrect, PTL DEF Spec

-----------------------------------------------------------------------------
\* A step keeps what has been said true, and says nothing false.
LEMMA PromiseStep ==
  TypeOK /\ PromiseInv /\ [Next]_vars => PromiseInv'
<1> SUFFICES ASSUME TypeOK, PromiseInv, Next
             PROVE  PromiseInv'
  BY DEF vars, PromiseInv, SuccessIsRecorded, CleanRefusalLeavesNothing,
         SoldOutIsTrue, Succeeded, KeyOf, ProductOf
<1> USE DEF PromiseInv, SuccessIsRecorded, CleanRefusalLeavesNothing, SoldOutIsTrue
<1>1. ASSUME NEW p \in Products, List(p)
      PROVE  PromiseInv'
  BY <1>1 DEF List, Succeeded, KeyOf, ProductOf
<1>2. ASSUME NEW b \in Attempts, Reserve(b)
      PROVE  PromiseInv'
  <2>1. /\ request' = request
        /\ \A k \in Keys : ledger'[k] = IF k = KeyOf(b) THEN b ELSE ledger[k]
        /\ \A p \in Products : available'[p] = IF p = ProductOf(b)
                                  THEN available[p] - 1 ELSE available[p]
        /\ ledger[KeyOf(b)] = NoAttempt /\ b # NoAttempt
        /\ available[ProductOf(b)] > 0
    BY <1>2, ContractAssumption DEF Reserve, TypeOK, Requests, KeyOf, ProductOf
  <2>2. \A a \in Attempts : KeyOf(a) \in Keys /\ ProductOf(a) \in Products
    BY DEF TypeOK, Requests, KeyOf, ProductOf
  <2>3. /\ \A a \in Attempts : a # b => decision'[a] = decision[a]
        /\ decision'[b] \in {Created(b), Refused("failed"), Undecided}
    BY <1>2 DEF Reserve, Decide, TypeOK
  <2>4. ASSUME NEW a \in Attempts
        PROVE  /\ Succeeded(decision'[a]) =>
                    /\ ledger'[KeyOf(a)] = decision'[a].reservation
                    /\ decision'[a].reservation # NoAttempt
                    /\ ProductOf(decision'[a].reservation) = ProductOf(a)
               /\ decision'[a].kind \in CleanRefusals => ledger'[KeyOf(a)] # a
               /\ decision'[a].kind = "sold_out" => available'[ProductOf(a)] = 0
    <3>1. CASE a # b
      BY <3>1, <2>1, <2>2, <2>3
    <3>2. CASE a = b /\ decision'[b] = Created(b)
      BY <3>2, <2>1, <2>2 DEF Created, Succeeded, CleanRefusals
    <3>3. CASE a = b /\ decision'[b] \in {Refused("failed"), Undecided}
      BY <3>3 DEF Succeeded, Refused, Undecided, CleanRefusals
    <3>4. QED
      BY <2>3, <3>1, <3>2, <3>3
  <2>5. QED
    BY <2>1, <2>4 DEF KeyOf, ProductOf, Succeeded
<1>3. ASSUME NEW b \in Attempts,
             Replay(b) \/ Conflict(b) \/ SoldOut(b) \/ NotFound(b) \/ Fail(b)
      PROVE  PromiseInv'
  <2>1. UNCHANGED <<request, available, ledger>>
    BY <1>3 DEF Replay, Conflict, SoldOut, NotFound, Fail
  <2>2. /\ Succeeded(decision'[b]) =>
             /\ ledger[KeyOf(b)] = decision'[b].reservation
             /\ decision'[b].reservation # NoAttempt
             /\ ProductOf(decision'[b].reservation) = ProductOf(b)
        /\ decision'[b].kind \in CleanRefusals => ledger[KeyOf(b)] # b
        /\ decision'[b].kind = "sold_out" => available[ProductOf(b)] = 0
    <3>1. CASE Replay(b)
      BY <3>1 DEF Replay, Decide, Replayed, TypeOK, CleanRefusals
    <3>2. CASE Conflict(b) \/ SoldOut(b) \/ NotFound(b)
      BY <3>2, ContractAssumption
         DEF Conflict, SoldOut, NotFound, Decide, Refused, TypeOK, Succeeded
    <3>3. CASE Fail(b)
      BY <3>3 DEF Fail, Decide, Refused, TypeOK, Succeeded
    <3>4. QED
      BY <1>3, <3>1, <3>2, <3>3
  <2>3. \A a \in Attempts : a # b => decision'[a] = decision[a]
    BY <1>3 DEF Replay, Conflict, SoldOut, NotFound, Fail, Decide, TypeOK
  <2>4. QED
    BY <2>1, <2>2, <2>3 DEF Succeeded, KeyOf, ProductOf
<1>4. QED
  BY <1>1, <1>2, <1>3 DEF Next, AttemptStep


LEMMA PromiseInvariant == Spec => []PromiseInv
BY ContractInitially, PromiseStep, TypeCorrect, PTL DEF Spec

\* A retry is idempotent: any two successes under one key are told the same
\* reservation, of the product both asked for.
THEOREM RetriesAgreeHolds == Spec => []RetriesAgree
<1>1. PromiseInv => RetriesAgree
  BY DEF PromiseInv, SuccessIsRecorded, RetriesAgree
<1>2. QED
  BY <1>1, PromiseInvariant, PTL

\* A refusal other than "failed" means that the attempt reserved nothing.
THEOREM CleanRefusalHolds == Spec => []CleanRefusalLeavesNothing
<1>1. PromiseInv => CleanRefusalLeavesNothing
  BY DEF PromiseInv
<1>2. QED
  BY <1>1, PromiseInvariant, PTL

\* "Sold out" stays true for ever once an attempt was told so.
THEOREM SoldOutHolds == Spec => []SoldOutIsTrue
<1>1. PromiseInv => SoldOutIsTrue
  BY DEF PromiseInv
<1>2. QED
  BY <1>1, PromiseInvariant, PTL

\* Reserve binds a key that is free, and nothing else binds one.
LEMMA LedgerStep ==
  TypeOK /\ [Next]_vars =>
    [\A k \in Keys : ledger[k] # NoAttempt => ledger'[k] = ledger[k]]_vars
<1> SUFFICES ASSUME TypeOK, Next, NEW k \in Keys, ledger[k] # NoAttempt
             PROVE  ledger'[k] = ledger[k]
  OBVIOUS
<1>1. ASSUME NEW a \in Attempts, Reserve(a)
      PROVE  ledger'[k] = ledger[k]
  BY <1>1 DEF Reserve, TypeOK
<1>2. QED
  BY <1>1, OthersKeepLedger

\* No step takes a key away from the reservation it is bound to.
THEOREM LedgerPermanence == Spec => LedgerIsPermanent
BY LedgerStep, TypeCorrect, PTL DEF Spec, LedgerIsPermanent

\* All of it: what every implementation that keeps the contract promises.
THEOREM PromisesHold == Spec => []Promises
BY ConservationHolds, RetriesAgreeHolds, CleanRefusalHolds, SoldOutHolds, PTL DEF Promises


-----------------------------------------------------------------------------
(* The contract with products that can be deleted. *)

RetirableTypeOK == TypeOK /\ retired \in SUBSET Products

\* But for deletions and for "not found" of a product that is there, every step
\* is one of the contract, and so is what is left alone.
LEMMA RetirableSteps ==
  ASSUME [RetirableNext]_retirableVars
  PROVE  [Next]_vars \/ \E a \in Attempts : Withdrawn(a)
BY DEF RetirableNext, retirableVars, Next, AttemptStep, Retire

\* A withdrawal decides one attempt whose key is free, and nothing else.
LEMMA WithdrawnKeeps ==
  ASSUME TypeOK, Conservation, PromiseInv, NEW b \in Attempts, Withdrawn(b)
  PROVE  TypeOK' /\ Conservation' /\ PromiseInv'
<1>1. /\ UNCHANGED <<request, listed, available, ledger>>
      /\ decision' = [decision EXCEPT ![b] = Refused("not_found")]
      /\ ledger[KeyOf(b)] = NoAttempt /\ b # NoAttempt
  BY ContractAssumption DEF Withdrawn, Decide
<1>2. Refused("not_found") \in Decisions
  BY DEF Refused, Decisions, CleanRefusals
<1>3. TypeOK'
  BY <1>1, <1>2 DEF TypeOK
<1>4. Conservation'
  BY <1>1 DEF Conservation, KeysFor, ProductOf
<1>5. /\ \A a \in Attempts : a # b => decision'[a] = decision[a]
      /\ ~Succeeded(decision'[b]) /\ decision'[b].kind = "not_found"
  BY <1>1, DecisionKinds DEF TypeOK, CleanRefusals
<1>6. PromiseInv'
  BY <1>1, <1>5
     DEF PromiseInv, SuccessIsRecorded, CleanRefusalLeavesNothing, SoldOutIsTrue,
         Succeeded, KeyOf, ProductOf
<1>7. QED
  BY <1>3, <1>4, <1>6

LEMMA RetirableInvariant == RetirableSpec => [](RetirableTypeOK /\ Conservation /\ PromiseInv)
<1> DEFINE I == RetirableTypeOK /\ Conservation /\ PromiseInv
<1>1. RetirableInit => I
  BY ContractInitially DEF RetirableInit, RetirableTypeOK
<1>2. I /\ [RetirableNext]_retirableVars => I'
  <2> SUFFICES ASSUME I, [RetirableNext]_retirableVars
               PROVE  I'
    OBVIOUS
  <2>1. TypeOK' /\ Conservation' /\ PromiseInv'
    BY RetirableSteps, TypeStep, ConservationStep, PromiseStep, WithdrawnKeeps DEF RetirableTypeOK
  <2>2. retired' \in SUBSET Products
    BY DEF RetirableTypeOK, RetirableNext, retirableVars, Retire, Withdrawn, TypeOK
  <2>3. QED
    BY <2>1, <2>2 DEF RetirableTypeOK
<1>3. QED
  BY <1>1, <1>2, PTL DEF RetirableSpec

\* Deletion takes nothing back: stock is conserved, retries agree and refusals
\* are true, whatever is deleted and when.
THEOREM RetirablePromisesHold == RetirableSpec => []Promises
<1>1. Conservation /\ PromiseInv => Promises
  BY DEF Promises, PromiseInv, SuccessIsRecorded, RetriesAgree
<1>2. QED
  BY <1>1, RetirableInvariant, PTL

\* A key of a deleted product keeps its reservation, too.
THEOREM RetirableLedgerPermanence == RetirableSpec => LedgerIsPermanent
<1>1. TypeOK /\ [RetirableNext]_retirableVars =>
        [\A k \in Keys : ledger[k] # NoAttempt => ledger'[k] = ledger[k]]_vars
  BY RetirableSteps, LedgerStep DEF Withdrawn
<1>2. QED
  BY <1>1, RetirableInvariant, PTL DEF RetirableSpec, RetirableTypeOK, LedgerIsPermanent

\* A deleted product stays deleted, and with it its stock and its reservations
\* stay what they were.
THEOREM RetiredIsFinalHolds == RetirableSpec => RetiredIsFinal
<1>1. RetirableTypeOK /\ [RetirableNext]_retirableVars =>
        [\A p \in retired : /\ p \in retired'
                            /\ available'[p] = available[p]
                            /\ KeysFor(p)' = KeysFor(p)]_retirableVars
  <2> SUFFICES ASSUME RetirableTypeOK, RetirableNext, NEW p \in retired
               PROVE  /\ p \in retired'
                      /\ available'[p] = available[p]
                      /\ KeysFor(p)' = KeysFor(p)
    OBVIOUS
  <2>1. p \in retired' /\ p \in Products
    BY DEF RetirableTypeOK, RetirableNext, Retire, Withdrawn
  <2>2. CASE \E a \in Attempts : Active(a) /\ Reserve(a)
    <3>1. PICK a \in Attempts : Active(a) /\ Reserve(a)
      BY <2>2
    <3>2. p # ProductOf(a)
      BY <3>1 DEF Active
    <3>3. available'[p] = available[p]
      BY <2>1, <3>1, <3>2 DEF Reserve, RetirableTypeOK, TypeOK
    <3>4. KeysFor(p)' = KeysFor(p)
      BY <2>1, <3>1, <3>2, ReserveCounts DEF RetirableTypeOK
    <3>5. QED
      BY <2>1, <3>3, <3>4
  <2>3. CASE UNCHANGED <<request, available, ledger>>
    BY <2>1, <2>3 DEF KeysFor, ProductOf
  <2>4. QED
    BY <2>2, <2>3 DEF RetirableNext, Retire, Withdrawn, List, Replay, Conflict, SoldOut,
                      NotFound, Fail, vars
<1>2. QED
  BY <1>1, RetirableInvariant, PTL DEF RetirableSpec, RetiredIsFinal
=============================================================================
