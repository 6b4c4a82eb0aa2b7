------------------------- MODULE ReservationContract -------------------------
(***************************************************************************)
(* What every implementation of the reservation endpoint promises, with    *)
(* the database reduced to the three facts the answers depend on:          *)
(* which products are on sale, what is left of each, and which reservation *)
(* an idempotency key is bound to.                                         *)
(*                                                                         *)
(* An attempt is one HTTP request.  It asks for one product under one      *)
(* idempotency key; a client that retries makes a new attempt under the    *)
(* same key.  The reservation an attempt creates is named by the attempt:  *)
(* the code draws a fresh UUID per attempt.                                *)
(*                                                                         *)
(* Every attempt takes effect in one step, and what it is then told agrees *)
(* with that step.  An attempt may also take effect without being told so  *)
(* (a cancelled task, a dead process): only the answer is lost.            *)
(***************************************************************************)
EXTENDS Integers, FiniteSets

CONSTANTS Attempts,      \* requests that clients make
          Keys,          \* idempotency keys
          Products,      \* product identifiers
          InitialStock,  \* the stock the seed command gives each product
          NoAttempt      \* "no reservation"

ASSUME ContractAssumption ==
  /\ IsFiniteSet(Keys)
  /\ InitialStock \in [Products -> Nat]
  /\ NoAttempt \notin Attempts

VARIABLES
  request,    \* what each attempt asks for; fixed
  listed,     \* products that have a row
  available,  \* what is left of each product (of an unlisted one: its seed)
  ledger,     \* the reservation each key is bound to
  decision    \* what each attempt has been decided to be

vars == <<request, listed, available, ledger, decision>>

-----------------------------------------------------------------------------
Requests == [key: Keys, product: Products]
KeyOf(a) == request[a].key
ProductOf(a) == request[a].product

\* Failures that leave no doubt: nothing of the attempt was applied.
CleanRefusals == {"conflict", "sold_out", "not_found", "busy", "pool_timeout"}

Decisions ==
  [kind: {"undecided", "created", "replayed", "failed"} \cup CleanRefusals,
   reservation: Attempts \cup {NoAttempt}]

Undecided == [kind |-> "undecided", reservation |-> NoAttempt]
Created(a) == [kind |-> "created", reservation |-> a]
Replayed(b) == [kind |-> "replayed", reservation |-> b]
Refused(kind) == [kind |-> kind, reservation |-> NoAttempt]

Succeeded(d) == d.kind \in {"created", "replayed"}

\* The keys bound to a reservation of product p.
KeysFor(p) ==
  {k \in Keys : ledger[k] # NoAttempt /\ ProductOf(ledger[k]) = p}

TypeOK ==
  /\ request \in [Attempts -> Requests]
  /\ listed \in SUBSET Products
  /\ available \in [Products -> Int]
  /\ ledger \in [Keys -> Attempts \cup {NoAttempt}]
  /\ decision \in [Attempts -> Decisions]

Init ==
  /\ request \in [Attempts -> Requests]
  /\ listed = {}
  /\ available = InitialStock
  /\ ledger = [k \in Keys |-> NoAttempt]
  /\ decision = [a \in Attempts |-> Undecided]

-----------------------------------------------------------------------------
Decide(a, d) ==
  /\ decision[a] = Undecided
  /\ decision' = [decision EXCEPT ![a] = d]

\* The seed command puts a product on sale, once.
List(p) ==
  /\ p \notin listed
  /\ listed' = listed \cup {p}
  /\ UNCHANGED <<request, available, ledger, decision>>

\* Mutant: stock is taken without looking at what is left.
ReserveOversold(a) ==
  /\ decision[a] = Undecided
  /\ ledger[KeyOf(a)] = NoAttempt
  /\ ProductOf(a) \in listed
  /\ ledger' = [ledger EXCEPT ![KeyOf(a)] = a]
  /\ available' = [available EXCEPT ![ProductOf(a)] = @ - 1]
  /\ Decide(a, Created(a))
  /\ UNCHANGED <<request, listed>>

\* A new reservation.  The attempt is told "created", or is told that it
\* failed (cancelled around COMMIT), or is never told anything.
Reserve(a) ==
  /\ decision[a] = Undecided
  /\ ledger[KeyOf(a)] = NoAttempt
  /\ ProductOf(a) \in listed
  /\ available[ProductOf(a)] > 0
  /\ ledger' = [ledger EXCEPT ![KeyOf(a)] = a]
  /\ available' = [available EXCEPT ![ProductOf(a)] = @ - 1]
  /\ \/ Decide(a, Created(a))
     \/ Decide(a, Refused("failed"))
     \/ UNCHANGED decision
  /\ UNCHANGED <<request, listed>>

\* Mutant: the product of the first reservation is not compared.
ReplayAnyProduct(a) ==
  LET first == ledger[KeyOf(a)]
  IN  /\ first \notin {NoAttempt, a}
      /\ Decide(a, Replayed(first))
      /\ UNCHANGED <<request, listed, available, ledger>>

\* A key already bound to the same product returns the first reservation.
Replay(a) ==
  LET first == ledger[KeyOf(a)]
  IN  /\ first \notin {NoAttempt, a}
      /\ ProductOf(first) = ProductOf(a)
      /\ Decide(a, Replayed(first))
      /\ UNCHANGED <<request, listed, available, ledger>>

\* A key already bound to another product is a conflict.
Conflict(a) ==
  LET first == ledger[KeyOf(a)]
  IN  /\ first \notin {NoAttempt, a}
      /\ ProductOf(first) # ProductOf(a)
      /\ Decide(a, Refused("conflict"))
      /\ UNCHANGED <<request, listed, available, ledger>>

\* Mutant: the stock is looked at before the key.
SoldOutFirst(a) ==
  /\ ProductOf(a) \in listed
  /\ available[ProductOf(a)] = 0
  /\ Decide(a, Refused("sold_out"))
  /\ UNCHANGED <<request, listed, available, ledger>>

SoldOut(a) ==
  /\ ledger[KeyOf(a)] = NoAttempt
  /\ ProductOf(a) \in listed
  /\ available[ProductOf(a)] = 0
  /\ Decide(a, Refused("sold_out"))
  /\ UNCHANGED <<request, listed, available, ledger>>

NotFound(a) ==
  /\ ledger[KeyOf(a)] = NoAttempt
  /\ ProductOf(a) \notin listed
  /\ Decide(a, Refused("not_found"))
  /\ UNCHANGED <<request, listed, available, ledger>>

\* The database or the process could not serve the attempt.
Fail(a) ==
  /\ ledger[KeyOf(a)] # a
  /\ \E kind \in {"busy", "pool_timeout", "failed"} : Decide(a, Refused(kind))
  /\ UNCHANGED <<request, listed, available, ledger>>

AttemptStep(a) ==
  \/ Reserve(a) \/ Replay(a) \/ Conflict(a)
  \/ SoldOut(a) \/ NotFound(a) \/ Fail(a)

Next ==
  \/ \E p \in Products : List(p)
  \/ \E a \in Attempts : AttemptStep(a)

Spec == Init /\ [][Next]_vars

-----------------------------------------------------------------------------
(* Properties *)

\* Never oversold, never lost: what is left of a product and the keys bound
\* to it always add up to the stock it was seeded with, and what is left is
\* never negative (the conditional UPDATE and the CHECK constraint).
Conservation ==
  \A p \in Products :
     /\ available[p] >= 0
     /\ available[p] + Cardinality(KeysFor(p)) = InitialStock[p]

\* Two attempts under one key that both succeeded name the same reservation,
\* which is of the product both asked for: a retry is idempotent.
RetriesAgree ==
  \A a, b \in Attempts :
     (Succeeded(decision[a]) /\ Succeeded(decision[b]) /\ KeyOf(a) = KeyOf(b))
        => /\ decision[a].reservation = decision[b].reservation
           /\ ProductOf(a) = ProductOf(b)

\* A decided success is in the database, under the attempt's own key.
SuccessIsRecorded ==
  \A a \in Attempts :
     Succeeded(decision[a]) => ledger[KeyOf(a)] = decision[a].reservation

\* An error the client may take at its word (conflict, sold out, not found,
\* busy, pool timeout) means that this attempt reserved nothing.
CleanRefusalLeavesNothing ==
  \A a \in Attempts :
     decision[a].kind \in CleanRefusals => ledger[KeyOf(a)] # a

\* "Sold out" was true when it was decided and, stock never being put back,
\* stays true.
SoldOutIsTrue ==
  \A a \in Attempts :
     decision[a].kind = "sold_out" => available[ProductOf(a)] = 0

\* What holds of every deployment at any time.
Promises == Conservation /\ RetriesAgree /\ CleanRefusalLeavesNothing /\ SoldOutIsTrue

\* The ledger only grows: a key keeps the reservation it was bound to.
LedgerIsPermanent ==
  [][\A k \in Keys : ledger[k] # NoAttempt => ledger'[k] = ledger[k]]_vars

=============================================================================
