-------------------------- MODULE RetirableContract --------------------------
(***************************************************************************)
(* The reservation contract of the FastCRUD implementation, whose products *)
(* can be soft-deleted.  A deleted product is never reserved again and     *)
(* never comes back, but the keys bound to it keep their answer.           *)
(***************************************************************************)
EXTENDS ReservationContract

VARIABLE retired   \* products whose row is marked is_deleted

retirableVars == <<vars, retired>>

RetirableInit ==
  /\ Init
  /\ retired = {}

Active(a) == ProductOf(a) \notin retired

\* A row is marked deleted and keeps everything else.
Retire(p) ==
  /\ p \in listed \ retired
  /\ retired' = retired \cup {p}
  /\ UNCHANGED vars

\* A new key of a deleted product: PRODUCT_NOT_FOUND, whatever the stock.
Withdrawn(a) ==
  /\ ~Active(a)
  /\ ledger[KeyOf(a)] = NoAttempt
  /\ Decide(a, Refused("not_found"))
  /\ UNCHANGED <<request, listed, available, ledger, retired>>

RetirableNext ==
  \/ \E p \in Products : Retire(p)
  \/ \E a \in Attempts : Withdrawn(a)
  \/ /\ \/ \E p \in Products : List(p)
        \/ \E a \in Attempts :
             \/ Active(a) /\ (Reserve(a) \/ SoldOut(a))
             \/ Replay(a) \/ Conflict(a) \/ NotFound(a) \/ Fail(a)
     /\ UNCHANGED retired

RetirableSpec == RetirableInit /\ [][RetirableNext]_retirableVars

\* A deleted product stays deleted, nothing of it is reserved any more, and the
\* keys that are bound to it stay so.
RetiredIsFinal ==
  [][\A p \in retired : /\ p \in retired'
                        /\ available'[p] = available[p]
                        /\ KeysFor(p)' = KeysFor(p)]_retirableVars
=============================================================================
