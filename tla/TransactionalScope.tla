-------------------------- MODULE TransactionalScope --------------------------
(***************************************************************************)
(* The @transactional decorator of the two Python implementations: one     *)
(* AsyncSession, the asyncio tasks that have a reference to it, and the    *)
(* decorated services they call, which may call each other.                *)
(*                                                                         *)
(* The outermost call owns the transaction.  A call nested in it joins,    *)
(* a call of another task is refused, and a nested call that failed keeps  *)
(* the transaction from being committed even if its caller caught the      *)
(* error.                                                                  *)
(***************************************************************************)
EXTENDS Integers

CONSTANTS Tasks, NoTask,
          MaxDepth,   \* bound: calls inside one another
          MaxScopes   \* bound: transactions begun on the session

ASSUME ScopeAssumption ==
  /\ NoTask \notin Tasks
  /\ MaxDepth \in Nat \ {0}
  /\ MaxScopes \in Nat

VARIABLES
  owner,    \* session.info: the task of the TransactionState, if there is one
  cause,    \* session.info: a rollback_cause is recorded
  tx,       \* the session's transaction
  pending,  \* it has writes that are not committed
  depth,    \* decorated calls each task is inside of
  doing,    \* what the innermost call of each task is doing
  recorded, \* transactions recorded with each outcome
  kept,     \* history: the running scope has made writes durable
  failures, \* history: nested calls of the running scope that raised
  manual    \* history: the running scope was committed or rolled back by hand

scopeVars == <<owner, cause, tx, pending, depth, doing, recorded, kept, failures, manual>>
history == <<kept, failures, manual>>

ScopeTypeOK ==
  /\ owner \in Tasks \cup {NoTask}
  /\ cause \in BOOLEAN /\ pending \in BOOLEAN
  /\ tx \in {"none", "scope", "closed", "foreign"}
  /\ depth \in [Tasks -> 0..MaxDepth]
  /\ doing \in [Tasks -> {"idle", "refused", "acquire", "body", "raising", "commit"}]
  /\ recorded \in [{"committed", "failed"} -> 0..MaxScopes]
  /\ kept \in BOOLEAN /\ manual \in BOOLEAN
  /\ failures \in BOOLEAN

ScopeInit ==
  /\ owner = NoTask /\ cause = FALSE
  /\ tx = "none" /\ pending = FALSE
  /\ depth = [t \in Tasks |-> 0]
  /\ doing = [t \in Tasks |-> "idle"]
  /\ recorded = [committed |-> 0, failed |-> 0]
  /\ kept = FALSE /\ failures = FALSE /\ manual = FALSE

Become(t, p) == doing' = [doing EXCEPT ![t] = p]
Begun == recorded.committed + recorded.failed + (IF owner = NoTask THEN 0 ELSE 1)

-----------------------------------------------------------------------------
(* Calls. *)

\* No TransactionState and no transaction: the call opens the scope.
CallOuter(t) ==
  /\ doing[t] = "idle"
  /\ owner = NoTask /\ tx = "none" /\ Begun < MaxScopes
  /\ owner' = t /\ cause' = FALSE /\ tx' = "scope"
  /\ depth' = [depth EXCEPT ![t] = 1]
  /\ Become(t, "acquire")
  /\ kept' = FALSE /\ failures' = FALSE /\ manual' = FALSE
  /\ UNCHANGED <<pending, recorded>>

\* acquire_primary_connection: BEGIN IMMEDIATE, or an error.
Acquire(t) ==
  /\ doing[t] = "acquire"
  /\ Become(t, "body") \/ Become(t, "raising")
  /\ UNCHANGED <<owner, cause, tx, pending, depth, recorded, history>>

\* The owner's task calls another decorated service.
CallNested(t) ==
  /\ doing[t] = "body" /\ owner = t /\ depth[t] < MaxDepth
  /\ depth' = [depth EXCEPT ![t] = @ + 1]
  /\ UNCHANGED <<owner, cause, tx, pending, doing, recorded, history>>

\* ConcurrentTransactionUse, or TransactionOwnershipError for a session that
\* is already in a transaction: the service is not entered, and the error
\* leaves the caller with nothing to undo.
Refused(t) == owner \notin {NoTask, t} \/ (owner = NoTask /\ tx # "none")

CallRefusedJoins(t) ==
  /\ doing[t] = "idle" /\ Refused(t)
  /\ IF owner = NoTask THEN Become(t, "refused") /\ UNCHANGED depth
     ELSE Become(t, "body") /\ depth' = [depth EXCEPT ![t] = 1]
  /\ UNCHANGED <<owner, cause, tx, pending, recorded, history>>

CallRefused(t) ==
  /\ doing[t] = "idle" /\ Refused(t)
  /\ Become(t, "refused")
  /\ UNCHANGED <<owner, cause, tx, pending, depth, recorded, history>>

HandleRefusal(t) ==
  /\ doing[t] = "refused"
  /\ Become(t, "idle")
  /\ UNCHANGED <<owner, cause, tx, pending, depth, recorded, history>>

-----------------------------------------------------------------------------
(* What a body may do. *)

\* A statement; in a scope closed by hand SQLAlchemy refuses it.
Execute(t) ==
  /\ doing[t] = "body"
  /\ \/ tx = "scope" /\ pending' = TRUE /\ UNCHANGED doing
     \/ tx = "closed" /\ Become(t, "raising") /\ UNCHANGED pending
  /\ UNCHANGED <<owner, cause, tx, depth, recorded, history>>

\* session.commit() or session.rollback() inside the scope: not supported.
EndByHand(t) ==
  /\ doing[t] = "body" /\ tx = "scope"
  /\ tx' = "closed" /\ pending' = FALSE
  /\ kept' \in {kept, kept \/ pending}
  /\ manual' = TRUE
  /\ UNCHANGED <<owner, cause, depth, doing, recorded, failures>>

Raise(t) ==
  /\ doing[t] = "body"
  /\ Become(t, "raising")
  /\ UNCHANGED <<owner, cause, tx, pending, depth, recorded, history>>

ReturnNested(t) ==
  /\ doing[t] = "body" /\ depth[t] > 1
  /\ depth' = [depth EXCEPT ![t] = @ - 1]
  /\ UNCHANGED <<owner, cause, tx, pending, doing, recorded, history>>

RaiseNestedPropagated(t) ==
  /\ doing[t] = "raising" /\ depth[t] > 1
  /\ depth' = [depth EXCEPT ![t] = @ - 1]
  /\ failures' = TRUE
  /\ \/ Become(t, "body") /\ UNCHANGED cause
     \/ cause' = TRUE /\ UNCHANGED doing
  /\ UNCHANGED <<owner, tx, pending, recorded, kept, manual>>

\* A nested call raises: the cause is recorded, and its caller catches the
\* error or not.
RaiseNested(t) ==
  /\ doing[t] = "raising" /\ depth[t] > 1
  /\ depth' = [depth EXCEPT ![t] = @ - 1]
  /\ cause' = TRUE /\ failures' = TRUE
  /\ Become(t, "body") \/ UNCHANGED doing
  /\ UNCHANGED <<owner, tx, pending, recorded, kept, manual>>

ReturnOuterUnchecked(t) ==
  /\ doing[t] = "body" /\ depth[t] = 1
  /\ Become(t, IF cause THEN "raising" ELSE "commit")
  /\ UNCHANGED <<owner, cause, tx, pending, depth, recorded, history>>

\* The outer body returns: TransactionRollbackOnly, TransactionOwnershipError,
\* or on to COMMIT.
ReturnOuter(t) ==
  /\ doing[t] = "body" /\ depth[t] = 1
  /\ Become(t, IF cause \/ tx # "scope" THEN "raising" ELSE "commit")
  /\ UNCHANGED <<owner, cause, tx, pending, depth, recorded, history>>

-----------------------------------------------------------------------------
(* The end of the scope: the state is popped and one outcome recorded. *)

Finish(t, outcome) ==
  /\ owner' = NoTask /\ cause' = FALSE
  /\ tx' = "none" /\ pending' = FALSE
  /\ depth' = [depth EXCEPT ![t] = 0]
  /\ Become(t, "idle")
  /\ recorded' = [recorded EXCEPT ![outcome] = @ + 1]
  /\ UNCHANGED <<failures, manual>>

CommitOuter(t) ==
  /\ doing[t] = "commit"
  /\ kept' = (kept \/ pending)
  /\ Finish(t, "committed")

\* COMMIT raises or is cancelled: "failed", whatever reached the file.
CommitFails(t) ==
  /\ doing[t] = "commit"
  /\ kept' \in {kept, kept \/ pending}
  /\ Finish(t, "failed")

Rollback(t) ==
  /\ doing[t] = "raising" /\ depth[t] = 1
  /\ Finish(t, "failed")
  /\ UNCHANGED kept

\* Undecorated code uses the session between scopes: autobegin, and its end.
Foreign ==
  /\ owner = NoTask
  /\ tx' = IF tx = "none" THEN "foreign" ELSE "none"
  /\ UNCHANGED <<owner, cause, pending, depth, doing, recorded, history>>

ScopeNext ==
  \/ \E t \in Tasks :
       \/ CallOuter(t) \/ Acquire(t) \/ CallNested(t)
       \/ CallRefused(t) \/ HandleRefusal(t)
       \/ Execute(t) \/ EndByHand(t) \/ Raise(t) \/ ReturnNested(t)
       \/ RaiseNested(t) \/ ReturnOuter(t)
       \/ CommitOuter(t) \/ CommitFails(t) \/ Rollback(t)
  \/ Foreign

ScopeSpec == ScopeInit /\ [][ScopeNext]_scopeVars

-----------------------------------------------------------------------------
(* Properties *)

Ends(outcome) == recorded'[outcome] = recorded[outcome] + 1

\* Rollback-only: a scope in which a decorated call failed is never recorded
\* as committed, and unless its body committed by hand, or COMMIT itself went
\* wrong, nothing it wrote is kept.
FailureForbidsCommit ==
  [][/\ failures /\ owner # NoTask => ~Ends("committed")
     /\ (Ends("failed") /\ ~manual /\ "commit" \notin {doing[t] : t \in Tasks})
          => ~kept']_scopeVars

\* "committed" means that everything the scope wrote was made durable by the
\* decorator's own COMMIT, once the body was done.
CommittedIsWhole ==
  [][Ends("committed") => ~manual /\ (pending => kept')]_scopeVars

\* Only what a scope did as a whole, and without a failure, is committed.
CommitsAreEarned == FailureForbidsCommit /\ CommittedIsWhole

\* The session has an owner exactly while one task is inside a scope, and the
\* scope's transaction does not outlive it: the next request that gets the
\* session finds neither state nor transaction of an earlier one.
ScopeHasOneOwner ==
  /\ \A t \in Tasks : depth[t] > 0 <=> owner = t
  /\ \A t \in Tasks : doing[t] \in {"idle", "refused"} <=> depth[t] = 0
  /\ tx \in {"scope", "closed"} <=> owner # NoTask
  /\ pending => tx = "scope"
=============================================================================
