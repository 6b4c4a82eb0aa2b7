------------------------- MODULE TransactionListener -------------------------
(***************************************************************************)
(* The transaction metrics of the Spring implementations: what the         *)
(* JpaTransactionManager tells its TransactionExecutionListener, in which  *)
(* order, and what the listener makes of it.  A COMMIT that fails may have *)
(* been applied all the same; the manager then still rolls back            *)
(* (rollbackOnCommitFailure), which must not be counted as a rollback.     *)
(*                                                                         *)
(* The manager and the database are modelled from how they call and are    *)
(* configured by the code; each transaction runs in a thread of its own.   *)
(***************************************************************************)
EXTENDS Integers

CONSTANT Transactions

Outcomes == {"committed", "rolled_back", "failed"}

VARIABLES
  manager,   \* where the manager is with each transaction
  onDisk,    \* whether the database has applied it
  active,    \* the listener's map: no entry, or Started with its flag
  counter,   \* db.transactions, split by the transaction that was counted
  duration   \* db.transaction.duration, likewise

listenerVars == <<manager, onDisk, active, counter, duration>>

-----------------------------------------------------------------------------
Phases == {"new", "beginning", "running", "committing", "commit_failed",
           "rolling_back", "ended"}
Entries == {"absent", "started", "committing"}

ListenerTypeOK ==
  /\ manager \in [Transactions -> Phases]
  /\ onDisk \in [Transactions -> BOOLEAN]
  /\ active \in [Transactions -> Entries]
  /\ counter \in [Transactions -> [Outcomes -> 0..1]]
  /\ duration \in [Transactions -> [Outcomes -> 0..1]]

NoCount == [t \in Transactions |-> [o \in Outcomes |-> 0]]

ListenerInit ==
  /\ manager = [t \in Transactions |-> "new"]
  /\ onDisk = [t \in Transactions |-> FALSE]
  /\ active = [t \in Transactions |-> "absent"]
  /\ counter = NoCount
  /\ duration = NoCount

-----------------------------------------------------------------------------
(* The listener. *)

\* Mutant: the timer is updated first.
FinishTimerFirst(t, o) ==
  /\ active' = [active EXCEPT ![t] = "absent"]
  /\ duration' = [duration EXCEPT ![t][o] = @ + 1]
  /\ \/ UNCHANGED counter
     \/ counter' = [counter EXCEPT ![t][o] = @ + 1]

\* finish: the entry is removed, then the counter and the timer are updated.
\* The registry may refuse either (RuntimeException, ignored): the timer is
\* then not reached, or is alone in missing the transaction.
FinishObservation(t, o) ==
  /\ active' = [active EXCEPT ![t] = "absent"]
  /\ \/ active[t] = "absent" /\ UNCHANGED <<counter, duration>>
     \/ /\ active[t] # "absent"
        /\ \/ UNCHANGED <<counter, duration>>
           \/ /\ counter' = [counter EXCEPT ![t][o] = @ + 1]
              /\ \/ UNCHANGED duration
                 \/ duration' = [duration EXCEPT ![t][o] = @ + 1]

BeforeBegin(t) == active' = [active EXCEPT ![t] = "started"]

\* Mutant: only the end of a commit or a rollback ends the observation.
AfterBeginForgetful(t, failure) == UNCHANGED <<active, counter, duration>>

AfterBegin(t, failure) ==
  \/ failure /\ FinishObservation(t, "failed")
  \/ ~failure /\ UNCHANGED <<active, counter, duration>>

BeforeCommit(t) ==
  active' = [active EXCEPT ![t] = IF @ = "absent" THEN @ ELSE "committing"]

\* The manager rolls a failing COMMIT back (setRollbackOnCommitFailure), so it
\* reports no failure here.
AfterCommit(t, failure) ==
  FinishObservation(t, IF failure THEN "failed" ELSE "committed")

\* Mutant: a rollback that succeeded is a rollback, whatever came before.
AfterRollbackTrusting(t, failure) ==
  FinishObservation(t, IF failure THEN "failed" ELSE "rolled_back")

\* A rollback that follows a COMMIT says nothing of what the COMMIT did.
AfterRollback(t, failure) ==
  FinishObservation(t, IF failure \/ active[t] = "committing" THEN "failed" ELSE "rolled_back")

-----------------------------------------------------------------------------
(* The transaction manager, and the database under it. *)

MoveTo(t, p) == manager' = [manager EXCEPT ![t] = p]

Start(t) ==
  /\ manager[t] = "new"
  /\ MoveTo(t, "beginning")
  /\ BeforeBegin(t)
  /\ UNCHANGED <<onDisk, counter, duration>>

\* doBegin: the connection is acquired within the pool's timeout, or not.
DoBegin(t) ==
  /\ manager[t] = "beginning"
  /\ \/ MoveTo(t, "running") /\ AfterBegin(t, FALSE)
     \/ MoveTo(t, "ended") /\ AfterBegin(t, TRUE)
  /\ UNCHANGED onDisk

\* The body returned: processCommit.
EnterCommit(t) ==
  /\ manager[t] = "running"
  /\ MoveTo(t, "committing")
  /\ BeforeCommit(t)
  /\ UNCHANGED <<onDisk, counter, duration>>

\* The body threw, or a synchronization before the commit did: the listener's
\* beforeCommit is not called.
EnterRollback(t) ==
  /\ manager[t] = "running"
  /\ MoveTo(t, "rolling_back")
  /\ UNCHANGED <<onDisk, active, counter, duration>>

DoCommit(t) ==
  /\ manager[t] = "committing"
  /\ onDisk' = [onDisk EXCEPT ![t] = TRUE]
  /\ MoveTo(t, "ended")
  /\ AfterCommit(t, FALSE)

\* COMMIT throws before or after the database applied it: rolled back.
DoCommitFails(t) ==
  /\ manager[t] = "committing"
  /\ \E applied \in BOOLEAN : onDisk' = [onDisk EXCEPT ![t] = applied]
  /\ MoveTo(t, "commit_failed")
  /\ UNCHANGED <<active, counter, duration>>

\* doRollback, which may fail.  What COMMIT applied stays.
DoRollback(t) ==
  /\ manager[t] \in {"rolling_back", "commit_failed"}
  /\ MoveTo(t, "ended")
  /\ \E failure \in BOOLEAN : AfterRollback(t, failure)
  /\ UNCHANGED onDisk

ListenerNext ==
  \E t \in Transactions :
    \/ Start(t) \/ DoBegin(t)
    \/ EnterCommit(t) \/ EnterRollback(t)
    \/ DoCommit(t) \/ DoCommitFails(t) \/ DoRollback(t)

ListenerSpec == ListenerInit /\ [][ListenerNext]_listenerVars

-----------------------------------------------------------------------------
(* Properties *)

\* "committed" is counted only for what the database has applied and
\* "rolled_back" only for what it has not; when nobody can know, "failed".
OutcomeMatchesDatabase ==
  \A t \in Transactions :
     /\ counter[t]["committed"] > 0 => onDisk[t]
     /\ counter[t]["rolled_back"] > 0 => ~onDisk[t]

\* The map holds exactly the transactions the manager is busy with, so that
\* nothing accumulates in it, whatever fails.
OnlyRunningTransactionsAreTracked ==
  \A t \in Transactions :
     active[t] # "absent" <=> manager[t] \notin {"new", "ended"}

\* A transaction is counted once it has ended, at most once and under one
\* outcome, and is timed only if, and under the outcome, it was counted.
CountedAtMostOnce ==
  \A t \in Transactions :
     /\ counter[t]["committed"] + counter[t]["rolled_back"] + counter[t]["failed"]
          <= (IF manager[t] = "ended" THEN 1 ELSE 0)
     /\ \A o \in Outcomes : duration[t][o] <= counter[t][o]

\* What is counted is true of the database, and counted once.
CountsAreTrue == OutcomeMatchesDatabase /\ CountedAtMostOnce

-----------------------------------------------------------------------------
(* The inductive invariant behind them. *)

\* Nothing is counted before the end, nothing reaches the disk before COMMIT,
\* and the flag in the map is set exactly from beforeCommit on.
Uncounted(t) ==
  manager[t] # "ended" =>
    \A o \in Outcomes : counter[t][o] = 0 /\ duration[t][o] = 0

FlagIsSet(t) ==
  active[t] = "committing" <=> manager[t] \in {"committing", "commit_failed"}

OnlyCommitWrites(t) ==
  onDisk[t] => manager[t] \in {"commit_failed", "ended"}

ListenerInv ==
  /\ ListenerTypeOK
  /\ OutcomeMatchesDatabase
  /\ OnlyRunningTransactionsAreTracked
  /\ CountedAtMostOnce
  /\ \A t \in Transactions : Uncounted(t) /\ FlagIsSet(t) /\ OnlyCommitWrites(t)
=============================================================================
