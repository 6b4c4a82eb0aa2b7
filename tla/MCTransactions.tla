---------------------------- MODULE MCTransactions ----------------------------
(* The transactions of a Python and of a Spring process, a deployment being  *)
(* one of them: two tasks with one session, or three transactions.           *)
EXTENDS TransactionalScope, TransactionListener, TLC

CONSTANTS t1, t2, t3

VARIABLE service  \* the implementation that is deployed; fixed

TwoTasks == {t1, t2}
ThreeTransactions == {t1, t2, t3}

Symmetry == Permutations(Tasks)

TransactionsInit ==
  /\ ScopeInit /\ ListenerInit
  /\ service \in {"python", "spring"}

TransactionsNext ==
  /\ UNCHANGED service
  /\ \/ service = "python" /\ ScopeNext /\ UNCHANGED listenerVars
     \/ service = "spring" /\ ListenerNext /\ UNCHANGED scopeVars

TransactionsSpec ==
  TransactionsInit /\ [][TransactionsNext]_<<service, scopeVars, listenerVars>>
=============================================================================
