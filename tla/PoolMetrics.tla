----------------------------- MODULE PoolMetrics -----------------------------
(***************************************************************************)
(* The database gauges and counters of the FastAPI and FastCRUD            *)
(* implementations.  They are driven from three places that know nothing   *)
(* of each other: the session provider, the pool's checkout and checkin    *)
(* hooks, and the transaction decorator.  Each single report may raise;    *)
(* that poisons the metrics owner, and /metrics answers 503 from then on.  *)
(*                                                                         *)
(* The pool is modelled from how the code configures and listens to it.    *)
(* A connection record outlives its connection, and a record that cannot   *)
(* be connected again is checked in without ever having been checked out.  *)
(***************************************************************************)
EXTENDS Integers, FiniteSets

CONSTANTS
  Requests,   \* one session and one business transaction each
  Records,    \* the connection records: pool_size + max_overflow of them
  NoRequest

ASSUME NoRequestAssumption == NoRequest \notin Requests

ASSUME LimitAssumption == Records # {} /\ IsFiniteSet(Records)

VARIABLES
  phase,        \* where each request is
  cancelled,    \* the requests that have been cancelled
  acquisition,  \* how the acquisition of each request's connection ended
  outcome,      \* the decorator's outcome of each request
  holder,       \* the request that holds each record, or NoRequest
  started,      \* the records with a "checkout_started" mark
  metric,       \* the values of the registry
  failed        \* owner.failed

vars == <<phase, cancelled, acquisition, outcome, holder, started, metric, failed>>

-----------------------------------------------------------------------------
AcquisitionOutcomes == {"acquired", "timeout", "acquire_failed"}
TransactionOutcomes == {"committed", "failed"}
Gauges == {"connections", "sessions"}
Counters == AcquisitionOutcomes \cup TransactionOutcomes
              \cup {"timeouts", "hold", "duration"}

\* "session": a session is open, no transaction yet; "connected": checked out, BEGIN to come;
\* "answered": the acquisition is over and to be reported; "ended": the
\* transaction is over, its connection may have to go back; "counted": its
\* outcome has been reported; "done": the session is closed.
Phases == {"new", "session", "connected", "answered", "working", "ended",
           "counted", "done"}

NoMetric == [m \in Gauges \cup Counters |-> 0]

TypeOK ==
  /\ phase \in [Requests -> Phases]
  /\ cancelled \subseteq Requests
  /\ acquisition \in [Requests -> AcquisitionOutcomes \cup {"none"}]
  /\ outcome \in [Requests -> TransactionOutcomes \cup {"none"}]
  /\ holder \in [Records -> Requests \cup {NoRequest}]
  /\ started \subseteq Records
  /\ metric \in [Gauges \cup Counters -> Nat]
  /\ failed \in BOOLEAN

Init ==
  /\ phase = [r \in Requests |-> "new"]
  /\ cancelled = {}
  /\ acquisition = [r \in Requests |-> "acquire_failed"]
  /\ outcome = [r \in Requests |-> "failed"]
  /\ holder = [c \in Records |-> NoRequest]
  /\ started = {}
  /\ metric = NoMetric
  /\ failed = FALSE

Move(r, to) == phase' = [phase EXCEPT ![r] = to]

\* DatabaseMetrics.record, once for each metric of the sets: some report may
\* raise, which poisons the owner.  A poisoned registry is never read again
\* (/metrics answers 503), so that its values are forgotten here.
Record(up, down) ==
  \/ /\ ~failed
     /\ metric' = [m \in DOMAIN metric |->
                     metric[m] + (IF m \in up THEN 1 ELSE 0) - (IF m \in down THEN 1 ELSE 0)]
     /\ UNCHANGED failed
  \/ /\ failed' = TRUE
     /\ metric' = NoMetric

Holds(r, c) == holder[c] = r

HasConnection(r) == \E c \in Records : Holds(r, c)

-----------------------------------------------------------------------------
(* The pool's hooks. *)

\* checkout: mark the record, then count it.
CheckedOut(c) ==
  /\ started' = started \cup {c}
  /\ Record({"connections"}, {})

\* checkin and detach: only a record that was checked out is counted back.
Returned(c) ==
  /\ started' = started \ {c}
  /\ IF c \in started THEN Record({"hold"}, {"connections"})
                     ELSE UNCHANGED <<metric, failed>>

-----------------------------------------------------------------------------
(* A request. *)

OpenSession(r) ==
  /\ phase[r] = "new"
  /\ Move(r, "session")
  /\ Record({"sessions"}, {})
  /\ UNCHANGED <<cancelled, acquisition, outcome, holder, started>>

\* The input is refused, or the task cancelled, when the session is open but
\* nothing has been asked of the pool: dependencies come before the body.
Refuse(r) ==
  /\ phase[r] = "session"
  /\ acquisition' = [acquisition EXCEPT ![r] = "none"]
  /\ outcome' = [outcome EXCEPT ![r] = "none"]
  /\ cancelled' \in {cancelled, cancelled \cup {r}}
  /\ Move(r, "counted")
  /\ UNCHANGED <<holder, started, metric, failed>>

\* The pool hands out a free record.
Checkout(r, c) ==
  /\ phase[r] = "session"
  /\ holder[c] = NoRequest
  /\ holder' = [holder EXCEPT ![c] = r]
  /\ CheckedOut(c)
  /\ Move(r, "connected")
  /\ UNCHANGED <<cancelled, acquisition, outcome>>

\* The connection of a free record is gone and cannot be made again: the pool
\* checks in a record it never checked out.
CannotConnect(r, c) ==
  /\ phase[r] = "session"
  /\ holder[c] = NoRequest
  /\ Returned(c)
  /\ Move(r, "answered")
  /\ UNCHANGED <<cancelled, acquisition, outcome, holder>>

\* No record came free within pool_timeout.
PoolTimesOut(r) ==
  /\ phase[r] = "session"
  /\ \A c \in Records : holder[c] # NoRequest
  /\ acquisition' = [acquisition EXCEPT ![r] = "timeout"]
  /\ Move(r, "answered")
  /\ UNCHANGED <<cancelled, outcome, holder, started, metric, failed>>

\* BEGIN IMMEDIATE has the write lock, or has not got it in time.
Begin(r) ==
  /\ phase[r] = "connected"
  /\ \E o \in {"acquired", "acquire_failed"} :
        acquisition' = [acquisition EXCEPT ![r] = o]
  /\ Move(r, "answered")
  /\ UNCHANGED <<cancelled, outcome, holder, started, metric, failed>>

\* The finally clause of acquire_primary_connection.
RecordAcquisition(r) ==
  /\ phase[r] = "answered"
  /\ Record({acquisition[r]}
              \cup IF acquisition[r] = "timeout" THEN {"timeouts"} ELSE {}, {})
  /\ Move(r, IF acquisition[r] = "acquired" THEN "working" ELSE "ended")
  /\ UNCHANGED <<cancelled, acquisition, outcome, holder, started>>

\* The task is cancelled while it waits for the pool, BEGIN, its work, COMMIT
\* or the close of its session.
Cancel(r) ==
  /\ phase[r] \in {"session", "connected", "working", "counted"}
  /\ r \notin cancelled
  /\ cancelled' = cancelled \cup {r}
  /\ Move(r, CASE phase[r] = "working" -> "ended"
              [] phase[r] = "counted" -> "counted"
              [] OTHER -> "answered")
  /\ UNCHANGED <<acquisition, outcome, holder, started, metric, failed>>

\* The work and its COMMIT or ROLLBACK are over; the session has let go of
\* the connection when the outcome becomes "committed".
Commit(r, c) ==
  /\ phase[r] = "working"
  /\ Holds(r, c)
  /\ holder' = [holder EXCEPT ![c] = NoRequest]
  /\ Returned(c)
  /\ outcome' = [outcome EXCEPT ![r] = "committed"]
  /\ Move(r, "ended")
  /\ UNCHANGED <<cancelled, acquisition>>

\* The work raises, or COMMIT does.
Fail(r) ==
  /\ phase[r] = "working"
  /\ Move(r, "ended")
  /\ UNCHANGED <<cancelled, acquisition, outcome, holder, started, metric, failed>>

\* The connection of a failed transaction goes back.  The close of a cancelled
\* request is shielded: it goes on when the request itself is long gone.
Return(r, c) ==
  /\ phase[r] \in {"ended", "counted", "done"}
  /\ Holds(r, c)
  /\ holder' = [holder EXCEPT ![c] = NoRequest]
  /\ Returned(c)
  /\ UNCHANGED <<phase, cancelled, acquisition, outcome>>

\* The finally clause of the decorator.
RecordTransaction(r) ==
  /\ phase[r] = "ended"
  /\ HasConnection(r) => r \in cancelled
  /\ Record({outcome[r], "duration"}, {})
  /\ Move(r, "counted")
  /\ UNCHANGED <<cancelled, acquisition, outcome, holder, started>>

\* Mutant: the gauge goes down only when no cancellation came in between.
CloseSessionUncancelled(r) ==
  /\ phase[r] = "counted"
  /\ Record({}, IF r \in cancelled THEN {} ELSE {"sessions"})
  /\ Move(r, "done")
  /\ UNCHANGED <<cancelled, acquisition, outcome, holder, started>>

\* The finally clause of primary_session.
CloseSession(r) ==
  /\ phase[r] = "counted"
  /\ Record({}, {"sessions"})
  /\ Move(r, "done")
  /\ UNCHANGED <<cancelled, acquisition, outcome, holder, started>>

Next ==
  \E r \in Requests :
    \/ OpenSession(r)
    \/ Refuse(r)
    \/ PoolTimesOut(r)
    \/ Begin(r)
    \/ RecordAcquisition(r)
    \/ Cancel(r)
    \/ Fail(r)
    \/ RecordTransaction(r)
    \/ CloseSession(r)
    \/ \E c \in Records : Checkout(r, c) \/ CannotConnect(r, c) \/ Commit(r, c) \/ Return(r, c)

Spec == Init /\ [][Next]_vars

-----------------------------------------------------------------------------
(* Safety. *)

\* As long as no report is lost, the gauges say what is: the connections that
\* are out, within db_pool_connection_limit, and the sessions that are open
\* (core/database.py:50-61, 66-75).
GaugesAreTrue ==
  ~failed =>
    /\ metric["connections"] = Cardinality({c \in Records : holder[c] # NoRequest})
    /\ metric["sessions"] = Cardinality({r \in Requests : phase[r] \notin {"new", "done"}})

\* As long as no report is lost, each transaction is counted under the one
\* outcome it had, each acquisition likewise, and what was committed had been
\* acquired and held (core/transactions.py:112, core/database.py:95).
CountersAreTrue ==
  ~failed =>
    /\ \A o \in TransactionOutcomes :
         metric[o] = Cardinality({r \in Requests :
                       phase[r] \in {"counted", "done"} /\ outcome[r] = o})
    /\ metric["duration"] = metric["committed"] + metric["failed"]
    /\ \A o \in AcquisitionOutcomes :
         metric[o] = Cardinality({r \in Requests :
                       phase[r] \in {"working", "ended", "counted", "done"} /\ acquisition[r] = o})
    /\ metric["timeouts"] = metric["timeout"]
    /\ metric["committed"] <= metric["acquired"]
    /\ metric["committed"] <= metric["hold"]

\* A mark is on exactly the records that are out, so no connection can be
\* counted back twice or for nothing (core/database.py:52, 58).
MarksAreHeld ==
  started = {c \in Records : holder[c] # NoRequest}

\* What holds between any two steps of the sessions: the types, the marks, and
\* the counters.
PoolInv == TypeOK /\ MarksAreHeld /\ CountersAreTrue
=============================================================================
