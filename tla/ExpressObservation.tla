-------------------------- MODULE ExpressObservation --------------------------
(***************************************************************************)
(* What the NestJS implementation records of an HTTP exchange.  An         *)
(* Observation waits for two ends that come in either order: the end of    *)
(* the execution (endExecution, called by the interceptor, the exception   *)
(* filter, two middlewares and the error event) and the end of the         *)
(* transport (endTransport, called by the finish and the close event).     *)
(* The first moment both are known it is recorded, once.                   *)
(*                                                                         *)
(* Node runs one callback, with the promise continuations it resolves, at  *)
(* a time: an action is one such callback.                                 *)
(***************************************************************************)
EXTENDS Integers, FiniteSets

CONSTANTS Requests

VARIABLES
  excluded,  \* requests for /metrics, /health/... and the documentation
  stage,     \* where Express and Nest are with each request
  failure,   \* what failed unexpectedly: the handler, the response, nothing
  socket,    \* the response: open, ended (flushing), finished
  closed,    \* its connection is closed
  status,    \* the status sent, once the headers are out
  observed,  \* the fields of each Observation
  requests,  \* http_requests_total
  failed     \* metrics.failed or logging.failed

server == <<excluded, stage, failure, socket, closed, status>>
vars == <<server, observed, requests, failed>>

HttpExecution == {"returned", "error"}
HttpCompletion == {"complete", "disconnected"}
Statuses == {"ok", "problem", "none"}
Results == [completion: HttpCompletion, status: Statuses, execution: HttpExecution]
NotYet == [completion |-> "none", status |-> "none"]
Fresh == [execution |-> "pending", unexpected |-> FALSE, terminal |-> NotYet,
          recorded |-> FALSE, as |-> "nothing"]

TypeOK ==
  /\ excluded \in SUBSET Requests
  /\ stage \in [Requests -> {"new", "parsing", "handling", "sending", "answered"}]
  /\ failure \in [Requests -> {"none", "handler", "response"}]
  /\ socket \in [Requests -> {"open", "ended", "finished"}]
  /\ closed \in [Requests -> BOOLEAN]
  /\ status \in [Requests -> Statuses]
  /\ observed \in [Requests ->
       [execution: HttpExecution \cup {"pending"}, unexpected: BOOLEAN,
        terminal: [completion: HttpCompletion, status: Statuses] \cup {NotYet},
        recorded: BOOLEAN, as: HttpExecution \cup {"nothing"}]]
  /\ requests \in [Results -> Nat]
  /\ failed \in BOOLEAN

Init ==
  /\ excluded \in SUBSET Requests
  /\ stage = [r \in Requests |-> "new"]
  /\ failure = [r \in Requests |-> "none"]
  /\ socket = [r \in Requests |-> "open"]
  /\ closed = [r \in Requests |-> FALSE]
  /\ status = [r \in Requests |-> "none"]
  /\ observed = [r \in Requests |-> Fresh]
  /\ requests = [l \in Results |-> 0]
  /\ failed = FALSE

-----------------------------------------------------------------------------
(* The class Observation, as functions of its fields.  "as" keeps the      *)
(* execution that was recorded.                                            *)

Record(o) ==
  IF o.recorded \/ o.terminal = NotYet \/ o.execution = "pending"
  THEN o ELSE [o EXCEPT !.recorded = TRUE, !.as = o.execution]

EndExecution(o, unexpected) ==
  LET failing == o.unexpected \/ unexpected
  IN  Record([o EXCEPT !.unexpected = failing,
                       !.execution = IF failing THEN "error" ELSE "returned"])

EndTransport(o, complete, sent) ==
  IF o.terminal # NotYet THEN Record(o)
  ELSE Record([o EXCEPT !.terminal =
                 [completion |-> IF complete THEN "complete" ELSE "disconnected",
                  status |-> sent]])

ResultOf(o) == [completion |-> o.terminal.completion, status |-> o.terminal.status,
                execution |-> o.as]

\* Mutant: excluded requests are counted too.
ObserveAlways(r, o) ==
  /\ observed' = [observed EXCEPT ![r] = o]
  /\ IF o.recorded /\ ~observed[r].recorded
     THEN \/ /\ requests' = [requests EXCEPT ![ResultOf(o)] = @ + 1]
             /\ failed' \in {failed, TRUE}
          \/ requests' = requests /\ failed' = TRUE
     ELSE UNCHANGED <<requests, failed>>

\* The observation of r becomes o.  If that records it, the metrics count it
\* and the log has it, unless one of them throws.
Observe(r, o) ==
  /\ observed' = [observed EXCEPT ![r] = o]
  /\ IF o.recorded /\ ~observed[r].recorded /\ r \notin excluded
     THEN \/ /\ requests' = [requests EXCEPT ![ResultOf(o)] = @ + 1]
             /\ failed' \in {failed, TRUE}
          \/ requests' = requests /\ failed' = TRUE
     ELSE UNCHANGED <<requests, failed>>

-----------------------------------------------------------------------------
(* Express and Nest.                                                       *)

Goto(r, s) == stage' = [stage EXCEPT ![r] = s]

\* response.json: what is written after the connection closed goes nowhere.
Answer(r, code) ==
  /\ status' = [status EXCEPT ![r] = code]
  /\ socket' = [socket EXCEPT ![r] = IF closed[r] THEN @ ELSE "ended"]

\* observeHttp; an excluded request does not wait for its handler.
Arrive(r) ==
  /\ stage[r] = "new" /\ Goto(r, "parsing")
  /\ Observe(r, IF r \in excluded THEN EndExecution(Fresh, FALSE) ELSE Fresh)
  /\ UNCHANGED <<excluded, failure, socket, closed, status>>

\* Mutant: a refusal does not end the execution.
RefuseUnobserved(r) ==
  /\ stage[r] = "parsing" /\ Goto(r, "answered")
  /\ Answer(r, "problem")
  /\ UNCHANGED <<excluded, failure, closed, observed, requests, failed>>

\* The middlewares for a method that is not allowed and for a body that is no
\* JSON, and the filter for a path nobody serves.
Refuse(r) ==
  /\ stage[r] = "parsing" /\ Goto(r, "answered")
  /\ Observe(r, EndExecution(observed[r], FALSE))
  /\ Answer(r, "problem")
  /\ UNCHANGED <<excluded, failure, closed>>

Handle(r) ==
  /\ stage[r] = "parsing" /\ Goto(r, "handling")
  /\ UNCHANGED <<excluded, failure, socket, closed, status, observed, requests, failed>>

\* The Observable of the handler completes: the finalize of the interceptor.
Completes(r) ==
  /\ stage[r] = "handling" /\ Goto(r, "sending")
  /\ Observe(r, EndExecution(observed[r], FALSE))
  /\ UNCHANGED <<excluded, failure, socket, closed, status>>

Send(r) ==
  /\ stage[r] = "sending" /\ Goto(r, "answered")
  /\ Answer(r, "ok")
  /\ UNCHANGED <<excluded, failure, closed, observed, requests, failed>>

\* ProblemFilter, for an error that is a documented problem or is not.
Filter(r, o, unexpected) ==
  /\ Goto(r, "answered")
  /\ failure' = [failure EXCEPT ![r] =
                   IF @ = "none" /\ unexpected THEN "handler" ELSE @]
  /\ Observe(r, EndExecution(o, unexpected))
  /\ Answer(r, "problem")
  /\ UNCHANGED <<excluded, closed>>

\* The Observable fails.  RxJS runs finalize as soon as the error is handed
\* to the promise, and the filter sees the error only after that.
Throws(r) ==
  /\ stage[r] = "handling"
  /\ \E unexpected \in BOOLEAN :
       Filter(r, EndExecution(observed[r], FALSE), unexpected)

\* The result cannot be sent as JSON.
SendThrows(r) ==
  /\ stage[r] = "sending" /\ Filter(r, observed[r], TRUE)

\* All of the response is handed to the operating system.
Finish(r) ==
  /\ socket[r] = "ended" /\ ~closed[r] /\ failure[r] # "response"
  /\ socket' = [socket EXCEPT ![r] = "finished"]
  /\ Observe(r, EndTransport(observed[r], TRUE, status[r]))
  /\ UNCHANGED <<excluded, stage, failure, closed, status>>

\* After every finish, and whenever the client goes away before.
Close(r) ==
  /\ stage[r] # "new" /\ ~closed[r]
  /\ closed' = [closed EXCEPT ![r] = TRUE]
  /\ Observe(r, EndTransport(observed[r], socket[r] = "finished", status[r]))
  /\ UNCHANGED <<excluded, stage, failure, socket, status>>

\* The error event of the response: it will never finish.
ResponseErrors(r) ==
  /\ stage[r] \in {"handling", "sending", "answered"}
  /\ socket[r] # "finished" /\ ~closed[r] /\ failure[r] # "response"
  /\ failure' = [failure EXCEPT ![r] = "response"]
  /\ Observe(r, EndExecution(observed[r], TRUE))
  /\ UNCHANGED <<excluded, stage, socket, closed, status>>

Nest(r) == Refuse(r) \/ Handle(r) \/ Completes(r) \/ Send(r) \/ Throws(r) \/ SendThrows(r)

Next ==
  \E r \in Requests : Arrive(r) \/ Nest(r) \/ Finish(r) \/ Close(r) \/ ResponseErrors(r)

\* Handlers end (see EveryRunEnds of WorkerTransaction), connections close.
Fairness == \A r \in Requests :
  WF_vars(Nest(r)) /\ WF_vars(Finish(r)) /\ WF_vars(Close(r))

Spec == Init /\ [][Next]_vars
FairSpec == Spec /\ Fairness

-----------------------------------------------------------------------------
Recorded(l) == Cardinality(
  {r \in Requests \ excluded : observed[r].recorded /\ ResultOf(observed[r]) = l})

\* Although five callers end the execution and two events the transport, an
\* exchange is counted exactly once, as what was recorded of it then, and an
\* excluded one never; unless the observation admits to have failed.
EveryExchangeIsCountedOnce ==
  ~failed => \A l \in Results : requests[l] = Recorded(l)

\* "complete" is recorded if and only if the whole response was handed over:
\* the close that follows a finish does not make it a disconnect, and a client
\* that left while the answer was being sent did not get it.  The status is
\* the one that was sent, or none if the client left before there was any.
CompletionIsTruthful ==
  \A r \in Requests : observed[r].terminal # NotYet =>
    /\ (observed[r].terminal.completion = "complete") = (socket[r] = "finished")
    /\ observed[r].terminal.status \in {"none", status[r]}
    /\ socket[r] = "finished" => observed[r].terminal.status = status[r]

\* The interceptor ends the execution of a failed handler first, as returned,
\* because it does not see the error; and yet a failure whose answer reached
\* the client, and a response that broke, are always recorded as errors.
VisibleFailuresAreErrors ==
  \A r \in Requests : observed[r].recorded =>
    \/ failure[r] = "none"
    \/ failure[r] = "handler" /\ socket[r] # "finished"
    \/ observed[r].as = "error"

\* What the labels are documented to mean: "execution" says whether the
\* handler failed unexpectedly, also when the client had left before.
FailuresAreErrors ==
  \A r \in Requests \ excluded :
    observed[r].recorded /\ failure[r] # "none" => observed[r].as = "error"

\* Every exchange that arrives is recorded in the end: no way out of Express
\* or Nest forgets to end the execution or the transport.
EveryExchangeIsRecorded ==
  \A r \in Requests : stage[r] = "parsing" ~> observed[r].recorded
=============================================================================
