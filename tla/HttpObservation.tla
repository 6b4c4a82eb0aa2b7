---------------------------- MODULE HttpObservation ----------------------------
(***************************************************************************)
(* What the FastAPI implementations record of an HTTP exchange.            *)
(* HttpObservation wraps the finished ASGI application: it looks at each   *)
(* send and receive of the application and, when the application ends,     *)
(* counts the exchange once in HttpMetrics.  GET /metrics runs in a worker *)
(* thread, so a scrape may fall between any two steps of a recording.      *)
(*                                                                         *)
(* "wire" is what the server really took; "seen" is what the wrapper saw   *)
(* of it.  They differ because a task may be cancelled while a send is     *)
(* awaited, after the server took the message and before send returned.    *)
(***************************************************************************)
EXTENDS Integers, FiniteSets

CONSTANTS Requests, Scrapes,
          Statuses  \* bound: the status codes that occur

VARIABLES
  excluded,  \* the requests for a path of EXCLUDED_PATHS
  stage,     \* where each exchange is
  client,    \* is the client still connected
  sending,   \* does the application await a send, or was cancelled in one
  wire,      \* what the server took of each response
  seen,      \* finished, status, send_failed, disconnected of the wrapper
  execution, \* how the application ended
  result,    \* HttpRequestResult
  requests,  \* http_requests_total: a count for each label it has
  duration,  \* the number of observations of http_request_duration_seconds
  failed,    \* HttpMetrics.failed
  scrape     \* each GET /metrics: its progress and what it read

exchange == <<excluded, client, sending, wire, seen, execution>>
metrics == <<requests, duration, failed>>
vars == <<exchange, stage, result, metrics, scrape>>

HttpExecution == {"returned", "error", "cancelled"}
HttpCompletion ==
  {"complete", "send_failed", "cancelled", "disconnected", "incomplete"}
Labels == [status: Statuses \cup {"none"}, completion: HttpCompletion,
           execution: HttpExecution]
Unseen == [finished |-> FALSE, status |-> "none",
           send_failed |-> FALSE, disconnected |-> FALSE]
NoResult == [status |-> "none", completion |-> "none", execution |-> "none"]
NoCounts == [l \in {} |-> 0]
Unread == [stage |-> "idle", due |-> {}, complete |-> TRUE]

TypeOK ==
  /\ excluded \in SUBSET Requests
  /\ stage \in [Requests -> {"new", "running", "ended", "resolved", "counted", "done"}]
  /\ client \in [Requests -> {"there", "gone"}]
  /\ sending \in [Requests -> BOOLEAN]
  /\ wire \in [Requests -> [status: Statuses \cup {"none"}, whole: BOOLEAN]]
  /\ seen \in [Requests -> [finished: BOOLEAN, status: Statuses \cup {"none"},
                            send_failed: BOOLEAN, disconnected: BOOLEAN]]
  /\ execution \in [Requests -> HttpExecution]
  /\ result \in [Requests -> Labels \cup {NoResult}]
  /\ DOMAIN requests \subseteq Labels /\ requests \in [DOMAIN requests -> Nat \ {0}]
  /\ DOMAIN duration \subseteq Labels /\ duration \in [DOMAIN duration -> Nat \ {0}]
  /\ failed \in BOOLEAN
  /\ scrape \in [Scrapes -> [stage: {"idle", "checked", "reading", "ok", "unavailable"},
                            due: SUBSET Requests, complete: BOOLEAN]]

Init ==
  /\ excluded \in SUBSET Requests
  /\ stage = [r \in Requests |-> "new"]
  /\ client = [r \in Requests |-> "there"]
  /\ sending = [r \in Requests |-> FALSE]
  /\ wire = [r \in Requests |-> [status |-> "none", whole |-> FALSE]]
  /\ seen = [r \in Requests |-> Unseen]
  /\ execution = [r \in Requests |-> "returned"]
  /\ result = [r \in Requests |-> NoResult]
  /\ requests = NoCounts /\ duration = NoCounts /\ failed = FALSE
  /\ scrape = [s \in Scrapes |-> Unread]

-----------------------------------------------------------------------------
(* The exchange: the application, its client and the server.               *)

Running(r) == stage[r] = "running" /\ ~sending[r]

Arrive(r) ==
  /\ stage[r] = "new"
  /\ stage' = [stage EXCEPT ![r] = "running"]
  /\ UNCHANGED <<exchange, result, metrics, scrape>>

ClientGoes(r) ==
  /\ stage[r] = "running" /\ client[r] = "there"
  /\ client' = [client EXCEPT ![r] = "gone"]
  /\ UNCHANGED <<excluded, sending, wire, seen, execution, stage, result, metrics, scrape>>

\* The application awaits send(message): a response has one start and one
\* last body.  Bodies with more_body change nothing and are left out.
Send(r) ==
  /\ Running(r) /\ ~wire[r].whole
  /\ sending' = [sending EXCEPT ![r] = TRUE]
  /\ UNCHANGED <<excluded, client, wire, seen, execution, stage, result, metrics, scrape>>

\* The message awaited, as the server takes it: also for a client that left.
Taken(r) ==
  IF wire[r].status = "none"
  THEN {[wire[r] EXCEPT !.status = status] : status \in Statuses}
  ELSE {[wire[r] EXCEPT !.whole = TRUE]}

SendReturns(r) ==
  /\ stage[r] = "running" /\ sending[r]
  /\ \E taken \in Taken(r) :
       /\ wire' = [wire EXCEPT ![r] = taken]
       /\ seen' = [seen EXCEPT ![r].status = taken.status, ![r].finished = taken.whole]
  /\ sending' = [sending EXCEPT ![r] = FALSE]
  /\ UNCHANGED <<excluded, client, execution, stage, result, metrics, scrape>>

\* observed_receive: a server reports a disconnect when the client is gone,
\* and also once the response is complete.
Receive(r) ==
  /\ Running(r) /\ ~seen[r].disconnected
  /\ client[r] = "gone" \/ wire[r].whole
  /\ seen' = [seen EXCEPT ![r].disconnected = TRUE]
  /\ UNCHANGED <<excluded, client, sending, wire, execution, stage, result, metrics, scrape>>

Ends(r, how) ==
  /\ stage' = [stage EXCEPT ![r] = "ended"]
  /\ execution' = [execution EXCEPT ![r] = how]
  /\ UNCHANGED <<excluded, client, sending, result, metrics, scrape>>

\* send raises OSError, which the application does not survive.
SendFails(r) ==
  /\ stage[r] = "running" /\ sending[r] /\ client[r] = "gone"
  /\ seen' = [seen EXCEPT ![r].send_failed = TRUE]
  /\ Ends(r, "error") /\ UNCHANGED wire

Return(r) == Running(r) /\ Ends(r, "returned") /\ UNCHANGED <<wire, seen>>

\* Before, during or after the response: a body that breaks off, an error
\* handler that answers 500 and raises again, a background task.
Raise(r) == Running(r) /\ Ends(r, "error") /\ UNCHANGED <<wire, seen>>

\* Any await of the application may raise CancelledError, that of a send
\* before or after the server took the message.
Cancel(r) ==
  /\ stage[r] = "running"
  /\ \/ UNCHANGED wire
     \/ sending[r] /\ \E taken \in Taken(r) : wire' = [wire EXCEPT ![r] = taken]
  /\ Ends(r, "cancelled") /\ UNCHANGED seen

-----------------------------------------------------------------------------
(* The finally block of the wrapper.                                       *)

\* Mutant: a cancellation outranks a response that is already out.
ResolveCompletionByExecution(r) ==
  IF execution[r] = "cancelled" THEN "cancelled"
  ELSE IF seen[r].finished THEN "complete"
  ELSE IF seen[r].send_failed THEN "send_failed"
  ELSE IF seen[r].disconnected THEN "disconnected" ELSE "incomplete"

ResolveCompletion(r) ==
  IF seen[r].finished THEN "complete"
  ELSE IF seen[r].send_failed THEN "send_failed"
  ELSE IF execution[r] = "cancelled" THEN "cancelled"
  ELSE IF seen[r].disconnected THEN "disconnected" ELSE "incomplete"

Resolve(r) ==
  /\ stage[r] = "ended"
  /\ result' = [result EXCEPT ![r] =
       [status |-> seen[r].status, completion |-> ResolveCompletion(r),
        execution |-> execution[r]]]
  /\ stage' = [stage EXCEPT ![r] = IF r \in excluded THEN "done" ELSE "resolved"]
  /\ UNCHANGED <<exchange, metrics, scrape>>

\* The log line of an error breaks before anything is counted.
ErrorLogFails(r) ==
  /\ stage[r] = "ended" /\ execution[r] = "error"
  /\ result' = [result EXCEPT ![r] =
       [status |-> seen[r].status, completion |-> ResolveCompletion(r),
        execution |-> execution[r]]]
  /\ failed' = TRUE
  /\ stage' = [stage EXCEPT ![r] = "done"]
  /\ UNCHANGED <<exchange, requests, duration, scrape>>

\* A label appears with its first count.
CountOf(l, counts) == IF l \in DOMAIN counts THEN counts[l] ELSE 0
Add(counts, r) ==
  [l \in DOMAIN counts \cup {result[r]} |->
     CountOf(l, counts) + (IF l = result[r] THEN 1 ELSE 0)]

\* Mutant: HttpMetrics.record observes the duration twice.
CountTwice(r) ==
  /\ stage[r] = "resolved"
  /\ requests' = Add(requests, r)
  /\ duration' = Add(duration, r)
  /\ stage' = [stage EXCEPT ![r] = "counted"]
  /\ UNCHANGED <<exchange, result, failed, scrape>>

Count(r) ==
  /\ stage[r] = "resolved"
  /\ requests' = Add(requests, r)
  /\ stage' = [stage EXCEPT ![r] = "counted"]
  /\ UNCHANGED <<exchange, result, duration, failed, scrape>>

\* The log line of the exchange comes last, and may break.
Observe(r) ==
  /\ stage[r] = "counted"
  /\ duration' = Add(duration, r)
  /\ failed' \in {failed, TRUE}
  /\ stage' = [stage EXCEPT ![r] = "done"]
  /\ UNCHANGED <<exchange, result, requests, scrape>>

\* Mutant: the failure of a recording is swallowed.
RecordFailsQuietly(r) ==
  /\ stage[r] \in {"resolved", "counted"}
  /\ stage' = [stage EXCEPT ![r] = "done"]
  /\ UNCHANGED <<exchange, result, metrics, scrape>>

\* HttpMetrics.record: either half may raise.
RecordFails(r) ==
  /\ stage[r] \in {"resolved", "counted"}
  /\ failed' = TRUE
  /\ stage' = [stage EXCEPT ![r] = "done"]
  /\ UNCHANGED <<exchange, result, requests, duration, scrape>>

-----------------------------------------------------------------------------
(* GET /metrics, in a thread of its own.                                   *)

Done == {r \in Requests : stage[r] = "done" /\ r \notin excluded}

\* "due" and "complete" are no state of the program: they remember what was
\* recorded when the scrape began, and whether all of it was in what it read.
Check(s) ==
  /\ scrape[s].stage = "idle"
  /\ scrape' = [scrape EXCEPT ![s] =
       IF failed THEN [@ EXCEPT !.stage = "unavailable"]
                 ELSE [@ EXCEPT !.stage = "checked", !.due = Done]]
  /\ UNCHANGED <<exchange, stage, result, metrics>>

Covers(counts, s) ==
  \A q \in scrape[s].due :
    Cardinality({r \in scrape[s].due : result[r] = result[q]}) <= CountOf(result[q], counts)

\* generate_latest collects one metric after the other.
ReadRequests(s) ==
  /\ scrape[s].stage = "checked"
  /\ scrape' = [scrape EXCEPT ![s].stage = "reading", ![s].complete = Covers(requests, s)]
  /\ UNCHANGED <<exchange, stage, result, metrics>>

ReadDuration(s) ==
  /\ scrape[s].stage = "reading"
  /\ scrape' = [scrape EXCEPT ![s] =
       [stage |-> "ok", due |-> {}, complete |-> @.complete /\ Covers(duration, s)]]
  /\ UNCHANGED <<exchange, stage, result, metrics>>

ScrapeFails(s) ==
  /\ scrape[s].stage \in {"checked", "reading"}
  /\ failed' = TRUE
  /\ scrape' = [scrape EXCEPT ![s] = [Unread EXCEPT !.stage = "unavailable"]]
  /\ UNCHANGED <<exchange, stage, result, requests, duration>>

-----------------------------------------------------------------------------
Application(r) ==
  \/ Arrive(r) \/ Send(r) \/ SendReturns(r) \/ SendFails(r) \/ Receive(r)
  \/ Return(r) \/ Raise(r) \/ Cancel(r)
Finally(r) ==
  \/ Resolve(r) \/ ErrorLogFails(r) \/ Count(r) \/ Observe(r) \/ RecordFails(r)
Scraping(s) ==
  Check(s) \/ ReadRequests(s) \/ ReadDuration(s) \/ ScrapeFails(s)

\* The event loop is one thread and the finally block awaits nothing.
OnTheLoop(r) == \A q \in Requests \ {r} : stage[q] \in {"new", "running", "done"}

Next ==
  \/ \E r \in Requests : OnTheLoop(r) /\ (Application(r) \/ ClientGoes(r) \/ Finally(r))
  \/ \E s \in Scrapes : Scraping(s)

Spec == Init /\ [][Next]_vars

-----------------------------------------------------------------------------
\* What is recorded of an exchange is what happened on the wire, although it
\* is decided from the wrapper's own flags: a response whose last send had
\* returned is "complete" whatever came after (an error, a cancellation, a
\* disconnect), only a response the server took whole is, and a client is
\* blamed ("send_failed", "disconnected") only if it did leave.
CompletionIsTruthful ==
  \A r \in Requests : result[r] # NoResult =>
    /\ wire[r].whole /\ ~sending[r] => result[r].completion = "complete"
    /\ result[r].completion = "complete" => wire[r].whole
    /\ result[r].completion \in {"send_failed", "disconnected"} =>
         client[r] = "gone" /\ ~wire[r].whole
    /\ result[r].status # "none" => result[r].status = wire[r].status
    /\ result[r].status = "none" =>
         wire[r].status = "none" \/ sending[r]

Recorded(l, where) ==
  Cardinality({r \in Requests \ excluded : stage[r] \in where /\ result[r] = l})

\* Unless the metrics admit to have failed, every exchange is counted exactly
\* once, under its own labels, and excluded paths never: the two metrics of
\* HttpMetrics.record never drift apart, however recordings interleave.
EveryExchangeIsCountedOnce ==
  ~failed =>
    \A l \in DOMAIN requests \cup DOMAIN duration \cup {result[r] : r \in Requests} :
      /\ CountOf(l, requests) = Recorded(l, {"counted", "done"})
      /\ CountOf(l, duration) = Recorded(l, {"done"})

\* A scrape that answers 200 has every exchange whose recording was over when
\* the scrape began, in both metrics, although metrics.failed is read before
\* the values are and recordings go on meanwhile.
ScrapeIsComplete ==
  \A s \in Scrapes : scrape[s].stage = "ok" => scrape[s].complete
=============================================================================
