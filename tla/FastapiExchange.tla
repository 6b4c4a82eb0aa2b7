--------------------------- MODULE FastapiExchange ---------------------------
(***************************************************************************)
(* An HTTP exchange of a FastAPI process from end to end: the wrapper that *)
(* observes it (HttpObservation), the session, connection and transaction  *)
(* of a reservation (PoolMetrics), the answer the exception handlers make  *)
(* of how that ended, and the lines that are logged about it, by the       *)
(* wrapper and, once the exception has reached it, by the server.          *)
(*                                                                         *)
(* The two metric owners share one flag: DatabaseMetrics.owner is the      *)
(* HttpMetrics, so that a report lost by either makes /metrics answer 503. *)
(* FastCRUD's copy of all this differs in its imports only.                *)
(***************************************************************************)
EXTENDS PoolMetrics, Sequences

CONSTANTS
  Scrapes,
  OtherStatuses  \* bound: what exchanges that are no reservations answer

VARIABLES
  \* Those of HttpObservation, which shares "failed" with PoolMetrics.
  excluded, stage, client, sending, wire, seen, execution, result, requests,
  duration, scrape,
  reserving,  \* the exchanges that are POST /v1/reservations; fixed
  answer,     \* the status of the response the application has made
  traceback,  \* the code each exchange's exception has come through
  reported,   \* the exchanges with a line "http.failed"
  serverLine, \* is there a line of the server about the end of each exchange
  read        \* what each scrape has read of both owners

Statuses == {"200", "201", "4xx", "503", "500"}

ASSUME OtherStatusesAssumption == OtherStatuses \subseteq Statuses \ {"201"}

Http == INSTANCE HttpObservation

\* The code an exception comes through.  configure_logging is given that of
\* the wrapper as http_boundary.
Code == {"server", "HttpObservation.__call__", "application"}
http_boundary == "HttpObservation.__call__"

httpVars == <<excluded, stage, client, sending, wire, seen, execution, result,
              requests, duration, scrape>>
dbVars == <<phase, cancelled, acquisition, outcome, holder, started, metric>>
ownVars == <<answer, traceback, reported, serverLine, read>>
exchangeVars == <<httpVars, dbVars, failed, reserving, ownVars>>

ExchangeTypeOK ==
  /\ Http!TypeOK /\ TypeOK
  /\ reserving \in SUBSET Requests
  /\ answer \in [Requests -> Statuses \cup {"none"}]
  /\ traceback \in [Requests -> Seq(Code)]
  /\ reported \in SUBSET Requests
  /\ serverLine \in [Requests -> {"waiting", "silent", "logged"}]
  /\ read \in [Scrapes -> [created: Nat, committed: Nat, stage: {"none", "read"}, lossy: BOOLEAN]]

ExchangeInit ==
  /\ Http!Init /\ Init
  /\ reserving \in SUBSET (Requests \ excluded)
  /\ answer = [r \in Requests |-> "none"]
  /\ traceback = [r \in Requests |-> <<>>]
  /\ reported = {}
  /\ serverLine = [r \in Requests |-> "waiting"]
  /\ read = [s \in Scrapes |->
               [created |-> 0, committed |-> 0, stage |-> "none", lossy |-> FALSE]]

-----------------------------------------------------------------------------
(* The transaction of a reservation. *)

\* What the exception handlers can make of how the service ended; any answer
\* may still fail to be built, or the session to close.
Answers(r) ==
  {"500"} \cup
    CASE outcome[r] = "committed" -> {"201"}
      [] outcome[r] = "none" -> {"4xx"}
      [] OTHER -> IF acquisition[r] = "acquired" THEN {"4xx", "503"} ELSE {"503"}

Working(r) == stage[r] = "running" /\ answer[r] = "none"

Session(r) ==
  \/ /\ OpenSession(r) /\ r \in reserving /\ Working(r)
     /\ ~seen[r].disconnected
  \/ Refuse(r) \/ PoolTimesOut(r) \/ Begin(r) \/ RecordAcquisition(r)
  \/ Cancel(r) \/ Fail(r) \/ RecordTransaction(r)
  \/ \E c \in Records :
       Checkout(r, c) \/ CannotConnect(r, c) \/ Commit(r, c) \/ Return(r, c)

Reserve(r) ==
  /\ Session(r)
  /\ UNCHANGED <<httpVars, reserving, ownVars>>

\* The service has ended; the answer is made of its result or its exception.
MakeAnswer(r) ==
  /\ phase[r] = "counted" /\ r \notin cancelled /\ Working(r)
  /\ \E a \in Answers(r) : answer' = [answer EXCEPT ![r] = a]
  /\ UNCHANGED <<httpVars, dbVars, failed, reserving, traceback, reported, serverLine, read>>

\* The body cannot be read or parsed: no session is opened for it.
RefuseBody(r) ==
  /\ r \in reserving /\ phase[r] = "new" /\ Working(r)
  /\ answer' = [answer EXCEPT ![r] = "4xx"]
  /\ UNCHANGED <<httpVars, dbVars, failed, reserving, traceback, reported, serverLine, read>>

\* The session of scope "function" closes before the response is sent.
EndSession(r) ==
  /\ CloseSession(r)
  /\ r \in cancelled \/ answer[r] # "none"
  /\ UNCHANGED <<httpVars, reserving, ownVars>>

-----------------------------------------------------------------------------
(* The exchange around it. *)

\* Mutant: the session has the scope "request", FastAPI's default.
MadeAnswer(r) == answer[r] # "none"

\* May the response to a reservation be sent.
Responding(r) ==
  answer[r] # "none" /\ phase[r] \in {"new", "done"} /\ r \notin cancelled

\* A request is read before its session is opened.  What is sent is the answer,
\* and the handler of the last resort raises the exception again.
Proceed(r) ==
  \/ Http!Arrive(r) /\ serverLine[r] = "waiting"
  \/ Http!Send(r) /\ (r \in reserving => Responding(r))
  \/ Http!SendReturns(r) /\ (IF r \in reserving THEN wire'[r].status = answer[r]
                                                 ELSE wire'[r].status \in OtherStatuses)
  \/ Http!Receive(r) /\ (r \in reserving => phase[r] = "new" /\ answer[r] = "none")
  \/ Http!Return(r) /\ (r \in reserving => wire[r].whole /\ answer[r] # "500")
  \/ Http!ClientGoes(r)

BreakOff(r) ==
  \/ Http!SendFails(r)
  \/ Http!Raise(r) /\ (r \in reserving => wire[r].whole /\ answer[r] = "500")
  \/ Http!Cancel(r) /\ (r \in reserving =>
                          /\ phase[r] \in {"new", "done"}
                          /\ wire'[r].status \in {wire[r].status, answer[r]})

\* An exception leaves a piece of code: the frame goes in front of those it has
\* come through before.
Unwind(r, code) == traceback' = [traceback EXCEPT ![r] = <<code>> \o @]

Exchange(r) ==
  /\ \/ Proceed(r) /\ UNCHANGED traceback
     \/ BreakOff(r) /\ Unwind(r, "application")
  /\ UNCHANGED <<dbVars, reserving, answer, reported, serverLine, read>>

-----------------------------------------------------------------------------
(* What is logged about it (core/logging.py). *)

\* Mutant: what was sent counts, not how the application ended.
RequestOutcomeByStatus(res) ==
  IF res.status = "none" THEN "unknown"
  ELSE IF res.status \in {"200", "201"} THEN "success" ELSE "failure"

\* The outcome of a status below 400 is a success.
RequestOutcome(res) ==
  IF res.execution # "returned" \/ res.completion # "complete" THEN "failure"
  ELSE IF res.status = "none" THEN "unknown"
  ELSE IF res.status \in {"200", "201"} THEN "success" ELSE "failure"

EVENTS == {"http.completed", "http.failed", "greeting.completed"}
InAsgi == "Exception in ASGI application"
Unfinished == "ASGI callable returned without completing response"

\* A record that one of the two loggers hands to its handler: the traceback of
\* its exc_info is empty if it has none.
LogRecord(name, msg, frames) == [name |-> name, msg |-> msg, traceback |-> frames]

CameThrough(frames, code) == \E i \in DOMAIN frames : frames[i] = code

\* Mutant: only the outermost frame is looked at.
FilterPassesByTop(record) ==
  \/ record.name = "template_api" /\ record.msg \in EVENTS
  \/ /\ record.name = "uvicorn"
     /\ ~(record.msg = InAsgi /\ record.traceback # <<>> /\ Head(record.traceback) = http_boundary)

\* Mutant: the server's message is enough to drop its line.
FilterPassesByMessage(record) ==
  \/ record.name = "template_api" /\ record.msg \in EVENTS
  \/ record.name = "uvicorn" /\ record.msg # InAsgi

\* EventFilter: the server's line about an exception is dropped if that came
\* through the wrapper, and no other line of the server is.
FilterPasses(record) ==
  \/ record.name = "template_api" /\ record.msg \in EVENTS
  \/ /\ record.name = "uvicorn"
     /\ ~(record.msg = InAsgi /\ CameThrough(record.traceback, http_boundary))

\* The wrapper's finally block, after which the exception travels on.
\* "http.failed" is logged for an error only, also on an excluded path.
LeaveWrapper(r) ==
  IF execution[r] = "returned" THEN UNCHANGED traceback ELSE Unwind(r, http_boundary)

ReportError(r) ==
  /\ Http!Resolve(r) /\ LeaveWrapper(r)
  /\ reported' = IF execution[r] = "error"
                    /\ FilterPasses(LogRecord("template_api", "http.failed", traceback'[r]))
                 THEN reported \cup {r} ELSE reported
  /\ UNCHANGED <<dbVars, reserving, answer, serverLine, read>>

RecordExchange(r) ==
  /\ \/ Http!ErrorLogFails(r) /\ LeaveWrapper(r)
     \/ Http!Count(r) /\ UNCHANGED traceback
     \/ Http!Observe(r) /\ UNCHANGED traceback
     \/ Http!RecordFails(r) /\ UNCHANGED traceback
  /\ UNCHANGED <<dbVars, reserving, answer, reported, serverLine, read>>

ServerLogs(r, msg, frames) ==
  serverLine' = [serverLine EXCEPT ![r] =
    IF FilterPasses(LogRecord("uvicorn", msg, frames)) THEN "logged" ELSE "silent"]

\* The exception, or none, reaches the server, which reports it, and also a
\* response that the application left unfinished for a client that is there.
ServerEnds(r) ==
  /\ stage[r] = "done" /\ serverLine[r] = "waiting"
  /\ IF traceback[r] # <<>>
     THEN Unwind(r, "server") /\ ServerLogs(r, InAsgi, traceback'[r])
     ELSE /\ UNCHANGED traceback
          /\ IF wire[r].whole \/ client[r] = "gone"
             THEN serverLine' = [serverLine EXCEPT ![r] = "silent"]
             ELSE ServerLogs(r, Unfinished, <<>>)
  /\ UNCHANGED <<httpVars, dbVars, failed, reserving, answer, reported, read>>

\* Something of the server's own raises before the wrapper is called.
ServerFails(r) ==
  /\ stage[r] = "new" /\ serverLine[r] = "waiting"
  /\ Unwind(r, "server") /\ ServerLogs(r, InAsgi, traceback'[r])
  /\ UNCHANGED <<httpVars, dbVars, failed, reserving, answer, reported, read>>

\* Nothing is awaited between the wrapper's end and the server's.
ServerCaughtUp(r) ==
  \A q \in Requests \ {r} : stage[q] = "done" => serverLine[q] # "waiting"

-----------------------------------------------------------------------------
(* GET /metrics: the registry collects HttpMetrics before DatabaseMetrics. *)

\* The counts of the labels with status 201, one by one, and their sum.
CreatedCounts ==
  UNION {{l} \X (1..requests[l]) : l \in {m \in DOMAIN requests : m.status = "201"}}
Created == Cardinality(CreatedCounts)

\* "lossy" is no state of the program: were reports lost by the time of reading.
ReadHttp(s) ==
  /\ Http!ReadRequests(s)
  /\ read' = [read EXCEPT ![s].created = Created, ![s].lossy = failed]
  /\ UNCHANGED <<dbVars, reserving, answer, traceback, reported, serverLine>>

\* Mutant: the database's metrics are registered, and collected, first.
ReadDatabaseFirst(s) ==
  /\ scrape[s].stage = "checked" /\ read[s].stage = "none"
  /\ read' = [read EXCEPT ![s] = [@ EXCEPT !.committed = metric["committed"], !.stage = "read",
                                          !.lossy = failed]]
  /\ UNCHANGED <<httpVars, dbVars, failed, reserving, answer, traceback, reported, serverLine>>

ReadDatabase(s) ==
  /\ scrape[s].stage = "ok" /\ read[s].stage = "none"
  /\ read' = [read EXCEPT ![s] = [@ EXCEPT !.committed = metric["committed"], !.stage = "read",
                                          !.lossy = failed]]
  /\ UNCHANGED <<httpVars, dbVars, failed, reserving, answer, traceback, reported, serverLine>>

Scraping(s) ==
  \/ /\ Http!Check(s) \/ Http!ReadDuration(s) \/ Http!ScrapeFails(s)
     /\ UNCHANGED <<dbVars, reserving, ownVars>>
  \/ ReadHttp(s)
  \/ ReadDatabase(s)

-----------------------------------------------------------------------------
ExchangeNext ==
  \/ \E r \in Requests :
       /\ Http!OnTheLoop(r) /\ ServerCaughtUp(r)
       /\ \/ Reserve(r) \/ MakeAnswer(r) \/ RefuseBody(r) \/ EndSession(r)
          \/ Exchange(r) \/ ReportError(r) \/ RecordExchange(r)
          \/ ServerEnds(r) \/ ServerFails(r)
  \/ \E s \in Scrapes : Scraping(s)

ExchangeSpec == ExchangeInit /\ [][ExchangeNext]_exchangeVars

-----------------------------------------------------------------------------
(* Safety. *)

\* As long as no report is lost, gauges and counters of both owners say what
\* has been, each exchange and each transaction once (core/metrics.py:19-30,
\* core/database_metrics.py:38-57).
EverythingIsCountedOnce ==
  /\ ExchangeTypeOK
  /\ Http!EveryExchangeIsCountedOnce
  /\ PoolInv /\ GaugesAreTrue

\* An exchange is a success in the log exactly if the application came to its
\* end and the server took all of a response that is no refusal, which is
\* decided from what the wrapper saw of it; and then a reservation is
\* committed (core/logging.py:159-167).
SuccessIsDelivered ==
  \A r \in Requests : result[r] # Http!NoResult =>
    LET success == RequestOutcome(result[r]) = "success"
    IN  /\ success <=> /\ execution[r] = "returned" /\ wire[r].whole
                       /\ wire[r].status \in {"200", "201"}
        /\ success /\ r \in reserving => outcome[r] = "committed"

\* What is recorded of an exchange, and logged as its outcome, is what happened
\* on the wire (http/observation.py:35-51, core/logging.py:159-167).
CompletionIsTruthful == Http!CompletionIsTruthful /\ SuccessIsDelivered

\* A client is told what has become of its reservation: 201 only if it is
\* committed, and neither a refusal nor "try again" once it is; and a response
\* that is on its way holds neither a session nor a connection, however slow
\* its client is (http/database.py:9-18, dependencies/database.py:23-25).
AnswersAreSettled ==
  \A r \in reserving : wire[r].status # "none" =>
    /\ wire[r].status = "201" => outcome[r] = "committed"
    /\ wire[r].status \in {"4xx", "503"} => outcome[r] # "committed"
    /\ phase[r] \in {"new", "done"}
    /\ \A c \in Records : holder[c] # r

\* What the log has to tell of the end of an exchange: an error, inside or
\* outside of the wrapper, or a response nobody finished; not a cancellation.
WentWrong(r) ==
  \/ stage[r] = "new"
  \/ execution[r] = "error"
  \/ execution[r] = "returned" /\ ~wire[r].whole /\ client[r] = "there"

\* Once the server is through with an exchange, what went wrong has been logged
\* and what did not has not; by the wrapper or by the server and never by both,
\* although an error passes both; it is missing only if the wrapper's own line
\* broke, and the metrics admit a loss (core/logging.py:123-140).
ErrorsAreLoggedOnce ==
  \A r \in Requests : serverLine[r] # "waiting" =>
    /\ r \notin reported \/ serverLine[r] # "logged"
    /\ r \in reported \/ serverLine[r] = "logged" => WentWrong(r)
    /\ WentWrong(r) =>
         r \in reported \/ serverLine[r] = "logged" \/ (failed /\ execution[r] = "error")

\* A scrape that answers 200 has all that had been reported when it began, and
\* shows no reservation as created that it does not show as committed, unless
\* a report was lost meanwhile: the registry is collected in the order of the
\* registrations, and reports come in the opposite order
\* (bootstrap/app.py:57-61, routers/metrics.py:19-34).
ScrapeIsComplete ==
  /\ Http!ScrapeIsComplete
  /\ \A s \in Scrapes :
       scrape[s].stage = "ok" /\ read[s].stage = "read" /\ ~read[s].lossy =>
         read[s].created <= read[s].committed
=============================================================================
