------------------------ MODULE RequestContextFilter ------------------------
(***************************************************************************)
(* The filter around every Spring request: it puts the request's id in the *)
(* logging context of the thread (MDC) and writes one summary when the     *)
(* request is over, which for an asynchronous request is long after the    *)
(* filter returned and on whatever thread calls its listener.              *)
(*                                                                         *)
(* The servlet container and the handlers are modelled from how the filter *)
(* uses them: a handler may go asynchronous, be dispatched again (the      *)
(* filter is not called for that), restart, complete, time out or fail,    *)
(* and may complete while the filter is still registering its listener.    *)
(***************************************************************************)
EXTENDS Naturals, Sequences

CONSTANTS Requests, Threads, None,
          MaxRestarts   \* how often a dispatched handler goes asynchronous again

ASSUME FilterAssumption ==
  /\ None \notin Requests \cup Threads
  /\ MaxRestarts \in Nat

VARIABLES
  req,       \* each request, as the container and the filter see it
  summary,   \* the summaries written of each request
  mdc,       \* the request in each thread's logging context
  callback   \* the completion each thread is executing, and what it found

filterVars == <<req, summary, mdc, callback>>

-----------------------------------------------------------------------------
Statuses == {"ok", "server_error"}

RequestStates ==
  [place: {"new", "chain", "leaving", "completing", "left"},  \* in the filter
   thread: Threads \cup {None},      \* the thread that runs its code, if any
   async: {"none", "started", "dispatched", "ended", "over"},
   listener: BOOLEAN,                \* the filter's listener is on the cycle
   restarts: 0..MaxRestarts,
   status: Statuses,                 \* response.getStatus()
   error: BOOLEAN,                   \* the attribute error.type is set
   failed: BOOLEAN,                  \* the request has really failed
   completed: BOOLEAN]               \* the filter's AtomicBoolean

Fresh ==
  [place |-> "new", thread |-> None, async |-> "none", listener |-> FALSE,
   restarts |-> 0, status |-> "ok", error |-> FALSE, failed |-> FALSE,
   completed |-> FALSE]

NoCallback == [request |-> None, previous |-> None]

FilterTypeOK ==
  /\ req \in [Requests -> RequestStates]
  /\ summary \in [Requests -> {<<>>, <<"success">>, <<"failure">>}]
  /\ mdc \in [Threads -> Requests \cup {None}]
  /\ callback \in [Threads -> [request: Requests \cup {None},
                               previous: Requests \cup {None}]]

FilterInit ==
  /\ req = [r \in Requests |-> Fresh]
  /\ summary = [r \in Requests |-> <<>>]
  /\ mdc = [t \in Threads |-> None]
  /\ callback = [t \in Threads |-> NoCallback]

Idle(t) == callback[t] = NoCallback /\ \A r \in Requests : req[r].thread # t

\* The thread of r executes r's own code, not a completion it has called.
Runs(r) == req[r].thread # None /\ callback[req[r].thread] = NoCallback

InChain(r) == req[r].place = "chain" /\ Runs(r)
Leaving(r) == req[r].place = "leaving" /\ Runs(r)

\* What an end leaves behind: a status, and perhaps an exception that the
\* application handled and noted in error.type.
Ends(old, status, noted) ==
  [old EXCEPT !.status = status, !.error = @ \/ noted,
              !.failed = @ \/ noted \/ status = "server_error"]

-----------------------------------------------------------------------------
(* doFilterInternal *)

Enter(t, r) ==
  /\ req[r].place = "new"
  /\ Idle(t)
  /\ req' = [req EXCEPT ![r].place = "chain", ![r].thread = t]
  /\ mdc' = [mdc EXCEPT ![t] = r]
  /\ UNCHANGED <<summary, callback>>

StartAsync(r) ==
  /\ InChain(r) /\ req[r].async = "none"
  /\ req' = [req EXCEPT ![r].async = "started"]
  /\ UNCHANGED <<summary, mdc, callback>>

\* chain.doFilter returns; a synchronous request has got its answer.
ChainReturns(r) ==
  /\ InChain(r)
  /\ IF req[r].async = "none"
       THEN \E s \in Statuses, noted \in BOOLEAN :
              req' = [req EXCEPT ![r] = [Ends(@, s, noted) EXCEPT !.place = "leaving"]]
       ELSE req' = [req EXCEPT ![r].place = "leaving"]
  /\ UNCHANGED <<summary, mdc, callback>>

\* Mutant: the exception passes through without being noted.
ChainThrowsUnnoted(r) ==
  /\ InChain(r)
  /\ req' = [req EXCEPT ![r].place = "leaving", ![r].failed = TRUE]
  /\ UNCHANGED <<summary, mdc, callback>>

\* It throws: noted and rethrown.  The container sets the status afterwards.
ChainThrows(r) ==
  /\ InChain(r)
  /\ req' = [req EXCEPT ![r].place = "leaving", ![r].failed = TRUE, ![r].error = TRUE]
  /\ UNCHANGED <<summary, mdc, callback>>

\* complete(), once this call has won the AtomicBoolean: the summary is
\* written, unless the logger throws.
Summarize(r) ==
  \/ UNCHANGED summary
  \/ summary' = [summary EXCEPT ![r] =
       Append(@, IF req[r].status = "server_error" \/ req[r].error
                   THEN "failure" ELSE "success")]

Left(old) == [old EXCEPT !.place = "left", !.thread = None]
ClearContext(t) == mdc' = [mdc EXCEPT ![t] = None]

\* The request is asynchronous: the listener will complete it.
Register(r) ==
  /\ Leaving(r) /\ req[r].async \in {"started", "ended"}
  /\ req' = [req EXCEPT ![r] = [Left(@) EXCEPT !.listener = TRUE]]
  /\ ClearContext(req[r].thread)
  /\ UNCHANGED <<summary, callback>>

\* It is not, or it ended before the listener was on it (isAsyncStarted says
\* so, or addListener throws IllegalStateException): the filter completes it.
CompleteInFilter(r) ==
  /\ Leaving(r) /\ req[r].async \in {"none", "ended"}
  /\ ~req[r].completed
  /\ req' = [req EXCEPT ![r].place = "completing", ![r].completed = TRUE,
                        ![r].async = "over"]
  /\ UNCHANGED <<summary, mdc, callback>>

CompletedInFilter(r) ==
  /\ req[r].place = "completing"
  /\ Summarize(r)
  /\ req' = [req EXCEPT ![r] = Left(@)]
  /\ ClearContext(req[r].thread)
  /\ UNCHANGED callback

-----------------------------------------------------------------------------
(* The container, and the filter's listener. *)

\* The application completes the request, from a thread of its own.
AsyncCompletes(r) ==
  /\ req[r].async = "started"
  /\ \E s \in Statuses, noted \in BOOLEAN :
       req' = [req EXCEPT ![r] = [Ends(@, s, noted) EXCEPT !.async = "ended"]]
  /\ UNCHANGED <<summary, mdc, callback>>

\* onTimeout or onError, after which the request is ended with any status.
AsyncFails(r) ==
  /\ req[r].async = "started" /\ req[r].place = "left"
  /\ \E s \in Statuses :
       req' = [req EXCEPT ![r].async = "ended", ![r].status = s, ![r].failed = TRUE,
                          ![r].error = @ \/ req[r].listener]
  /\ UNCHANGED <<summary, mdc, callback>>

\* The handler is dispatched again, on a thread that does not pass the filter.
Dispatch(t, r) ==
  /\ req[r].async = "started" /\ req[r].place = "left"
  /\ Idle(t)
  /\ req' = [req EXCEPT ![r].async = "dispatched", ![r].thread = t]
  /\ UNCHANGED <<summary, mdc, callback>>

DispatchEnds(r) ==
  /\ req[r].async = "dispatched" /\ Runs(r)
  /\ \E s \in Statuses, noted \in BOOLEAN :
       req' = [req EXCEPT ![r] =
                [Ends(@, s, noted) EXCEPT !.async = "ended", !.thread = None]]
  /\ UNCHANGED <<summary, mdc, callback>>

\* A new cycle starts without listeners; onStartAsync adds this one again.
OnStartAsync(cycle) == cycle

DispatchRestarts(r) ==
  /\ req[r].async = "dispatched" /\ Runs(r)
  /\ req[r].restarts < MaxRestarts
  /\ req' = [req EXCEPT ![r] =
              [OnStartAsync(req[r]) EXCEPT !.async = "started", !.thread = None,
                                      !.restarts = @ + 1]]
  /\ UNCHANGED <<summary, mdc, callback>>

\* onComplete, on an idle thread or inside another request that ended this one.
OnComplete(t, r) ==
  /\ req[r].async = "ended" /\ req[r].place = "left" /\ req[r].listener
  /\ ~req[r].completed
  /\ callback[t] = NoCallback
  /\ \A q \in Requests :
       req[q].thread = t => req[q].place \in {"chain", "left"}
  /\ req' = [req EXCEPT ![r].async = "over", ![r].completed = TRUE]
  /\ callback' = [callback EXCEPT ![t] = [request |-> r, previous |-> mdc[t]]]
  /\ mdc' = [mdc EXCEPT ![t] = r]
  /\ UNCHANGED summary

\* Mutant: the thread's context is emptied, whatever it held before.
RestoreNothing(t) == ClearContext(t)

\* The finally of complete(): the thread gets back the context it had.
Restore(t) == mdc' = [mdc EXCEPT ![t] = callback[t].previous]

OnCompleted(t) ==
  /\ callback[t] # NoCallback
  /\ Summarize(callback[t].request)
  /\ Restore(t)
  /\ callback' = [callback EXCEPT ![t] = NoCallback]
  /\ UNCHANGED req

-----------------------------------------------------------------------------
FilterNext ==
  \/ \E r \in Requests :
       \/ StartAsync(r) \/ ChainReturns(r) \/ ChainThrows(r)
       \/ Register(r) \/ CompleteInFilter(r) \/ CompletedInFilter(r)
       \/ AsyncCompletes(r) \/ AsyncFails(r)
       \/ DispatchEnds(r) \/ DispatchRestarts(r)
  \/ \E t \in Threads :
       \/ OnCompleted(t)
       \/ \E r \in Requests : Enter(t, r) \/ Dispatch(t, r) \/ OnComplete(t, r)

FilterSpec == FilterInit /\ [][FilterNext]_filterVars

\* The container goes on until every request is over; its timeout ends an
\* asynchronous request that nobody completes.
FairFilterSpec == FilterSpec /\ WF_filterVars(FilterNext)

-----------------------------------------------------------------------------
(* Properties *)

\* A request is summarized at most once, when none of its code runs any more,
\* and as a failure exactly if it failed: thrown, timed out, or answered 5xx.
SummaryIsTruthful ==
  \A r \in Requests :
     summary[r] # <<>> =>
       /\ summary[r] = <<IF req[r].failed THEN "failure" ELSE "success">>
       /\ req[r].place = "left" /\ req[r].async = "over"

\* Log lines carry the right request, also when a completion interrupts
\* another request: a thread in the filter has its own request in its context,
\* a thread in a completion the completed one, any other thread none.
ContextIsOwn ==
  \A t \in Threads :
     mdc[t] = IF callback[t] # NoCallback THEN callback[t].request
              ELSE IF \E r \in Requests : req[r].thread = t /\ req[r].place # "left"
                THEN CHOOSE r \in Requests : req[r].thread = t /\ req[r].place # "left"
                ELSE None

\* Every request is completed: neither an end during the registration nor a
\* restart loses the listener.
EveryRequestIsCompleted ==
  \A r \in Requests : req[r].place = "chain" ~> req[r].completed
=============================================================================
