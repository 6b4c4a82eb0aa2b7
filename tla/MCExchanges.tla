----------------------------- MODULE MCExchanges -----------------------------
(* What NestJS and Spring processes say of their HTTP exchanges, a           *)
(* deployment being one of them, and what all of it has to satisfy.          *)
EXTENDS RequestContextFilter

CONSTANTS r1, r2, t1, t2

VARIABLES
  service,   \* the implementation that is deployed; fixed
  excluded, node_stage, failure, socket, closed, status, observed, requests, failed

nodeVars ==
  <<excluded, node_stage, failure, socket, closed, status, observed, requests, failed>>

Node == INSTANCE ExpressObservation WITH stage <- node_stage

TwoRequests == {r1, r2}
TwoThreads == {t1, t2}

ExchangesInit ==
  /\ FilterInit /\ Node!Init
  /\ \/ service = "nest"
     \/ service = "spring" /\ excluded = {}

NestRuns == service = "nest" /\ UNCHANGED <<service, filterVars>>
SpringRuns == service = "spring" /\ UNCHANGED <<service, nodeVars>>

ExchangesNext ==
  \/ NestRuns /\ Node!Next
  \/ SpringRuns /\ FilterNext

allVars == <<service, filterVars, nodeVars>>

\* FairSpec of the one, FairFilterSpec of the other.
ExchangesSpec ==
  /\ ExchangesInit /\ [][ExchangesNext]_allVars
  /\ \A r \in Requests :
       /\ WF_allVars(NestRuns /\ Node!Nest(r))
       /\ WF_allVars(NestRuns /\ Node!Finish(r))
       /\ WF_allVars(NestRuns /\ Node!Close(r))
  /\ WF_allVars(SpringRuns /\ FilterNext)

-----------------------------------------------------------------------------
\* What is said of an exchange is what happened to it: a summary or a
\* completion, and an error if one could be seen; and nothing is counted twice
\* or forgotten, whoever reports the end.
RecordsAreTruthful ==
  /\ FilterTypeOK /\ Node!TypeOK
  /\ SummaryIsTruthful
  /\ Node!CompletionIsTruthful /\ Node!VisibleFailuresAreErrors
  /\ Node!EveryExchangeIsCountedOnce

\* Every exchange that arrives is recorded, or summarized, in the end.
EveryExchangeIsRecorded == EveryRequestIsCompleted /\ Node!EveryExchangeIsRecorded
=============================================================================
