----------------------------- MODULE MCLifecycles -----------------------------
(* The lives of a FastAPI and of a NestJS process, a deployment being one   *)
(* of them, and what both promise.                                          *)
EXTENDS Lifespan

CONSTANTS u1, u2, u3, c1, c2, c3,
          Clients   \* of the NestJS process

VARIABLES
  service,   \* the implementation that is deployed; fixed
  node_configured, node_at, node_ready, node_server, timer, pool, probe,
  exitCode, connection, handler   \* those of NestLifecycle

Node == INSTANCE NestLifecycle WITH
  configured <- node_configured, at <- node_at, ready <- node_ready, server <- node_server

nodeVars ==
  <<node_configured, node_at, node_ready, node_server, timer, pool, probe,
    exitCode, connection, handler>>

ThreeUsers == {u1, u2, u3}
ThreeClients == {c1, c2, c3}

LifecyclesInit ==
  /\ LifespanInit /\ Node!Init
  /\ \/ service = "fastapi" /\ ~node_configured
     \/ service = "nest" /\ ~configured

FastapiRuns == service = "fastapi" /\ UNCHANGED <<service, nodeVars>>
NestRuns == service = "nest" /\ UNCHANGED <<service, processVars>>

LifecyclesNext ==
  \/ FastapiRuns /\ LifespanNext
  \/ NestRuns /\ Node!Next

allVars == <<service, processVars, nodeVars>>

\* FairSpec of each.
LifecyclesSpec ==
  /\ LifecyclesInit /\ [][LifecyclesNext]_allVars
  /\ \A step \in {"start", "drain", "finish"} :
       WF_allVars(/\ FastapiRuns /\ UNCHANGED configured
                  /\ \/ step = "start" /\ Start
                     \/ step = "drain" /\ Drain
                     \/ step = "finish" /\ WindDown)
  /\ WF_allVars(NestRuns /\ Node!Start)
  /\ WF_allVars(NestRuns /\ Node!ShutdownStep)
  /\ \A c \in Clients : WF_allVars(NestRuns /\ Node!Handle(c))

-----------------------------------------------------------------------------
\* "Ready" is said only by a process that serves, with what its requests need.
ReadinessIsTrue == LifespanTypeOK /\ Node!TypeOK /\ ReadyIsTrue /\ Node!ReadyIsTrue

\* The database does not go under a request that may still be answered: the
\* engine only under requests that were cancelled, the pool under none.
UsersComeFirst == OnlyTheCancelledAreLeft /\ Node!PoolOutlivesTheConnections

\* However a process ends, what it opened is closed, once, and of all that
\* failed the first error is the one that is raised.
EverythingIsClosed == NothingIsLeft /\ TheFirstErrorIsRaised /\ Node!NothingIsLeft

\* Starts end, in service or with the process, and so do shutdowns, whatever
\* the requests and the clients do.
StartsEnd ==
  /\ service = "fastapi" => StartEnds
  /\ service = "nest" => Node!StartEnds
ShutdownsEnd == StopEnds /\ Node!ShutdownEnds
LivesEnd == StartsEnd /\ ShutdownsEnd
=============================================================================
