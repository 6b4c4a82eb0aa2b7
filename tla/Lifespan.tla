------------------------------ MODULE Lifespan ------------------------------
(***************************************************************************)
(* The life of one FastAPI process: the lifespan acquires the engine and   *)
(* publishes its session factory on app.state, requests take the factory   *)
(* from there, and the lifespan takes everything down again, in reverse    *)
(* order, from the AsyncExitStack.  Preparing may fail or be cancelled,    *)
(* cleaning up may fail, and the server waits for requests only so long:   *)
(* those it then cancels unwind while the resources are taken down.        *)
(*                                                                         *)
(* Uvicorn is modelled from how the code starts it.  A second signal ends  *)
(* the process without any of this and is left out.                        *)
(***************************************************************************)
EXTENDS Integers, Sequences

CONSTANT Users   \* the requests that want a session

VARIABLES
  configured, \* whether DB_PRIMARY_URL is set; fixed
  at,         \* where the lifespan is
  ready,      \* app.state.ready
  engine,     \* the engine: none, open, disposed, or a dispose that failed
  published,  \* what app.state holds of it
  stack,      \* the callbacks of the AsyncExitStack, the last one first
  error,      \* what the lifespan is unwinding from
  cleanup,    \* whether a callback failed
  raised,     \* what the lifespan ends with
  disposals,  \* how often the engine was told to dispose
  server,     \* uvicorn: off, serving, draining, closed
  session     \* each request: new, holding a session, cancelled, done

lifespanVars == <<at, ready, engine, published, stack, error, cleanup, raised, disposals>>
processVars == <<configured, lifespanVars, server, session>>

-----------------------------------------------------------------------------
State == {"primary_engine", "primary_session_factory"}
Callbacks == State \cup {"dispose"}
Errors == {"none", "failed", "cancelled"}

LifespanTypeOK ==
  /\ configured \in BOOLEAN
  /\ at \in {"assembled", "probe", "up", "cleanup", "ended"}
  /\ ready \in BOOLEAN
  /\ engine \in {"none", "open", "disposed", "broken"}
  /\ published \in SUBSET State
  /\ stack \in Seq(Callbacks) /\ Len(stack) <= 3
  /\ error \in Errors
  /\ cleanup \in BOOLEAN
  /\ raised \in Errors \cup {"nothing_yet", "cleanup"}
  /\ disposals \in 0..1
  /\ server \in {"off", "serving", "draining", "closed"}
  /\ session \in [Users -> {"new", "held", "cancelled", "done"}]

LifespanInit ==
  /\ configured \in BOOLEAN
  /\ at = "assembled"
  /\ ready = FALSE
  /\ engine = "none"
  /\ published = {}
  /\ stack = <<>>
  /\ error = "none"
  /\ cleanup = FALSE
  /\ raised = "nothing_yet"
  /\ disposals = 0
  /\ server = "off"
  /\ session = [r \in Users |-> "new"]

-----------------------------------------------------------------------------
(* Starting. *)

\* The engine is created and its dispose registered before it is first used;
\* without a URL there is nothing to prepare.
Enter ==
  /\ at = "assembled"
  /\ \/ /\ configured
        /\ engine' = "open"
        /\ stack' = <<"dispose">>
        /\ at' = "probe"
        /\ UNCHANGED <<ready, server>>
     \/ /\ ~configured
        /\ at' = "up" /\ ready' = TRUE /\ server' = "serving"
        /\ UNCHANGED <<engine, stack>>
  /\ UNCHANGED <<published, error, cleanup, raised, disposals, session>>

\* Mutant: the state is registered for removal under the engine's dispose.
PublishUnder ==
  /\ at = "probe"
  /\ published' = State
  /\ stack' = stack \o <<"primary_session_factory", "primary_engine">>
  /\ at' = "up" /\ ready' = TRUE /\ server' = "serving"
  /\ UNCHANGED <<engine, error, cleanup, raised, disposals, session>>

\* SELECT 1 answered: the engine and its factory are put on app.state, each
\* registered for removal, and the server starts to accept.
Publish ==
  /\ at = "probe"
  /\ published' = State
  /\ stack' = <<"primary_session_factory", "primary_engine">> \o stack
  /\ at' = "up" /\ ready' = TRUE /\ server' = "serving"
  /\ UNCHANGED <<engine, error, cleanup, raised, disposals, session>>

\* Mutant: a failed start is raised without closing the stack.
PrepareFailsOpen ==
  /\ at \in {"assembled", "probe"} /\ configured
  /\ raised' \in {"failed", "cancelled"}
  /\ error' = raised'
  /\ ready' = FALSE
  /\ at' = "ended"
  /\ UNCHANGED <<engine, published, stack, cleanup, disposals, server, session>>

\* Creating, connecting or probing fails, or the start is cancelled.
PrepareFails ==
  /\ at \in {"assembled", "probe"} /\ configured
  /\ error' \in {"failed", "cancelled"}
  /\ ready' = FALSE
  /\ at' = "cleanup"
  /\ UNCHANGED <<engine, published, stack, cleanup, raised, disposals, server, session>>

-----------------------------------------------------------------------------
(* Serving. *)

\* get_primary_session takes the factory from app.state.
Take(r) ==
  /\ server = "serving" /\ session[r] = "new"
  /\ "primary_session_factory" \in published
  /\ session' = [session EXCEPT ![r] = "held"]
  /\ UNCHANGED <<lifespanVars, server>>

\* The request ends, and its session is closed.
Give(r) ==
  /\ session[r] \in {"held", "cancelled"}
  /\ session' = [session EXCEPT ![r] = "done"]
  /\ UNCHANGED <<lifespanVars, server>>

\* SIGTERM: uvicorn stops accepting and waits for the requests under way.
Stop ==
  /\ server = "serving"
  /\ server' = "draining"
  /\ UNCHANGED <<lifespanVars, session>>

Holding == {r \in Users : session[r] \in {"held", "cancelled"}}
CancelAll ==
  session' = [r \in Users |-> IF r \in Holding THEN "cancelled" ELSE session[r]]

\* Everybody is done, or timeout_graceful_shutdown has passed: the requests
\* still under way are cancelled and not waited for.
Drain ==
  /\ server = "draining"
  /\ server' = "closed"
  /\ \/ Holding = {} /\ UNCHANGED session
     \/ Holding # {} /\ CancelAll
  /\ UNCHANGED lifespanVars

-----------------------------------------------------------------------------
(* Stopping. *)

\* The server resumes the lifespan after its yield.
ShutDown ==
  /\ at = "up" /\ server = "closed"
  /\ ready' = FALSE
  /\ at' = "cleanup"
  /\ UNCHANGED <<engine, published, stack, error, cleanup, raised, disposals,
                 server, session>>

\* The loop is torn down while the lifespan waits at its yield: every task is
\* cancelled, the lifespan's too.
Cancelled ==
  /\ at = "up"
  /\ error' = "cancelled"
  /\ ready' = FALSE
  /\ at' = "cleanup"
  /\ server' = "closed"
  /\ CancelAll
  /\ UNCHANGED <<engine, published, stack, cleanup, raised, disposals>>

\* aclose: the next callback, which for the engine may fail or be cancelled.
\* The remaining callbacks run all the same.
Pop ==
  /\ at = "cleanup" /\ stack # <<>>
  /\ stack' = Tail(stack)
  /\ \/ /\ Head(stack) \in State
        /\ published' = published \ {Head(stack)}
        /\ UNCHANGED <<engine, cleanup, disposals>>
     \/ /\ Head(stack) = "dispose"
        /\ disposals' = disposals + 1
        /\ \/ engine' = "disposed" /\ UNCHANGED cleanup
           \/ engine' = "broken" /\ cleanup' = TRUE
        /\ UNCHANGED published
  /\ UNCHANGED <<at, ready, error, raised, server, session>>

\* Mutant: the error of the cleanup hides the one it cleaned up after.
EndByLast ==
  /\ at = "cleanup" /\ stack = <<>>
  /\ at' = "ended"
  /\ raised' = IF cleanup THEN "cleanup" ELSE error
  /\ UNCHANGED <<ready, engine, published, stack, error, cleanup, disposals, server, session>>

\* The lifespan ends with the first error, if there was one.
End ==
  /\ at = "cleanup" /\ stack = <<>>
  /\ at' = "ended"
  /\ raised' = IF error = "none" /\ cleanup THEN "cleanup" ELSE error
  /\ UNCHANGED <<ready, engine, published, stack, error, cleanup, disposals, server, session>>

Start == Enter \/ Publish \/ PrepareFails
WindDown == ShutDown \/ Pop \/ End

LifespanNext ==
  /\ \/ Start \/ Cancelled \/ WindDown
     \/ \E r \in Users : Take(r) \/ Give(r)
     \/ Stop \/ Drain
  /\ UNCHANGED configured

LifespanSpec == LifespanInit /\ [][LifespanNext]_processVars

\* Awaits of the lifespan end, and the server keeps its timeout; no request has
\* to end and no signal has to come.
FairLifespanSpec ==
  /\ LifespanSpec
  /\ WF_processVars(Start /\ UNCHANGED configured)
  /\ WF_processVars(Drain /\ UNCHANGED configured)
  /\ WF_processVars(WindDown /\ UNCHANGED configured)

-----------------------------------------------------------------------------
(* Properties *)

\* "Ready" is said only while everything a request needs is there, and what is
\* on app.state can be used: nothing is disposed while it is published.
ReadyIsTrue ==
  /\ ready => at = "up" /\ (configured => published = State)
  /\ published # {} => engine = "open"

\* The engine does not go under a request that was not told to give up: only
\* requests cancelled by the graceful timeout, or with the loop, still hold a
\* session when it is disposed.
OnlyTheCancelledAreLeft ==
  engine \in {"disposed", "broken"} =>
    \A r \in Users : session[r] # "held"

\* However it ended, the engine was disposed exactly once, nothing of it is
\* left on app.state, and the process does not claim to be ready.
NothingIsLeft ==
  at = "ended" =>
    /\ published = {} /\ ~ready
    /\ disposals = (IF engine = "none" THEN 0 ELSE 1)

\* A failed or cancelled start is reported as such, also when the cleanup then
\* fails too; and a cleanup that failed is never passed over in silence.
TheFirstErrorIsRaised ==
  at = "ended" =>
    /\ error # "none" => raised = error
    /\ raised = "none" <=> (error = "none" /\ ~cleanup)

\* A start ends: the process serves, or the failure has been raised.
StartEnds == at = "assembled" ~> at \in {"up", "ended"}

\* After the signal the process ends, whatever its requests do.
StopEnds == server = "draining" ~> at = "ended"
=============================================================================
