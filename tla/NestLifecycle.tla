---------------------------- MODULE NestLifecycle ----------------------------
(***************************************************************************)
(* The life of one NestJS process: the modules' hooks prepare the worker   *)
(* pool and switch readiness on before the server listens; a signal        *)
(* switches it off, drains the server for a limited time, and only then    *)
(* destroys the pool, which waits for every lease to come back.            *)
(*                                                                         *)
(* The order in which Nest calls the hooks, Node's server and tarn's pool  *)
(* are modelled from how the code relies on them.  A client keeps its      *)
(* connection open and may send a request after another; a handler may     *)
(* outlive the connection that the deadline closed.  Before the server     *)
(* listens a signal ends the process without any of this and is left out.  *)
(***************************************************************************)
EXTENDS Naturals

CONSTANT Clients

VARIABLES
  configured,  \* whether a database file is set; fixed
  at,          \* where main.ts, and then the shutdown, is
  ready,       \* Readiness.ready
  server,      \* Node's HTTP server: off, listening, closing
  timer,       \* the deadline set by Shutdown: unset, armed, fired, cleared
  pool,        \* the worker pool: absent, open, closing, destroyed
  probe,       \* whether the start holds a lease of its own
  exitCode,    \* how the process ended, once it has
  connection,  \* each client's connection: none, idle, active
  handler      \* each client's request: none, running, leased, finishing

process == <<configured, at, ready, server, timer, pool, probe, exitCode>>
requests == <<connection, handler>>
vars == <<process, requests>>

-----------------------------------------------------------------------------
Steps == {"created", "module_init", "bootstrap", "listen", "up",
          "before_shutdown", "dispose", "on_shutdown", "destroying", "exited"}

TypeOK ==
  /\ configured \in BOOLEAN
  /\ at \in Steps
  /\ ready \in BOOLEAN
  /\ server \in {"off", "listening", "closing"}
  /\ timer \in {"unset", "armed", "fired", "cleared"}
  /\ pool \in {"absent", "open", "closing", "destroyed"}
  /\ probe \in BOOLEAN
  /\ exitCode \in {"running", "failure", "signal"}
  /\ connection \in [Clients -> {"none", "idle", "active"}]
  /\ handler \in [Clients -> {"none", "running", "leased", "finishing"}]

Init ==
  /\ configured \in BOOLEAN
  /\ at = "created"
  /\ ready = FALSE
  /\ server = "off"
  /\ timer = "unset"
  /\ pool = "absent"
  /\ probe = FALSE
  /\ exitCode = "running"
  /\ connection = [c \in Clients |-> "none"]
  /\ handler = [c \in Clients |-> "none"]

Leases == {c \in Clients : handler[c] = "leased"}

-----------------------------------------------------------------------------
(* createApp and listen. *)

\* NestFactory.create threw: nothing has been opened.
CreateFails ==
  /\ at = "created"
  /\ at' = "exited" /\ exitCode' = "failure"
  /\ UNCHANGED <<configured, ready, server, timer, pool, probe, requests>>

\* onModuleInit: the pool is made and a connection of it asked for.
OnModuleInit ==
  /\ at = "created"
  /\ IF configured THEN pool' = "open" /\ at' = "module_init"
                   ELSE at' = "bootstrap" /\ UNCHANGED pool
  /\ UNCHANGED <<configured, ready, server, timer, probe, exitCode, requests>>

ProbeAcquired ==
  /\ at = "module_init" /\ ~probe
  /\ probe' = TRUE
  /\ UNCHANGED <<configured, at, ready, server, timer, pool, exitCode, requests>>

\* The pragma succeeded; its connection is released.
ProbeSucceeds ==
  /\ at = "module_init" /\ probe
  /\ probe' = FALSE /\ at' = "bootstrap"
  /\ UNCHANGED <<configured, ready, server, timer, pool, exitCode, requests>>

\* No connection within the timeout, or the pragma failed: the connection is
\* released, the pool destroyed, and the application closed by createApp.
ProbeFails ==
  /\ at = "module_init"
  /\ probe' = FALSE /\ pool' = "destroyed" /\ timer' = "cleared"
  /\ at' = "exited" /\ exitCode' = "failure"
  /\ UNCHANGED <<configured, ready, server, requests>>

OnApplicationBootstrap ==
  /\ at = "bootstrap"
  /\ ready' = TRUE /\ at' = "listen"
  /\ UNCHANGED <<configured, server, timer, pool, probe, exitCode, requests>>

Listen ==
  /\ at = "listen"
  /\ server' = "listening" /\ at' = "up"
  /\ UNCHANGED <<configured, ready, timer, pool, probe, exitCode, requests>>

\* The port is taken: listen() closes the application, through all its hooks.
ListenFails ==
  /\ at = "listen"
  /\ ready' = FALSE /\ at' = "exited" /\ exitCode' = "failure"
  /\ pool' = IF configured THEN "destroyed" ELSE pool
  /\ timer' = "cleared"
  /\ UNCHANGED <<configured, server, probe, requests>>

-----------------------------------------------------------------------------
(* Shutdown: what Nest does at SIGTERM or SIGINT. *)

OnModuleDestroy ==
  /\ at = "up"
  /\ ready' = FALSE /\ at' = "before_shutdown"
  /\ UNCHANGED <<configured, server, timer, pool, probe, exitCode, requests>>

\* Mutant: no deadline.
BeforeShutdownUnlimited ==
  /\ at = "before_shutdown"
  /\ server' = "closing" /\ at' = "dispose"
  /\ UNCHANGED <<configured, ready, timer, pool, probe, exitCode, requests>>

\* The deadline is set, then Nest closes the server: it accepts no more
\* connections, closes the idle ones and waits for the others.
BeforeShutdown ==
  /\ at = "before_shutdown"
  /\ timer' = "armed" /\ server' = "closing" /\ at' = "dispose"
  /\ connection' = [c \in Clients |-> IF connection[c] = "idle" THEN "none"
                                                                ELSE connection[c]]
  /\ UNCHANGED <<configured, ready, pool, probe, exitCode, handler>>

\* closeAllConnections: every connection goes, whatever its handler does.
TimerFires ==
  /\ timer = "armed" /\ at # "exited"
  /\ timer' = "fired"
  /\ connection' = [c \in Clients |-> "none"]
  /\ UNCHANGED <<configured, at, ready, server, pool, probe, exitCode, handler>>

\* Mutant: the server is not waited for.
DisposedAtOnce ==
  /\ at = "dispose"
  /\ at' = "on_shutdown"
  /\ UNCHANGED <<configured, ready, server, timer, pool, probe, exitCode, requests>>

Disposed ==
  /\ at = "dispose"
  /\ \A c \in Clients : connection[c] = "none"
  /\ at' = "on_shutdown"
  /\ UNCHANGED <<configured, ready, server, timer, pool, probe, exitCode, requests>>

\* onApplicationShutdown of Shutdown and of Primary.
OnApplicationShutdown ==
  /\ at = "on_shutdown"
  /\ timer' = IF timer = "armed" THEN "cleared" ELSE timer
  /\ pool' = IF configured THEN "closing" ELSE pool
  /\ at' = "destroying"
  /\ UNCHANGED <<configured, ready, server, probe, exitCode, requests>>

\* pool.destroy() resolves when no lease is out; then the process ends itself.
Exit ==
  /\ at = "destroying"
  /\ Leases = {}
  /\ pool' = IF configured THEN "destroyed" ELSE pool
  /\ at' = "exited" /\ exitCode' = "signal"
  /\ UNCHANGED <<configured, ready, server, timer, probe, requests>>

-----------------------------------------------------------------------------
(* Clients, and the handlers of their requests. *)

Connect(c) ==
  /\ server = "listening" /\ at # "exited"
  /\ connection[c] = "none" /\ handler[c] = "none"
  /\ connection' = [connection EXCEPT ![c] = "idle"]
  /\ UNCHANGED <<process, handler>>

Request(c) ==
  /\ connection[c] = "idle" /\ at # "exited"
  /\ connection' = [connection EXCEPT ![c] = "active"]
  /\ handler' = [handler EXCEPT ![c] = "running"]
  /\ UNCHANGED process

Disconnect(c) ==
  /\ connection[c] # "none" /\ at # "exited"
  /\ connection' = [connection EXCEPT ![c] = "none"]
  /\ UNCHANGED <<process, handler>>

\* A handler that needs no database, or that could not get a lease.
RunWithout(c) ==
  /\ handler[c] = "running" /\ at # "exited"
  /\ handler' = [handler EXCEPT ![c] = "finishing"]
  /\ UNCHANGED <<process, connection>>

Acquire(c) ==
  /\ handler[c] = "running" /\ pool = "open" /\ at # "exited"
  /\ handler' = [handler EXCEPT ![c] = "leased"]
  /\ UNCHANGED <<process, connection>>

Release(c) ==
  /\ handler[c] = "leased" /\ at # "exited"
  /\ handler' = [handler EXCEPT ![c] = "finishing"]
  /\ UNCHANGED <<process, connection>>

\* The answer goes out, if there still is a connection; it is kept alive.
Answer(c) ==
  /\ handler[c] = "finishing" /\ at # "exited"
  /\ handler' = [handler EXCEPT ![c] = "none"]
  /\ connection' = [connection EXCEPT ![c] = IF @ = "active" THEN "idle" ELSE @]
  /\ UNCHANGED process

-----------------------------------------------------------------------------
Start ==
  \/ CreateFails \/ OnModuleInit \/ ProbeAcquired \/ ProbeSucceeds \/ ProbeFails
  \/ OnApplicationBootstrap \/ Listen \/ ListenFails

ShutdownStep ==
  \/ BeforeShutdown \/ TimerFires \/ Disposed \/ OnApplicationShutdown \/ Exit

Handle(c) == RunWithout(c) \/ Acquire(c) \/ Release(c) \/ Answer(c)

Next ==
  \/ Start \/ OnModuleDestroy \/ ShutdownStep
  \/ \E c \in Clients : Connect(c) \/ Request(c) \/ Disconnect(c) \/ Handle(c)

Spec == Init /\ [][Next]_vars

\* The event loop runs what is ready, the timer included; handlers end, their
\* statements being bounded by the busy timeout.  Clients owe nothing.
FairSpec ==
  /\ Spec
  /\ WF_vars(Start) /\ WF_vars(ShutdownStep)
  /\ \A c \in Clients : WF_vars(Handle(c))

-----------------------------------------------------------------------------
(* Properties *)

\* A client that is told "ready" reaches a server that takes requests, with a
\* pool whose journal mode is set: never during the start or the shutdown.
ReadyIsTrue ==
  ready => /\ at \in {"listen", "up"}
           /\ configured => pool = "open"
           /\ ~probe

\* The pool is not taken down under a request whose client is still there.
PoolOutlivesTheConnections ==
  pool \in {"closing", "destroyed"} => \A c \in Clients : connection[c] = "none"

\* When the process ends, however it ends, the pool is down and no
\* transaction was under way: closing a connection cancels none.
NothingIsLeft ==
  exitCode # "running" =>
    /\ pool \in {"absent", "destroyed"}
    /\ ~probe /\ Leases = {}

\* The start ends, in service or with the process.
StartEnds == <>(at = "up" \/ exitCode # "running")

\* A shutdown ends, also if clients keep sending on the connections they have
\* or never go away.
ShutdownEnds == at = "before_shutdown" ~> exitCode = "signal"
=============================================================================
