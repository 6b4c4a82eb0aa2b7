# Verification of BackendTemplate

BackendTemplate implements one small service six times: FastAPI, FastAPI with FastCRUD, NestJS, Spring Boot in Java and
in Kotlin, and Rails. `POST /v1/reservations` takes one unit of a product. A client may repeat it under the same
`Idempotency-Key` and is then answered with the first reservation (not in Rails, which refuses the header). The
implementations are independent programs, each with its own database file; what they share is this contract, the
vocabulary of errors and the measurement of requests, connections and transactions.

This directory holds TLA+ models of the parts in which order, concurrency or failure matters, TLC runs on small
instances, and TLAPS proofs for every size. Run `tlc -config <run>.cfg <MC module>` or `tlapm <module>` in it.

## 1. Inventory

### Components and the state they keep

| Part | Where | State | Operations | Hard because |
| --- | --- | --- | --- | --- |
| Reservation, FastAPI | `services/`, `repositories/reservations.py`, `seed.py` | tables product, reservation, idempotency | reserve, seed | requests interleave at every await; cancellation; crash; lost answers |
| `@transactional` | `core/transactions.py` | `session.info` entry: owner task, rollback cause | call, nested call, commit, rollback | swallowed failures, other tasks, commits behind its back |
| Engine and pool | `core/database.py` | SQLAlchemy pool, SQLite write lock | checkout, BEGIN IMMEDIATE, checkin | connection held while waiting for the lock; timeouts |
| Database metrics | `core/database_metrics.py` | gauges, counters, `owner.failed` | record | reported from three unrelated places; a report may raise |
| HTTP observation | `http/observation.py`, `core/metrics.py`, `routers/metrics.py` | counters, `failed` | wrap an exchange, scrape | cancellation inside send; scrape in another thread |
| Lifespan | `bootstrap/lifespan.py`, `run.py` | engine, `app.state`, exit stack | start, fail, drain, take down | partial start; shutdown while cancelled requests unwind |
| Reservation, FastCRUD | `crud/`, `services/reservations.py` | the same tables, plus `is_deleted` | reserve, delete, seed | deletion between two statements |
| Worker connection, pool, runner (NestJS) | `database/*.ts` | worker threads, outstanding request, leases | acquire, run, release, shut down | worker death, late replies, failed ROLLBACK |
| Reservation, NestJS | `services/`, `repositories/` | the tables | reserve, seed | a worker dies between COMMIT and its reply |
| HTTP observation, NestJS | `http/observation.ts`, interceptor, filter | Observation per exchange, counters | endExecution, endTransport | two ends in either order, five callers |
| Life of the process, NestJS | `bootstrap/*.ts`, `main.ts` | readiness flag, server, pool | start, drain, stop | clients reuse connections; drain deadline |
| Reservation, Spring (Java, Kotlin) | `services/`, `repositories/` | tables claim, replay, product, reservation | reserve, replay | claim conflict with a transaction still open; row locks |
| Transaction metrics, Spring | `observation/TransactionMetrics` | map of running transactions, meters | listener callbacks | COMMIT with unknown result, then rollback |
| Request filter, Spring | `http/RequestContextFilter` | MDC per thread, completion flag per request | filter, async listener | async completion during registration; pooled threads |
| Reservation, Rails | `app/services/`, `app/models/` | tables product, reservation | create, show | several processes, one file; a process dies |
| Errors to answers | `http/errors.py`, `problem.filter.ts`, `ApiExceptionHandler`, `problem_rendering.rb` | none | classify | what an answer lets a client conclude |
| Log lines, FastAPI | `core/logging.py` | none | filter, classify | an error passes the wrapper and the server; errors outside the wrapper |
| Migrations, FastAPI and FastCRUD | `migrations/`, `scripts/start.sh` | the schema and its revision in the file | upgrade, downgrade | races of commands and servers; death between statements; foreign keys |
| Settings, greetings, OpenAPI, input rules, monitoring, Compose, docs | | none, or a third party's | | |

### How they interact

A request enters the observation wrapper (or filter), passes validation and the controller, and calls the service. The
service runs in one database transaction: the decorator (Python), the runner (NestJS), `@Transactional` (Spring) or
`Reservation.transaction` (Rails) takes a connection from the process's pool and begins with the database's write lock
(SQLite) or takes row locks as it goes (H2). Transaction and pool report to the metrics; errors travel up to the table
that turns them into answers; the wrapper records the exchange when execution and transport have both ended. The
lifecycle code owns pool and readiness, and must not take the pool away from a running transaction.

What makes each part correct: *reservation* - units are conserved, retries agree, a refusal leaves nothing, and whoever
lost an answer can ask again; *transaction* - commits are whole and owned, outcomes recorded are true; *pool* - limits
hold, nothing leaks, nothing waits for ever; *observation* - each exchange is recorded once and as what happened, or the
loss is admitted; *lifecycle* - ready means usable, shutdown ends and leaves nothing.

## 2. Modules

Each module's header says what it stands for. Actions carry the names of the functions they translate.

```
ReservationContract <--implements-- SqliteReservation   (FastAPI)
        ^   ^   ^   <--implements-- NestReservation     (NestJS; EXTENDS SqliteReservation)
        |   |   +------implements-- ClaimReservation    (Java, Kotlin)
        |   +----------implements-- RailsReservation    (each request its own key)
        +-- EXTENDS --- RetryingClient                  (status codes and retries)
RetirableContract   <--implements-- FastcrudReservation (FastCRUD; EXTENDS SqliteReservation)
Stores               a deployment of FastCRUD or NestJS; EXTENDS FastcrudReservation, INSTANCE NestReservation

FastapiExchange      a FastAPI exchange from end to end; EXTENDS PoolMetrics, INSTANCE HttpObservation
PoolMetrics          database metrics, FastAPI              HttpObservation     exchanges, FastAPI
TransactionalScope   the decorator alone, nested calls      TransactionListener transaction metrics, Spring
WorkerTransaction    worker, pool and runner of NestJS      ExpressObservation  exchanges, NestJS
SchemaMigration      Alembic, FastAPI and FastCRUD
RequestContextFilter requests and MDC, Spring               Lifespan, NestLifecycle   start and shutdown
```

**ReservationContract** is the abstract specification: which products are listed, what is left, which reservation a key
is bound to, and what each attempt was decided to be. One step per effect. An attempt may take effect and be told
"failed", or nothing. **RetirableContract** adds deletion: a deleted product is never reserved and never comes back, and
its keys keep their answer.

**SqliteReservation** has one action per await of `reserve`. `stage[a]` is where an attempt stands, `db` the committed
tables, `work` the writer's view, `writer` the holder of the write lock, `pool` the connections out, `outcome` what the
decorator records, `result` what the client will be told. A statement may fail, the task may be cancelled at every
await (also during COMMIT, which the driver then finishes or not), the process may die. The refinement mapping reads the
contract's ledger off `db`. **FastcrudReservation** reuses it and replaces the three statements that look at
`is_deleted`; **NestReservation** reuses the statements and replaces cancellation by worker death and failed rollback.

**ClaimReservation** models H2 at READ COMMITTED: a key's claim row and a product's row are locked by the transaction that
wrote them, others wait; the loser of a claim rolls back and reads the winner's reservation in a second transaction,
after taking a connection again. **RailsReservation** has threads in several processes, a pool for each, one file.

**TransactionalScope** models one session, several tasks, and calls nested up to a depth. Bodies may catch errors and may
commit by hand. **WorkerTransaction** follows each message between main thread and worker; the main thread's idea of the
transaction is the last reply's, and it learns of a death only later. **PoolMetrics** separates what is (records held,
sessions open, outcomes) from what was reported. **TransactionListener** drives the listener in every order in which
Spring's manager calls it.

**HttpObservation** separates what the server took (`wire`) from what the wrapper saw (`seen`), since a task can be
cancelled between the two. **ExpressObservation** has one action per callback of Node. **RequestContextFilter** has the
filter, the listener's callbacks and the container's dispatches on a pool of threads.

**FastapiExchange** composes `HttpObservation` and `PoolMetrics` over one set of requests and one flag `failed`, which the
two metric owners share, and adds what lies between them: which answer the exception handlers make of how the
transaction ended (`answer`), that the session closes before the answer is sent (`scope="function"`), what is logged, and
in which order a scrape collects the two owners. A step is one of either module's, with the guards that the composition
adds. FastCRUD has a copy that differs in its imports. An exception gathers the code it comes through (`traceback`): that
of the application, the wrapper's as it leaves its `finally` block, at last the server's. There `EventFilter`
(`FilterPasses`) gets the server's record, walks its traceback for the wrapper's code, and drops the line if it is there
(`serverLine`, beside the wrapper's own `reported`). An exception of the server's own (`ServerFails`) has not come through
the wrapper, and a response left unfinished has another message; both lines must pass. `RequestOutcome` is the
classification that goes into `http.completed`.

**SchemaMigration** runs a list of statements (`Plan`) per command under SQLite's locks, on a copy of the file that
COMMIT publishes. A process is a command, a server or, as a container is, both in turn; other tools write rows beside
them; any of them may die at any statement.

**Lifespan** and **NestLifecycle** run one process from start to end, with requests or clients around it.

**RetryingClient** puts the contract behind each implementation's table from errors to answers and lets clients retry
under the documented rule (`service-guide.md:70-71`), giving up on tries the server still works on.

## 3. Runs

Every run has more actors than the resource it fights for.

| Run | Instance | Shows |
| --- | --- | --- |
| `client` | 2 clients, 2 tries each, 2 keys, 2 products with 1 unit, each server | the contract conserves stock and its retries agree, and what a status code told a client is what the database holds |
| `sqlite` | 3 attempts, 2 keys, 2 products with 1 unit, pool of 2 | FastAPI implements the contract; rows match; outcomes are true; lock and pool match; every attempt ends |
| `stores` | the same, for FastCRUD or NestJS | both implement the contract, with deletion and across worker deaths and failed rollbacks |
| `claim` | the same, with row locks | Java and Kotlin implement the contract; the waits for claims, rows and connections end |
| `rails` | 2 requests in one process and 1 in another, 1 connection each | never oversold or half done; every request ends whichever process dies |
| `transactions` | 2 tasks, depth 3, 3 scopes of Python, or 3 transactions of Spring | one owner; only what a scope did as a whole is committed; what is counted is true of the database; nothing stays in the map |
| `worker` | 2 runs, pool of 2, 3 workers | clean handover, true outcomes, leases match; runs and shutdowns end |
| `exchange` | 3 requests on 2 connection records and 1 scrape, in three views | an answer says what became of the reservation and holds no connection; gauges, counters and completions are true, or the owner says they are not; what goes wrong is logged once, by the wrapper or by the server; a success in the log was delivered in full; a scrape that answers 200 misses nothing |
| `migrations` | 3 processes, 2 products, FastAPI's environment or FastCRUD's | the file always has the schema its revision says; no row is lost; references are checked; a command fails only where something hinders it |
| `exchanges` | 2 exchanges of NestJS, or 2 requests of Spring on 2 threads with 2 restarts | one true record per exchange, in the end; no thread logs under another request's id |
| `lifecycles` | 3 requests of FastAPI, or 3 clients of NestJS | ready is true, the database goes last and once, the first error survives; start and stop end |
| `express_failure` | 2 exchanges | *violated*: see section 6 |

**Runs about two programs.** `stores`, `transactions`, `exchanges` and `lifecycles` put the same questions to two
specifications. A variable that never changes (`service`) says which of the two a behaviour is about; the
other one stands still, so the states are the sum of both, not the product. Fairness is that of the program at work.
The MC module (`Stores` for the first of them, since theorems are stated about it) states what both promise, and
names the properties of the specifications it stands on.

**Why these bounds.** Three attempts under two keys give a retry and a competitor at once; one unit per product makes
every product a last unit; two products are needed for a conflict; a pool smaller than the number of attempts makes the
pool a second lock. The interactions are pairwise (a holder and a waiter, a first and a retry); the third actor stands
for "the others". Depth 3 in `transactions` has a caller between the owner and the failing call. In
`migrations` three processes are a command, its rival, and a server or command that comes while both are at work; two
products tell a row that was there before from one that a server adds meanwhile. In `worker` two runs share
two workers, and a third one replaces a dead one; it is created after the others, which only names the connections. In
`lifecycles` three requests are one that is finished, one that is cut off, and one that comes late. `MaxScopes`,
`MaxDepth`, `MaxRestarts` and `MaxTries` are the only bounds on counters. Attempts are not reused, so a client that
retries is another attempt; a system that runs for ever is not covered by the runs, but is by the theorems.

**The views of `exchange`.** The whole composition is too large for one run, so `watched`, which never changes, says
which exchanges are followed to their end, and `Viewed` cuts off what a view does not look at: two exchanges that are no
reservations and a scrape (what of the wire is recorded, and what a reader in another thread sees of it); three
reservations on two records, as far as their sessions go (who waits, who leaks, what the gauges say); two reservations
and a scrape, one of them to its end (answers, log lines, and the two owners in one scrape). At most one client leaves,
and none beside a scrape: exchanges meet in the pool, the registry and `failed` only, none of which knows of clients.
What is no reservation answers 200 (`OtherStatuses`): the wrapper counts all statuses alike, and refusals, which are no
success in the log, are the answers of reservations.

**Symmetry.** Runs without liveness use TLC's symmetry sets. Where liveness is checked, symmetry sets are unsound, and
`CanonicalInit` picks one initial state of each class instead: of the assignments of requests to attempts in `sqlite`
and `claim`, and of the processes in `rails`. `sqlite` leaves out one class, two equal attempts and a stranger to both,
which `stores` has with the same statements; its theorems cover it anyway.

`CHECK_DEADLOCK FALSE` is set everywhere: requests are finite and may all be done, clients may stop coming, and a
process may have ended. That nothing gets stuck *before* that is what the liveness properties say.

**Fairness.** Only what an event loop, a thread or a driver owes is fair, and always weakly: `Progress` of an attempt
(its next statement, a grant or timeout of pool and lock), the driver finishing a cancelled COMMIT, the lifespan's own
awaits, the server's drain timeout, handlers of NestJS (bounded by SQLite's busy timeout). No error, cancellation,
signal, retry or death is ever owed. `claim` owes no timeout either, so that it would find a deadlock that timeouts
hide. `WF(Next)` of the filter is the container's: its default timeout ends an asynchronous request nobody completes.
In `rails` a dead process releases SQLite's lock, as the file system does.

**What would break them.** Every property has been seen to fail when a plausible bug is put into the model: the
`Mutant:` operators next to the definitions.

## 4. Proofs

| Module | Theorems | For every |
| --- | --- | --- |
| `ReservationContractProofs` | of the contract and of the retirable contract: type correctness, `PromisesHold` and `RetirablePromisesHold` (`Promises`: `Conservation`, `RetriesAgree`, `CleanRefusalLeavesNothing`, `SoldOutIsTrue`), `LedgerIsPermanent`; `RetiredIsFinal` | set of attempts, keys (finite) and products, every stock |
| `RetryingClientProofs` | `ClientsUseTheContract` (`ClientSpec => Spec`), `ClientsAreToldTheTruth` (`ClientInv`) | the same, every number of clients and of tries, each of the servers |
| `SqliteReservationProofs` | `RowsMatch`, `OutcomeIsTruthful`, `LockAndPoolMatch`, `ContractIsKept` (`ImplementsContract`), `FastapiKeepsItsPromises` | the same, and every pool limit |
| `StoresProofs` | `StoresAreSound` (`StoresInv`), `RetirableContractIsKept` (`ImplementsRetirableContract`), `NestKeepsTheContract` (`NestSpec => ImplementsContract`), `StoresKeepTheirPromises` | the same |
| `RailsReservationProofs` | `NeverOversold` (`RailsInv`), `ContractIsKept` (`ImplementsContract`), `RailsKeepsItsPromises` | set of attempts, keys and products, every stock |
| `SpringProofs` | `ClaimsAlwaysMatch` (`ClaimInv`), `ContractIsKept` (`ImplementsContract`), `SpringKeepsItsPromises`; `CountsAreAlwaysTrue` (`CountsAreTrue`: `OutcomeMatchesDatabase` and `CountedAtMostOnce`), `NothingAccumulates` (`OnlyRunningTransactionsAreTracked`); `ContextIsAlwaysOwn` (`ContextIsOwn`), `SummariesAreTruthful` (`SummaryIsTruthful`), `RecordsAreAlwaysTruthful` (`RecordsAreTruthful`, with NestJS's exchanges) | set of attempts, keys and products, every stock; set of transactions; set of requests and threads, number of restarts |
| `FastapiProofs` | `ScopeHasOneOwner`, `CommitsAreEarned` (`FailureForbidsCommit` and `CommittedIsWhole`); `EverythingIsCountedOnce`, `CompletionIsTruthful` (with `SuccessIsDelivered`), `AnswersAreSettled`, `ErrorsAreLoggedOnce`, `ScrapeIsComplete`; `ReadinessIsTrue`, `UsersComeFirst`, `EverythingIsClosed` (with NestJS's processes); `MigrationsAreSound` (`MigrationInv`), `SchemaIsSound` (`SchemaMatchesRevision`), `StatementsSucceed` (`OnlyHindrancesFail`), `NoRowIsLost` (`RowsSurvive`), `ReferencesHold` (`ReferencesAreChecked`) | set of tasks, depth and number of scopes; set of requests and scrapes, finite set of connection records; set of requests and of clients; set of processes and of rows |
| `WorkerTransactionProofs` | `OutcomesAreTrue` (`OutcomeMatchesDisk`), `WorkersAreSound` (`WorkerInv`) | finite sets of requests and connections, every pool size |

The assumptions are the named `ASSUME`s of the specifications: keys are finite (stock is compared with a cardinality),
the stock is natural, sentinels are no attempts, the pool limit is natural.

*Contract.* `Conservation` is inductive with the type invariant: only `Reserve` changes either side, and it binds a key
that was free, so a cardinality grows by one as the stock falls by one. The other promises need each other
(`PromiseInv`): that retries agree follows from successes being recorded and the ledger being permanent. What is proved of
a step of the contract is proved of `RetirableContract` again, whose further steps are a deletion, which changes nothing
else, and "not found" for a deleted product, which reserves nothing (`WithdrawnKeeps`).

*From the contract to the programs.* `PromisesHold` is about variables nobody's code has. Each implementation's proof
module therefore instantiates `ReservationContractProofs` under its refinement mapping (`Theory`) and combines the
instance's theorem with `ContractIsKept`. So the `...KeepsItsPromises` theorems are statements about tables and answers:
in every reachable state of the detailed specification the committed stock and reservations add up, two successes
under one key name one reservation, a clean refusal left nothing behind, and "sold out" stays true.

*SqliteReservation.* None of the three invariants is inductive alone. `IInv` adds `WriterView`, which says for each
stage of the lock holder how its uncommitted tables differ from the committed ones (nothing yet; one unit taken; the
reservation row; the key row), and `History`, which says what an attempt's stage and result imply about `db`. With it a
COMMIT publishes exactly one whole reservation. Steps are grouped by what they disturb (`QuietStep`, `StatementStep`,
`EndStep`, `CommitStep`, ...), one lemma each. The simulation then maps COMMIT to `Reserve`, reads to `Replay`,
`Conflict`, `SoldOut` or `NotFound`, failures to `Fail`, and everything else to a stutter.

*Stores.* Nearly all steps of both services are steps of SqliteReservation, whose lemmas are used again. In NestJS three
are new (a slow acquire, a failing ROLLBACK, a dying worker): a death takes the lock and the connection and, unless its
COMMIT was done, the transaction. Its invariant is `IInv` with `~Abandoned`: no COMMIT outlives its request. FastCRUD, read
on tables with the deleted products left out (`ForSale`), does exactly what SqliteReservation does, so
`SqliteReservationProofs` is instantiated there (`Sale`). A deletion finds no writer and keeps that invariant. A
contract step without the deleted products is one of `RetirableContract`: "not found" becomes "not found" or "withdrawn".

*TransactionalScope.* `ScopeInv` adds to the properties what the commit phase has already checked (`AtCommit`), that only
the owner runs (`RunningScope`), and that scopes are counted (`CountsScopes`). The action properties follow from it.

*FastapiExchange.* `ExchangeInv` has three parts. `HttpInv`: what the wrapper has seen is what the server took, unless a
send was cut off (`SeenIsTaken`); a result is made of that and stays (`ResultIsSeen`); each label counts the set of its
exchanges (`ResultsAreCounted`); what is due to a scrape is in both metrics and remains there (`DueIsCounted`).
`SessionInv`: each value of the registry is the cardinality of a set of records or requests (`CountsAreTrue`), and an
outcome has its reason (`SessionIsSound`), so that a committed transaction had acquired and held. Both survive whatever
the other part does, which is at most to raise `failed`. The third part connects them: no response is under way before
its answer is made and its session closed (`AnswerIsSound`), errors that are resolved are reported (`ErrorIsReported`),
and the exchanges with 201 are among the committed transactions, so a registry read later shows at least as many
(`CreationsAreCounted`, `ScrapeIsSound`). No bound on requests is needed: finitely many have begun. Beside it, `LogInv`
says of each exchange what its exception has come through (`LogIsSound`): nothing while the application runs; the
wrapper's code from the step in which the wrapper is left; and of the server's line, that it is there exactly for an
error outside the wrapper or a response nobody finished. That errors are logged once follows from it and
`ErrorIsReported`; that successes are delivered, from `SeenIsTaken`, `ResultIsSeen` and `AnswerIsSound`.

*TransactionListener.* Each step concerns one transaction; `ListenerInv` says of each what its phase implies: not yet
counted (`Uncounted`), the flag set once COMMIT was tried (`FlagIsSet`), on disk only through COMMIT (`OnlyCommitWrites`).

*RequestContextFilter.* `FilterInv`: a thread runs one request, whose place, asynchronous state and listener fit together
(`PlaceIsSound`); status and `error.type` tell a failure (`FailureIsNoted`); and a completion that interrupts another
request remembers the context it has to put back (`CallbackIsSound`), so the context is the runner's own again afterwards.

*RailsReservation, ClaimReservation.* The same plan with the views those databases give: in Rails a request sees its own
uncommitted rows between its first write and its COMMIT, and the handler that rescues a constraint error must see none;
with claims, the row locks say which uncommitted claim, replay and stock belong to whom. Without these views neither
"claims match replays" nor "stock plus reservations is constant" survives a COMMIT, since a COMMIT publishes what earlier
statements left. From the views the simulation follows as for SQLite.

*Lifespan, NestLifecycle.* `LifespanInv`: the exit stack says what was done to the engine and to `app.state`
(`WhatIsLeftToUndo`), each step of the lifespan what has happened by then and which error is remembered
(`LifespanProgress`), and the server takes requests only while the lifespan waits at its yield, and when it takes none
any more, those still at work have been cancelled (`ServerInsideLifespan`). `NestLifeInv` says the same of Nest's hooks: where
pool, server and exit code are at each (`PoolAt`, `ServerAt`, `EndOfProcess`). A deployment is one process beside one that
stands still, so `LifecyclesSpec` implies both specifications (`DeploymentsRunProcesses`), and the invariants meet there.

*ExpressObservation.* `ObservationInv`: what the transport recorded is what became of response and status
(`CompletionIsSound`); a failure is remembered as unexpected, and one recorded as anything but an error met a client that
had left (`FailureIsRemembered`), which is the finding of section 6 and no more; unless the observation itself failed,
each label counts the set of its exchanges (`CountsAreSound`). It meets `FilterInv` in the composition (`DeploymentsObserve`).

*WorkerTransaction.* What the pool believes and what the worker has done are related through the messages between them.
`IInv` says for each stage of a run which message is under way (`WiresAt`), and that the transaction of a live worker
is what that message told it (`TxAsTold`): begun but unwritten, written, or ended. `DiskAsThrown` adds what an error
that travels to the handler says about the disk. Then an outcome is recorded only when the disk agrees. The pool's counters are
cardinalities of the sets of leased and idle connections; each step adds or removes one element.

*RetryingClient.* Two steps. First, what the clients do are steps of `ReservationContract`, so its proved invariants are
theirs. `ClientInv` then needs `BeliefInv`: attempts with one key ask for the same work unless the client changed
it (`SameWork`); a refusal once heard stays true of every attempt that asks the same (`RefusalHolds`: stock that ran out stays out);
a verdict has grounds in an answer (`VerdictHasGrounds`). What a status and a code tell is read from each server's table
(`Tells`), a lemma for each.

*SchemaMigration.* The history of revisions is a road walked up or down, one plan of statements per revision. The
invariant says that the committed file is that of the revision it names, and that a transaction after *i* statements sees
that file changed by the first *i* statements of its plan. So no statement meets a table it does not expect, and COMMIT
replaces the file by the whole plan's result, whose rows are the old ones or, at base, none.

*No run of their own* have `CleanRefusalLeavesNothing`, `SoldOutIsTrue`, `LedgerIsPermanent` and `RetiredIsFinal`: they
are proved, and `client` checks what the first three mean to a client.

**Only model-checked:** what is about time (whatever "ends" or "is recorded"), since the prover handles neither fairness
nor ENABLED. Every invariant and every action property of a run is also proved.

## 5. Abstractions and what is left out

- *Databases.* SQLite: one writer, readers see committed tables, BEGIN IMMEDIATE waits for a bounded time. After a
  cancelled BEGIN the lock may be granted to nobody and is dropped. H2: READ COMMITTED with row locks. A crash during
  COMMIT leaves it whole or absent; of several simultaneous commits those that survive count as just before the crash.
- *Seeding with H2* happens with nobody in flight: the file is opened by one process. With a shared server a seed between
  the UPDATE and `existsById` could be answered SOLD_OUT while stock is there.
- *FastCRUD.* No code of the package deletes products yet; deletion is one statement under the write lock, as the tests
  call it. Sessions, transactions, observation and lifespan are FastAPI's code in another package.
- *NestJS.* A worker's `error` and `exit` events are one step; a run is one read, then at most one writing stage, in
  `WorkerTransaction`; in `NestReservation` a death, its announcement and the release are one step, and `failed` stands
  for `rolled_back` and `failed`. Closing a connection never fails. A signal before the server listens, and a signal
  during a failed start, are left out. The pool's limit is in `WorkerTransaction`, not in `NestLifecycle`.
- *Rails.* `show` only reads. *Lifespan.* A second signal ends the process without cleanup, of which the documentation
  promises nothing (`fastapi.md:94`).
- *HttpObservation.* Streaming responses, statuses outside 100..599, and exceptions that are neither `Exception` nor a
  cancellation are left out. *ExpressObservation.* The scrape is left out.
- *RequestContextFilter.* The container is modelled from how the filter uses it; the application has no asynchronous
  handlers today. A status the container writes after a thrown exception is not the one the summary recorded.
- *PoolMetrics.* A registry that was poisoned is never read again, so its values are forgotten (set to zero). Of the
  histograms only the number of observations is kept.
- *FastapiExchange.* Whatever goes wrong in an exception handler or in closing the session is the answer "500". How a
  line is formatted and what becomes of it when stdout is broken is left out, and so are log levels above `info` and
WebSockets, which the application has none of. The server is modelled from how the filter tells its lines apart: it logs
what is raised to it, and an unfinished response unless the client has gone. `read` and `lossy` only remember, for
  `ScrapeIsComplete`, what a scrape saw.
- *SchemaMigration.* The file has the default rollback journal. A transaction reads the file as of its first statement,
  and takes the write lock at its first write. Offline mode, which prints SQL, is left out. The commands are those of
  `start.sh`, the documentation and the tests. Spring's migrations, which one process runs before it serves, are not
  modelled; their constraints are in the statements of `ClaimReservation`.
- *RetryingClient.* Clients are not in the repository. A 404 is not final: an abandoned try may reserve the product if it
  is seeded meanwhile. Rails has no key to retry under and is left out.
- *Not modelled:* settings, greetings, input rules, OpenAPI, Prometheus, Grafana, Compose, documentation: stateless, or
  another program's.

## 6. Finding

Run `express_failure`, property `FailuresAreErrors`: a NestJS handler that fails unexpectedly after its client has left
is recorded with `execution="returned"` and without an error line. The interceptor's `finalize`
(`execution.interceptor.ts:15`) runs before the filter sees the error, and with the transport already closed the
exchange is recorded there and then. The documentation gives the labels the meaning they have in FastAPI
(`nestjs.md:122-123`), where the same failure is an error (`fastapi.md:314`). Failures a client can still see are
recorded as errors (`VisibleFailuresAreErrors`).

## 7. Plan

Done: the reservation services and their contracts, the transaction machinery, the lifecycles, the composition of a
FastAPI exchange, the migrations of FastAPI and FastCRUD; the proofs of every safety property of the runs, of every
refinement, and of what the refinements give each implementation.

Left, in order of worth: the scrape of NestJS and its lost reports; the answers of Rails; input rules as operators
compared across the implementations; Spring's migrations.
