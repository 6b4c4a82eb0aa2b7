--------------------------- MODULE SchemaMigration ---------------------------
(***************************************************************************)
(* The Alembic migrations of the FastAPI and FastCRUD implementations.     *)
(* A process runs one command against the SQLite file and, if it is a      *)
(* container's, serves from it afterwards (scripts/start.sh; FastCRUD has  *)
(* no such script, and its README the same order).  Commands and servers   *)
(* are separate processes that share nothing but the file, and any of them *)
(* may die at any point.                                                   *)
(*                                                                         *)
(* SQLite is modelled from how the code uses it, with a rollback journal:  *)
(* a transaction reads the file as of its first statement, keeps a shared  *)
(* lock, and takes the one write lock with its first write.  A reader that *)
(* finds the write lock taken fails at once; a writer commits when it is   *)
(* the last one reading, and nobody begins to read while it waits.         *)
(***************************************************************************)
EXTENDS Sequences

CONSTANTS
  Processes,
  Products,  \* the rows a products table may have
  Nobody

ASSUME NobodyAssumption == Nobody \notin Processes

VARIABLES
  fastcrud,   \* is this FastCRUD's migration environment; fixed
  command,    \* the command of each process: <<direction, revision>>; fixed
  container,  \* the processes that serve when their command succeeds; fixed
  given,      \* the commands run on a connection that is in a transaction; fixed
  file,       \* the committed content of the file
  shared,     \* the processes in a transaction that has read the file
  writer,     \* the process that has the write lock, or Nobody
  pendingLock,    \* does the writer keep others from beginning to read
  pc,         \* where each process is
  enforced,   \* is PRAGMA foreign_keys on, for each process
  plan,       \* the statements left of each transaction
  work,       \* the file as each transaction sees it
  exitStatus,     \* how each command ended
  orphaned    \* history: has a foreign tool put in an orphan

inputs == <<fastcrud, command, container, given>>
locks == <<shared, writer, pendingLock>>
local == <<pc, enforced, plan, work, exitStatus>>
migrationVars == <<inputs, file, locks, local, orphaned>>

-----------------------------------------------------------------------------
(* The file. *)

Revisions == {"base", "tables", "audit"}
Tables == {"alembic_version", "products", "reservations", "idempotency_keys",
           "_alembic_tmp_products"}
Business == {"products", "reservations", "idempotency_keys"}
Columns == {"plain", "nullable", "audited"}  \* of a table of products

\* "products": the rows of products; "filled": those with audit values;
\* "reservations", "keys": the products they refer to.
File == [revision: Revisions, tables: SUBSET Tables,
         columns: Columns, products: SUBSET Products, filled: SUBSET Products,
         copy_columns: Columns, copy: SUBSET Products,
         reservations: SUBSET Products, keys: SUBSET Products]

NewFile == [revision |-> "base", tables |-> {}, columns |-> "plain",
            products |-> {}, filled |-> {}, copy_columns |-> "plain", copy |-> {},
            reservations |-> {}, keys |-> {}]

\* PRAGMA foreign_key_check.
Orphans(f) ==
  ((f.reservations \cup f.keys) \ f.products) \cup (f.keys \ f.reservations)

Head_ == IF fastcrud THEN "audit" ELSE "tables"

-----------------------------------------------------------------------------
(* The revisions. *)

CreateTables ==
  << <<"create", "products">>, <<"create", "reservations">>,
     <<"create", "idempotency_keys">>, <<"stamp", "tables">> >>

DropTables ==
  << <<"drop", "idempotency_keys">>, <<"drop", "reservations">>,
     <<"drop", "products">>, <<"stamp", "base">> >>

\* Mutant: the table is made anew without its rows.
RecreateEmpty(columns) ==
  << <<"create_copy", columns>>, <<"drop", "products">>, <<"rename_copy", columns>> >>

\* batch_alter_table(recreate="always")
Recreate(columns) ==
  << <<"create_copy", columns>>, <<"fill_copy", columns>>,
     <<"drop", "products">>, <<"rename_copy", columns>> >>

AddAudit ==
  << <<"add_columns", "products">>, <<"fill_columns", "products">> >>
    \o Recreate("audited") \o << <<"stamp", "audit">> >>

RemoveAudit == Recreate("plain") \o << <<"stamp", "tables">> >>

If(condition, statements) == IF condition THEN statements ELSE << >>

\* alembic_version is made when the file has no revision; then come the steps
\* between its revision and the one asked for, in the direction asked for.
Plan(f, direction, to) ==
  LET from == f.revision
      up == direction = "upgrade"
  IN  If(from = "base" /\ "alembic_version" \notin f.tables,
         << <<"create", "alembic_version">> >>)
      \o If(up /\ from = "base" /\ to # "base", CreateTables)
      \o If(up /\ from # "audit" /\ to = "audit", AddAudit)
      \o If(~up /\ from = "audit" /\ to # "audit", RemoveAudit)
      \o If(~up /\ from # "base" /\ to = "base", DropTables)

-----------------------------------------------------------------------------
(* The statements. *)

\* With foreign keys enforced, DROP TABLE deletes the rows first.
Referenced(f, table) ==
  \/ table = "products" /\ (f.reservations \cup f.keys) \cap f.products # {}
  \/ table = "reservations" /\ f.keys # {}

\* Does the statement succeed.
Fits(s, f, keys_on) ==
  CASE s[1] = "create" -> s[2] \notin f.tables
    [] s[1] = "drop" -> s[2] \in f.tables /\ ~(keys_on /\ Referenced(f, s[2]))
    [] s[1] = "add_columns" -> "products" \in f.tables /\ f.columns = "plain"
    [] s[1] = "fill_columns" -> f.columns = "nullable"
    [] s[1] = "create_copy" -> "_alembic_tmp_products" \notin f.tables
    [] s[1] = "fill_copy" -> s[2] = "audited" => f.products \subseteq f.filled
    [] s[1] = "rename_copy" -> "products" \notin f.tables
    [] s[1] = "stamp" -> "alembic_version" \in f.tables
    [] s[1] = "reserve" -> /\ Business \subseteq f.tables
                           /\ fastcrud => f.columns = "audited"
                           /\ keys_on => s[2] \in f.products

Effect(s, f) ==
  CASE s[1] = "create" -> [f EXCEPT !.tables = @ \cup {s[2]}]
    [] s[1] = "drop" ->
         [f EXCEPT !.tables = @ \ {s[2]},
                   !.products = IF s[2] = "products" THEN {} ELSE @,
                   !.filled = IF s[2] = "products" THEN {} ELSE @,
                   !.columns = IF s[2] = "products" THEN "plain" ELSE @,
                   !.reservations = IF s[2] = "reservations" THEN {} ELSE @,
                   !.keys = IF s[2] = "idempotency_keys" THEN {} ELSE @]
    [] s[1] = "add_columns" -> [f EXCEPT !.columns = "nullable"]
    [] s[1] = "fill_columns" -> [f EXCEPT !.filled = f.products]
    [] s[1] = "create_copy" -> [f EXCEPT !.tables = @ \cup {"_alembic_tmp_products"},
                                         !.copy_columns = s[2]]
    [] s[1] = "fill_copy" -> [f EXCEPT !.copy = f.products]
    [] s[1] = "rename_copy" ->
         [f EXCEPT !.tables = (@ \ {"_alembic_tmp_products"}) \cup {"products"},
                   !.columns = f.copy_columns, !.copy_columns = "plain",
                   !.products = f.copy, !.copy = {},
                   !.filled = IF f.copy_columns = "audited" THEN f.copy ELSE {}]
    [] s[1] = "stamp" -> [f EXCEPT !.revision = s[2]]
    [] s[1] = "reserve" -> [f EXCEPT !.reservations = @ \cup {s[2]},
                                     !.keys = @ \cup {s[2]}]

-----------------------------------------------------------------------------
Places == {"new", "connected", "migrating", "checked", "ending", "ended",
           "serving", "reserving", "dead"}
Verbs == {"create", "drop", "add_columns", "fill_columns", "create_copy", "fill_copy",
          "rename_copy", "stamp", "reserve"}
Results == {"none", "ok", "busy", "violations", "error", "rejected"}

MigrationTypeOK ==
  /\ fastcrud \in BOOLEAN
  /\ command \in [Processes -> {"upgrade", "downgrade"} \X Revisions]
  /\ container \in SUBSET Processes /\ given \in SUBSET Processes
  /\ file \in File
  /\ shared \in SUBSET Processes
  /\ writer \in Processes \cup {Nobody}
  /\ pendingLock \in BOOLEAN
  /\ pc \in [Processes -> Places]
  /\ enforced \in [Processes -> BOOLEAN]
  /\ plan \in [Processes -> Seq(Verbs \X (Tables \cup Columns \cup Revisions \cup Products))]
  /\ work \in [Processes -> File]
  /\ exitStatus \in [Processes -> Results]
  /\ orphaned \in BOOLEAN

\* The commands of scripts/start.sh, the documentation and the tests.
CommandsOf(head) ==
  {<<"upgrade", head>>, <<"upgrade", "tables">>, <<"downgrade", "base">>}

MigrationInit ==
  /\ fastcrud \in BOOLEAN
  /\ command \in [Processes -> CommandsOf(Head_)]
  /\ container \in SUBSET {p \in Processes : command[p] = <<"upgrade", Head_>>}
  /\ given \in IF fastcrud THEN SUBSET (Processes \ container) ELSE {{}}
  /\ file = NewFile
  /\ shared = {} /\ writer = Nobody /\ pendingLock = FALSE
  /\ pc = [p \in Processes |-> "new"]
  /\ enforced = [p \in Processes |-> TRUE]
  /\ plan = [p \in Processes |-> << >>]
  /\ work = [p \in Processes |-> NewFile]
  /\ exitStatus = [p \in Processes |-> "none"]
  /\ orphaned = FALSE

Go(p, to) == pc' = [pc EXCEPT ![p] = to]

\* Commit, rollback and death let go of the locks; what the transaction saw
\* is forgotten.
Release(p) ==
  /\ shared' = shared \ {p}
  /\ writer' = IF writer = p THEN Nobody ELSE writer
  /\ pendingLock' = (pendingLock /\ writer # p)
  /\ plan' = [plan EXCEPT ![p] = << >>]
  /\ work' = [work EXCEPT ![p] = NewFile]

\* The transaction is rolled back.
GiveUp(p, why) ==
  /\ Release(p)
  /\ IF pc[p] = "reserving"
     THEN Go(p, "serving") /\ UNCHANGED exitStatus
     ELSE Go(p, "ending") /\ exitStatus' = [exitStatus EXCEPT ![p] = why]
  /\ UNCHANGED <<inputs, file, enforced, orphaned>>

-----------------------------------------------------------------------------
(* A command. *)

\* Mutant: the pragma is left out, or is no use because a transaction is open.
ConnectEnforcing(p) ==
  /\ pc[p] = "new"
  /\ Go(p, "connected")
  /\ UNCHANGED <<inputs, file, locks, enforced, plan, work, exitStatus, orphaned>>

\* FastCRUD turns the foreign keys off, which does nothing within a
\* transaction, and refuses a connection that is in one.
Connect(p) ==
  /\ pc[p] = "new"
  /\ IF p \in given
     THEN /\ Go(p, "ended")
          /\ exitStatus' = [exitStatus EXCEPT ![p] = "rejected"]
          /\ UNCHANGED enforced
     ELSE /\ Go(p, "connected")
          /\ enforced' = [enforced EXCEPT ![p] = ~fastcrud]
          /\ UNCHANGED exitStatus
  /\ UNCHANGED <<inputs, file, locks, plan, work, orphaned>>

\* BEGIN, and the current revision is read.
BeginMigration(p) ==
  /\ pc[p] = "connected"
  /\ ~pendingLock
  /\ shared' = shared \cup {p}
  /\ work' = [work EXCEPT ![p] = file]
  /\ plan' = [plan EXCEPT ![p] = Plan(file, command[p][1], command[p][2])]
  /\ Go(p, "migrating")
  /\ UNCHANGED <<inputs, file, writer, pendingLock, enforced, exitStatus, orphaned>>

BeginTimesOut(p) ==
  /\ pc[p] = "connected" /\ pendingLock
  /\ GiveUp(p, "busy")

InTransaction(p) == pc[p] \in {"migrating", "reserving"}

\* Mutant: transactional_ddl is left to SQLite's default, FALSE.
ExecuteAndCommit(p) ==
  /\ InTransaction(p) /\ plan[p] # << >>
  /\ writer = Nobody /\ shared = {p}
  /\ Fits(Head(plan[p]), work[p], enforced[p])
  /\ work' = [work EXCEPT ![p] = Effect(Head(plan[p]), @)]
  /\ file' = Effect(Head(plan[p]), work[p])
  /\ plan' = [plan EXCEPT ![p] = Tail(@)]
  /\ UNCHANGED <<inputs, shared, writer, pendingLock, pc, enforced, exitStatus, orphaned>>

\* The next statement.
ExecuteStatement(p) ==
  /\ InTransaction(p) /\ plan[p] # << >>
  /\ writer \in {p, Nobody}
  /\ Fits(Head(plan[p]), work[p], enforced[p])
  /\ writer' = p
  /\ work' = [work EXCEPT ![p] = Effect(Head(plan[p]), @)]
  /\ plan' = [plan EXCEPT ![p] = Tail(@)]
  /\ UNCHANGED <<inputs, file, shared, pendingLock, pc, enforced, exitStatus, orphaned>>

StatementFails(p) ==
  /\ InTransaction(p) /\ plan[p] # << >>
  /\ writer \in {p, Nobody}
  /\ ~Fits(Head(plan[p]), work[p], enforced[p])
  /\ GiveUp(p, "error")

\* What has been read may change: SQLite does not wait here.
WriteIsBusy(p) ==
  /\ InTransaction(p) /\ plan[p] # << >>
  /\ writer \notin {p, Nobody}
  /\ GiveUp(p, "busy")

\* Mutant: nothing is checked.
CheckNothing(p) ==
  /\ pc[p] = "migrating" /\ plan[p] = << >>
  /\ Go(p, "checked")
  /\ UNCHANGED <<inputs, file, locks, enforced, plan, work, exitStatus, orphaned>>

\* FastCRUD runs PRAGMA foreign_key_check last.
Check(p) ==
  /\ pc[p] = "migrating" /\ plan[p] = << >>
  /\ fastcrud => Orphans(work[p]) = {}
  /\ Go(p, "checked")
  /\ UNCHANGED <<inputs, file, locks, enforced, plan, work, exitStatus, orphaned>>

CheckFails(p) ==
  /\ pc[p] = "migrating" /\ plan[p] = << >>
  /\ fastcrud /\ Orphans(work[p]) # {}
  /\ GiveUp(p, "violations")

AtFileCommit(p) == plan[p] = << >> /\ pc[p] \in {"checked", "reserving"}

\* A writer that finds readers keeps others out and waits for them.
CommitWaits(p) ==
  /\ AtFileCommit(p) /\ writer = p /\ shared # {p}
  /\ pendingLock' = TRUE
  /\ UNCHANGED <<inputs, file, shared, writer, local, orphaned>>

CommitTimesOut(p) ==
  /\ AtFileCommit(p) /\ writer = p /\ shared # {p}
  /\ GiveUp(p, "busy")

CommitFile(p) ==
  /\ AtFileCommit(p)
  /\ writer = p => shared = {p}
  /\ file' = IF writer = p THEN work[p] ELSE file
  /\ Release(p)
  /\ IF pc[p] = "reserving"
     THEN Go(p, "serving") /\ UNCHANGED exitStatus
     ELSE Go(p, "ending") /\ exitStatus' = [exitStatus EXCEPT ![p] = "ok"]
  /\ UNCHANGED <<inputs, enforced, orphaned>>

\* Mutant: the script goes on after a command that failed.
FinishAnyway(p) ==
  /\ pc[p] = "ending"
  /\ enforced' = [enforced EXCEPT ![p] = TRUE]
  /\ Go(p, IF p \in container THEN "serving" ELSE "ended")
  /\ UNCHANGED <<inputs, file, locks, plan, work, exitStatus, orphaned>>

\* Mutant: the pragma is put back only after a success.
FinishHalf(p) ==
  /\ pc[p] = "ending"
  /\ enforced' = [enforced EXCEPT ![p] = @ \/ exitStatus[p] = "ok"]
  /\ Go(p, IF exitStatus[p] = "ok" /\ p \in container THEN "serving" ELSE "ended")
  /\ UNCHANGED <<inputs, file, locks, plan, work, exitStatus, orphaned>>

\* The finally clause, and the end of the process or of scripts/start.sh.
FinishCommand(p) ==
  /\ pc[p] = "ending"
  /\ enforced' = [enforced EXCEPT ![p] = TRUE]
  /\ Go(p, IF exitStatus[p] = "ok" /\ p \in container THEN "serving" ELSE "ended")
  /\ UNCHANGED <<inputs, file, locks, plan, work, exitStatus, orphaned>>

-----------------------------------------------------------------------------
(* The others. *)

\* A reservation is made: BEGIN IMMEDIATE, which waits for the write lock.
Request(p, product) ==
  /\ pc[p] = "serving"
  /\ writer = Nobody
  /\ writer' = p /\ shared' = shared \cup {p}
  /\ work' = [work EXCEPT ![p] = file]
  /\ plan' = [plan EXCEPT ![p] = << <<"reserve", product>> >>]
  /\ Go(p, "reserving")
  /\ UNCHANGED <<inputs, file, pendingLock, enforced, exitStatus, orphaned>>

\* seed.py, whose transaction is one statement.
Seed(product) ==
  /\ shared = {} /\ file.revision = Head_
  /\ file' = [file EXCEPT !.products = @ \cup {product},
                          !.filled = IF fastcrud THEN @ \cup {product} ELSE @]
  /\ UNCHANGED <<inputs, locks, local, orphaned>>

\* Rows written with other tools, which need not enforce foreign keys.
LegacyRow(product) ==
  /\ shared = {} /\ file.revision = "tables"
  /\ \/ file' = [file EXCEPT !.products = @ \cup {product}] /\ UNCHANGED orphaned
     \/ /\ product \notin file.products
        /\ file' = [file EXCEPT !.reservations = @ \cup {product}]
        /\ orphaned' = TRUE
  /\ UNCHANGED <<inputs, locks, local>>

Die(p) ==
  /\ pc[p] \notin {"new", "ended", "dead"}
  /\ Release(p)
  /\ Go(p, "dead")
  /\ UNCHANGED <<inputs, file, enforced, exitStatus, orphaned>>

-----------------------------------------------------------------------------
ProcessStep(p) ==
  \/ Connect(p) \/ BeginMigration(p) \/ BeginTimesOut(p)
  \/ ExecuteStatement(p) \/ StatementFails(p) \/ WriteIsBusy(p) \/ Check(p) \/ CheckFails(p)
  \/ CommitWaits(p) \/ CommitTimesOut(p) \/ CommitFile(p) \/ FinishCommand(p)

MigrationNext ==
  \/ \E p \in Processes : ProcessStep(p) \/ Die(p) \/ (\E product \in Products : Request(p, product))
  \/ \E product \in Products : Seed(product) \/ LegacyRow(product)

MigrationSpec == MigrationInit /\ [][MigrationNext]_migrationVars

-----------------------------------------------------------------------------
\* Whatever died, failed or lost a race, the file has exactly the schema of
\* the revision it records, every row of an audited table has been filled, and
\* no table of a batch is left behind (versions/*.py, env.py:
\* transactional_ddl=True, which is not Alembic's default for SQLite).
FileIsWhole ==
  /\ "_alembic_tmp_products" \notin file.tables /\ file.copy = {}
  /\ file.revision = "base" =>
       file.tables \cap Business = {} /\ Orphans(file) = {}
  /\ file.revision # "base" =>
       /\ Business \cup {"alembic_version"} \subseteq file.tables
       /\ file.columns = IF file.revision = "audit" THEN "audited" ELSE "plain"
       /\ file.filled = IF file.revision = "audit" THEN file.products ELSE {}

\* A container serves only from the schema it was built for, as long as nobody
\* downgrades (scripts/start.sh).
ServersFindTheirSchema ==
  (\A p \in Processes : command[p][1] = "upgrade") =>
     \A p \in Processes : pc[p] \in {"serving", "reserving"} => file.revision = Head_

\* The file has the schema its revision says, and its servers the one they need.
SchemaMatchesRevision == FileIsWhole /\ ServersFindTheirSchema

\* A command never loses a row, not even one that a server committed while the
\* command was on its way; only the downgrade to base gives the tables up.
RowsSurvive ==
  [][file'.revision # "base" =>
       /\ file.products \subseteq file'.products
       /\ file.reservations \subseteq file'.reservations
       /\ file.keys \subseteq file'.keys]_file

\* A FastCRUD command that succeeds leaves no dangling reference in the file,
\* whoever wrote it, and one that finds some leaves the file as it was.
\* No other command or request ever makes one.
ReferencesAreChecked ==
  [][/\ \A p \in Processes :
         /\ fastcrud /\ exitStatus[p] = "none" /\ exitStatus'[p] = "ok" => Orphans(file') = {}
         /\ exitStatus[p] = "none" /\ exitStatus'[p] = "violations" => orphaned /\ file' = file
     /\ Orphans(file') \subseteq Orphans(file) \/ orphaned']_migrationVars

\* A command that is let at the file succeeds: it fails because the file is
\* locked, because of dangling references of others or because of the
\* connection it was given, never with an error of a statement.
OnlyHindrancesFail ==
  \A p \in Processes : exitStatus[p] # "error"

\* A process enforces foreign keys whenever it is not in its command, and what
\* a transaction has read is still what is committed.
Isolation ==
  /\ \A p \in Processes :
       /\ pc[p] \in {"new", "ended", "serving", "reserving"} => enforced[p]
       /\ p \in shared /\ writer # p => work[p] = file
  /\ pendingLock => writer # Nobody
  /\ writer # Nobody => writer \in shared

MigrationInv == MigrationTypeOK /\ Isolation
=============================================================================
