------------------------------ MODULE Startup ------------------------------
(***************************************************************************)
(* The start of the process (lifespan in app/main.py) and run_migrations   *)
(* of app/db.py, under restarts and deployments of newer releases.         *)
(*                                                                         *)
(* executescript first commits what is open, then runs the statements of   *)
(* the script one by one, each committed on its own; the INSERT into       *)
(* schema_migrations that follows stays open until the next script or the  *)
(* commit at the end.  No statement of app/migrations can be run twice: a  *)
(* table, an index, a column or the config row is there already, and the   *)
(* process exits with the exception, to be started again by the            *)
(* container's restart policy.                                             *)
(***************************************************************************)
EXTENDS Naturals

CONSTANTS LastMigration,   \* the migrations are 1 .. LastMigration, in file order
          Statements,      \* how many statements each one has
          MaxCrashes       \* bound of the model

Migrations == 1 .. LastMigration

ASSUME StartupAssumption ==
    /\ LastMigration \in Nat
    /\ Statements \in [Migrations -> Nat \ {0}]
    /\ MaxCrashes \in Nat

VARIABLES release,    \* the deployed image has the migrations 1 .. release
          recorded,   \* table schema_migrations, as committed
          pending,    \* the record in the open transaction
          done,       \* how many statements of each migration have been run
          process,    \* where the process is
          crashes     \* restarts and deployments so far

startupVars == <<release, recorded, pending, done, process, crashes>>

Down == [pc |-> "down"]
BetweenScripts == [pc |-> "between"]
InScript(m, k) == [pc |-> "script", migration |-> m, statement |-> k]
Seeding == [pc |-> "seeding"]
Seeded == [pc |-> "seeded"]
Serving == [pc |-> "serving"]

FullyDone(m) == done[m] = Statements[m]

\* The database may be empty, or left by an earlier release, or a restored backup.
StartupInit ==
    /\ release \in Migrations
    /\ \E earlier \in 0 .. release :
          /\ recorded = 1 .. earlier
          /\ done = [m \in Migrations |-> IF m <= earlier THEN Statements[m] ELSE 0]
    /\ pending = {}
    /\ process = Down
    /\ crashes = 0

StartProcess ==
    /\ process = Down
    /\ process' = BetweenScripts
    /\ UNCHANGED <<release, recorded, pending, done, crashes>>

\* Mutant: the records are not looked at.
UnappliedIgnoringRecords == {m \in 1 .. release : m \notin pending}

\* The files that the loop does not skip.
Unapplied == (1 .. release) \ (recorded \cup pending)

\* Mutant: the record is written before the script.
BeginScriptRecordFirst(m) ==
    /\ process = BetweenScripts
    /\ m \in Unapplied
    /\ \A earlier \in Unapplied : m <= earlier
    /\ recorded' = recorded \cup pending \cup {m}
    /\ pending' = {}
    /\ process' = InScript(m, 1)
    /\ UNCHANGED <<release, done, crashes>>

\* executescript commits the open record of the script before.
BeginScript(m) ==
    /\ process = BetweenScripts
    /\ m \in Unapplied
    /\ \A earlier \in Unapplied : m <= earlier
    /\ recorded' = recorded \cup pending
    /\ pending' = {}
    /\ process' = InScript(m, 1)
    /\ UNCHANGED <<release, done, crashes>>

\* One statement of a script, in autocommit; after the last one the record is inserted.
RunStatement(m) ==
    /\ process.pc = "script" /\ process.migration = m
    /\ done[m] < process.statement
    /\ done' = [done EXCEPT ![m] = process.statement]
    /\ IF process.statement = Statements[m]
       THEN pending' = {m} /\ process' = BetweenScripts
       ELSE process' = InScript(m, process.statement + 1) /\ UNCHANGED pending
    /\ UNCHANGED <<release, recorded, crashes>>

\* Mutant: the exception is swallowed, and the migration recorded.
SwallowStatement(m) ==
    /\ process.pc = "script" /\ process.migration = m
    /\ done[m] >= process.statement
    /\ pending' = {m}
    /\ process' = BetweenScripts
    /\ UNCHANGED <<release, recorded, done, crashes>>

\* The statement was run by an earlier start: the exception ends the process.
StatementFails(m) ==
    /\ process.pc = "script" /\ process.migration = m
    /\ done[m] >= process.statement
    /\ process' = Down
    /\ UNCHANGED <<release, recorded, pending, done, crashes>>

\* The commit at the end of run_migrations.
MigrationsEnd ==
    /\ process = BetweenScripts
    /\ Unapplied = {}
    /\ recorded' = recorded \cup pending
    /\ pending' = {}
    /\ process' = Seeding
    /\ UNCHANGED <<release, done, crashes>>

\* The seeding commits a new admin, if there is none.
CommitSeed ==
    /\ process = Seeding
    /\ process' = Seeded
    /\ UNCHANGED <<release, recorded, pending, done, crashes>>

\* The seeding is over: the application answers requests.
StartServing ==
    /\ process \in {Seeding, Seeded}
    /\ process' = Serving
    /\ UNCHANGED <<release, recorded, pending, done, crashes>>

\* The container is stopped, for nothing or for a newer image; what was open is gone.
Stop ==
    /\ process # Down
    /\ crashes < MaxCrashes
    /\ crashes' = crashes + 1
    /\ process' = Down
    /\ pending' = {}
    /\ release' \in release .. LastMigration
    /\ UNCHANGED <<recorded, done>>

MigrationStep ==
    \/ StartProcess
    \/ \E m \in Migrations : BeginScript(m) \/ RunStatement(m) \/ StatementFails(m)
    \/ MigrationsEnd

StartupNext == MigrationStep \/ CommitSeed \/ StartServing \/ Stop

StartupSpec == StartupInit /\ [][StartupNext]_startupVars

-----------------------------------------------------------------------------
(* Properties.                                                             *)

\* The state keeps its shape.
StartupTypeOK ==
    /\ release \in Migrations
    /\ recorded \subseteq Migrations /\ pending \subseteq Migrations
    /\ done \in [Migrations -> Nat] /\ \A m \in Migrations : done[m] <= Statements[m]
    /\ process \in {Down, BetweenScripts, Seeding, Seeded, Serving}
           \cup [pc : {"script"}, migration : Migrations, statement : Nat \ {0}]
    /\ process.pc = "script" => process.statement <= Statements[process.migration]
    /\ crashes \in Nat

\* A migration is on record only when every statement of it has been run, wherever a
\* stop cuts a start (run_migrations inserts the record after the script).
RecordedMeansDone == \A m \in recorded : FullyDone(m)

\* Requests are answered only on a database that has every migration of the release.
ServesMigrated == process \in {Seeding, Seeded, Serving} => \A m \in 1 .. release : FullyDone(m)

\* A stop has cut a script, or come between a script and the commit of its record.
Torn == process = Down /\ \E m \in Migrations \ recorded : done[m] > 0

\* The restart policy always brings the application back, from whatever a database
\* holds that no stop has torn (db.py:20 skips what is on record).
StartsUnlessTorn == []~Torn => []<>(process = Serving)
=============================================================================
