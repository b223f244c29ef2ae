------------------------------- MODULE Schema -------------------------------
(***************************************************************************)
(* How the tables of the database come to be (core/database.py): every     *)
(* process boots through create_app() (app.py) and migrates the database,  *)
(* the web server that the service manager keeps restarting and the        *)
(* commands and consoles that a user starts beside it.  Several may boot   *)
(* at once, on a database that is new, that an older version has left or   *)
(* that a boot left half migrated.                                         *)
(*                                                                         *)
(* The sqlite3 module decides what is atomic.  executescript() commits what*)
(* is pending and then runs each statement as a transaction of its own; an *)
(* INSERT opens a transaction that takes the write lock and keeps it until *)
(* the next script, or the end of the connection, commits.  A statement    *)
(* that must write waits for the lock of another process, for five seconds *)
(* at most: running out of them is one of the errors of Broken.            *)
(*                                                                         *)
(* Left out: the rows of all tables but schema_migrations and the row      *)
(* schema_version of application_state; indexes, whose statements follow   *)
(* their table's and, like it, say IF NOT EXISTS.                          *)
(***************************************************************************)
EXTENDS Naturals, Sequences

CONSTANTS
  Services,   \* processes of the web server
  Commands,   \* processes that a user starts
  MaxBoots,   \* bound: boots that are not restarts of a service
  MaxErrors,  \* bound: errors of the database
  MaxKills,   \* bound: processes killed
  Nobody      \* no process

ASSUME SchemaAssumption ==
  /\ MaxBoots \in Nat /\ MaxErrors \in Nat /\ MaxKills \in Nat
  /\ Nobody \notin Services \cup Commands

Processes == Services \cup Commands

VARIABLES
  tables,   \* the tables that exist
  stored,   \* the versions that schema_migrations holds, and schema_version
  writer,   \* the process that holds the write lock, or Nobody
  written,  \* what stored will be when the writer commits
  boot,     \* of each process: its step, the versions it found recorded, the version it
            \* has come to, the statement of its script
  why,      \* of each process: why its last boot failed
  boots, errors, kills

database == <<tables, stored, writer, written>>
schemaVars == <<database, boot, why, boots, errors, kills>>

-----------------------------------------------------------------------------
(* The schema *)

\* Mutant: the table that the last statement of initialize() writes to is forgotten.
V1_NoState == <<"export_history", "export_queue", "scheduler_jobs">>

\* _apply_schema_v1, _apply_schema_v2, _apply_schema_v3
V1 == <<"export_history", "export_queue", "scheduler_jobs", "application_state">>
V2 == <<"auth_owner", "auth_sessions">>
V3 == <<"events", "telemetry">>

Script == <<V1, V2, V3>>
Latest == Len(Script)
Versions == 1..Latest
TablesOf(v) == {Script[v][i] : i \in DOMAIN Script[v]}
TablesUpTo(v) == UNION {TablesOf(u) : u \in 1..v}

\* A new database, or what version v of the application has left.
SchemaInit ==
  /\ \E v \in 0..Latest :
       /\ tables = IF v = 0 THEN {} ELSE {"schema_migrations"} \cup TablesUpTo(v)
       /\ stored = [migrations |-> 1..v, version |-> v]
  /\ writer = Nobody /\ written = stored
  /\ boot = [p \in Processes |-> [step |-> "off", applied |-> {}, version |-> 1, at |-> 1]]
  /\ why = [p \in Processes |-> "none"]
  /\ boots = 0 /\ errors = 0 /\ kills = 0

-----------------------------------------------------------------------------
(* Statements *)

On(p, step) == boot[p].step = step
Moves(p, step) == boot' = [boot EXCEPT ![p].step = step]

\* Mutant: the connection of a boot that fails is left open.
Rollback_Open(p) == UNCHANGED <<writer, written>>

\* Database.connect: the connection is rolled back and closed.  The system does the same
\* for a process that is killed.
Rollback(p) ==
  IF writer = p THEN writer' = Nobody /\ written' = stored ELSE UNCHANGED <<writer, written>>

Commit(p) ==
  IF writer = p THEN writer' = Nobody /\ stored' = written /\ UNCHANGED written
                ELSE UNCHANGED <<stored, writer, written>>

\* A statement that inserts: in the transaction of p, which it opens if there is none.
Inserts(p, rows) ==
  /\ writer \in {p, Nobody}
  /\ writer' = p
  /\ written' = rows

\* CREATE TABLE IF NOT EXISTS outside of a transaction: a write only if it is needed.
Creates(t) ==
  /\ t \in tables \/ writer = Nobody
  /\ tables' = tables \cup {t}
  /\ UNCHANGED <<stored, writer, written>>

\* The exception leaves initialize() and create_app(): the process ends, or goes on as a
\* console without an application (cli.py).
Fails(p, reason) ==
  /\ Moves(p, "failed") /\ why' = [why EXCEPT ![p] = reason]
  /\ Rollback(p) /\ UNCHANGED <<tables, stored>>

-----------------------------------------------------------------------------
(* A boot *)

Begins(p) ==
  /\ boot' = [boot EXCEPT ![p] = [step |-> "ensure", applied |-> {}, version |-> 1, at |-> 1]]
  /\ why' = [why EXCEPT ![p] = "none"]
  /\ UNCHANGED <<database, errors, kills>>

\* The service manager starts the web server, again when it has failed or was killed.
Restarts(p) == p \in Services /\ boot[p].step \in {"off", "failed"} /\ Begins(p) /\ UNCHANGED boots

\* A user starts a command; a process that is up initializes once more (--init-db, and the
\* server, which builds its application twice).
Boots(p) ==
  /\ \/ p \in Commands /\ boot[p].step \in {"off", "failed"}
     \/ On(p, "up")
  /\ boots < MaxBoots /\ boots' = boots + 1
  /\ Begins(p)

\* _ensure_migration_table
EnsureMigrationTable(p) ==
  /\ On(p, "ensure") /\ Creates("schema_migrations") /\ Moves(p, "read")
  /\ UNCHANGED why

\* _applied_migrations
AppliedMigrations(p) ==
  /\ On(p, "read")
  /\ boot' = [boot EXCEPT ![p].step = "next", ![p].applied = stored.migrations]
  /\ UNCHANGED <<database, why>>

\* The loop of initialize(): a version that was recorded is passed over.
PassOver(p) ==
  /\ On(p, "next") /\ boot[p].version \in boot[p].applied
  /\ boot' = [boot EXCEPT ![p].version = @ + 1]
  /\ UNCHANGED <<database, why>>

\* Mutant: a version is recorded first and its tables made afterwards.
Apply_RecordFirst(p) ==
  /\ On(p, "next") /\ boot[p].version \in Versions \ boot[p].applied
  /\ writer \in {p, Nobody}
  /\ stored' = [stored EXCEPT !.migrations = @ \cup {boot[p].version}]
  /\ writer' = Nobody /\ written' = stored' /\ UNCHANGED tables
  /\ boot' = [boot EXCEPT ![p].step = "script", ![p].at = 1]
  /\ UNCHANGED why

\* The script of the next version: executescript() commits the record of the version before.
Apply(p) ==
  /\ On(p, "next") /\ boot[p].version \in Versions \ boot[p].applied
  /\ Commit(p) /\ UNCHANGED tables
  /\ boot' = [boot EXCEPT ![p].step = "script", ![p].at = 1]
  /\ UNCHANGED why

\* The statements of the script, one by one.
RunScript(p) ==
  LET script == Script[boot[p].version]
  IN /\ On(p, "script")
     /\ Creates(script[boot[p].at])
     /\ boot' = IF boot[p].at < Len(script) THEN [boot EXCEPT ![p].at = @ + 1]
                                            ELSE [boot EXCEPT ![p].step = "record"]
     /\ UNCHANGED why

\* _record_migration: a version that another process has recorded meanwhile breaks the
\* primary key.
RecordMigration(p) ==
  LET v == boot[p].version
  IN /\ On(p, "record") /\ writer = Nobody
     /\ \/ /\ v \in stored.migrations
           /\ Fails(p, "recorded")
        \/ /\ v \notin stored.migrations
           /\ Inserts(p, [stored EXCEPT !.migrations = @ \cup {v}])
           /\ boot' = [boot EXCEPT ![p].step = "next", ![p].version = @ + 1]
           /\ UNCHANGED <<tables, stored, why>>

\* set_state("schema_version"), in the transaction of the last record or in one of its own.
SetVersion(p) ==
  /\ On(p, "next") /\ boot[p].version = Latest + 1 /\ writer \in {p, Nobody}
  /\ IF "application_state" \in tables
       THEN /\ Inserts(p, [(IF writer = p THEN written ELSE stored) EXCEPT !.version = Latest])
            /\ Moves(p, "commit") /\ UNCHANGED <<tables, stored, why>>
       ELSE Fails(p, "missing")

\* Mutant: the connection is closed without a commit.
Ends_NoCommit(p) ==
  /\ On(p, "commit") /\ Moves(p, "services")
  /\ Rollback(p) /\ UNCHANGED <<tables, stored, why>>

\* initialize() returns; set_state has been asked not to commit.
Ends(p) ==
  /\ On(p, "commit") /\ Moves(p, "services")
  /\ Commit(p) /\ UNCHANGED <<tables, why>>

\* The rest of bootstrap() reads the stored states of the accounts; the web server asks for
\* the owner.
Asked(p) == {"application_state"} \cup (IF p \in Services THEN {"auth_owner"} ELSE {})

BuildServices(p) ==
  /\ On(p, "services")
  /\ IF Asked(p) \subseteq tables THEN Moves(p, "up") /\ UNCHANGED <<database, why>>
                                 ELSE Fails(p, "missing")

Booting(p) == boot[p].step \notin {"off", "failed", "up"}

\* A statement of the boot raises: the disk, or the write lock not had within five seconds.
Broken(p) ==
  /\ Booting(p) /\ errors < MaxErrors /\ errors' = errors + 1
  /\ Fails(p, "error") /\ UNCHANGED <<boots, kills>>

\* A process is killed, or a command ends.
Killed(p) ==
  /\ ~On(p, "off") /\ kills < MaxKills /\ kills' = kills + 1
  /\ Moves(p, "off") /\ Rollback(p)
  /\ UNCHANGED <<tables, stored, why, boots, errors>>

Initialize(p) ==
  /\ \/ EnsureMigrationTable(p) \/ AppliedMigrations(p)
     \/ PassOver(p) \/ Apply(p) \/ RunScript(p) \/ RecordMigration(p)
     \/ SetVersion(p) \/ Ends(p) \/ BuildServices(p)
  /\ UNCHANGED <<boots, errors, kills>>

SchemaNext ==
  \E p \in Processes :
    Restarts(p) \/ Boots(p) \/ Initialize(p) \/ Broken(p) \/ Killed(p)

\* A process that boots goes on; the service manager restarts the web server
\* (Restart=on-failure).
SchemaSpec ==
  /\ SchemaInit /\ [][SchemaNext]_schemaVars
  /\ \A p \in Processes : WF_schemaVars(Initialize(p))
  /\ \A p \in Services : WF_schemaVars(Restarts(p))

-----------------------------------------------------------------------------
(* Properties *)

\* A version is recorded only when all of its tables exist, in the transaction of a boot
\* too, so that a boot that finds it recorded may pass over its script, wherever the boots
\* before it were killed or broken; schema_version never runs ahead of the records
\* (Database.initialize).
RecordedIsWhole ==
  \A s \in {stored, written} :
    /\ \A v \in s.migrations : TablesOf(v) \subseteq tables
    /\ 1..s.version \subseteq s.migrations

\* A process that is up has the whole schema under it, recorded and complete, whoever made
\* which part of it.
UpIsMigrated ==
  \A p \in Processes : boot[p].step \in {"services", "up"} =>
    /\ TablesUpTo(Latest) \subseteq tables
    /\ stored = [migrations |-> Versions, version |-> Latest]

\* A boot that no error breaks fails for one reason only: another process has recorded a
\* version that was not recorded when the boot looked (_record_migration).  No boot misses
\* a table.
FailureExplained ==
  \A p \in Processes :
    /\ why[p] # "missing"
    /\ why[p] = "recorded" => boot[p].version \in stored.migrations \ boot[p].applied

\* The web server comes up, however its boots race with others and fail, as long as errors
\* and kills come to an end.
ServerComesUp == \A p \in Services : []<>On(p, "up")
=============================================================================
