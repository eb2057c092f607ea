------------------------------ MODULE Startup ------------------------------
(***************************************************************************)
(* From the start of the server to its first request: RunMigrations of     *)
(* internal/db/db.go and BootstrapAdmin of internal/auth/admin.go, called  *)
(* by main() in this order.                                                *)
(*                                                                         *)
(* A migration is a file of SQL statements.  Each of them is executed and  *)
(* committed by itself, and then the version is recorded: the process may  *)
(* end between any two, and a later start finds what was left.  It may be  *)
(* the start of another version of the program, with more migrations.      *)
(* The order of a file is that of its statements; of a statement it        *)
(* matters which table, index or column it makes, needs or takes away.     *)
(* The UNIQUE columns of providers and of routes are SQLite's own index of *)
(* the table; those of the other tables are left out.                      *)
(***************************************************************************)
EXTENDS Naturals, Sequences, FiniteSets

CONSTANTS
    Versions,   \* of the program: the number of migrations it comes with
    MaxStarts   \* bound: how often the server is started

ASSUME StartupAssumption == Versions \subseteq 1 .. 15 /\ MaxStarts \in Nat

VARIABLES
    schema,   \* the tables, indexes and added columns there are
    filled,   \* the tables with rows, of those that matter here
    clashes,  \* the unique indexes that two rows of their table do not allow
    applied,  \* the versions recorded in schema_migrations
    user,     \* the password of the first admin, as far as there is one
    file,     \* the password in data/bootstrap-admin-password
    starts,   \* how often the server was started
    process,  \* what it is doing
    torn      \* history: a process ended in the middle of a migration

vars == <<schema, filled, clashes, applied, user, file, starts, process, torn>>

(***************************************************************************)
(* The migrations.                                                         *)
(***************************************************************************)

\* CREATE TABLE, CREATE INDEX or ADD COLUMN, CREATE INDEX IF NOT EXISTS, the
\* INSERT of one table's rows into another, DROP TABLE and RENAME TO.
Create(table) == [op |-> "create", on |-> table, to |-> table]
Add(table, part) == [op |-> "add", on |-> table, to |-> part]
Ensure(table, index) == [op |-> "ensure", on |-> table, to |-> index]
Copy(from, to) == [op |-> "copy", on |-> from, to |-> to]
Drop(table) == [op |-> "drop", on |-> table, to |-> table]
Rename(from, to) == [op |-> "rename", on |-> from, to |-> to]

create_users == <<Create("users")>>
create_api_keys == <<Create("api_keys")>>
create_providers == <<Create("providers")>>
create_routes == <<Create("routes")>>
create_route_targets == <<Create("route_targets")>>
create_request_logs == <<Create("request_logs")>>
add_log_indexes ==
    <<Add("request_logs", "idx_request_logs_request_id"),
      Add("request_logs", "idx_request_logs_created_at"),
      Add("request_logs", "idx_request_logs_route_created"),
      Add("request_logs", "idx_request_logs_provider_created"),
      Add("request_logs", "idx_request_logs_status_created")>>
create_sessions == <<Create("sessions"), Add("sessions", "idx_sessions_token_hash")>>

\* FAULT: the old table is dropped before its rows are copied.
fix_soft_delete_unique_drops_first ==
    <<Create("providers_new"), Drop("providers"), Rename("providers_new", "providers"),
      Add("providers", "idx_providers_name_active"),
      Create("routes_new"), Copy("routes", "routes_new"), Drop("routes"),
      Rename("routes_new", "routes"),
      Add("routes", "idx_routes_name_active"), Add("routes", "idx_routes_model_active")>>

fix_soft_delete_unique ==
    <<Create("providers_new"), Copy("providers", "providers_new"), Drop("providers"),
      Rename("providers_new", "providers"), Add("providers", "idx_providers_name_active"),
      Create("routes_new"), Copy("routes", "routes_new"), Drop("routes"),
      Rename("routes_new", "routes"),
      Add("routes", "idx_routes_name_active"), Add("routes", "idx_routes_model_active")>>

add_route_require_auth == <<Add("routes", "routes.require_auth")>>
add_target_log_index == <<Ensure("request_logs", "idx_request_logs_target_created")>>
create_projects == <<Create("projects"), Add("projects", "idx_projects_name")>>
add_route_project_id ==
    <<Add("routes", "routes.project_id"), Add("routes", "idx_routes_project_id")>>
create_request_captures ==
    <<Create("request_captures"), Add("request_captures", "idx_captures_project_date"),
      Add("request_captures", "idx_captures_request_id"),
      Add("request_captures", "idx_captures_filter")>>
add_request_log_bodies ==
    <<Add("request_logs", "request_logs.request_body"),
      Add("request_logs", "request_logs.response_body")>>

\* loadMigrations: the files by their number.
Migrations ==
    <<create_users, create_api_keys, create_providers, create_routes,
      create_route_targets, create_request_logs, add_log_indexes, create_sessions,
      fix_soft_delete_unique, add_route_require_auth, add_target_log_index,
      create_projects, add_route_project_id, create_request_captures,
      add_request_log_bodies>>

Count == Len(Migrations)

\* The index of the UNIQUE columns of a table, made with the table.
OwnIndex == [providers |-> "sqlite_autoindex_providers", routes |-> "sqlite_autoindex_routes"]
MadeWith(table) == IF table \in DOMAIN OwnIndex THEN {OwnIndex[table]} ELSE {}

\* The indexes and columns of a table, which are dropped with it.
AddsTo(table, stmt) == stmt.op \in {"add", "ensure"} /\ stmt.on = table

Parts(table) ==
    MadeWith(table) \cup
    UNION {{Migrations[m][k].to : k \in {k \in 1 .. Len(Migrations[m]) :
                                           AddsTo(table, Migrations[m][k])}} : m \in 1 .. Count}

\* The tables, indexes and columns that are there after a statement, or are no
\* more.  The tables that are renamed have no parts.
Makes(stmt) ==
    CASE stmt.op = "create" -> {stmt.to} \cup MadeWith(stmt.to)
      [] stmt.op \in {"add", "ensure", "rename"} -> {stmt.to}
      [] OTHER -> {}

Takes(stmt) ==
    CASE stmt.op = "drop" -> {stmt.on} \cup Parts(stmt.on)
      [] stmt.op = "rename" -> {stmt.on}
      [] OTHER -> {}

\* What there is after a statement that succeeds.
After(things, stmt) == (things \ Takes(stmt)) \cup Makes(stmt)

\* All there may be, in the middle of a migration too.
Things ==
    UNION {UNION {Makes(Migrations[m][k]) : k \in 1 .. Len(Migrations[m])} : m \in 1 .. Count}

\* Statement b of migration a comes before statement k of migration m.
Precedes(a, b, m, k) == a < m \/ (a = m /\ b < k)

\* What an empty database has before statement k of migration m: what one
\* statement made and no later one took away.
Standing(m, k) ==
    {thing \in Things :
        \E a \in 1 .. Count : \E b \in 1 .. Len(Migrations[a]) :
            /\ Precedes(a, b, m, k)
            /\ thing \in Makes(Migrations[a][b])
            /\ \A c \in 1 .. Count : \A d \in 1 .. Len(Migrations[c]) :
                 Precedes(a, b, c, d) /\ Precedes(c, d, m, k)
                   => thing \notin Takes(Migrations[c][d])}

\* What there is after the first n migrations of an empty database.
Schema == [n \in 0 .. Count |-> Standing(n + 1, 1)]

\* The rows of a table, wherever a statement leaves them.
Rebuilt == [providers |-> {"providers", "providers_new"}, routes |-> {"routes", "routes_new"}]
HasRows(table) == filled \cap Rebuilt[table] # {}

\* The tables of which it matters whether they have rows.
Fillable == {"route_targets"} \cup UNION {Rebuilt[table] : table \in DOMAIN Rebuilt}

\* The unique indexes of migration 9, in the place of UNIQUE columns, and their tables.
UniqueIndex == [idx_providers_name_active |-> "providers", idx_routes_name_active |-> "routes",
                idx_routes_model_active |-> "routes"]

(***************************************************************************)
(* The server.                                                             *)
(***************************************************************************)

None == 0           \* no admin, no file
FromEnv == 1        \* the password of LUMENROUTE's environment
Generated(n) == n + 1   \* the one generated by the n-th start
Empty == MaxStarts + 2  \* of a file that was truncated and not written

Password == None .. Empty

Down(at) == [at |-> at, version |-> 0, env |-> FALSE, migration |-> 0, stmt |-> 0]

TypeOK ==
    /\ schema \subseteq Things
    /\ filled \subseteq schema \cap Fillable
    /\ clashes \subseteq DOMAIN UniqueIndex
    /\ applied = 1 .. Cardinality(applied) /\ applied \subseteq 1 .. Count
    /\ user \in Password \ {Empty} /\ file \in Password \ {FromEnv}
    /\ starts \in 0 .. MaxStarts
    /\ process \in [at : {"down", "failed", "migrating", "admin", "file", "writing",
                          "inserting", "serving"},
                    version : Versions \cup {0}, env : BOOLEAN,
                    migration : 0 .. Count + 1, stmt : 0 .. 12]
    /\ torn \in BOOLEAN

Init ==
    /\ schema = {}
    /\ filled = {}
    /\ clashes = {}
    /\ applied = {}
    /\ user = None
    /\ file = None
    /\ starts = 0
    /\ process = Down("down")
    /\ torn = FALSE

tables == <<schema, filled, clashes>>
database == <<tables, applied>>
admin == <<user, file>>

At(at) == process.at = at
GoTo(at) == process' = [process EXCEPT !.at = at]

\* main() of a version of the program, with or without a password in its
\* environment.  The versions already recorded may be more than it knows.
Start(version, env) ==
    /\ process.at \in {"down", "failed"}
    /\ starts < MaxStarts
    /\ starts' = starts + 1
    /\ process' = [at |-> "migrating", version |-> version, env |-> env,
                   migration |-> 1, stmt |-> 0]
    /\ UNCHANGED <<database, admin, torn>>

\* FAULT: a version is not looked up, every migration is run at every start.
CheckNothing ==
    /\ At("migrating") /\ process.stmt = 0 /\ process.migration <= process.version
    /\ process' = [process EXCEPT !.stmt = 1]
    /\ UNCHANGED <<database, admin, starts, torn>>

\* FAULT: a version is recorded before its statements are executed.
CheckRecords ==
    /\ At("migrating") /\ process.stmt = 0 /\ process.migration <= process.version
    /\ process' = IF process.migration \in applied
                  THEN [process EXCEPT !.migration = @ + 1]
                  ELSE [process EXCEPT !.stmt = 1]
    /\ applied' = applied \cup {process.migration}
    /\ UNCHANGED <<tables, admin, starts, torn>>

\* The COUNT of a version: a migration that is recorded is passed over.
Check ==
    /\ At("migrating") /\ process.stmt = 0 /\ process.migration <= process.version
    /\ process' = IF process.migration \in applied
                  THEN [process EXCEPT !.migration = @ + 1]
                  ELSE [process EXCEPT !.stmt = 1]
    /\ UNCHANGED <<database, admin, starts, torn>>

Current == Migrations[process.migration]
Statement == Current[process.stmt]
InMigration == At("migrating") /\ process.stmt > 0 /\ process.stmt <= Len(Current)

\* SQLite refuses to make what there is, to make an index or a column without
\* its table or a unique index on rows that clash, to copy rows a second time,
\* to rename what there is not, and, because Open turns foreign keys on, to
\* drop a table with rows that route_targets refers to.
Succeeds(stmt) ==
    CASE stmt.op = "create" -> stmt.to \notin schema
      [] stmt.op = "add" -> stmt.on \in schema /\ stmt.to \notin schema \cup clashes
      [] stmt.op = "ensure" -> stmt.on \in schema
      [] stmt.op = "copy" -> {stmt.on, stmt.to} \subseteq schema /\ ~({stmt.on, stmt.to} \subseteq filled)
      [] stmt.op = "drop" -> stmt.on \in schema /\ "route_targets" \notin filled
      [] stmt.op = "rename" -> stmt.on \in schema /\ stmt.to \notin schema

\* The tables with rows after a statement: rows are copied, dropped or renamed
\* with their table.
FilledAfter(stmt) ==
    CASE stmt.op = "copy" /\ stmt.on \in filled -> filled \cup {stmt.to}
      [] stmt.op = "drop" -> filled \ {stmt.on}
      [] stmt.op = "rename" /\ stmt.on \in filled -> (filled \ {stmt.on}) \cup {stmt.to}
      [] OTHER -> filled

\* A statement of the migration is executed,
Execute ==
    /\ InMigration
    /\ Succeeds(Statement)
    /\ schema' = After(schema, Statement)
    /\ filled' = FilledAfter(Statement)
    /\ process' = [process EXCEPT !.stmt = @ + 1]
    /\ UNCHANGED <<clashes, applied, admin, starts, torn>>

\* ... or fails, and log.Fatal ends the process.
Fail ==
    /\ InMigration
    /\ ~Succeeds(Statement)
    /\ process' = Down("failed")
    /\ torn' = (torn \/ process.stmt > 1)
    /\ UNCHANGED <<database, admin, starts>>

\* FAULT: the version that is recorded is the next one.
RecordNext ==
    /\ At("migrating") /\ process.stmt > 0
    /\ process.stmt = Len(Current) + 1
    /\ applied' = applied \cup {process.migration + 1}
    /\ process' = [process EXCEPT !.migration = @ + 1, !.stmt = 0]
    /\ UNCHANGED <<tables, admin, starts, torn>>

\* The version is recorded after the last statement.
Record ==
    /\ At("migrating") /\ process.stmt > 0
    /\ process.stmt = Len(Current) + 1
    /\ applied' = applied \cup {process.migration}
    /\ process' = [process EXCEPT !.migration = @ + 1, !.stmt = 0]
    /\ UNCHANGED <<tables, admin, starts, torn>>

Migrated ==
    /\ At("migrating") /\ process.migration > process.version
    /\ GoTo("admin")
    /\ UNCHANGED <<database, admin, starts, torn>>

\* FAULT: a password is generated before the users are counted.
CountUsersLate ==
    /\ At("admin")
    /\ GoTo(IF ~process.env THEN "file" ELSE IF user # None THEN "serving" ELSE "inserting")
    /\ UNCHANGED <<database, admin, starts, torn>>

\* BootstrapAdmin counts the users: there is one, or one is made with the
\* password of the environment or with a new one, for which there is the file.
CountUsers ==
    /\ At("admin")
    /\ GoTo(IF user # None THEN "serving" ELSE IF process.env THEN "inserting" ELSE "file")
    /\ UNCHANGED <<database, admin, starts, torn>>

\* os.WriteFile truncates the file,
Truncate ==
    /\ At("file")
    /\ file' = Empty
    /\ GoTo("writing")
    /\ UNCHANGED <<database, user, starts, torn>>

\* ... and writes it.
WriteFile ==
    /\ At("writing")
    /\ file' = Generated(starts)
    /\ GoTo("inserting")
    /\ UNCHANGED <<database, user, starts, torn>>

\* The row of the admin.
InsertUser ==
    /\ At("inserting")
    /\ user' = IF process.env THEN FromEnv ELSE Generated(starts)
    /\ GoTo("serving")
    /\ UNCHANGED <<database, file, starts, torn>>

\* The server serves: a provider, a route or a target is created.
Fill(table) ==
    /\ At("serving")
    /\ table \in {"providers", "routes", "route_targets"} \cap schema
    /\ table = "route_targets" => {"providers", "routes"} \subseteq filled
    /\ filled' = filled \cup {table}
    /\ UNCHANGED <<schema, clashes, applied, admin, starts, process, torn>>

\* ... or one more, of the same name as another: neither Service looks for one,
\* so that only an index of the table refuses it.
FillTwice(index) ==
    /\ At("serving")
    /\ LET table == UniqueIndex[index] IN
         table \in filled /\ {OwnIndex[table], index} \cap schema = {}
    /\ clashes' = clashes \cup {index}
    /\ UNCHANGED <<schema, filled, applied, admin, starts, process, torn>>

\* One of the two is deleted or renamed.
Settle(index) ==
    /\ At("serving")
    /\ index \in clashes /\ UniqueIndex[index] \in schema
    /\ clashes' = clashes \ {index}
    /\ UNCHANGED <<schema, filled, applied, admin, starts, process, torn>>

\* The process ends, by a signal, a crash or an error of something else.
Stop ==
    /\ process.at \notin {"down", "failed"}
    /\ torn' = (torn \/ (At("migrating") /\ process.stmt > 1))
    /\ process' = Down("down")
    /\ UNCHANGED <<database, admin, starts>>

Next ==
    \/ \E version \in Versions, env \in BOOLEAN : Start(version, env)
    \/ Check
    \/ Execute
    \/ Fail
    \/ Record
    \/ Migrated
    \/ CountUsers
    \/ Truncate
    \/ WriteFile
    \/ InsertUser
    \/ \E table \in DOMAIN Rebuilt \cup {"route_targets"} : Fill(table)
    \/ \E index \in DOMAIN UniqueIndex : FillTwice(index) \/ Settle(index)
    \/ Stop

Spec == Init /\ [][Next]_vars

(***************************************************************************)
(* Properties.                                                             *)
(***************************************************************************)

\* Whatever starts were cut off, and whichever versions were started in turn, a
\* server that serves has the schema that all its migrations, and those of a
\* newer version before it, make of an empty database: unless it is an older
\* version, which does not see that the upgrade before it was torn.
ServesOnFullSchema ==
    At("serving") =>
        /\ process.version <= Cardinality(applied)
        /\ \/ schema = Schema[Cardinality(applied)]
           \/ torn /\ \E newer \in Versions : newer > process.version

\* A start fails only if it is an upgrade past the rebuild of migration 9 of a
\* database with targets, or if one before it ended in the middle of a
\* migration.  Then it is what the next start tries first that fails, or in the
\* rebuild of a table its replacement is there already, or two rows clash: a
\* rebuild that was cut off after it replaced a table is repeated and succeeds.
FailsOnlyIfTorn ==
    [][Fail => \/ process.migration = 9 /\ "route_targets" \in filled
               \/ torn /\ \/ process.stmt = 1
                          \/ Statement = Create("routes_new")
                          \/ Statement.to \in clashes]_vars

\* No provider and no route gets lost, whatever is cut off and fails while their
\* tables are rebuilt.
NothingIsLost == [][\A table \in DOMAIN Rebuilt : HasRows(table) => HasRows(table)']_vars

\* An admin with a generated password can log in: it is the one in the file,
\* whatever starts were cut off between the file and the row.
NobodyIsLockedOut == user \notin {None, FromEnv} => file = user

=============================================================================
