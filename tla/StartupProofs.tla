---------------------------- MODULE StartupProofs ----------------------------
(***************************************************************************)
(* Proofs about Startup, for every set of versions of the program and      *)
(* every number of starts.                                                 *)
(***************************************************************************)
EXTENDS Startup, FiniteSetTheorems, TLAPS

(***************************************************************************)
(* The migrations: what is created is created by one statement, and only   *)
(* the rebuild of migration 9 takes tables away.                           *)
(***************************************************************************)

\* The number of the migration, and of its statement, that creates a thing.
Creator(thing) ==
    CASE thing = "users" -> <<1, 1>>
      [] thing = "api_keys" -> <<2, 1>>
      [] thing = "providers" -> <<3, 1>>
      [] thing = "sqlite_autoindex_providers" -> <<3, 1>>
      [] thing = "routes" -> <<4, 1>>
      [] thing = "sqlite_autoindex_routes" -> <<4, 1>>
      [] thing = "route_targets" -> <<5, 1>>
      [] thing = "request_logs" -> <<6, 1>>
      [] thing = "idx_request_logs_request_id" -> <<7, 1>>
      [] thing = "idx_request_logs_created_at" -> <<7, 2>>
      [] thing = "idx_request_logs_route_created" -> <<7, 3>>
      [] thing = "idx_request_logs_provider_created" -> <<7, 4>>
      [] thing = "idx_request_logs_status_created" -> <<7, 5>>
      [] thing = "sessions" -> <<8, 1>>
      [] thing = "idx_sessions_token_hash" -> <<8, 2>>
      [] thing = "providers_new" -> <<9, 1>>
      [] thing = "idx_providers_name_active" -> <<9, 5>>
      [] thing = "routes_new" -> <<9, 6>>
      [] thing = "idx_routes_name_active" -> <<9, 10>>
      [] thing = "idx_routes_model_active" -> <<9, 11>>
      [] thing = "routes.require_auth" -> <<10, 1>>
      [] thing = "idx_request_logs_target_created" -> <<11, 1>>
      [] thing = "projects" -> <<12, 1>>
      [] thing = "idx_projects_name" -> <<12, 2>>
      [] thing = "routes.project_id" -> <<13, 1>>
      [] thing = "idx_routes_project_id" -> <<13, 2>>
      [] thing = "request_captures" -> <<14, 1>>
      [] thing = "idx_captures_project_date" -> <<14, 2>>
      [] thing = "idx_captures_request_id" -> <<14, 3>>
      [] thing = "idx_captures_filter" -> <<14, 4>>
      [] thing = "request_logs.request_body" -> <<15, 1>>
      [] thing = "request_logs.response_body" -> <<15, 2>>

\* The table an index or a column belongs to, by the statement that adds it.
Host(m, k) ==
    CASE m \in {7, 11, 15} -> "request_logs"
      [] m = 8 -> "sessions"
      [] m = 9 /\ k = 5 -> "providers"
      [] m = 9 /\ k # 5 -> "routes"
      [] m \in {10, 13} -> "routes"
      [] m = 12 -> "projects"
      [] OTHER -> "request_captures"

\* Creator, one thing at a time.
LEMMA CreatorValues ==
  /\ Creator("users") = <<1, 1>>
  /\ Creator("api_keys") = <<2, 1>>
  /\ Creator("providers") = <<3, 1>>
  /\ Creator("sqlite_autoindex_providers") = <<3, 1>>
  /\ Creator("routes") = <<4, 1>>
  /\ Creator("sqlite_autoindex_routes") = <<4, 1>>
  /\ Creator("route_targets") = <<5, 1>>
  /\ Creator("request_logs") = <<6, 1>>
  /\ Creator("idx_request_logs_request_id") = <<7, 1>>
  /\ Creator("idx_request_logs_created_at") = <<7, 2>>
  /\ Creator("idx_request_logs_route_created") = <<7, 3>>
  /\ Creator("idx_request_logs_provider_created") = <<7, 4>>
  /\ Creator("idx_request_logs_status_created") = <<7, 5>>
  /\ Creator("sessions") = <<8, 1>>
  /\ Creator("idx_sessions_token_hash") = <<8, 2>>
  /\ Creator("providers_new") = <<9, 1>>
  /\ Creator("idx_providers_name_active") = <<9, 5>>
  /\ Creator("routes_new") = <<9, 6>>
  /\ Creator("idx_routes_name_active") = <<9, 10>>
  /\ Creator("idx_routes_model_active") = <<9, 11>>
  /\ Creator("routes.require_auth") = <<10, 1>>
  /\ Creator("idx_request_logs_target_created") = <<11, 1>>
  /\ Creator("projects") = <<12, 1>>
  /\ Creator("idx_projects_name") = <<12, 2>>
  /\ Creator("routes.project_id") = <<13, 1>>
  /\ Creator("idx_routes_project_id") = <<13, 2>>
  /\ Creator("request_captures") = <<14, 1>>
  /\ Creator("idx_captures_project_date") = <<14, 2>>
  /\ Creator("idx_captures_request_id") = <<14, 3>>
  /\ Creator("idx_captures_filter") = <<14, 4>>
  /\ Creator("request_logs.request_body") = <<15, 1>>
  /\ Creator("request_logs.response_body") = <<15, 2>>
  BY DEF Creator

\* The files, by their number.
LEMMA MigrationList ==
  /\ Count = 15
  /\ Migrations[1] = create_users /\ Migrations[2] = create_api_keys
  /\ Migrations[3] = create_providers /\ Migrations[4] = create_routes
  /\ Migrations[5] = create_route_targets /\ Migrations[6] = create_request_logs
  /\ Migrations[7] = add_log_indexes /\ Migrations[8] = create_sessions
  /\ Migrations[9] = fix_soft_delete_unique /\ Migrations[10] = add_route_require_auth
  /\ Migrations[11] = add_target_log_index /\ Migrations[12] = create_projects
  /\ Migrations[13] = add_route_project_id /\ Migrations[14] = create_request_captures
  /\ Migrations[15] = add_request_log_bodies
  BY DEF Migrations, Count

\* The statements of migration 9.
LEMMA RebuildStatements ==
  /\ Len(Migrations[9]) = 11
  /\ Migrations[9][1] = Create("providers_new")
  /\ Migrations[9][2] = Copy("providers", "providers_new")
  /\ Migrations[9][3] = Drop("providers")
  /\ Migrations[9][4] = Rename("providers_new", "providers")
  /\ Migrations[9][5] = Add("providers", "idx_providers_name_active")
  /\ Migrations[9][6] = Create("routes_new")
  /\ Migrations[9][7] = Copy("routes", "routes_new")
  /\ Migrations[9][8] = Drop("routes")
  /\ Migrations[9][9] = Rename("routes_new", "routes")
  /\ Migrations[9][10] = Add("routes", "idx_routes_name_active")
  /\ Migrations[9][11] = Add("routes", "idx_routes_model_active")
  BY MigrationList DEF fix_soft_delete_unique

\* A statement that creates something, ordinary or not.
CreatesAt(m, k) ==
    LET stmt == Migrations[m][k] IN
    /\ IF m = 11 THEN stmt.op = "ensure" ELSE stmt.op \in {"create", "add"}
    /\ Creator(stmt.to) = <<m, k>>
    /\ stmt.op = "create" => \A thing \in MadeWith(stmt.to) : Creator(thing) = <<m, k>>
    /\ stmt.op \in {"add", "ensure"} => stmt.on = Host(m, k)

\* The other migrations have a statement or some, and each creates something.
LEMMA OtherStatements ==
  ASSUME NEW m \in (1 .. 15) \ {9}
  PROVE  /\ Len(Migrations[m]) \in 1 .. 5
         /\ m = 11 => Len(Migrations[m]) = 1
         /\ \A k \in 1 .. Len(Migrations[m]) : CreatesAt(m, k)
  <1>1. CASE m = 1
    <2>1. Len(Migrations[1]) = 1 /\ Migrations[1][1] = Create("users")
      BY MigrationList DEF create_users
    <2>2. CreatesAt(1, 1)
      BY <2>1, CreatorValues DEF CreatesAt, Create, Add, Ensure, MadeWith, OwnIndex, Host
    <2> QED
      BY <1>1, <2>1, <2>2
  <1>2. CASE m = 2
    <2>1. Len(Migrations[2]) = 1 /\ Migrations[2][1] = Create("api_keys")
      BY MigrationList DEF create_api_keys
    <2>2. CreatesAt(2, 1)
      BY <2>1, CreatorValues DEF CreatesAt, Create, Add, Ensure, MadeWith, OwnIndex, Host
    <2> QED
      BY <1>2, <2>1, <2>2
  <1>3. CASE m = 3
    <2>1. Len(Migrations[3]) = 1 /\ Migrations[3][1] = Create("providers")
      BY MigrationList DEF create_providers
    <2>2. CreatesAt(3, 1)
      BY <2>1, CreatorValues DEF CreatesAt, Create, Add, Ensure, MadeWith, OwnIndex, Host
    <2> QED
      BY <1>3, <2>1, <2>2
  <1>4. CASE m = 4
    <2>1. Len(Migrations[4]) = 1 /\ Migrations[4][1] = Create("routes")
      BY MigrationList DEF create_routes
    <2>2. CreatesAt(4, 1)
      BY <2>1, CreatorValues DEF CreatesAt, Create, Add, Ensure, MadeWith, OwnIndex, Host
    <2> QED
      BY <1>4, <2>1, <2>2
  <1>5. CASE m = 5
    <2>1. Len(Migrations[5]) = 1 /\ Migrations[5][1] = Create("route_targets")
      BY MigrationList DEF create_route_targets
    <2>2. CreatesAt(5, 1)
      BY <2>1, CreatorValues DEF CreatesAt, Create, Add, Ensure, MadeWith, OwnIndex, Host
    <2> QED
      BY <1>5, <2>1, <2>2
  <1>6. CASE m = 6
    <2>1. Len(Migrations[6]) = 1 /\ Migrations[6][1] = Create("request_logs")
      BY MigrationList DEF create_request_logs
    <2>2. CreatesAt(6, 1)
      BY <2>1, CreatorValues DEF CreatesAt, Create, Add, Ensure, MadeWith, OwnIndex, Host
    <2> QED
      BY <1>6, <2>1, <2>2
  <1>7. CASE m = 7
    <2>1. /\ Len(Migrations[7]) = 5
          /\ Migrations[7][1] = Add("request_logs", "idx_request_logs_request_id")
          /\ Migrations[7][2] = Add("request_logs", "idx_request_logs_created_at")
          /\ Migrations[7][3] = Add("request_logs", "idx_request_logs_route_created")
          /\ Migrations[7][4] = Add("request_logs", "idx_request_logs_provider_created")
          /\ Migrations[7][5] = Add("request_logs", "idx_request_logs_status_created")
      BY MigrationList DEF add_log_indexes
    <2>2. CreatesAt(7, 1) /\ CreatesAt(7, 2) /\ CreatesAt(7, 3) /\ CreatesAt(7, 4) /\ CreatesAt(7, 5)
      BY <2>1, CreatorValues DEF CreatesAt, Create, Add, Ensure, MadeWith, OwnIndex, Host
    <2> QED
      BY <1>7, <2>1, <2>2
  <1>8. CASE m = 8
    <2>1. /\ Len(Migrations[8]) = 2
          /\ Migrations[8][1] = Create("sessions")
          /\ Migrations[8][2] = Add("sessions", "idx_sessions_token_hash")
      BY MigrationList DEF create_sessions
    <2>2. CreatesAt(8, 1) /\ CreatesAt(8, 2)
      BY <2>1, CreatorValues DEF CreatesAt, Create, Add, Ensure, MadeWith, OwnIndex, Host
    <2> QED
      BY <1>8, <2>1, <2>2
  <1>10. CASE m = 10
    <2>1. Len(Migrations[10]) = 1 /\ Migrations[10][1] = Add("routes", "routes.require_auth")
      BY MigrationList DEF add_route_require_auth
    <2>2. CreatesAt(10, 1)
      BY <2>1, CreatorValues DEF CreatesAt, Create, Add, Ensure, MadeWith, OwnIndex, Host
    <2> QED
      BY <1>10, <2>1, <2>2
  <1>11. CASE m = 11
    <2>1. Len(Migrations[11]) = 1 /\ Migrations[11][1] = Ensure("request_logs", "idx_request_logs_target_created")
      BY MigrationList DEF add_target_log_index
    <2>2. CreatesAt(11, 1)
      BY <2>1, CreatorValues DEF CreatesAt, Create, Add, Ensure, MadeWith, OwnIndex, Host
    <2> QED
      BY <1>11, <2>1, <2>2
  <1>12. CASE m = 12
    <2>1. /\ Len(Migrations[12]) = 2
          /\ Migrations[12][1] = Create("projects")
          /\ Migrations[12][2] = Add("projects", "idx_projects_name")
      BY MigrationList DEF create_projects
    <2>2. CreatesAt(12, 1) /\ CreatesAt(12, 2)
      BY <2>1, CreatorValues DEF CreatesAt, Create, Add, Ensure, MadeWith, OwnIndex, Host
    <2> QED
      BY <1>12, <2>1, <2>2
  <1>13. CASE m = 13
    <2>1. /\ Len(Migrations[13]) = 2
          /\ Migrations[13][1] = Add("routes", "routes.project_id")
          /\ Migrations[13][2] = Add("routes", "idx_routes_project_id")
      BY MigrationList DEF add_route_project_id
    <2>2. CreatesAt(13, 1) /\ CreatesAt(13, 2)
      BY <2>1, CreatorValues DEF CreatesAt, Create, Add, Ensure, MadeWith, OwnIndex, Host
    <2> QED
      BY <1>13, <2>1, <2>2
  <1>14. CASE m = 14
    <2>1. /\ Len(Migrations[14]) = 4
          /\ Migrations[14][1] = Create("request_captures")
          /\ Migrations[14][2] = Add("request_captures", "idx_captures_project_date")
          /\ Migrations[14][3] = Add("request_captures", "idx_captures_request_id")
          /\ Migrations[14][4] = Add("request_captures", "idx_captures_filter")
      BY MigrationList DEF create_request_captures
    <2>2. CreatesAt(14, 1) /\ CreatesAt(14, 2) /\ CreatesAt(14, 3) /\ CreatesAt(14, 4)
      BY <2>1, CreatorValues DEF CreatesAt, Create, Add, Ensure, MadeWith, OwnIndex, Host
    <2> QED
      BY <1>14, <2>1, <2>2
  <1>15. CASE m = 15
    <2>1. /\ Len(Migrations[15]) = 2
          /\ Migrations[15][1] = Add("request_logs", "request_logs.request_body")
          /\ Migrations[15][2] = Add("request_logs", "request_logs.response_body")
      BY MigrationList DEF add_request_log_bodies
    <2>2. CreatesAt(15, 1) /\ CreatesAt(15, 2)
      BY <2>1, CreatorValues DEF CreatesAt, Create, Add, Ensure, MadeWith, OwnIndex, Host
    <2> QED
      BY <1>15, <2>1, <2>2
  <1> QED
    BY <1>1, <1>2, <1>3, <1>4, <1>5, <1>6, <1>7, <1>8,
       <1>10, <1>11, <1>12, <1>13, <1>14, <1>15

\* What a migration has: at most eleven statements, and each has its kind.
LEMMA Lengths ==
  ASSUME NEW m \in 1 .. Count
  PROVE  Len(Migrations[m]) \in 1 .. 11
  BY OtherStatements, RebuildStatements, MigrationList

\* A statement that creates a thing is the only one to do so; the others are
\* those of the rebuild.
HasKind(stmt, m, k) ==
    /\ stmt.op \in {"create", "add", "ensure"} =>
         Creator(stmt.to) = <<m, k>> /\ stmt.to \in Makes(stmt) /\ Takes(stmt) = {}
    /\ stmt.op = "create" =>
         /\ Makes(stmt) = {stmt.to} \cup MadeWith(stmt.to)
         /\ \A thing \in MadeWith(stmt.to) : Creator(thing) = <<m, k>>
    /\ stmt.op \in {"add", "ensure"} => Makes(stmt) = {stmt.to} /\ stmt.on = Host(m, k)
    /\ stmt.op \in {"create", "add", "ensure", "copy", "drop", "rename"}
    /\ stmt.op = "ensure" <=> m = 11
    /\ stmt.op \in {"copy", "drop", "rename"} <=> m = 9 /\ k \in {2, 3, 4, 7, 8, 9}
    /\ stmt.op = "copy" => k \in {2, 7} /\ Makes(stmt) = {} /\ Takes(stmt) = {}
    /\ stmt.op = "drop" => k \in {3, 8} /\ Makes(stmt) = {} /\ Takes(stmt) = {stmt.on} \cup Parts(stmt.on)
    /\ stmt.op = "rename" => k \in {4, 9} /\ Makes(stmt) = {stmt.to} /\ Takes(stmt) = {stmt.on}

\* Each statement is of one of the kinds.
LEMMA StatementKinds ==
  ASSUME NEW m \in 1 .. Count, NEW k \in 1 .. Len(Migrations[m])
  PROVE  HasKind(Migrations[m][k], m, k)
  <1>1. CASE m # 9
    <2>1. CreatesAt(m, k)
      BY <1>1, OtherStatements, MigrationList
    <2>2. PICK stmt : stmt = Migrations[m][k]
      OBVIOUS
    <2>3. /\ IF m = 11 THEN stmt.op = "ensure" ELSE stmt.op \in {"create", "add"}
          /\ Creator(stmt.to) = <<m, k>>
          /\ stmt.op = "create" => \A thing \in MadeWith(stmt.to) : Creator(thing) = <<m, k>>
          /\ stmt.op \in {"add", "ensure"} => stmt.on = Host(m, k)
      BY <2>1, <2>2 DEF CreatesAt
    <2>4. HasKind(stmt, m, k)
      BY <1>1, <2>3 DEF HasKind, Makes, Takes
    <2> QED
      BY <2>2, <2>4
  <1>2. CASE m = 9
    <2>1. k \in 1 .. 11
      BY <1>2, RebuildStatements
    <2>2. CASE k = 1
      BY <1>2, <2>2, RebuildStatements, CreatorValues
         DEF HasKind, Create, Add, Copy, Drop, Rename, Makes, Takes, MadeWith, OwnIndex, Host
    <2>3. CASE k = 2
      BY <1>2, <2>3, RebuildStatements, CreatorValues
         DEF HasKind, Create, Add, Copy, Drop, Rename, Makes, Takes, MadeWith, OwnIndex, Host
    <2>4. CASE k = 3
      BY <1>2, <2>4, RebuildStatements, CreatorValues
         DEF HasKind, Create, Add, Copy, Drop, Rename, Makes, Takes, MadeWith, OwnIndex, Host
    <2>5. CASE k = 4
      BY <1>2, <2>5, RebuildStatements, CreatorValues
         DEF HasKind, Create, Add, Copy, Drop, Rename, Makes, Takes, MadeWith, OwnIndex, Host
    <2>6. CASE k = 5
      BY <1>2, <2>6, RebuildStatements, CreatorValues
         DEF HasKind, Create, Add, Copy, Drop, Rename, Makes, Takes, MadeWith, OwnIndex, Host
    <2>7. CASE k = 6
      BY <1>2, <2>7, RebuildStatements, CreatorValues
         DEF HasKind, Create, Add, Copy, Drop, Rename, Makes, Takes, MadeWith, OwnIndex, Host
    <2>8. CASE k = 7
      BY <1>2, <2>8, RebuildStatements, CreatorValues
         DEF HasKind, Create, Add, Copy, Drop, Rename, Makes, Takes, MadeWith, OwnIndex, Host
    <2>9. CASE k = 8
      BY <1>2, <2>9, RebuildStatements, CreatorValues
         DEF HasKind, Create, Add, Copy, Drop, Rename, Makes, Takes, MadeWith, OwnIndex, Host
    <2>10. CASE k = 9
      BY <1>2, <2>10, RebuildStatements, CreatorValues
         DEF HasKind, Create, Add, Copy, Drop, Rename, Makes, Takes, MadeWith, OwnIndex, Host
    <2>11. CASE k = 10
      BY <1>2, <2>11, RebuildStatements, CreatorValues
         DEF HasKind, Create, Add, Copy, Drop, Rename, Makes, Takes, MadeWith, OwnIndex, Host
    <2>12. CASE k = 11
      BY <1>2, <2>12, RebuildStatements, CreatorValues
         DEF HasKind, Create, Add, Copy, Drop, Rename, Makes, Takes, MadeWith, OwnIndex, Host
    <2> QED
      BY <2>1, <2>2, <2>3, <2>4, <2>5, <2>6, <2>7, <2>8, <2>9, <2>10, <2>11, <2>12
  <1> QED
    BY <1>1, <1>2

\* What is made by a CREATE, and what else is made.
LEMMA MadeBy ==
  ASSUME NEW m \in 1 .. Count, NEW k \in 1 .. Len(Migrations[m]),
         NEW thing \in Makes(Migrations[m][k])
  PROVE  \/ Creator(thing) = <<m, k>>
         \/ m = 9 /\ k \in {4, 9} /\ thing \in {"providers", "routes"}
  <1>1. PICK stmt : stmt = Migrations[m][k]
    OBVIOUS
  <1>2. HasKind(stmt, m, k) /\ thing \in Makes(stmt)
    BY <1>1, StatementKinds
  <1>3. CASE stmt.op \in {"create", "add", "ensure"}
    BY <1>2, <1>3 DEF HasKind
  <1>4. CASE stmt.op = "rename"
    <2>1. m = 9 /\ k \in {4, 9} /\ thing = stmt.to
      BY <1>2, <1>4 DEF HasKind
    <2>2. Migrations[9][4].to = "providers" /\ Migrations[9][9].to = "routes"
      BY RebuildStatements DEF Rename
    <2> QED
      BY <1>1, <2>1, <2>2
  <1>5. CASE stmt.op \in {"copy", "drop"}
    BY <1>2, <1>5 DEF HasKind
  <1> QED
    BY <1>2, <1>3, <1>4, <1>5 DEF HasKind

\* A CREATE makes what it names.
LEMMA CreateMakes ==
  ASSUME NEW m \in 1 .. Count, NEW k \in 1 .. Len(Migrations[m]),
         Migrations[m][k].op \in {"create", "add", "ensure"}
  PROVE  /\ Creator(Migrations[m][k].to) = <<m, k>>
         /\ Migrations[m][k].to \in Makes(Migrations[m][k])
         /\ Takes(Migrations[m][k]) = {}
  <1>1. PICK stmt : stmt = Migrations[m][k]
    OBVIOUS
  <1>2. HasKind(stmt, m, k) /\ stmt.op \in {"create", "add", "ensure"}
    BY <1>1, StatementKinds
  <1>3. Creator(stmt.to) = <<m, k>> /\ stmt.to \in Makes(stmt) /\ Takes(stmt) = {}
    BY <1>2 DEF HasKind
  <1> QED
    BY <1>1, <1>3

\* Only the rebuild takes something away.
LEMMA OnlyRebuildTakes ==
  ASSUME NEW m \in 1 .. Count, NEW k \in 1 .. Len(Migrations[m]), m # 9
  PROVE  Takes(Migrations[m][k]) = {}
  <1>1. PICK stmt : stmt = Migrations[m][k]
    OBVIOUS
  <1>2. HasKind(stmt, m, k)
    BY <1>1, StatementKinds
  <1>3. Takes(stmt) = {}
    BY <1>2 DEF HasKind
  <1> QED
    BY <1>1, <1>3

\* What the rebuild takes away.
LEMMA RebuildTakes ==
  /\ Takes(Migrations[9][3]) = {"providers"} \cup Parts("providers")
  /\ Takes(Migrations[9][4]) = {"providers_new"}
  /\ Takes(Migrations[9][8]) = {"routes"} \cup Parts("routes")
  /\ Takes(Migrations[9][9]) = {"routes_new"}
  /\ \A k \in (1 .. 11) \ {3, 4, 8, 9} : Takes(Migrations[9][k]) = {}
  <1>1. /\ Takes(Migrations[9][3]) = {"providers"} \cup Parts("providers")
        /\ Takes(Migrations[9][4]) = {"providers_new"}
        /\ Takes(Migrations[9][8]) = {"routes"} \cup Parts("routes")
        /\ Takes(Migrations[9][9]) = {"routes_new"}
    BY RebuildStatements DEF Takes, Drop, Rename
  <1>2. ASSUME NEW k \in (1 .. 11) \ {3, 4, 8, 9}
        PROVE  Takes(Migrations[9][k]) = {}
    <2>1. PICK m \in 1 .. Count : m = 9
      BY MigrationList
    <2>2. k \in 1 .. Len(Migrations[m])
      BY <2>1, RebuildStatements
    <2>3. PICK stmt : stmt = Migrations[m][k]
      OBVIOUS
    <2>4. HasKind(stmt, m, k)
      BY <2>2, <2>3, StatementKinds
    <2>5. Takes(stmt) = {}
      BY <2>4 DEF HasKind
    <2> QED
      BY <2>1, <2>3, <2>5
  <1> QED
    BY <1>1, <1>2

\* A part of a table was made with it or added to it.
LEMMA PartAdded ==
  ASSUME NEW table, NEW thing \in Parts(table)
  PROVE  \/ thing \in MadeWith(table)
         \/ \E m \in 1 .. Count : \E k \in 1 .. Len(Migrations[m]) :
              /\ Creator(thing) = <<m, k>>
              /\ Migrations[m][k].op \in {"add", "ensure"}
              /\ Migrations[m][k].on = table
  <1> SUFFICES ASSUME thing \notin MadeWith(table)
               PROVE  \E m \in 1 .. Count : \E k \in 1 .. Len(Migrations[m]) :
                        /\ Creator(thing) = <<m, k>>
                        /\ Migrations[m][k].op \in {"add", "ensure"}
                        /\ Migrations[m][k].on = table
    OBVIOUS
  <1>1. PICK m \in 1 .. Count : \E k \in 1 .. Len(Migrations[m]) :
           AddsTo(table, Migrations[m][k]) /\ thing = Migrations[m][k].to
    BY DEF Parts
  <1>2. PICK k \in 1 .. Len(Migrations[m]) :
           AddsTo(table, Migrations[m][k]) /\ thing = Migrations[m][k].to
    BY <1>1
  <1>3. Migrations[m][k].op \in {"add", "ensure"} /\ Migrations[m][k].on = table
    BY <1>2 DEF AddsTo
  <1>4. Creator(thing) = <<m, k>>
    BY <1>2, <1>3, CreateMakes
  <1> QED
    BY <1>3, <1>4

\* The tables that matter below.
Tables ==
    {"providers", "providers_new", "routes", "routes_new", "route_targets",
     "request_logs", "sessions", "projects", "request_captures"}

\* A table is a part of none.
LEMMA TablesAreNoParts ==
  ASSUME NEW table, NEW thing \in Tables
  PROVE  thing \notin Parts(table)
  <1> SUFFICES ASSUME thing \in Parts(table) PROVE FALSE
    OBVIOUS
  <1>1. thing \notin MadeWith(table)
    BY DEF MadeWith, OwnIndex, Tables
  <1>2. PICK m \in 1 .. Count : \E k \in 1 .. Len(Migrations[m]) :
           Creator(thing) = <<m, k>> /\ Migrations[m][k].op \in {"add", "ensure"}
    BY <1>1, PartAdded
  <1>3. PICK k \in 1 .. Len(Migrations[m]) :
           Creator(thing) = <<m, k>> /\ Migrations[m][k].op \in {"add", "ensure"}
    BY <1>2
  <1>4. \E a, b : Creator(thing) = <<a, b>> /\ Migrations[a][b].op = "create"
    <2>1. /\ Migrations[3][1].op = "create" /\ Migrations[4][1].op = "create"
          /\ Migrations[5][1].op = "create" /\ Migrations[6][1].op = "create"
          /\ Migrations[8][1].op = "create" /\ Migrations[9][1].op = "create"
          /\ Migrations[9][6].op = "create" /\ Migrations[12][1].op = "create"
          /\ Migrations[14][1].op = "create"
      BY MigrationList, RebuildStatements DEF create_providers, create_routes, create_route_targets,
           create_request_logs, create_sessions, create_projects, create_request_captures, Create
    <2>2. Creator(thing) \in {<<3, 1>>, <<4, 1>>, <<5, 1>>, <<6, 1>>, <<8, 1>>, <<9, 1>>, <<9, 6>>,
                             <<12, 1>>, <<14, 1>>}
      BY CreatorValues DEF Tables
    <2> QED
      BY <2>1, <2>2
  <1>5. PICK a, b : Creator(thing) = <<a, b>> /\ Migrations[a][b].op = "create"
    BY <1>4
  <1>6. a = m /\ b = k
    BY <1>3, <1>5
  <1> QED
    BY <1>3, <1>5, <1>6

\* The index of providers is none of routes.
LEMMA ProviderIndex == "idx_providers_name_active" \notin Parts("routes")
  <1> SUFFICES ASSUME "idx_providers_name_active" \in Parts("routes") PROVE FALSE
    OBVIOUS
  <1>1. "idx_providers_name_active" \notin MadeWith("routes")
    BY DEF MadeWith, OwnIndex
  <1>2. PICK m \in 1 .. Count : \E k \in 1 .. Len(Migrations[m]) :
           Creator("idx_providers_name_active") = <<m, k>> /\ Migrations[m][k].on = "routes"
    BY <1>1, PartAdded
  <1>3. PICK k \in 1 .. Len(Migrations[m]) :
           Creator("idx_providers_name_active") = <<m, k>> /\ Migrations[m][k].on = "routes"
    BY <1>2
  <1>4. m = 9 /\ k = 5
    BY <1>3, CreatorValues
  <1> QED
    BY <1>3, <1>4, RebuildStatements DEF Add

\* The other tables are not taken away.
LEMMA TablesStay ==
  ASSUME NEW c \in 1 .. Count, NEW d \in 1 .. Len(Migrations[c]),
         NEW thing \in Tables \ {"providers", "providers_new", "routes", "routes_new"}
  PROVE  thing \notin Takes(Migrations[c][d])
  <1>1. CASE c # 9
    BY <1>1, OnlyRebuildTakes
  <1>2. CASE c = 9
    <2>1. d \in 1 .. 11
      BY <1>2, RebuildStatements
    <2>2. thing \notin Parts("providers") /\ thing \notin Parts("routes")
      BY TablesAreNoParts
    <2>3. CASE d \in {3, 4, 8, 9}
      BY <1>2, <2>2, <2>3, RebuildTakes DEF Tables
    <2>4. CASE d \notin {3, 4, 8, 9}
      BY <1>2, <2>1, <2>4, RebuildTakes
    <2> QED
      BY <2>3, <2>4
  <1> QED
    BY <1>1, <1>2

(***************************************************************************)
(* What an empty database has at each place of the migrations.             *)
(***************************************************************************)

\* Places are ordered.
LEMMA PrecedesOrder ==
  ASSUME NEW a \in Nat, NEW b \in Nat, NEW c \in Nat, NEW d \in Nat, NEW m \in Nat, NEW k \in Nat
  PROVE  /\ Precedes(a, b, m, k + 1) <=> Precedes(a, b, m, k) \/ (a = m /\ b = k)
         /\ Precedes(a, b, m, k) => a <= m
         /\ ~(Precedes(a, b, c, d) /\ Precedes(c, d, a, b + 1))
         /\ Precedes(a, b, c, d) => <<a, b>> # <<c, d>> /\ ~Precedes(c, d, a, b)
  BY DEF Precedes

\* A thing stands if a statement made it and none took it away since.
LEMMA StandsIf ==
  ASSUME NEW m \in Nat, NEW k \in Nat, NEW thing,
         NEW a \in 1 .. Count, NEW b \in 1 .. Len(Migrations[a]),
         Precedes(a, b, m, k), thing \in Makes(Migrations[a][b]),
         \A c \in 1 .. Count : \A d \in 1 .. Len(Migrations[c]) :
            Precedes(a, b, c, d) /\ Precedes(c, d, m, k)
              => thing \notin Takes(Migrations[c][d])
  PROVE  thing \in Standing(m, k)
  <1>1. thing \in Things
    BY DEF Things
  <1> QED
    BY <1>1 DEF Standing

\* A statement does to the standing what it does to a database.
LEMMA StandingStep ==
  ASSUME NEW m \in 1 .. Count, NEW k \in 1 .. Len(Migrations[m])
  PROVE  Standing(m, k + 1) = After(Standing(m, k), Migrations[m][k])
  <1>1. m \in Nat /\ k \in Nat /\ k + 1 \in Nat
    BY Lengths
  <1>2. \A a \in 1 .. Count : a \in Nat /\ \A b \in 1 .. Len(Migrations[a]) : b \in Nat
    BY Lengths
  <1>3. ASSUME NEW thing \in Standing(m, k + 1)
        PROVE  thing \in After(Standing(m, k), Migrations[m][k])
    <2>1. PICK a \in 1 .. Count, b \in Nat :
             /\ b \in 1 .. Len(Migrations[a])
             /\ Precedes(a, b, m, k + 1)
             /\ thing \in Makes(Migrations[a][b])
             /\ \A c \in 1 .. Count : \A d \in 1 .. Len(Migrations[c]) :
                  Precedes(a, b, c, d) /\ Precedes(c, d, m, k + 1)
                    => thing \notin Takes(Migrations[c][d])
      BY <1>2, <1>3 DEF Standing
    <2>2. a \in Nat /\ b \in Nat
      BY <1>2
    <2>3. CASE a = m /\ b = k
      BY <2>1, <2>3 DEF After
    <2>4. CASE ~(a = m /\ b = k)
      <3>1. Precedes(a, b, m, k)
        BY <1>1, <2>1, <2>2, <2>4 DEF Precedes
      <3>2. thing \notin Takes(Migrations[m][k])
        BY <1>1, <2>1, <3>1, PrecedesOrder
      <3>3. \A c \in 1 .. Count : \A d \in 1 .. Len(Migrations[c]) :
              Precedes(c, d, m, k) => Precedes(c, d, m, k + 1)
        BY <1>1, <1>2, PrecedesOrder
      <3>4. thing \in Standing(m, k)
        BY <1>1, <2>1, <3>1, <3>3, StandsIf
      <3> QED
        BY <3>2, <3>4 DEF After
    <2> QED
      BY <2>3, <2>4
  <1>4. ASSUME NEW thing \in Makes(Migrations[m][k])
        PROVE  thing \in Standing(m, k + 1)
    <2>1. Precedes(m, k, m, k + 1)
      BY <1>1, PrecedesOrder
    <2>2. \A c \in 1 .. Count : \A d \in 1 .. Len(Migrations[c]) :
            ~(Precedes(m, k, c, d) /\ Precedes(c, d, m, k + 1))
      BY <1>1, <1>2, PrecedesOrder
    <2> QED
      BY <1>1, <1>4, <2>1, <2>2, StandsIf
  <1>5. ASSUME NEW thing \in Standing(m, k), thing \notin Takes(Migrations[m][k])
        PROVE  thing \in Standing(m, k + 1)
    <2>1. PICK a \in 1 .. Count, b \in Nat :
             /\ b \in 1 .. Len(Migrations[a])
             /\ Precedes(a, b, m, k)
             /\ thing \in Makes(Migrations[a][b])
             /\ \A c \in 1 .. Count : \A d \in 1 .. Len(Migrations[c]) :
                  Precedes(a, b, c, d) /\ Precedes(c, d, m, k)
                    => thing \notin Takes(Migrations[c][d])
      BY <1>2, <1>5 DEF Standing
    <2>2. Precedes(a, b, m, k + 1)
      BY <1>1, <1>2, <2>1, PrecedesOrder
    <2>3. ASSUME NEW c \in 1 .. Count, NEW d \in 1 .. Len(Migrations[c]),
                 Precedes(a, b, c, d), Precedes(c, d, m, k + 1)
          PROVE  thing \notin Takes(Migrations[c][d])
      <3>1. Precedes(c, d, m, k) \/ (c = m /\ d = k)
        BY <1>1, <1>2, <2>3, PrecedesOrder
      <3> QED
        BY <1>5, <2>1, <2>3, <3>1
    <2> QED
      BY <1>1, <2>1, <2>2, <2>3, StandsIf
  <1> QED
    BY <1>3, <1>4, <1>5 DEF After

\* After its last statement a migration leaves what the next one finds.
LEMMA StandingNext ==
  ASSUME NEW m \in 1 .. Count
  PROVE  Standing(m + 1, 1) = Standing(m, Len(Migrations[m]) + 1)
  <1>1. \A a \in 1 .. Count : \A b \in 1 .. Len(Migrations[a]) :
          Precedes(a, b, m + 1, 1) <=> Precedes(a, b, m, Len(Migrations[m]) + 1)
    <2> SUFFICES ASSUME NEW a \in 1 .. Count, NEW b \in 1 .. Len(Migrations[a])
                 PROVE  Precedes(a, b, m + 1, 1) <=> Precedes(a, b, m, Len(Migrations[m]) + 1)
      OBVIOUS
    <2>1. Len(Migrations[a]) \in Nat /\ Len(Migrations[m]) \in Nat
      BY Lengths
    <2> QED
      BY <2>1 DEF Precedes
  <1> QED
    BY <1>1 DEF Standing

\* What a CREATE makes is not there before it.
LEMMA CreatedIsNew ==
  ASSUME NEW m \in 1 .. Count, NEW k \in 1 .. Len(Migrations[m]),
         Migrations[m][k].op \in {"create", "add"}
  PROVE  Migrations[m][k].to \notin Standing(m, k)
  <1>1. PICK thing : thing = Migrations[m][k].to
    OBVIOUS
  <1> SUFFICES ASSUME thing \in Standing(m, k) PROVE FALSE
    BY <1>1
  <1>2. PICK a \in 1 .. Count : \E b \in 1 .. Len(Migrations[a]) :
           Precedes(a, b, m, k) /\ thing \in Makes(Migrations[a][b])
    BY DEF Standing
  <1>3. PICK b \in 1 .. Len(Migrations[a]) :
           Precedes(a, b, m, k) /\ thing \in Makes(Migrations[a][b])
    BY <1>2
  <1>4. a \in Nat /\ b \in Nat /\ m \in Nat /\ k \in Nat
    BY Lengths
  <1>5. Creator(thing) = <<m, k>>
    BY <1>1, CreateMakes
  <1>6. CASE Creator(thing) = <<a, b>>
    <2>1. a = m /\ b = k
      BY <1>5, <1>6
    <2> QED
      BY <1>3, <1>4, <2>1 DEF Precedes
  <1>7. CASE a = 9 /\ thing \in {"providers", "routes"}
    <2>1. m \in {3, 4}
      BY <1>5, <1>7, CreatorValues
    <2> QED
      BY <1>3, <1>7, <2>1 DEF Precedes
  <1> QED
    BY <1>3, <1>6, <1>7, MadeBy

\* Outside the rebuild, what a migration made first stays to its end.
LEMMA FirstStands ==
  ASSUME NEW m \in 1 .. Count, m # 9, NEW k \in 2 .. Len(Migrations[m]) + 1
  PROVE  Migrations[m][1].to \in Standing(m, k)
  <1>1. m \in Nat /\ k \in Nat /\ k > 1 /\ 1 \in 1 .. Len(Migrations[m])
    BY Lengths
  <1>2. Migrations[m][1].op \in {"create", "add", "ensure"}
    <2>1. CreatesAt(m, 1)
      BY <1>1, OtherStatements, MigrationList
    <2> QED
      BY <2>1 DEF CreatesAt
  <1>3. Migrations[m][1].to \in Makes(Migrations[m][1])
    BY <1>1, <1>2, CreateMakes
  <1>4. Precedes(m, 1, m, k)
    BY <1>1 DEF Precedes
  <1>5. ASSUME NEW c \in 1 .. Count, NEW d \in 1 .. Len(Migrations[c]),
               Precedes(m, 1, c, d), Precedes(c, d, m, k)
        PROVE  Migrations[m][1].to \notin Takes(Migrations[c][d])
    <2>1. c \in Nat
      BY Lengths
    <2>2. c = m
      BY <1>1, <1>5, <2>1 DEF Precedes
    <2>3. Takes(Migrations[c][d]) = {}
      BY <2>2, OnlyRebuildTakes
    <2> QED
      BY <2>3
  <1> QED
    BY <1>1, <1>3, <1>4, <1>5, StandsIf

\* The tables that the rebuild replaces are there, their replacements are not.
LEMMA BeforeRebuild ==
  /\ {"providers", "routes"} \subseteq Standing(9, 1)
  /\ "providers_new" \notin Standing(9, 1)
  <1>1. 3 \in 1 .. Count /\ 4 \in 1 .. Count /\ 9 \in 1 .. Count /\ 1 \in 1 .. Len(Migrations[9])
    BY MigrationList, RebuildStatements
  <1>2. ASSUME NEW m \in {3, 4}
        PROVE  Migrations[m][1].to \in Standing(9, 1)
    <2>1. m \in 1 .. Count /\ m # 9 /\ m < 9 /\ m \in Nat
      <3>1. Count = 15
        BY MigrationList
      <3> QED
        BY <3>1
    <2>2. 1 \in 1 .. Len(Migrations[m]) /\ CreatesAt(m, 1)
      <3>1. m \in (1 .. 15) \ {9}
        OBVIOUS
      <3>2. Len(Migrations[m]) \in 1 .. 5 /\ \A k \in 1 .. Len(Migrations[m]) : CreatesAt(m, k)
        BY <3>1, OtherStatements
      <3> QED
        BY <3>2
    <2>3. Migrations[m][1].to \in Makes(Migrations[m][1])
      BY <2>1, <2>2, CreateMakes DEF CreatesAt
    <2>4. Precedes(m, 1, 9, 1)
      BY <2>1 DEF Precedes
    <2>5. ASSUME NEW c \in 1 .. Count, NEW d \in 1 .. Len(Migrations[c]),
                 Precedes(c, d, 9, 1)
          PROVE  Migrations[m][1].to \notin Takes(Migrations[c][d])
      <3>1. c # 9
        <4>1. d \in Nat /\ d >= 1
          BY Lengths
        <4> QED
          BY <2>5, <4>1 DEF Precedes
      <3>2. Takes(Migrations[c][d]) = {}
        BY <3>1, OnlyRebuildTakes
      <3> QED
        BY <3>2
    <2> QED
      BY <2>1, <2>2, <2>3, <2>4, <2>5, StandsIf
  <1>3. Migrations[3][1].to = "providers" /\ Migrations[4][1].to = "routes"
    BY MigrationList DEF create_providers, create_routes, Create
  <1>4. "providers_new" \notin Standing(9, 1)
    <2>1. Migrations[9][1].op = "create" /\ Migrations[9][1].to = "providers_new"
      BY RebuildStatements DEF Create
    <2> QED
      BY <1>1, <2>1, CreatedIsNew
  <1> QED
    BY <1>2, <1>3, <1>4

\* What each statement of the rebuild does to the standing.
LEMMA RebuildSteps ==
  /\ Standing(9, 2) = Standing(9, 1) \cup {"providers_new"}
  /\ Standing(9, 3) = Standing(9, 2)
  /\ Standing(9, 4) = Standing(9, 3) \ ({"providers"} \cup Parts("providers"))
  /\ Standing(9, 5) = (Standing(9, 4) \ {"providers_new"}) \cup {"providers"}
  /\ Standing(9, 6) = Standing(9, 5) \cup {"idx_providers_name_active"}
  /\ Standing(9, 7) = Standing(9, 6) \cup {"routes_new"}
  /\ Standing(9, 8) = Standing(9, 7)
  /\ Standing(9, 9) = Standing(9, 8) \ ({"routes"} \cup Parts("routes"))
  /\ Standing(9, 10) = (Standing(9, 9) \ {"routes_new"}) \cup {"routes"}
  /\ Standing(9, 11) = Standing(9, 10) \cup {"idx_routes_name_active"}
  /\ Standing(9, 12) = Standing(9, 11) \cup {"idx_routes_model_active"}
  <1>1. ASSUME NEW k \in 1 .. 11
        PROVE  Standing(9, k + 1) = After(Standing(9, k), Migrations[9][k])
    <2>1. PICK m \in 1 .. Count : m = 9
      BY MigrationList
    <2>2. k \in 1 .. Len(Migrations[m])
      BY <2>1, RebuildStatements
    <2> QED
      BY <2>1, <2>2, StandingStep
  <1>2. /\ Standing(9, 1 + 1) = After(Standing(9, 1), Migrations[9][1])
        /\ Standing(9, 2 + 1) = After(Standing(9, 2), Migrations[9][2])
        /\ Standing(9, 3 + 1) = After(Standing(9, 3), Migrations[9][3])
        /\ Standing(9, 4 + 1) = After(Standing(9, 4), Migrations[9][4])
        /\ Standing(9, 5 + 1) = After(Standing(9, 5), Migrations[9][5])
        /\ Standing(9, 6 + 1) = After(Standing(9, 6), Migrations[9][6])
        /\ Standing(9, 7 + 1) = After(Standing(9, 7), Migrations[9][7])
        /\ Standing(9, 8 + 1) = After(Standing(9, 8), Migrations[9][8])
        /\ Standing(9, 9 + 1) = After(Standing(9, 9), Migrations[9][9])
        /\ Standing(9, 10 + 1) = After(Standing(9, 10), Migrations[9][10])
        /\ Standing(9, 11 + 1) = After(Standing(9, 11), Migrations[9][11])
    BY <1>1
  <1>3. /\ Standing(9, 2) = After(Standing(9, 1), Create("providers_new"))
        /\ Standing(9, 3) = After(Standing(9, 2), Copy("providers", "providers_new"))
        /\ Standing(9, 4) = After(Standing(9, 3), Drop("providers"))
        /\ Standing(9, 5) = After(Standing(9, 4), Rename("providers_new", "providers"))
        /\ Standing(9, 6) = After(Standing(9, 5), Add("providers", "idx_providers_name_active"))
        /\ Standing(9, 7) = After(Standing(9, 6), Create("routes_new"))
        /\ Standing(9, 8) = After(Standing(9, 7), Copy("routes", "routes_new"))
        /\ Standing(9, 9) = After(Standing(9, 8), Drop("routes"))
        /\ Standing(9, 10) = After(Standing(9, 9), Rename("routes_new", "routes"))
        /\ Standing(9, 11) = After(Standing(9, 10), Add("routes", "idx_routes_name_active"))
        /\ Standing(9, 12) = After(Standing(9, 11), Add("routes", "idx_routes_model_active"))
    BY <1>2, RebuildStatements
  <1>4. ASSUME NEW things, NEW table, NEW thing
        PROVE  /\ After(things, Create("providers_new")) = things \cup {"providers_new"}
               /\ After(things, Create("routes_new")) = things \cup {"routes_new"}
               /\ After(things, Add(table, thing)) = things \cup {thing}
               /\ After(things, Drop(table)) = things \ ({table} \cup Parts(table))
               /\ After(things, Copy(table, thing)) = things
               /\ After(things, Rename(table, thing)) = (things \ {table}) \cup {thing}
    BY DEF After, Makes, Takes, Create, Add, Copy, Drop, Rename, MadeWith, OwnIndex
  <1>5. Standing(9, 2) = Standing(9, 1) \cup {"providers_new"}
    <2>1. Standing(9, 2) = After(Standing(9, 1), Create("providers_new"))
      BY <1>3
    <2> QED
      BY <1>4, <2>1
  <1>6. Standing(9, 3) = Standing(9, 2)
    <2>1. Standing(9, 3) = After(Standing(9, 2), Copy("providers", "providers_new"))
      BY <1>3
    <2> QED
      BY <1>4, <2>1
  <1>7. Standing(9, 4) = Standing(9, 3) \ ({"providers"} \cup Parts("providers"))
    <2>1. Standing(9, 4) = After(Standing(9, 3), Drop("providers"))
      BY <1>3
    <2> QED
      BY <1>4, <2>1
  <1>8. Standing(9, 5) = (Standing(9, 4) \ {"providers_new"}) \cup {"providers"}
    <2>1. Standing(9, 5) = After(Standing(9, 4), Rename("providers_new", "providers"))
      BY <1>3
    <2> QED
      BY <1>4, <2>1
  <1>9. Standing(9, 6) = Standing(9, 5) \cup {"idx_providers_name_active"}
    <2>1. Standing(9, 6) = After(Standing(9, 5), Add("providers", "idx_providers_name_active"))
      BY <1>3
    <2> QED
      BY <1>4, <2>1
  <1>10. Standing(9, 7) = Standing(9, 6) \cup {"routes_new"}
    <2>1. Standing(9, 7) = After(Standing(9, 6), Create("routes_new"))
      BY <1>3
    <2> QED
      BY <1>4, <2>1
  <1>11. Standing(9, 8) = Standing(9, 7)
    <2>1. Standing(9, 8) = After(Standing(9, 7), Copy("routes", "routes_new"))
      BY <1>3
    <2> QED
      BY <1>4, <2>1
  <1>12. Standing(9, 9) = Standing(9, 8) \ ({"routes"} \cup Parts("routes"))
    <2>1. Standing(9, 9) = After(Standing(9, 8), Drop("routes"))
      BY <1>3
    <2> QED
      BY <1>4, <2>1
  <1>13. Standing(9, 10) = (Standing(9, 9) \ {"routes_new"}) \cup {"routes"}
    <2>1. Standing(9, 10) = After(Standing(9, 9), Rename("routes_new", "routes"))
      BY <1>3
    <2> QED
      BY <1>4, <2>1
  <1>14. Standing(9, 11) = Standing(9, 10) \cup {"idx_routes_name_active"}
    <2>1. Standing(9, 11) = After(Standing(9, 10), Add("routes", "idx_routes_name_active"))
      BY <1>3
    <2> QED
      BY <1>4, <2>1
  <1>15. Standing(9, 12) = Standing(9, 11) \cup {"idx_routes_model_active"}
    <2>1. Standing(9, 12) = After(Standing(9, 11), Add("routes", "idx_routes_model_active"))
      BY <1>3
    <2> QED
      BY <1>4, <2>1
  <1> QED
    BY <1>5, <1>6, <1>7, <1>8, <1>9, <1>10, <1>11, <1>12, <1>13, <1>14, <1>15

\* What the rebuild finds and leaves at each of its statements.
LEMMA RebuildStanding ==
  /\ {"providers", "providers_new"} \subseteq Standing(9, 2)
  /\ {"providers", "providers_new"} \subseteq Standing(9, 3)
  /\ "providers_new" \in Standing(9, 4) /\ "providers" \notin Standing(9, 4)
  /\ "providers" \in Standing(9, 5)
  /\ {"routes", "routes_new"} \subseteq Standing(9, 7)
  /\ {"routes", "routes_new"} \subseteq Standing(9, 8)
  /\ "routes_new" \in Standing(9, 9) /\ "routes" \notin Standing(9, 9)
  /\ "routes" \in Standing(9, 10) /\ "routes" \in Standing(9, 11)
  <1>1. \A thing \in {"providers", "providers_new", "routes", "routes_new"} :
          thing \notin Parts("providers") /\ thing \notin Parts("routes")
    BY TablesAreNoParts DEF Tables
  <1>2. /\ {"providers", "providers_new"} \subseteq Standing(9, 3)
        /\ {"providers", "providers_new"} \subseteq Standing(9, 2)
        /\ "routes" \in Standing(9, 3)
    BY BeforeRebuild, RebuildSteps
  <1>3. "providers_new" \in Standing(9, 4) /\ "providers" \notin Standing(9, 4) /\ "routes" \in Standing(9, 4)
    BY <1>1, <1>2, RebuildSteps
  <1>4. "providers" \in Standing(9, 5) /\ "routes" \in Standing(9, 5)
    BY <1>3, RebuildSteps
  <1>5. {"routes", "routes_new"} \subseteq Standing(9, 7) /\ {"routes", "routes_new"} \subseteq Standing(9, 8)
    BY <1>4, RebuildSteps
  <1>6. "routes_new" \in Standing(9, 9) /\ "routes" \notin Standing(9, 9)
    BY <1>1, <1>5, RebuildSteps
  <1>7. "routes" \in Standing(9, 10) /\ "routes" \in Standing(9, 11)
    BY RebuildSteps
  <1> QED
    BY <1>2, <1>3, <1>4, <1>5, <1>6, <1>7

\* A table has what belongs to it before an index or a column is added to it.
LEMMA HostStands ==
  ASSUME NEW m \in 1 .. Count, NEW k \in 1 .. Len(Migrations[m]),
         Migrations[m][k].op \in {"add", "ensure"}
  PROVE  Migrations[m][k].on \in Standing(m, k)
  <1>1. PICK table : table = Migrations[m][k].on
    OBVIOUS
  <1>2. table = Host(m, k) /\ (m = 9 => k \in {1, 5, 6, 10, 11})
    <2>1. PICK stmt : stmt = Migrations[m][k]
      OBVIOUS
    <2>2. HasKind(stmt, m, k) /\ stmt.op \in {"add", "ensure"}
      BY <2>1, StatementKinds
    <2>3. stmt.on = Host(m, k)
      BY <2>2 DEF HasKind
    <2>4. m = 9 => k \in {1, 5, 6, 10, 11}
      <3>1. m = 9 => k \in 1 .. 11
        BY RebuildStatements
      <3>2. m = 9 => k \notin {2, 3, 4, 7, 8, 9}
        BY <2>2 DEF HasKind
      <3> QED
        BY <3>1, <3>2
    <2> QED
      BY <1>1, <2>1, <2>3, <2>4
  <1>3. m \in 1 .. 15 /\ k \in Nat /\ k >= 1
    BY MigrationList, Lengths
  <1>4. CASE m = 9
    <2>1. k # 1 /\ k # 6
      BY <1>4, RebuildStatements DEF Create
    <2>2. CASE k = 5
      BY <1>1, <1>2, <1>4, <2>2, RebuildStanding DEF Host
    <2>3. CASE k = 10 \/ k = 11
      BY <1>1, <1>2, <1>4, <2>3, RebuildStanding DEF Host
    <2> QED
      BY <1>2, <1>4, <2>1, <2>2, <2>3
  <1>5. CASE m \in {10, 13}
    <2>1. table = "routes"
      BY <1>2, <1>5 DEF Host
    <2>2. PICK a \in 1 .. Count : a = 9
      BY MigrationList
    <2>3. 9 \in 1 .. Len(Migrations[a]) /\ "routes" \in Makes(Migrations[a][9])
      BY <2>2, RebuildStatements DEF Makes, Rename
    <2>4. Precedes(a, 9, m, k)
      BY <1>5, <2>2 DEF Precedes
    <2>5. ASSUME NEW c \in 1 .. Count, NEW d \in 1 .. Len(Migrations[c]), Precedes(a, 9, c, d)
          PROVE  "routes" \notin Takes(Migrations[c][d])
      <3>1. CASE c = 9
        <4>1. d \in 1 .. 11
          BY <3>1, RebuildStatements
        <4>2. d \in {10, 11}
          BY <2>2, <2>5, <3>1, <4>1 DEF Precedes
        <4>3. Takes(Migrations[9][d]) = {}
          <5>1. d \in (1 .. 11) \ {3, 4, 8, 9}
            BY <4>2
          <5> QED
            BY <5>1, RebuildTakes
        <4> QED
          BY <3>1, <4>3
      <3>2. CASE c # 9
        BY <3>2, OnlyRebuildTakes
      <3> QED
        BY <3>1, <3>2
    <2>6. m \in Nat /\ k \in Nat
      BY <1>3
    <2>7. "routes" \in Standing(m, k)
      BY <2>3, <2>4, <2>5, <2>6, StandsIf
    <2> QED
      BY <1>1, <2>1, <2>7
  <1>6. ASSUME NEW a \in {6, 8, 12, 14}, Migrations[a][1].to = table, a < m \/ (a = m /\ k > 1)
        PROVE  table \in Standing(m, k)
    <2>1. a \in 1 .. Count /\ a \in (1 .. 15) \ {9} /\ 1 \in 1 .. Len(Migrations[a])
      <3>1. a \in 1 .. Count /\ a \in (1 .. 15) \ {9}
        <4>1. Count = 15
          BY MigrationList
        <4> QED
          BY <4>1
      <3>2. PICK l \in 1 .. 5 : l = Len(Migrations[a])
        BY <3>1, OtherStatements
      <3>3. 1 \in 1 .. l
        BY <3>2
      <3> QED
        BY <3>1, <3>2, <3>3
    <2>2. /\ Migrations[6][1] = Create("request_logs") /\ Migrations[8][1] = Create("sessions")
          /\ Migrations[12][1] = Create("projects") /\ Migrations[14][1] = Create("request_captures")
      BY MigrationList DEF create_request_logs, create_sessions, create_projects, create_request_captures
    <2>3. /\ Migrations[a][1].op = "create"
          /\ table \in Tables \ {"providers", "providers_new", "routes", "routes_new"}
      BY <1>6, <2>2 DEF Create, Tables
    <2>4. table \in Makes(Migrations[a][1])
      BY <1>6, <2>1, <2>3, CreateMakes
    <2>5. Precedes(a, 1, m, k)
      BY <1>3, <1>6 DEF Precedes
    <2>6. \A c \in 1 .. Count : \A d \in 1 .. Len(Migrations[c]) :
            table \notin Takes(Migrations[c][d])
      BY <2>3, TablesStay
    <2> QED
      BY <1>3, <2>1, <2>4, <2>5, <2>6, StandsIf
  <1>7. CASE m \notin {9, 10, 13}
    <2>1. /\ Migrations[6][1].to = "request_logs" /\ Migrations[8][1].to = "sessions"
          /\ Migrations[12][1].to = "projects" /\ Migrations[14][1].to = "request_captures"
      BY MigrationList DEF create_request_logs, create_sessions, create_projects,
           create_request_captures, Create
    <2>2. m \in {7, 8, 11, 12, 14, 15} /\ (m \in {8, 12, 14} => k > 1)
      <3>1. /\ Migrations[1][1].op = "create" /\ Migrations[2][1].op = "create"
            /\ Migrations[3][1].op = "create" /\ Migrations[4][1].op = "create"
            /\ Migrations[5][1].op = "create" /\ Migrations[6][1].op = "create"
            /\ Migrations[8][1].op = "create" /\ Migrations[12][1].op = "create"
            /\ Migrations[14][1].op = "create"
        BY MigrationList DEF create_users, create_api_keys, create_providers, create_routes,
             create_route_targets, create_request_logs, create_sessions, create_projects,
             create_request_captures, Create
      <3>2. /\ Len(Migrations[1]) = 1 /\ Len(Migrations[2]) = 1 /\ Len(Migrations[3]) = 1
            /\ Len(Migrations[4]) = 1 /\ Len(Migrations[5]) = 1 /\ Len(Migrations[6]) = 1
        BY MigrationList DEF create_users, create_api_keys, create_providers, create_routes,
             create_route_targets, create_request_logs
      <3>3. m \in {1, 2, 3, 4, 5, 6, 8, 12, 14} => k # 1
        BY <3>1
      <3>4. m \notin {1, 2, 3, 4, 5, 6}
        BY <1>3, <3>2, <3>3
      <3> QED
        BY <1>3, <1>7, <3>3, <3>4
    <2>3. table = (IF m \in {7, 11, 15} THEN "request_logs" ELSE IF m = 8 THEN "sessions"
                   ELSE IF m = 12 THEN "projects" ELSE "request_captures")
      BY <1>2, <2>2 DEF Host
    <2>4. CASE m \in {7, 11, 15}
      BY <1>1, <1>6, <2>1, <2>3, <2>4
    <2>5. CASE m = 8
      BY <1>1, <1>6, <2>1, <2>2, <2>3, <2>5
    <2>6. CASE m = 12
      BY <1>1, <1>6, <2>1, <2>2, <2>3, <2>6
    <2>7. CASE m = 14
      BY <1>1, <1>6, <2>1, <2>2, <2>3, <2>7
    <2> QED
      BY <2>2, <2>4, <2>5, <2>6, <2>7
  <1> QED
    BY <1>4, <1>5, <1>7

(***************************************************************************)
(* The invariant.  The versions recorded are 1 .. Recorded, and Upcoming   *)
(* is the migration a start would try next.                                *)
(***************************************************************************)

Recorded == Cardinality(applied)
Upcoming == Recorded + 1

\* The statement of it that is next, the first one if none is being executed.
Place == IF process.stmt > 0 THEN process.stmt ELSE 1

\* A start migrates in order, and what it serves on was recorded.
ProcessInv ==
    /\ process.at # "migrating" => process.stmt = 0
    /\ process.at = "migrating" =>
         /\ process.version \in Versions
         /\ process.migration \in 1 .. Upcoming
         /\ process.stmt > 0 =>
              /\ process.migration = Upcoming
              /\ process.migration <= process.version
              /\ process.stmt <= Len(Current) + 1
    /\ process.at \in {"admin", "file", "writing", "inserting", "serving"} =>
         process.version <= Recorded

\* The schema is the one the statements before the next one make ...
Clean == schema = Standing(Upcoming, Place)

\* The things of the two tables that migration 9 rebuilds.
ProviderThings == Rebuilt["providers"] \cup Parts("providers")
RouteThings == Rebuilt["routes"] \cup Parts("routes")

\* Those that a rebuild that was cut off may have left otherwise than the next
\* one expects them before its k-th statement: what it creates and drops is as
\* it should be afterwards, whatever there was.
Unsettled(k) ==
    CASE k = 1 -> ProviderThings \cup RouteThings
      [] k \in {2, 3} -> Parts("providers") \cup RouteThings
      [] k \in {4, 5, 6} -> RouteThings
      [] k \in {7, 8} -> Parts("routes")
      [] OTHER -> {}

\* As far as it matters before its k-th statement, the rebuild finds what it expects.
SettledAt(k) == schema \ Unsettled(k) = Standing(9, k) \ Unsettled(k)

\* ... or a process was cut off, and the upcoming migration finds what it made
\* before: the first thing it makes, or for the rebuild, what is not settled
\* yet.  The statement of migration 11 does not mind.
Left ==
    /\ Upcoming = 9 => SettledAt(Place)
    /\ Upcoming = 11 => schema = Standing(11, 2) /\ Place = 1
    /\ Upcoming \notin {9, 11} => Migrations[Upcoming][1].to \in schema /\ Place = 1

Dirty ==
    /\ torn
    /\ \E newer \in Versions : Upcoming <= newer
    /\ Left

SchemaInv == Clean \/ Dirty

\* Of a table that is rebuilt there is itself or its replacement.
TablesInv == Upcoming = 9 => \A table \in DOMAIN Rebuilt : Rebuilt[table] \cap schema # {}

\* Rows clash only where a table was left without an index of their name.
ClashInv == clashes # {} => torn

\* A table is dropped only after its rows were copied.
RebuildInv ==
    At("migrating") /\ process.migration = 9 =>
        /\ process.stmt = 2 => "providers_new" \notin filled
        /\ process.stmt = 3 /\ "providers" \in filled => "providers_new" \in filled
        /\ process.stmt = 7 => "routes_new" \notin filled
        /\ process.stmt = 8 /\ "routes" \in filled => "routes_new" \in filled

\* A password is generated only without an admin, and the file has it before
\* the row is inserted.
AdminInv ==
    /\ At("file") \/ At("writing") \/ At("inserting") => user = None
    /\ At("file") \/ At("writing") => ~process.env
    /\ At("inserting") /\ ~process.env => file = Generated(starts)
    /\ process.at \notin {"down", "failed"} => starts >= 1
    /\ user \notin {None, FromEnv} => file = user

StartupInv ==
    /\ TypeOK
    /\ ProcessInv
    /\ SchemaInv
    /\ TablesInv
    /\ ClashInv
    /\ RebuildInv
    /\ AdminInv

\* What the server does to providers, routes and targets.
Manage ==
    \/ \E table \in DOMAIN Rebuilt \cup {"route_targets"} : Fill(table)
    \/ \E index \in DOMAIN UniqueIndex : FillTwice(index) \/ Settle(index)

\* That is done by a server that serves, and to rows only.
LEMMA ManageSteps ==
  ASSUME Manage
  PROVE  /\ At("serving")
         /\ UNCHANGED <<schema, applied, user, file, starts, process, torn>>
  BY DEF Manage, Fill, FillTwice, Settle, admin

\* The state of the process, field by field.
ProcessState ==
    [at : {"down", "failed", "migrating", "admin", "file", "writing", "inserting", "serving"},
     version : Versions \cup {0}, env : BOOLEAN,
     migration : 0 .. Count + 1, stmt : 0 .. 12]

\* How many versions are recorded.
LEMMA RecordedType ==
  ASSUME TypeOK
  PROVE  /\ Recorded \in 0 .. 15 /\ Upcoming \in 1 .. 16
         /\ applied = 1 .. Recorded
  <1>1. applied = 1 .. Cardinality(applied) /\ applied \subseteq 1 .. 15
    BY MigrationList DEF TypeOK
  <1>2. IsFiniteSet(1 .. 15)
    <2>1. 1 \in Int /\ 15 \in Int
      OBVIOUS
    <2> QED
      BY <2>1, FS_Interval
  <1>3. Cardinality(applied) \in Nat
    <2>1. IsFiniteSet(applied)
      BY <1>1, <1>2, FS_Subset
    <2> QED
      BY <2>1, FS_CardinalityType
  <1>4. PICK n \in Nat : n = Cardinality(applied)
    BY <1>3
  <1>5. n <= 15
    <2>1. CASE n = 0
      BY <2>1
    <2>2. CASE n # 0
      <3>1. n \in 1 .. n
        BY <2>2
      <3> QED
        BY <1>1, <1>4, <3>1
    <2> QED
      BY <2>1, <2>2
  <1> QED
    BY <1>1, <1>4, <1>5 DEF Recorded, Upcoming

\* Recording the next version.
LEMMA RecordedNext ==
  ASSUME TypeOK, applied' = applied \cup {Upcoming}
  PROVE  Recorded' = Upcoming /\ applied' = 1 .. Upcoming
  <1>1. PICK n \in 0 .. 15 : n = Recorded /\ applied = 1 .. n /\ Upcoming = n + 1
    BY RecordedType DEF Upcoming
  <1>2. applied' = 1 .. (n + 1)
    BY <1>1
  <1>3. Cardinality(1 .. (n + 1)) = n + 1
    BY FS_Interval
  <1> QED
    BY <1>1, <1>2, <1>3 DEF Recorded

\* Where a migration that is executed is.
LEMMA AtStatement ==
  ASSUME TypeOK, ProcessInv, At("migrating"), process.stmt > 0
  PROVE  /\ process.migration \in 1 .. Count /\ process.migration = Upcoming
         /\ process.stmt \in 1 .. Len(Current) + 1
         /\ process.version \in Versions /\ process.migration <= process.version
         /\ Len(Current) \in 1 .. 11
         /\ Place = process.stmt
  <1>1. process \in ProcessState
    BY DEF TypeOK, ProcessState
  <1>2. /\ process.version \in Versions /\ process.migration \in 1 .. Upcoming
        /\ process.migration = Upcoming /\ process.migration <= process.version
        /\ process.stmt <= Len(Current) + 1
    BY DEF ProcessInv, At
  <1>3. process.version \in 1 .. 15 /\ Count = 15
    BY <1>2, StartupAssumption, MigrationList
  <1>4. process.migration \in 1 .. Count
    BY <1>1, <1>2, <1>3 DEF ProcessState
  <1>5. Len(Current) \in 1 .. 11
    BY <1>4, Lengths DEF Current
  <1> QED
    BY <1>1, <1>2, <1>4, <1>5 DEF Place, ProcessState

\* A statement of the upcoming migration that is executed or fails.
LEMMA CurrentStatement ==
  ASSUME TypeOK, ProcessInv, InMigration
  PROVE  /\ Upcoming \in 1 .. Count
         /\ process.migration = Upcoming
         /\ process.stmt \in 1 .. Len(Migrations[Upcoming])
         /\ Place = process.stmt
         /\ Statement = Migrations[Upcoming][Place]
         /\ HasKind(Statement, Upcoming, Place)
         /\ At("migrating")
  <1>1. At("migrating") /\ process.stmt > 0 /\ process.stmt <= Len(Current)
    BY DEF InMigration
  <1>2. /\ process.migration \in 1 .. Count /\ process.migration = Upcoming
        /\ process.stmt \in 1 .. Len(Current) + 1 /\ Place = process.stmt
        /\ Len(Current) \in 1 .. 11
    BY <1>1, AtStatement
  <1>3. process.stmt \in 1 .. Len(Current) /\ Current = Migrations[Upcoming]
    BY <1>1, <1>2 DEF Current
  <1>4. Statement = Migrations[Upcoming][Place]
    BY <1>2, <1>3 DEF Statement
  <1>5. HasKind(Migrations[Upcoming][Place], Upcoming, Place)
    BY <1>2, <1>3, StatementKinds
  <1> QED
    BY <1>1, <1>2, <1>3, <1>4, <1>5

\* What the start of a statement or its end does to the process.
LEMMA ExecuteProcess ==
  ASSUME TypeOK, ProcessInv, Execute
  PROVE  /\ process' \in ProcessState
         /\ process'.at = "migrating" /\ process'.stmt = process.stmt + 1
         /\ process'.migration = process.migration /\ process'.version = process.version
         /\ process'.env = process.env
         /\ Upcoming' = Upcoming /\ Recorded' = Recorded /\ Place' = Place + 1
  <1>1. process \in ProcessState /\ UNCHANGED applied
    BY DEF TypeOK, ProcessState, Execute
  <1>2. InMigration /\ process' = [process EXCEPT !.stmt = @ + 1]
    BY DEF Execute
  <1>3. process.at = "migrating" /\ process.stmt \in 1 .. 11 /\ Place = process.stmt
    <2>1. PICK l \in 1 .. 11 : l = Len(Migrations[Upcoming])
      BY <1>2, CurrentStatement, Lengths
    <2>2. process.stmt \in 1 .. l /\ Place = process.stmt /\ At("migrating")
      BY <1>2, <2>1, CurrentStatement
    <2>3. process.stmt \in 1 .. 11
      BY <2>2
    <2> QED
      BY <2>2, <2>3 DEF At
  <1>4. /\ process' \in ProcessState
        /\ process'.at = "migrating" /\ process'.stmt = process.stmt + 1
        /\ process'.migration = process.migration /\ process'.version = process.version
        /\ process'.env = process.env
    BY <1>1, <1>2, <1>3 DEF ProcessState
  <1>5. Upcoming' = Upcoming /\ Recorded' = Recorded
    BY <1>1 DEF Upcoming, Recorded
  <1> QED
    BY <1>3, <1>4, <1>5 DEF Place

\* The tables with rows, one by one.
LEMMA FillableTables ==
  /\ Fillable = {"providers", "providers_new", "routes", "routes_new", "route_targets"}
  /\ Fillable \subseteq Tables
  <1>1. /\ DOMAIN Rebuilt = {"providers", "routes"}
        /\ Rebuilt["providers"] = {"providers", "providers_new"}
        /\ Rebuilt["routes"] = {"routes", "routes_new"}
    BY DEF Rebuilt
  <1>2. PICK all : all = UNION {Rebuilt[table] : table \in DOMAIN Rebuilt}
    OBVIOUS
  <1>3. ASSUME NEW thing
        PROVE  thing \in all <=> thing \in {"providers", "providers_new", "routes", "routes_new"}
    <2>1. thing \in all <=> \E table \in DOMAIN Rebuilt : thing \in Rebuilt[table]
      BY <1>2
    <2>2. thing \in all <=> thing \in Rebuilt["providers"] \/ thing \in Rebuilt["routes"]
      BY <1>1, <2>1, Zenon
    <2> QED
      BY <1>1, <2>2
  <1>4. all = {"providers", "providers_new", "routes", "routes_new"}
    BY <1>3
  <1>5. Fillable = {"providers", "providers_new", "routes", "routes_new"} \cup {"route_targets"}
    BY <1>2, <1>4 DEF Fillable
  <1> QED
    BY <1>5 DEF Tables

\* The tables with rows are among the tables there are, whatever a statement does.
LEMMA ExecuteFilled ==
  ASSUME TypeOK, ProcessInv, Execute
  PROVE  /\ schema' = After(schema, Statement)
         /\ schema' \subseteq Things
         /\ filled' \subseteq schema' \cap Fillable
  <1>1. PICK m, k, stmt : m = Upcoming /\ k = Place /\ stmt = Statement
    OBVIOUS
  <1>2. /\ m \in 1 .. Count /\ k \in 1 .. Len(Migrations[m]) /\ stmt = Migrations[m][k]
        /\ HasKind(stmt, m, k)
    BY <1>1, CurrentStatement DEF Execute
  <1>3. /\ Succeeds(stmt)
        /\ schema' = After(schema, stmt)
        /\ filled' = FilledAfter(stmt)
    BY <1>1 DEF Execute
  <1>4. filled \subseteq schema /\ schema \subseteq Things /\ filled \subseteq Fillable
    BY DEF TypeOK
  <1>5. Makes(stmt) \subseteq Things
    BY <1>2 DEF Things
  <1>6. schema' \subseteq Things
    BY <1>3, <1>4, <1>5 DEF After
  <1>7. ASSUME stmt.op \in {"copy", "rename"}
        PROVE  stmt.to \in Fillable
    <2>1. m = 9 /\ k \in {2, 4, 7, 9}
      BY <1>2, <1>7 DEF HasKind
    <2>2. /\ Migrations[9][2].to = "providers_new" /\ Migrations[9][4].to = "providers"
          /\ Migrations[9][7].to = "routes_new" /\ Migrations[9][9].to = "routes"
      BY RebuildStatements DEF Copy, Rename
    <2>3. stmt.to \in {"providers_new", "providers", "routes_new", "routes"}
      BY <1>2, <2>1, <2>2
    <2> QED
      BY <2>3, FillableTables
  <1>8. CASE stmt.op = "copy"
    <2>1. stmt.to \in schema
      BY <1>3, <1>8 DEF Succeeds
    <2>2. schema' = schema
      BY <1>2, <1>3, <1>8 DEF HasKind, After
    <2>3. filled' \subseteq filled \cup {stmt.to}
      BY <1>3, <1>8 DEF FilledAfter
    <2> QED
      BY <1>4, <1>6, <1>7, <1>8, <1>3, <1>1, <2>1, <2>2, <2>3
  <1>9. CASE stmt.op = "drop"
    <2>1. filled' = filled \ {stmt.on}
      BY <1>3, <1>9 DEF FilledAfter
    <2>2. schema' = schema \ ({stmt.on} \cup Parts(stmt.on))
      BY <1>2, <1>3, <1>9 DEF HasKind, After
    <2>3. \A table \in filled : table \notin Parts(stmt.on)
      BY <1>4, FillableTables, TablesAreNoParts
    <2> QED
      BY <1>1, <1>3, <1>4, <1>6, <2>1, <2>2, <2>3
  <1>10. CASE stmt.op = "rename"
    <2>1. schema' = (schema \ {stmt.on}) \cup {stmt.to}
      BY <1>2, <1>3, <1>10 DEF HasKind, After
    <2>2. CASE stmt.on \in filled
      <3>1. filled' = (filled \ {stmt.on}) \cup {stmt.to}
        BY <1>3, <1>10, <2>2 DEF FilledAfter
      <3> QED
        BY <1>1, <1>3, <1>4, <1>6, <1>7, <1>10, <2>1, <3>1
    <2>3. CASE stmt.on \notin filled
      <3>1. filled' = filled
        BY <1>3, <1>10, <2>3 DEF FilledAfter
      <3> QED
        BY <1>1, <1>3, <1>4, <1>6, <2>1, <2>3, <3>1
    <2> QED
      BY <2>2, <2>3
  <1>11. CASE stmt.op \in {"create", "add", "ensure"}
    <2>1. filled' = filled
      BY <1>3, <1>11 DEF FilledAfter
    <2>2. schema \subseteq schema'
      BY <1>2, <1>3, <1>11 DEF HasKind, After
    <2> QED
      BY <1>1, <1>3, <1>4, <1>6, <2>1, <2>2
  <1> QED
    BY <1>2, <1>8, <1>9, <1>10, <1>11 DEF HasKind

\* Init satisfies the invariant.
LEMMA StartupInit == Init => StartupInv
  <1> SUFFICES ASSUME Init PROVE StartupInv
    OBVIOUS
  <1>1. /\ schema = {} /\ filled = {} /\ clashes = {} /\ applied = {} /\ user = 0 /\ file = 0 /\ starts = 0
        /\ process = [at |-> "down", version |-> 0, env |-> FALSE, migration |-> 0, stmt |-> 0]
        /\ torn = FALSE
    BY DEF Init, Down, None
  <1>2. Cardinality(applied) = 0
    BY <1>1, FS_EmptySet
  <1>3. TypeOK
    <2>1. 0 \in Password \ {Empty} /\ 0 \in Password \ {FromEnv} /\ 0 \in 0 .. MaxStarts
      BY StartupAssumption DEF Password, None, Empty, FromEnv
    <2>2. applied = 1 .. Cardinality(applied) /\ applied \subseteq 1 .. Count
      BY <1>1, <1>2
    <2>3. process \in ProcessState
      BY <1>1, MigrationList DEF ProcessState
    <2> QED
      BY <1>1, <2>1, <2>2, <2>3 DEF TypeOK, ProcessState
  <1>4. ProcessInv
    BY <1>1 DEF ProcessInv
  <1>5. SchemaInv
    <2>1. Upcoming = 1 /\ Place = 1
      BY <1>1, <1>2 DEF Upcoming, Recorded, Place
    <2>2. Standing(1, 1) = {}
      <3>1. \A a \in 1 .. Count : \A b \in 1 .. Len(Migrations[a]) : ~Precedes(a, b, 1, 1)
        <4> SUFFICES ASSUME NEW a \in 1 .. Count, NEW b \in 1 .. Len(Migrations[a])
                     PROVE  ~Precedes(a, b, 1, 1)
          OBVIOUS
        <4>1. a \in Nat /\ a >= 1 /\ b \in Nat /\ b >= 1
          BY Lengths
        <4> QED
          BY <4>1 DEF Precedes
      <3> QED
        BY <3>1 DEF Standing
    <2> QED
      BY <1>1, <2>1, <2>2 DEF SchemaInv, Clean
  <1>8. TablesInv /\ ClashInv
    BY <1>1, <1>2 DEF TablesInv, ClashInv, Upcoming, Recorded
  <1>6. RebuildInv
    BY <1>1 DEF RebuildInv, At
  <1>7. AdminInv
    BY <1>1 DEF AdminInv, At, None
  <1> QED
    BY <1>3, <1>4, <1>5, <1>6, <1>7, <1>8 DEF StartupInv

\* The server, its file and its user: what the steps that do not execute a
\* statement may do.
LEMMA ProcessMoves ==
  ASSUME TypeOK, ProcessInv, [Next]_vars
  PROVE  process' \in ProcessState
  <1> process \in ProcessState
    BY DEF TypeOK, ProcessState
  <1>1. CASE \E version \in Versions, env \in BOOLEAN : Start(version, env)
    BY <1>1, MigrationList DEF Start, ProcessState
  <1>2. CASE Check
    <2>1. process.version \in Versions
      BY <1>2 DEF Check, ProcessInv, At
    <2>2. process.migration + 1 \in 0 .. Count + 1
      BY <1>2, <2>1, MigrationList, StartupAssumption DEF Check, ProcessState
    <2> QED
      BY <1>2, <2>2 DEF Check, ProcessState
  <1>3. CASE Execute
    BY <1>3, ExecuteProcess
  <1>4. CASE Fail \/ Stop
    <2>1. ASSUME NEW at \in {"down", "failed"}
          PROVE  Down(at) \in ProcessState
      BY MigrationList DEF Down, ProcessState
    <2>2. process' = Down("failed") \/ process' = Down("down")
      BY <1>4 DEF Fail, Stop
    <2> QED
      BY <2>1, <2>2
  <1>5. CASE Record
    <2>1. process.migration \in 1 .. Count
      BY <1>5, AtStatement DEF Record
    <2>2. process.migration + 1 \in 0 .. Count + 1
      BY <2>1, MigrationList
    <2>3. PICK next \in 0 .. Count + 1 : next = process.migration + 1
      BY <2>2
    <2>4. process' = [process EXCEPT !.migration = next, !.stmt = 0]
      BY <1>5, <2>3 DEF Record
    <2>5. process' = [at |-> process.at, version |-> process.version, env |-> process.env,
                      migration |-> next, stmt |-> 0]
      BY <2>4 DEF ProcessState
    <2>6. 0 \in 0 .. 12
      OBVIOUS
    <2> QED
      BY <2>5, <2>6 DEF ProcessState
  <1>6. CASE Migrated \/ CountUsers \/ Truncate \/ WriteFile \/ InsertUser
    BY <1>6 DEF Migrated, CountUsers, Truncate, WriteFile, InsertUser, GoTo, ProcessState
  <1>7. CASE Manage
    BY <1>7, ManageSteps
  <1>8. CASE UNCHANGED vars
    BY <1>8 DEF vars
  <1> QED
    BY <1>1, <1>2, <1>3, <1>4, <1>5, <1>6, <1>7, <1>8 DEF Next, Manage

\* Recorded and Upcoming change with what is recorded.
LEMMA SameRecorded ==
  ASSUME UNCHANGED applied
  PROVE  Recorded' = Recorded /\ Upcoming' = Upcoming
  BY DEF Recorded, Upcoming

\* A step that records a version records the upcoming one.
LEMMA RecordStep ==
  ASSUME TypeOK, ProcessInv, Record
  PROVE  /\ process.migration = Upcoming /\ Upcoming \in 1 .. Count
         /\ applied' = applied \cup {Upcoming}
         /\ Recorded' = Upcoming /\ Upcoming' = Upcoming + 1
         /\ applied' = 1 .. Upcoming
         /\ Upcoming <= process.version /\ process.version \in Versions
         /\ Place = Len(Migrations[Upcoming]) + 1
         /\ process'.at = "migrating" /\ process'.stmt = 0 /\ process'.migration = Upcoming + 1
         /\ process'.version = process.version
  <1>1. /\ At("migrating") /\ process.stmt > 0 /\ process.stmt = Len(Current) + 1
        /\ applied' = applied \cup {process.migration}
        /\ process' = [process EXCEPT !.migration = @ + 1, !.stmt = 0]
    BY DEF Record
  <1>2. /\ process.migration \in 1 .. Count /\ process.migration = Upcoming
        /\ process.version \in Versions /\ process.migration <= process.version
        /\ Place = process.stmt
    BY <1>1, AtStatement
  <1>3. Recorded' = Upcoming /\ applied' = 1 .. Upcoming
    BY <1>1, <1>2, RecordedNext
  <1>4. Upcoming' = Upcoming + 1
    BY <1>3 DEF Upcoming
  <1>5. process \in ProcessState
    BY DEF TypeOK, ProcessState
  <1>6. /\ process'.at = "migrating" /\ process'.stmt = 0 /\ process'.migration = Upcoming + 1
        /\ process'.version = process.version
    BY <1>1, <1>2, <1>5 DEF ProcessState, At
  <1>7. Place = Len(Migrations[Upcoming]) + 1
    BY <1>1, <1>2 DEF Current
  <1> QED
    BY <1>1, <1>2, <1>3, <1>4, <1>6, <1>7

\* The types are kept.
LEMMA TypeStep ==
  ASSUME StartupInv, [Next]_vars
  PROVE  TypeOK'
  <1> USE DEF StartupInv
  <1>1. process' \in ProcessState
    BY ProcessMoves
  <1>2. schema' \subseteq Things /\ filled' \subseteq schema' \cap Fillable
    <2>1. CASE Execute
      BY <2>1, ExecuteFilled
    <2>2. CASE Manage
      <3>1. UNCHANGED schema
        BY <2>2, ManageSteps
      <3>2. filled' \subseteq filled \cup ({"providers", "routes", "route_targets"} \cap schema)
        BY <2>2 DEF Manage, Fill, FillTwice, Settle
      <3> QED
        BY <3>1, <3>2, FillableTables DEF TypeOK
    <2>3. CASE UNCHANGED <<schema, filled>>
      BY <2>3 DEF TypeOK
    <2> QED
      BY <2>1, <2>2, <2>3 DEF Next, Manage, Start, Check, Fail, Record, Migrated, CountUsers,
           Truncate, WriteFile, InsertUser, Stop, database, tables, vars
  <1>6. clashes' \subseteq DOMAIN UniqueIndex
    <2>1. CASE Manage
      <3>1. CASE \E table \in DOMAIN Rebuilt \cup {"route_targets"} : Fill(table)
        BY <3>1 DEF Fill, TypeOK
      <3>2. CASE \E index \in DOMAIN UniqueIndex : FillTwice(index) \/ Settle(index)
        BY <3>2 DEF FillTwice, Settle, TypeOK
      <3> QED
        BY <2>1, <3>1, <3>2 DEF Manage
    <2>2. CASE UNCHANGED clashes
      BY <2>2 DEF TypeOK
    <2> QED
      BY <2>1, <2>2 DEF Next, Manage, Start, Check, Execute, Fail, Record, Migrated, CountUsers,
           Truncate, WriteFile, InsertUser, Stop, database, tables, vars
  <1>3. applied' = 1 .. Cardinality(applied') /\ applied' \subseteq 1 .. Count
    <2>1. CASE Record
      <3>1. Recorded' = Upcoming /\ applied' = 1 .. Upcoming /\ Upcoming \in 1 .. Count
        BY <2>1, RecordStep
      <3>2. Cardinality(applied') = Upcoming
        BY <3>1 DEF Recorded
      <3> QED
        BY <3>1, <3>2, MigrationList
    <2>2. CASE UNCHANGED applied
      BY <2>2 DEF TypeOK
    <2>3. CASE Manage
      BY <2>2, <2>3, ManageSteps
    <2> QED
      BY <2>1, <2>2, <2>3 DEF Next, Manage, Start, Check, Execute, Fail, Migrated, CountUsers,
           Truncate, WriteFile, InsertUser, Stop, database, vars
  <1>4. user' \in Password \ {Empty} /\ file' \in Password \ {FromEnv} /\ starts' \in 0 .. MaxStarts
    <2>1. CASE WriteFile \/ InsertUser
      <3>1. starts >= 1 /\ starts \in 0 .. MaxStarts /\ MaxStarts \in Nat
        BY <2>1, StartupAssumption DEF WriteFile, InsertUser, AdminInv, At, TypeOK
      <3>2. Generated(starts) \in Password \ {Empty, FromEnv} /\ FromEnv \in Password \ {Empty}
        BY <3>1 DEF Password, Empty, None, FromEnv, Generated
      <3> QED
        BY <2>1, <3>2 DEF WriteFile, InsertUser, TypeOK
    <2>2. CASE Truncate
      <3>1. Empty \in Password \ {FromEnv}
        BY StartupAssumption DEF Password, Empty, None, FromEnv
      <3> QED
        BY <2>2, <3>1 DEF Truncate, TypeOK
    <2>3. CASE \E version \in Versions, env \in BOOLEAN : Start(version, env)
      BY <2>3, StartupAssumption DEF Start, admin, TypeOK
    <2>4. CASE UNCHANGED <<user, file, starts>>
      BY <2>4 DEF TypeOK
    <2>5. CASE Manage
      BY <2>4, <2>5, ManageSteps
    <2> QED
      BY <2>1, <2>2, <2>3, <2>4, <2>5 DEF Next, Manage, Check, Execute, Fail, Record, Migrated,
           CountUsers, Stop, admin, vars
  <1>5. torn' \in BOOLEAN
    <2>1. torn \in BOOLEAN
      BY DEF TypeOK
    <2>2. CASE Fail
      BY <2>1, <2>2, Zenon DEF Fail
    <2>3. CASE Stop
      BY <2>1, <2>3, Zenon DEF Stop
    <2>4. CASE UNCHANGED torn
      BY <2>1, <2>4
    <2>5. CASE Manage
      BY <2>4, <2>5, ManageSteps
    <2> QED
      BY <2>2, <2>3, <2>4, <2>5 DEF Next, Manage, Start, Check, Execute, Record, Migrated,
           CountUsers, Truncate, WriteFile, InsertUser, vars
  <1> QED
    BY <1>1, <1>2, <1>3, <1>4, <1>5, <1>6 DEF TypeOK, ProcessState

\* A start passes over the recorded versions, executes the upcoming one, and
\* leaves the migrations when none of its own is left.
LEMMA ProcessStep ==
  ASSUME StartupInv, [Next]_vars
  PROVE  ProcessInv'
  <1> TypeOK /\ ProcessInv
    BY DEF StartupInv
  <1> process \in ProcessState
    BY DEF TypeOK, ProcessState
  <1>0. Recorded \in 0 .. 15 /\ Upcoming = Recorded + 1 /\ applied = 1 .. Recorded
    BY RecordedType DEF Upcoming
  <1>1. CASE \E version \in Versions, env \in BOOLEAN : Start(version, env)
    <2>1. UNCHANGED applied
      BY <1>1 DEF Start, database
    <2>2. /\ process'.at = "migrating" /\ process'.version \in Versions
          /\ process'.migration = 1 /\ process'.stmt = 0
      BY <1>1 DEF Start
    <2>3. Upcoming' = Recorded + 1 /\ 1 \in 1 .. (Recorded + 1)
      BY <1>0, <2>1, SameRecorded
    <2> QED
      BY <2>2, <2>3 DEF ProcessInv
  <1>2. CASE Check
    <2>1. UNCHANGED applied
      BY <1>2 DEF Check, database
    <2>2. Upcoming' = Upcoming
      BY <2>1, SameRecorded
    <2>3. /\ process.at = "migrating" /\ process.version \in Versions
          /\ process.migration \in 1 .. Upcoming /\ process.migration <= process.version
      BY <1>2 DEF Check, At, ProcessInv
    <2>4. CASE process.migration \in applied
      <3>1. /\ process'.at = "migrating" /\ process'.version \in Versions
            /\ process'.migration = process.migration + 1 /\ process'.stmt = 0
        BY <1>2, <2>3, <2>4 DEF Check, ProcessState
      <3>2. process.migration + 1 \in 1 .. Upcoming
        BY <1>0, <2>3, <2>4
      <3> QED
        BY <2>2, <3>1, <3>2 DEF ProcessInv
    <2>5. CASE process.migration \notin applied
      <3>1. /\ process'.at = "migrating" /\ process'.version = process.version
            /\ process'.migration = process.migration /\ process'.stmt = 1
        BY <1>2, <2>3, <2>5 DEF Check, ProcessState
      <3>2. process.migration = Upcoming
        BY <1>0, <2>3, <2>5
      <3>3. process.version \in 1 .. 15
        BY <2>3, StartupAssumption
      <3>4. process.migration \in 1 .. Count
        BY <2>3, <3>3, MigrationList
      <3>5. Current' = Migrations[process.migration]
        BY <3>1 DEF Current
      <3>6. Len(Current') \in 1 .. 11
        BY <3>4, <3>5, Lengths
      <3>7. process'.stmt <= Len(Current') + 1
        BY <3>1, <3>6
      <3> QED
        BY <2>2, <2>3, <3>1, <3>2, <3>7 DEF ProcessInv
    <2> QED
      BY <2>4, <2>5
  <1>3. CASE Execute
    <2>1. /\ process'.at = "migrating" /\ process'.stmt = process.stmt + 1
          /\ process'.migration = process.migration /\ process'.version = process.version
          /\ Upcoming' = Upcoming
      BY <1>3, ExecuteProcess
    <2>2. /\ At("migrating") /\ process.stmt > 0 /\ process.stmt <= Len(Current)
      BY <1>3 DEF Execute, InMigration
    <2>3. /\ process.migration = Upcoming /\ process.migration \in 1 .. Upcoming
          /\ process.migration <= process.version /\ process.version \in Versions
          /\ process.stmt \in Nat
      BY <2>2 DEF ProcessInv, At, ProcessState
    <2>4. PICK l \in 1 .. 11 : l = Len(Current)
      BY <2>2, AtStatement
    <2>5. Current' = Current
      BY <2>1 DEF Current
    <2>6. process'.stmt <= Len(Current') + 1
      BY <2>1, <2>2, <2>3, <2>4, <2>5
    <2> QED
      BY <2>1, <2>3, <2>6 DEF ProcessInv
  <1>4. CASE Fail \/ Stop
    BY <1>4 DEF Fail, Stop, Down, ProcessInv
  <1>5. CASE Record
    <2>1. /\ process'.at = "migrating" /\ process'.stmt = 0 /\ process'.migration = Upcoming + 1
          /\ process'.version = process.version /\ process.version \in Versions
          /\ Upcoming' = Upcoming + 1
      BY <1>5, RecordStep
    <2>2. Upcoming + 1 \in 1 .. (Upcoming + 1)
      BY <1>0
    <2> QED
      BY <2>1, <2>2 DEF ProcessInv
  <1>6. CASE Migrated
    <2>1. UNCHANGED applied
      BY <1>6 DEF Migrated, database
    <2>2. Recorded' = Recorded
      BY <2>1, SameRecorded
    <2>3. /\ process.at = "migrating" /\ process.version \in Versions
          /\ process.migration \in 1 .. Upcoming /\ process.migration > process.version
      BY <1>6 DEF Migrated, At, ProcessInv
    <2>4. process.version \in 1 .. 15
      BY <2>3, StartupAssumption
    <2>5. process.version <= Recorded
      BY <1>0, <2>3, <2>4
    <2>6. process.stmt = 0
      BY <2>3, <2>4 DEF ProcessInv, ProcessState
    <2>7. process'.at = "admin" /\ process'.stmt = 0 /\ process'.version = process.version
      BY <1>6, <2>6 DEF Migrated, GoTo, ProcessState
    <2> QED
      BY <2>2, <2>5, <2>7 DEF ProcessInv
  <1>7. CASE CountUsers \/ Truncate \/ WriteFile \/ InsertUser
    <2>1. UNCHANGED applied
      BY <1>7 DEF CountUsers, Truncate, WriteFile, InsertUser, database
    <2>2. Recorded' = Recorded
      BY <2>1, SameRecorded
    <2>3. process.at \in {"admin", "file", "writing", "inserting"}
      BY <1>7 DEF CountUsers, Truncate, WriteFile, InsertUser, At
    <2>4. process.version <= Recorded /\ process.stmt = 0
      BY <2>3 DEF ProcessInv
    <2>5. /\ process'.at \in {"file", "writing", "inserting", "serving"}
          /\ process'.version = process.version /\ process'.stmt = process.stmt
      BY <1>7 DEF CountUsers, Truncate, WriteFile, InsertUser, GoTo, ProcessState
    <2> QED
      BY <2>2, <2>4, <2>5 DEF ProcessInv
  <1>8. CASE Manage \/ UNCHANGED vars
    <2>1. UNCHANGED <<applied, process>>
      BY <1>8, ManageSteps DEF vars
    <2>2. Recorded' = Recorded /\ Upcoming' = Upcoming /\ Current' = Current
      BY <2>1 DEF Recorded, Upcoming, Current
    <2> QED
      BY <2>1, <2>2 DEF ProcessInv
  <1> QED
    BY <1>1, <1>2, <1>3, <1>4, <1>5, <1>6, <1>7, <1>8 DEF Next, Manage

\* The password of the row is that of the file.
LEMMA AdminStep ==
  ASSUME StartupInv, [Next]_vars
  PROVE  AdminInv'
  <1> TypeOK /\ AdminInv /\ process \in ProcessState /\ starts \in Nat
    BY StartupAssumption DEF StartupInv, TypeOK, ProcessState
  <1>1. CASE \E version \in Versions, env \in BOOLEAN : Start(version, env)
    BY <1>1 DEF Start, AdminInv, At, admin
  <1>2. CASE CountUsers
    <2>1. process'.at = (IF user # None THEN "serving" ELSE IF process.env THEN "inserting" ELSE "file")
          /\ process'.env = process.env /\ UNCHANGED <<user, file, starts>>
          /\ process.at = "admin"
      BY <1>2 DEF CountUsers, GoTo, ProcessState, admin, At
    <2> QED
      BY <2>1 DEF AdminInv, At
  <1>3. CASE Truncate
    <2>1. /\ process.at = "file" /\ process'.at = "writing" /\ process'.env = process.env
          /\ UNCHANGED <<user, starts>> /\ user = None
      BY <1>3 DEF Truncate, GoTo, ProcessState, At, AdminInv
    <2> QED
      BY <2>1 DEF AdminInv, At
  <1>4. CASE WriteFile
    <2>1. /\ process.at = "writing" /\ process'.at = "inserting" /\ process'.env = process.env
          /\ UNCHANGED <<user, starts>> /\ user = None /\ file' = Generated(starts)
      BY <1>4 DEF WriteFile, GoTo, ProcessState, At, AdminInv
    <2> QED
      BY <2>1 DEF AdminInv, At, Generated
  <1>5. CASE InsertUser
    <2>1. /\ process.at = "inserting" /\ process'.at = "serving" /\ process'.env = process.env
          /\ UNCHANGED <<file, starts>>
          /\ user' = IF process.env THEN FromEnv ELSE Generated(starts)
          /\ ~process.env => file = Generated(starts)
          /\ starts >= 1
      BY <1>5 DEF InsertUser, GoTo, ProcessState, At, AdminInv
    <2> QED
      BY <2>1 DEF AdminInv, At
  <1>6. CASE Fail \/ Stop
    BY <1>6 DEF Fail, Stop, Down, AdminInv, At, admin
  <1>7. CASE Check \/ Execute \/ Record \/ Migrated
    <2>1. process.at = "migrating" /\ process'.at \in {"migrating", "admin"}
      BY <1>7 DEF Check, Execute, InMigration, Record, Migrated, GoTo, At, ProcessState
    <2>2. UNCHANGED <<user, file, starts>>
      BY <1>7 DEF Check, Execute, Record, Migrated, admin
    <2> QED
      BY <2>1, <2>2 DEF AdminInv, At
  <1>8. CASE Manage \/ UNCHANGED vars
    <2>1. UNCHANGED <<user, file, starts, process>>
      BY <1>8, ManageSteps DEF vars
    <2> QED
      BY <2>1 DEF AdminInv, At, Generated
  <1> QED
    BY <1>1, <1>2, <1>3, <1>4, <1>5, <1>6, <1>7, <1>8 DEF Next, Manage

\* The replacement of a table has its rows before the table is dropped.
LEMMA RebuildStep ==
  ASSUME StartupInv, [Next]_vars
  PROVE  RebuildInv'
  <1> TypeOK /\ ProcessInv /\ RebuildInv /\ process \in ProcessState
    BY DEF StartupInv, TypeOK, ProcessState
  <1>1. CASE Execute
    <2> SUFFICES ASSUME process'.migration = 9 PROVE RebuildInv'
      BY DEF RebuildInv
    <2>1. /\ process'.stmt = process.stmt + 1 /\ process.migration = 9
      BY <1>1, ExecuteProcess
    <2>2. PICK k \in 1 .. 11 : k = process.stmt /\ Statement = Migrations[9][k]
      <3>1. /\ process.migration = Upcoming /\ Place = process.stmt
            /\ process.stmt \in 1 .. Len(Migrations[Upcoming])
            /\ Statement = Migrations[Upcoming][Place]
        BY <1>1, CurrentStatement DEF Execute
      <3> QED
        BY <2>1, <3>1, RebuildStatements
    <2>3. /\ Succeeds(Statement) /\ filled \subseteq schema
          /\ filled' = FilledAfter(Statement)
      BY <1>1 DEF Execute, TypeOK
    <2>4. ASSUME NEW thing, Statement = Create(thing)
          PROVE  thing \notin filled'
      <3>1. Statement.op = "create" /\ Statement.to = thing
        BY <2>4 DEF Create
      <3>2. thing \notin schema
        BY <2>3, <3>1 DEF Succeeds
      <3>3. filled' = filled
        BY <2>3, <3>1 DEF FilledAfter
      <3> QED
        BY <2>3, <3>2, <3>3
    <2>5. ASSUME NEW from, NEW to, Statement = Copy(from, to), from \in filled'
          PROVE  to \in filled'
      <3>1. Statement.op = "copy" /\ Statement.on = from /\ Statement.to = to
        BY <2>5 DEF Copy
      <3>2. CASE from \in filled
        <4>1. filled' = filled \cup {to}
          BY <2>3, <3>1, <3>2 DEF FilledAfter
        <4> QED
          BY <4>1
      <3>3. CASE from \notin filled
        <4>1. filled' = filled
          BY <2>3, <3>1, <3>3 DEF FilledAfter
        <4> QED
          BY <2>5, <3>3, <4>1
      <3> QED
        BY <3>2, <3>3
    <2>6. process'.stmt = 2 => "providers_new" \notin filled'
      BY <2>1, <2>2, <2>4, RebuildStatements
    <2>7. process'.stmt = 3 /\ "providers" \in filled' => "providers_new" \in filled'
      BY <2>1, <2>2, <2>5, RebuildStatements
    <2>8. process'.stmt = 7 => "routes_new" \notin filled'
      BY <2>1, <2>2, <2>4, RebuildStatements
    <2>9. process'.stmt = 8 /\ "routes" \in filled' => "routes_new" \in filled'
      BY <2>1, <2>2, <2>5, RebuildStatements
    <2> QED
      BY <2>6, <2>7, <2>8, <2>9 DEF RebuildInv
  <1>2. CASE \/ \E version \in Versions, env \in BOOLEAN : Start(version, env)
             \/ Record \/ Fail \/ Stop \/ Check
    <2>1. process'.stmt = 0 \/ process'.stmt = 1 \/ process'.at # "migrating"
      <3>1. CASE Check
        BY <3>1 DEF Check, ProcessState
      <3>2. CASE Record
        BY <3>2, RecordStep
      <3>3. CASE Fail \/ Stop
        BY <3>3 DEF Fail, Stop, Down
      <3>4. CASE \E version \in Versions, env \in BOOLEAN : Start(version, env)
        BY <3>4 DEF Start
      <3> QED
        BY <1>2, <3>1, <3>2, <3>3, <3>4
    <2> QED
      BY <2>1 DEF RebuildInv, At
  <1>3. CASE Migrated \/ CountUsers \/ Truncate \/ WriteFile \/ InsertUser \/ Manage
    <2>1. process'.at # "migrating"
      BY <1>3, ManageSteps
         DEF Migrated, CountUsers, Truncate, WriteFile, InsertUser, GoTo, At, ProcessState
    <2> QED
      BY <2>1 DEF RebuildInv, At
  <1>4. CASE UNCHANGED vars
    BY <1>4 DEF vars, RebuildInv, At
  <1> QED
    BY <1>1, <1>2, <1>3, <1>4 DEF Next, Manage

\* What is made for the two tables is theirs.
LEMMA RebuildThings ==
  /\ DOMAIN Rebuilt = {"providers", "routes"}
  /\ Rebuilt["providers"] = {"providers", "providers_new"}
  /\ Rebuilt["routes"] = {"routes", "routes_new"}
  /\ "idx_providers_name_active" \in Parts("providers")
  /\ {"idx_routes_name_active", "idx_routes_model_active"} \subseteq Parts("routes")
  /\ "idx_providers_name_active" \notin RouteThings
  /\ "idx_providers_name_active" \notin Parts("routes")
  <1>1. /\ DOMAIN Rebuilt = {"providers", "routes"}
        /\ Rebuilt["providers"] = {"providers", "providers_new"}
        /\ Rebuilt["routes"] = {"routes", "routes_new"}
    BY DEF Rebuilt
  <1>2. PICK m \in 1 .. Count : m = 9
    BY MigrationList
  <1>3. 5 \in 1 .. Len(Migrations[m]) /\ 10 \in 1 .. Len(Migrations[m]) /\ 11 \in 1 .. Len(Migrations[m])
    BY <1>2, RebuildStatements
  <1>4. ASSUME NEW k \in 1 .. Len(Migrations[m]), NEW table, AddsTo(table, Migrations[m][k])
        PROVE  Migrations[m][k].to \in Parts(table)
    BY <1>4 DEF Parts
  <1>5. /\ AddsTo("providers", Migrations[m][5]) /\ Migrations[m][5].to = "idx_providers_name_active"
        /\ AddsTo("routes", Migrations[m][10]) /\ Migrations[m][10].to = "idx_routes_name_active"
        /\ AddsTo("routes", Migrations[m][11]) /\ Migrations[m][11].to = "idx_routes_model_active"
    BY <1>2, RebuildStatements DEF AddsTo, Add
  <1>6. "idx_providers_name_active" \in Parts("providers")
    BY <1>3, <1>4, <1>5
  <1>7. "idx_routes_name_active" \in Parts("routes") /\ "idx_routes_model_active" \in Parts("routes")
    BY <1>3, <1>4, <1>5
  <1>8. "idx_providers_name_active" \notin RouteThings
    BY <1>1, ProviderIndex DEF RouteThings
  <1> QED
    BY <1>1, <1>6, <1>7, <1>8, ProviderIndex

\* The tables are parts of none, and the two are not each other's.
LEMMA RebuildTables ==
  /\ {"providers", "providers_new"} \cap (Parts("providers") \cup RouteThings) = {}
  /\ {"routes", "routes_new"} \cap (Parts("routes") \cup Parts("providers")) = {}
  <1>1. \A thing \in {"providers", "providers_new", "routes", "routes_new"} :
          thing \notin Parts("providers") /\ thing \notin Parts("routes")
    BY TablesAreNoParts DEF Tables
  <1> QED
    BY <1>1, RebuildThings DEF RouteThings

\* The rebuild leaves everything else alone, and settles more and more.
LEMMA RebuildUnsettled ==
  ASSUME NEW k \in 1 .. 12
  PROVE  /\ Standing(9, k) \ Unsettled(1) = Standing(9, 1) \ Unsettled(1)
         /\ Unsettled(k) \subseteq Unsettled(1)
  <1>1. Unsettled(1) = ProviderThings \cup RouteThings
    BY DEF Unsettled
  <1>2. Unsettled(k) \subseteq Unsettled(1)
    BY <1>1 DEF Unsettled, ProviderThings, RouteThings
  <1>3. /\ {"providers", "providers_new", "idx_providers_name_active"} \cup Parts("providers")
             \subseteq Unsettled(1)
        /\ {"routes", "routes_new", "idx_routes_name_active", "idx_routes_model_active"}
             \cup Parts("routes") \subseteq Unsettled(1)
    BY <1>1, RebuildThings DEF ProviderThings, RouteThings
  <1>4. /\ Standing(9, 2) \ Unsettled(1) = Standing(9, 1) \ Unsettled(1)
        /\ Standing(9, 3) \ Unsettled(1) = Standing(9, 1) \ Unsettled(1)
        /\ Standing(9, 4) \ Unsettled(1) = Standing(9, 1) \ Unsettled(1)
        /\ Standing(9, 5) \ Unsettled(1) = Standing(9, 1) \ Unsettled(1)
        /\ Standing(9, 6) \ Unsettled(1) = Standing(9, 1) \ Unsettled(1)
    <2>1. Standing(9, 2) \ Unsettled(1) = Standing(9, 1) \ Unsettled(1)
      BY <1>3, RebuildSteps
    <2>2. Standing(9, 3) \ Unsettled(1) = Standing(9, 2) \ Unsettled(1)
      BY RebuildSteps
    <2>3. Standing(9, 4) \ Unsettled(1) = Standing(9, 3) \ Unsettled(1)
      BY <1>3, RebuildSteps
    <2>4. Standing(9, 5) \ Unsettled(1) = Standing(9, 4) \ Unsettled(1)
      BY <1>3, RebuildSteps
    <2>5. Standing(9, 6) \ Unsettled(1) = Standing(9, 5) \ Unsettled(1)
      BY <1>3, RebuildSteps
    <2> QED
      BY <2>1, <2>2, <2>3, <2>4, <2>5
  <1>5. /\ Standing(9, 7) \ Unsettled(1) = Standing(9, 6) \ Unsettled(1)
        /\ Standing(9, 8) \ Unsettled(1) = Standing(9, 6) \ Unsettled(1)
        /\ Standing(9, 9) \ Unsettled(1) = Standing(9, 6) \ Unsettled(1)
        /\ Standing(9, 10) \ Unsettled(1) = Standing(9, 6) \ Unsettled(1)
        /\ Standing(9, 11) \ Unsettled(1) = Standing(9, 6) \ Unsettled(1)
        /\ Standing(9, 12) \ Unsettled(1) = Standing(9, 6) \ Unsettled(1)
    <2>1. Standing(9, 7) \ Unsettled(1) = Standing(9, 6) \ Unsettled(1)
      BY <1>3, RebuildSteps
    <2>2. Standing(9, 8) \ Unsettled(1) = Standing(9, 7) \ Unsettled(1)
      BY RebuildSteps
    <2>3. Standing(9, 9) \ Unsettled(1) = Standing(9, 8) \ Unsettled(1)
      BY <1>3, RebuildSteps
    <2>4. Standing(9, 10) \ Unsettled(1) = Standing(9, 9) \ Unsettled(1)
      BY <1>3, RebuildSteps
    <2>5. Standing(9, 11) \ Unsettled(1) = Standing(9, 10) \ Unsettled(1)
      BY <1>3, RebuildSteps
    <2>6. Standing(9, 12) \ Unsettled(1) = Standing(9, 11) \ Unsettled(1)
      BY <1>3, RebuildSteps
    <2> QED
      BY <2>1, <2>2, <2>3, <2>4, <2>5, <2>6
  <1>6. /\ k \in 1 .. 6 => Standing(9, k) \ Unsettled(1) = Standing(9, 1) \ Unsettled(1)
        /\ k \in 7 .. 12 => Standing(9, k) \ Unsettled(1) = Standing(9, 6) \ Unsettled(1)
    <2>1. ASSUME k \in 1 .. 6
          PROVE  Standing(9, k) \ Unsettled(1) = Standing(9, 1) \ Unsettled(1)
      <3>1. k = 1 \/ k = 2 \/ k = 3 \/ k = 4 \/ k = 5 \/ k = 6
        BY <2>1
      <3> QED
        BY <1>4, <3>1
    <2>2. ASSUME k \in 7 .. 12
          PROVE  Standing(9, k) \ Unsettled(1) = Standing(9, 6) \ Unsettled(1)
      <3>1. k = 7 \/ k = 8 \/ k = 9 \/ k = 10 \/ k = 11 \/ k = 12
        BY <2>2
      <3> QED
        BY <1>5, <3>1
    <2> QED
      BY <2>1, <2>2
  <1> QED
    BY <1>2, <1>4, <1>6

\* A statement of the rebuild that is repeated settles what it makes and takes.
LEMMA RebuildSettles ==
  ASSUME NEW k \in 1 .. 11, NEW things,
         things \ Unsettled(k) = Standing(9, k) \ Unsettled(k),
         k = 1 => "providers" \in things, k = 6 => "routes" \in things
  PROVE  After(things, Migrations[9][k]) \ Unsettled(k + 1) = Standing(9, k + 1) \ Unsettled(k + 1)
  <1>1. Standing(9, k + 1) = After(Standing(9, k), Migrations[9][k])
    <2>1. PICK m \in 1 .. Count : m = 9
      BY MigrationList
    <2>2. k \in 1 .. Len(Migrations[m])
      BY <2>1, RebuildStatements
    <2> QED
      BY <2>1, <2>2, StandingStep
  <1>2. ASSUME NEW thing, thing \notin Unsettled(k + 1), thing \in Unsettled(k)
        PROVE  thing \in After(things, Migrations[9][k]) <=> thing \in Standing(9, k + 1)
    <2>1. CASE k = 1
      <3>1. Unsettled(1) = ProviderThings \cup RouteThings /\ Unsettled(2) = Parts("providers") \cup RouteThings
        BY DEF Unsettled
      <3>2. thing \in {"providers", "providers_new"}
        BY <1>2, <2>1, <3>1, RebuildThings DEF ProviderThings
      <3>3. After(things, Migrations[9][1]) = things \cup {"providers_new"}
        BY RebuildStatements DEF After, Makes, Takes, Create, MadeWith, OwnIndex
      <3> QED
        BY <2>1, <3>2, <3>3, RebuildStanding
    <2>2. CASE k = 3
      <3>1. Unsettled(3) = Parts("providers") \cup RouteThings /\ Unsettled(4) = RouteThings
        BY DEF Unsettled
      <3>2. thing \in Parts("providers")
        BY <1>2, <2>2, <3>1
      <3>3. After(things, Migrations[9][3]) = things \ ({"providers"} \cup Parts("providers"))
        BY RebuildStatements DEF After, Makes, Takes, Drop
      <3>4. Standing(9, 4) = Standing(9, 3) \ ({"providers"} \cup Parts("providers"))
        BY RebuildSteps
      <3> QED
        BY <2>2, <3>2, <3>3, <3>4
    <2>3. CASE k = 6
      <3>1. Unsettled(6) = RouteThings /\ Unsettled(7) = Parts("routes")
        BY DEF Unsettled
      <3>2. thing \in {"routes", "routes_new"}
        BY <1>2, <2>3, <3>1, RebuildThings DEF RouteThings
      <3>3. After(things, Migrations[9][6]) = things \cup {"routes_new"}
        BY RebuildStatements DEF After, Makes, Takes, Create, MadeWith, OwnIndex
      <3> QED
        BY <2>3, <3>2, <3>3, RebuildStanding
    <2>4. CASE k = 8
      <3>1. Unsettled(8) = Parts("routes")
        BY DEF Unsettled
      <3>2. thing \in Parts("routes")
        BY <1>2, <2>4, <3>1
      <3>3. After(things, Migrations[9][8]) = things \ ({"routes"} \cup Parts("routes"))
        BY RebuildStatements DEF After, Makes, Takes, Drop
      <3>4. Standing(9, 9) = Standing(9, 8) \ ({"routes"} \cup Parts("routes"))
        BY RebuildSteps
      <3> QED
        BY <2>4, <3>2, <3>3, <3>4
    <2>5. CASE k \notin {1, 3, 6, 8}
      <3>1. Unsettled(k + 1) = Unsettled(k)
        <4>1. k = 2 \/ k = 4 \/ k = 5 \/ k = 7 \/ k = 9 \/ k = 10 \/ k = 11
          BY <2>5
        <4> QED
          BY <4>1 DEF Unsettled
      <3> QED
        BY <1>2, <3>1
    <2> QED
      BY <2>1, <2>2, <2>3, <2>4, <2>5
  <1>3. ASSUME NEW thing, thing \notin Unsettled(k)
        PROVE  thing \in After(things, Migrations[9][k]) <=> thing \in Standing(9, k + 1)
    <2>1. thing \in things <=> thing \in Standing(9, k)
      BY <1>3
    <2> QED
      BY <1>1, <2>1 DEF After
  <1>4. \A thing : thing \notin Unsettled(k + 1) =>
          (thing \in After(things, Migrations[9][k]) <=> thing \in Standing(9, k + 1))
    BY <1>2, <1>3
  <1> QED
    BY <1>4

\* A migration that is cut off leaves nothing, or what the next start finds.
LEMMA CutOff ==
  ASSUME StartupInv, Fail \/ Stop
  PROVE  SchemaInv'
  <1> TypeOK /\ ProcessInv /\ SchemaInv /\ process \in ProcessState
    BY DEF StartupInv, TypeOK, ProcessState
  <1>1. /\ UNCHANGED <<schema, applied>> /\ Upcoming' = Upcoming /\ Place' = 1
        /\ torn' = (torn \/ (At("migrating") /\ process.stmt > 1))
    <2>1. UNCHANGED <<schema, applied>>
      BY DEF Fail, Stop, database, tables
    <2>2. process'.stmt = 0
      BY DEF Fail, Stop, Down
    <2>3. CASE Fail
      BY <2>1, <2>2, <2>3, SameRecorded DEF Fail, InMigration, Place
    <2>4. CASE Stop
      BY <2>1, <2>2, <2>4, SameRecorded DEF Stop, Place
    <2> QED
      BY <2>3, <2>4
  <1>2. ASSUME NEW k \in 1 .. 12, Upcoming = 9, Place = k, SettledAt(k)
        PROVE  SettledAt(Place)'
    <2>1. schema \ Unsettled(k) = Standing(9, k) \ Unsettled(k)
      BY <1>2 DEF SettledAt
    <2>2. schema \ Unsettled(1) = Standing(9, k) \ Unsettled(1)
      BY <2>1, RebuildUnsettled
    <2>3. schema \ Unsettled(1) = Standing(9, 1) \ Unsettled(1)
      BY <2>2, RebuildUnsettled
    <2> QED
      BY <1>1, <2>3 DEF SettledAt
  <1>3. Upcoming = 9 => Place \in 1 .. 12
    <2>1. process.stmt \in 0 .. 12
      BY DEF ProcessState
    <2> QED
      BY <2>1 DEF Place
  <1>4. CASE Dirty
    <2>1. torn' /\ \E newer \in Versions : Upcoming' <= newer
      BY <1>1, <1>4 DEF Dirty
    <2>2. CASE Upcoming = 9
      <3>1. PICK k \in 1 .. 12 : k = Place
        BY <1>3, <2>2
      <3>2. SettledAt(k)
        BY <1>4, <2>2, <3>1 DEF Dirty, Left
      <3>3. SettledAt(Place)'
        BY <1>2, <2>2, <3>1, <3>2
      <3> QED
        BY <1>1, <2>1, <2>2, <3>3 DEF SchemaInv, Dirty, Left
    <2>3. CASE Upcoming # 9
      <3>1. Left'
        BY <1>1, <1>4, <2>3 DEF Dirty, Left
      <3> QED
        BY <2>1, <3>1 DEF SchemaInv, Dirty
    <2> QED
      BY <2>2, <2>3
  <1>5. CASE Clean /\ Place = 1
    BY <1>1, <1>5 DEF SchemaInv, Clean
  <1>6. CASE Clean /\ Place # 1
    <2>1. At("migrating") /\ process.stmt > 1
      BY <1>6 DEF Place, ProcessInv, ProcessState, At
    <2>2. /\ Upcoming \in 1 .. Count /\ process.version \in Versions
          /\ Upcoming <= process.version
          /\ Place \in 2 .. Len(Migrations[Upcoming]) + 1
      <3>1. /\ process.migration \in 1 .. Count /\ process.migration = Upcoming
            /\ process.stmt \in 1 .. Len(Current) + 1 /\ Place = process.stmt
            /\ process.version \in Versions /\ process.migration <= process.version
            /\ Len(Current) \in 1 .. 11
        <4>1. process.stmt > 0
          BY <2>1 DEF ProcessState
        <4> QED
          BY <2>1, <4>1, AtStatement
      <3>2. PICK l \in 1 .. 11 : l = Len(Current) /\ l = Len(Migrations[Upcoming])
        BY <3>1 DEF Current
      <3>3. Place \in 2 .. l + 1
        BY <2>1, <3>1, <3>2
      <3> QED
        BY <3>1, <3>2, <3>3
    <2>3. torn' /\ \E newer \in Versions : Upcoming' <= newer
      BY <1>1, <2>1, <2>2
    <2>4. schema' = Standing(Upcoming, Place)
      BY <1>1, <1>6 DEF Clean
    <2>5. CASE Upcoming \notin {9, 11}
      <3>1. Migrations[Upcoming][1].to \in schema'
        BY <2>2, <2>4, <2>5, FirstStands
      <3>2. Left'
        BY <1>1, <2>5, <3>1 DEF Left
      <3> QED
        BY <2>3, <3>2 DEF SchemaInv, Dirty
    <2>6. CASE Upcoming = 11
      <3>1. Len(Migrations[11]) = 1
        BY OtherStatements
      <3>2. Place = 2
        BY <2>2, <2>6, <3>1
      <3>3. Left'
        BY <1>1, <2>4, <2>6, <3>2 DEF Left
      <3> QED
        BY <2>3, <3>3 DEF SchemaInv, Dirty
    <2>7. CASE Upcoming = 9
      <3>1. PICK k \in 1 .. 12 : k = Place /\ schema = Standing(9, k)
        BY <1>3, <1>6, <2>7 DEF Clean
      <3>2. SettledAt(k)
        BY <3>1 DEF SettledAt
      <3>3. SettledAt(Place)'
        BY <1>2, <2>7, <3>1, <3>2
      <3>4. Left'
        BY <1>1, <2>7, <3>3 DEF Left
      <3> QED
        BY <2>3, <3>4 DEF SchemaInv, Dirty
    <2> QED
      BY <2>5, <2>6, <2>7
  <1> QED
    BY <1>4, <1>5, <1>6 DEF SchemaInv

\* A migration that found what it expects goes on to do so; of the others only
\* the rebuild can repeat what it did.
LEMMA ExecuteSchema ==
  ASSUME StartupInv, Execute
  PROVE  SchemaInv'
  <1> TypeOK /\ ProcessInv /\ SchemaInv /\ TablesInv
    BY DEF StartupInv
  <1>1. PICK m \in 1 .. Count, k \in 1 .. 11, stmt \in {Statement} :
          m = Upcoming /\ k = Place /\ stmt = Statement
    <2>1. /\ Upcoming \in 1 .. Count /\ process.stmt \in 1 .. Len(Migrations[Upcoming])
          /\ Place = process.stmt
      <3>1. InMigration
        BY DEF Execute
      <3> QED
        BY <3>1, CurrentStatement
    <2>2. PICK l \in 1 .. 11 : l = Len(Migrations[Upcoming])
      BY <2>1, Lengths
    <2>3. PICK n : n = Place /\ n \in 1 .. l
      BY <2>1, <2>2
    <2>4. n \in 1 .. 11
      BY <2>3
    <2> QED
      BY <2>1, <2>3, <2>4
  <1>2. k \in 1 .. Len(Migrations[m]) /\ stmt = Migrations[m][k] /\ HasKind(stmt, m, k)
    BY <1>1, CurrentStatement DEF Execute
  <1>3. schema' = After(schema, stmt) /\ Succeeds(stmt) /\ UNCHANGED torn
    BY <1>1 DEF Execute
  <1>4. Upcoming' = m /\ Place' = k + 1
    BY <1>1, ExecuteProcess
  <1>5. CASE Clean
    <2>1. schema = Standing(m, k)
      BY <1>1, <1>5 DEF Clean
    <2>2. Standing(m, k + 1) = After(Standing(m, k), Migrations[m][k])
      BY <1>2, StandingStep
    <2>3. schema' = Standing(m, k + 1)
      BY <1>2, <1>3, <2>1, <2>2
    <2> QED
      BY <1>4, <2>3 DEF SchemaInv, Clean
  <1>6. CASE Dirty
    <2>1. CASE m \notin {9, 11}
      <3>1. k = 1 /\ stmt.to \in schema
        BY <1>1, <1>2, <1>6, <2>1 DEF Dirty, Left
      <3>2. stmt.op \in {"create", "add"}
        BY <1>2, <2>1 DEF HasKind
      <3> QED
        BY <1>3, <3>1, <3>2 DEF Succeeds
    <2>2. CASE m = 11
      <3>1. k = 1 /\ schema = Standing(11, 2)
        BY <1>1, <1>6, <2>2 DEF Dirty, Left
      <3>2. Len(Migrations[11]) = 1
        BY OtherStatements
      <3>3. Migrations[11][1].to \in Standing(11, 2)
        <4>1. PICK n \in 1 .. Count : n = 11
          BY MigrationList
        <4>2. 2 \in 2 .. Len(Migrations[n]) + 1
          <5>1. Len(Migrations[n]) = 1
            BY <3>2, <4>1
          <5>2. PICK l \in Nat : l = Len(Migrations[n]) /\ l = 1
            BY <5>1
          <5>3. 2 \in 2 .. l + 1
            BY <5>2
          <5> QED
            BY <5>2, <5>3
        <4>3. Migrations[n][1].to \in Standing(n, 2)
          BY <4>1, <4>2, FirstStands
        <4> QED
          BY <4>1, <4>3
      <3>4. Makes(stmt) = {stmt.to} /\ Takes(stmt) = {}
        BY <1>2, <2>2 DEF HasKind
      <3>5. stmt.to \in schema
        BY <1>2, <2>2, <3>1, <3>3
      <3>6. schema' = Standing(11, 2)
        BY <1>3, <3>1, <3>4, <3>5 DEF After
      <3> QED
        BY <1>4, <2>2, <3>1, <3>6 DEF SchemaInv, Clean
    <2>3. CASE m = 9
      <3>1. schema \ Unsettled(k) = Standing(9, k) \ Unsettled(k)
        BY <1>1, <1>6, <2>3 DEF Dirty, Left, SettledAt
      <3>2. \A table \in {"providers", "routes"} : Rebuilt[table] \cap schema # {}
        BY <1>1, <2>3, RebuildThings DEF TablesInv
      <3>3. ASSUME k = 1
            PROVE  "providers" \in schema
        <4>1. stmt.op = "create" /\ stmt.to = "providers_new"
          BY <1>2, <2>3, <3>3, RebuildStatements DEF Create
        <4>2. "providers_new" \notin schema
          BY <1>3, <4>1 DEF Succeeds
        <4> QED
          BY <3>2, <4>2, RebuildThings
      <3>4. ASSUME k = 6
            PROVE  "routes" \in schema
        <4>1. stmt.op = "create" /\ stmt.to = "routes_new"
          BY <1>2, <2>3, <3>4, RebuildStatements DEF Create
        <4>2. "routes_new" \notin schema
          BY <1>3, <4>1 DEF Succeeds
        <4> QED
          BY <3>2, <4>2, RebuildThings
      <3>5. PICK things : things = schema
        OBVIOUS
      <3>6. After(things, Migrations[9][k]) \ Unsettled(k + 1) = Standing(9, k + 1) \ Unsettled(k + 1)
        BY <3>1, <3>3, <3>4, <3>5, RebuildSettles
      <3>7. schema' = After(things, Migrations[9][k])
        BY <1>2, <1>3, <2>3, <3>5
      <3>8. SettledAt(Place)'
        BY <1>4, <3>6, <3>7 DEF SettledAt
      <3>9. Left'
        BY <1>4, <2>3, <3>8 DEF Left
      <3> QED
        BY <1>1, <1>3, <1>4, <1>6, <3>9 DEF SchemaInv, Dirty
    <2> QED
      BY <2>1, <2>2, <2>3
  <1> QED
    BY <1>5, <1>6 DEF SchemaInv

\* Whatever is cut off, the schema is what the statements made so far, or what
\* was left is where the next one finds it.
LEMMA SchemaStep ==
  ASSUME StartupInv, [Next]_vars
  PROVE  SchemaInv'
  <1> TypeOK /\ ProcessInv /\ SchemaInv /\ process \in ProcessState
    BY DEF StartupInv, TypeOK, ProcessState
  <1>1. CASE Execute
    BY <1>1, ExecuteSchema
  <1>2. CASE Fail \/ Stop
    BY <1>2, CutOff
  <1>3. CASE Record
    <2>1. /\ Upcoming \in 1 .. Count /\ Place = Len(Migrations[Upcoming]) + 1
          /\ Upcoming' = Upcoming + 1 /\ process'.stmt = 0
      BY <1>3, RecordStep
    <2>2. PICK l \in 1 .. 11 : l = Len(Migrations[Upcoming])
      BY <2>1, Lengths
    <2>3. Clean
      <3> SUFFICES ASSUME Left PROVE Clean
        BY DEF SchemaInv, Dirty
      <3>1. CASE Upcoming = 9
        <4>1. Place = 12 /\ SettledAt(Place)
          BY <2>1, <3>1, RebuildStatements DEF Left
        <4>2. Unsettled(12) = {}
          BY DEF Unsettled
        <4>3. schema \ Unsettled(12) = Standing(9, 12) \ Unsettled(12)
          BY <4>1 DEF SettledAt
        <4>4. schema = Standing(9, 12)
          BY <4>2, <4>3
        <4> QED
          BY <3>1, <4>1, <4>4 DEF Clean
      <3>2. CASE Upcoming # 9
        BY <2>1, <2>2, <3>2 DEF Left
      <3> QED
        BY <3>1, <3>2
    <2>4. schema' = schema /\ Place' = 1
      BY <1>3, <2>1 DEF Record, Place, tables
    <2>5. schema' = Standing(Upcoming + 1, 1)
      BY <2>1, <2>3, <2>4, StandingNext DEF Clean
    <2> QED
      BY <2>1, <2>4, <2>5 DEF SchemaInv, Clean
  <1>4. CASE \/ \E version \in Versions, env \in BOOLEAN : Start(version, env)
             \/ Check \/ Migrated \/ CountUsers \/ Truncate \/ WriteFile \/ InsertUser
             \/ Manage \/ UNCHANGED vars
    <2>1. UNCHANGED <<schema, applied, torn>>
      <3>1. CASE Manage
        BY <3>1, ManageSteps
      <3>2. CASE ~Manage
        BY <1>4, <3>2 DEF Start, Check, Migrated, CountUsers, Truncate, WriteFile, InsertUser, vars,
             database, tables
      <3> QED
        BY <3>1, <3>2
    <2>2. Place' = Place
      <3>1. CASE \E version \in Versions, env \in BOOLEAN : Start(version, env)
        BY <3>1 DEF Start, Place, ProcessInv
      <3>2. CASE Check
        BY <3>2 DEF Check, Place, ProcessState
      <3>3. CASE Migrated \/ CountUsers \/ Truncate \/ WriteFile \/ InsertUser
        BY <3>3 DEF Migrated, CountUsers, Truncate, WriteFile, InsertUser, GoTo, Place, ProcessState
      <3>4. CASE Manage \/ UNCHANGED vars
        BY <3>4, ManageSteps DEF vars, Place
      <3> QED
        BY <1>4, <3>1, <3>2, <3>3, <3>4
    <2>3. Upcoming' = Upcoming
      BY <2>1, SameRecorded
    <2>4. CASE Clean
      BY <2>1, <2>2, <2>3, <2>4 DEF SchemaInv, Clean
    <2>5. CASE Dirty
      <3>1. Left'
        BY <2>1, <2>2, <2>3, <2>5 DEF Dirty, Left, SettledAt
      <3> QED
        BY <2>1, <2>3, <2>5, <3>1 DEF SchemaInv, Dirty
    <2> QED
      BY <2>4, <2>5 DEF SchemaInv
  <1> QED
    BY <1>1, <1>2, <1>3, <1>4 DEF Next, Manage

\* A statement of the rebuild, whatever was left before it, leaves of each table
\* itself or its replacement.
LEMMA RebuildKeeps ==
  ASSUME NEW k \in 1 .. 11, NEW things,
         \A table \in DOMAIN Rebuilt : Rebuilt[table] \cap things # {},
         k = 3 => "providers_new" \in things, k = 8 => "routes_new" \in things,
         NEW table \in DOMAIN Rebuilt
  PROVE  Rebuilt[table] \cap After(things, Migrations[9][k]) # {}
  <1>1. Rebuilt[table] \cap things # {} /\ table \in {"providers", "routes"}
    BY RebuildThings
  <1>2. CASE k = 3
    <2>1. After(things, Migrations[9][3]) = things \ ({"providers"} \cup Parts("providers"))
      BY RebuildStatements DEF After, Makes, Takes, Drop
    <2>2. "providers_new" \in After(things, Migrations[9][3])
      BY <1>2, <2>1, RebuildTables
    <2>3. CASE table = "providers"
      BY <1>2, <2>2, <2>3, RebuildThings
    <2>4. CASE table = "routes"
      BY <1>1, <1>2, <2>1, <2>4, RebuildThings, RebuildTables
    <2> QED
      BY <1>1, <2>3, <2>4
  <1>3. CASE k = 8
    <2>1. After(things, Migrations[9][8]) = things \ ({"routes"} \cup Parts("routes"))
      BY RebuildStatements DEF After, Makes, Takes, Drop
    <2>2. "routes_new" \in After(things, Migrations[9][8])
      BY <1>3, <2>1, RebuildTables
    <2>3. CASE table = "routes"
      BY <1>3, <2>2, <2>3, RebuildThings
    <2>4. CASE table = "providers"
      <3>1. {"providers", "providers_new"} \cap ({"routes"} \cup Parts("routes")) = {}
        BY RebuildTables, RebuildThings DEF RouteThings
      <3> QED
        BY <1>1, <1>3, <2>1, <2>4, <3>1, RebuildThings
    <2> QED
      BY <1>1, <2>3, <2>4
  <1>4. CASE k = 4
    <2>1. After(things, Migrations[9][4]) = (things \ {"providers_new"}) \cup {"providers"}
      BY RebuildStatements DEF After, Makes, Takes, Rename
    <2> QED
      BY <1>1, <1>4, <2>1, RebuildThings
  <1>5. CASE k = 9
    <2>1. After(things, Migrations[9][9]) = (things \ {"routes_new"}) \cup {"routes"}
      BY RebuildStatements DEF After, Makes, Takes, Rename
    <2> QED
      BY <1>1, <1>5, <2>1, RebuildThings
  <1>6. CASE k \notin {3, 4, 8, 9}
    <2>1. Takes(Migrations[9][k]) = {}
      BY <1>6, RebuildTakes
    <2> QED
      BY <1>1, <2>1 DEF After
  <1> QED
    BY <1>2, <1>3, <1>4, <1>5, <1>6

\* The tables that are rebuilt are there, as themselves or as their replacement.
LEMMA TablesStep ==
  ASSUME StartupInv, [Next]_vars
  PROVE  TablesInv'
  <1> TypeOK /\ ProcessInv /\ SchemaInv /\ TablesInv
    BY DEF StartupInv
  <1> SUFFICES ASSUME Upcoming' = 9
               PROVE  \A table \in DOMAIN Rebuilt : Rebuilt[table] \cap schema' # {}
    BY DEF TablesInv
  <1>1. CASE Execute
    <2>1. Upcoming = 9
      BY <1>1, ExecuteProcess
    <2>2. PICK k \in 1 .. 11 : k = Place /\ Statement = Migrations[9][k]
      BY <1>1, <2>1, CurrentStatement, RebuildStatements DEF Execute
    <2>3. schema' = After(schema, Migrations[9][k])
      BY <1>1, <2>2 DEF Execute
    <2>4. schema \ Unsettled(k) = Standing(9, k) \ Unsettled(k)
      BY <2>1, <2>2 DEF SchemaInv, Clean, Dirty, Left, SettledAt
    <2>5. ASSUME k = 3
          PROVE  "providers_new" \in schema
      <3>1. "providers_new" \notin Unsettled(3)
        BY RebuildTables DEF Unsettled
      <3> QED
        BY <2>4, <2>5, <3>1, RebuildStanding
    <2>6. ASSUME k = 8
          PROVE  "routes_new" \in schema
      <3>1. "routes_new" \notin Unsettled(8)
        BY RebuildTables DEF Unsettled
      <3> QED
        BY <2>4, <2>6, <3>1, RebuildStanding
    <2>7. \A table \in DOMAIN Rebuilt : Rebuilt[table] \cap schema # {}
      BY <2>1 DEF TablesInv
    <2>8. PICK things : things = schema
      OBVIOUS
    <2>9. \A table \in DOMAIN Rebuilt : Rebuilt[table] \cap After(things, Migrations[9][k]) # {}
      BY <2>5, <2>6, <2>7, <2>8, RebuildKeeps
    <2> QED
      BY <2>3, <2>8, <2>9
  <1>2. CASE Record
    <2>1. Upcoming = 8
      <3>1. PICK n \in 0 .. 15 : Upcoming = n + 1 /\ Upcoming' = Upcoming + 1
        BY <1>2, RecordedType, RecordStep DEF Upcoming
      <3> QED
        BY <3>1
    <2>2. Clean
      <3> SUFFICES ASSUME Left PROVE FALSE
        BY DEF SchemaInv, Dirty
      <3>1. Place = Len(Migrations[8]) + 1
        BY <1>2, <2>1, RecordStep
      <3>2. PICK l \in 1 .. 11 : l = Len(Migrations[8])
        <4>1. 8 \in 1 .. Count
          BY MigrationList
        <4> QED
          BY <4>1, Lengths
      <3> QED
        BY <2>1, <3>1, <3>2 DEF Left
    <2>3. schema = Standing(8, Len(Migrations[8]) + 1)
      BY <1>2, <2>1, <2>2, RecordStep DEF Clean
    <2>4. schema = Standing(9, 1)
      <3>1. PICK m \in 1 .. Count : m = 8
        BY MigrationList
      <3>2. Standing(m + 1, 1) = Standing(m, Len(Migrations[m]) + 1)
        BY StandingNext
      <3> QED
        BY <2>3, <3>1, <3>2
    <2>5. schema' = schema
      BY <1>2 DEF Record, tables
    <2> QED
      BY <2>4, <2>5, BeforeRebuild, RebuildThings
  <1>3. CASE UNCHANGED <<schema, applied>>
    BY <1>3, SameRecorded DEF TablesInv
  <1>4. CASE Manage
    BY <1>3, <1>4, ManageSteps
  <1> QED
    BY <1>1, <1>2, <1>3, <1>4 DEF Next, Manage, Start, Check, Fail, Migrated, CountUsers, Truncate,
         WriteFile, InsertUser, Stop, database, tables, vars

\* Between migrations a table has an index of its names, its own or one of
\* migration 9.
LEMMA UniqueStands ==
  ASSUME NEW m \in 1 .. 16, NEW index \in DOMAIN UniqueIndex,
         UniqueIndex[index] \in Standing(m, 1)
  PROVE  {OwnIndex[UniqueIndex[index]], index} \cap Standing(m, 1) # {}
  <1>1. PICK table : table = UniqueIndex[index]
    OBVIOUS
  <1>2. /\ index \in {"idx_providers_name_active", "idx_routes_name_active", "idx_routes_model_active"}
        /\ table \in {"providers", "routes"}
        /\ index = "idx_providers_name_active" => table = "providers"
        /\ index # "idx_providers_name_active" => table = "routes"
    BY <1>1 DEF UniqueIndex
  <1>3. m \in Nat /\ 1 \in Nat
    OBVIOUS
  <1>4. CASE m <= 9
    <2>1. PICK a \in 1 .. Count : \E b \in 1 .. Len(Migrations[a]) :
             Precedes(a, b, m, 1) /\ table \in Makes(Migrations[a][b])
      BY <1>1 DEF Standing
    <2>2. PICK b \in 1 .. Len(Migrations[a]) :
             Precedes(a, b, m, 1) /\ table \in Makes(Migrations[a][b])
      BY <2>1
    <2>3. a \in Nat /\ b \in Nat /\ b >= 1
      BY Lengths
    <2>4. a < m
      BY <2>2, <2>3 DEF Precedes
    <2>5. Creator(table) = <<a, b>>
      BY <1>4, <2>2, <2>4, MadeBy
    <2>6. (table = "providers" => a = 3 /\ b = 1) /\ (table = "routes" => a = 4 /\ b = 1)
      BY <2>5, CreatorValues
    <2>7. Migrations[a][b] = Create(table)
      BY <1>2, <2>6, MigrationList DEF create_providers, create_routes
    <2>8. OwnIndex[table] \in Makes(Migrations[a][b])
      BY <1>2, <2>7 DEF Makes, Create, MadeWith, OwnIndex
    <2>9. ASSUME NEW c \in 1 .. Count, NEW d \in 1 .. Len(Migrations[c]), Precedes(c, d, m, 1)
          PROVE  OwnIndex[table] \notin Takes(Migrations[c][d])
      <3>1. c \in Nat /\ d \in Nat /\ d >= 1
        BY Lengths
      <3>2. c # 9
        BY <1>4, <2>9, <3>1 DEF Precedes
      <3> QED
        BY <3>2, OnlyRebuildTakes
    <2>10. OwnIndex[table] \in Standing(m, 1)
      BY <1>3, <2>2, <2>8, <2>9, StandsIf
    <2> QED
      BY <1>1, <2>10
  <1>5. CASE m > 9
    <2>1. PICK a \in 1 .. Count : a = 9
      BY MigrationList
    <2>2. PICK b \in {5, 10, 11} : b \in 1 .. Len(Migrations[a]) /\ Migrations[9][b] = Add(table, index)
      <3>1. 5 \in 1 .. Len(Migrations[a]) /\ 10 \in 1 .. Len(Migrations[a]) /\ 11 \in 1 .. Len(Migrations[a])
        BY <2>1, RebuildStatements
      <3>2. CASE index = "idx_providers_name_active"
        BY <1>2, <3>1, <3>2, RebuildStatements
      <3>3. CASE index = "idx_routes_name_active"
        BY <1>2, <3>1, <3>3, RebuildStatements
      <3>4. CASE index = "idx_routes_model_active"
        BY <1>2, <3>1, <3>4, RebuildStatements
      <3> QED
        BY <1>2, <3>2, <3>3, <3>4
    <2>3. index \in Makes(Migrations[a][b])
      BY <2>1, <2>2 DEF Makes, Add
    <2>4. Precedes(a, b, m, 1)
      BY <1>5, <2>1 DEF Precedes
    <2>5. b = 5 => index = "idx_providers_name_active"
      BY <2>2, RebuildStatements DEF Add
    <2>6. ASSUME NEW c \in 1 .. Count, NEW d \in 1 .. Len(Migrations[c]), Precedes(a, b, c, d)
          PROVE  index \notin Takes(Migrations[c][d])
      <3>1. CASE c # 9
        BY <3>1, OnlyRebuildTakes
      <3>2. CASE c = 9
        <4>1. d \in 1 .. 11 /\ b < d
          BY <2>1, <2>6, <3>2, RebuildStatements DEF Precedes
        <4>2. CASE d \in {3, 4}
          BY <4>1, <4>2
        <4>3. CASE d \in {8, 9}
          <5>1. index = "idx_providers_name_active"
            BY <2>5, <4>1, <4>3
          <5>2. index \notin Parts("routes")
            BY <5>1, ProviderIndex
          <5> QED
            BY <3>2, <4>3, <5>1, <5>2, RebuildTakes
        <4>4. CASE d \notin {3, 4, 8, 9}
          BY <3>2, <4>1, <4>4, RebuildTakes
        <4> QED
          BY <4>2, <4>3, <4>4
      <3> QED
        BY <3>1, <3>2
    <2>7. index \in Standing(m, 1)
      BY <1>3, <2>2, <2>3, <2>4, <2>6, StandsIf
    <2> QED
      BY <2>7
  <1> QED
    BY <1>4, <1>5

\* Two rows of one name come from a server on the tables of a torn rebuild.
LEMMA ClashStep ==
  ASSUME StartupInv, [Next]_vars
  PROVE  ClashInv'
  <1> TypeOK /\ ProcessInv /\ SchemaInv /\ ClashInv
    BY DEF StartupInv
  <1>1. ASSUME NEW index \in DOMAIN UniqueIndex, FillTwice(index)
        PROVE  torn
    <2>1. /\ UniqueIndex[index] \in schema
          /\ {OwnIndex[UniqueIndex[index]], index} \cap schema = {}
          /\ process.at = "serving"
      BY <1>1 DEF FillTwice, TypeOK, At
    <2>2. CASE Clean
      <3>1. process.stmt = 0
        BY <2>1 DEF ProcessInv
      <3>2. Place = 1
        BY <3>1 DEF Place
      <3>3. PICK m \in 1 .. 16 : m = Upcoming
        BY RecordedType
      <3>4. schema = Standing(m, 1)
        BY <2>2, <3>2, <3>3 DEF Clean
      <3> QED
        BY <2>1, <3>4, UniqueStands
    <2> QED
      BY <2>2 DEF SchemaInv, Dirty
  <1>2. CASE Manage
    <2>1. torn' = torn
      BY <1>2, ManageSteps
    <2>2. CASE \E table \in DOMAIN Rebuilt \cup {"route_targets"} : Fill(table)
      BY <2>1, <2>2 DEF Fill, ClashInv
    <2>3. CASE \E index \in DOMAIN UniqueIndex : FillTwice(index)
      BY <1>1, <2>1, <2>3 DEF ClashInv
    <2>4. CASE \E index \in DOMAIN UniqueIndex : Settle(index)
      BY <2>1, <2>4 DEF Settle, ClashInv
    <2> QED
      BY <1>2, <2>2, <2>3, <2>4 DEF Manage
  <1>3. CASE UNCHANGED clashes /\ (torn => torn')
    BY <1>3 DEF ClashInv
  <1>4. CASE Fail \/ Stop
    BY <1>3, <1>4 DEF Fail, Stop, database, tables
  <1>5. CASE UNCHANGED <<clashes, torn>>
    BY <1>3, <1>5
  <1> QED
    BY <1>2, <1>4, <1>5 DEF Next, Manage, Start, Check, Execute, Record, Migrated, CountUsers,
         Truncate, WriteFile, InsertUser, database, tables, vars

\* The invariant is inductive.
LEMMA StartupStep ==
  ASSUME StartupInv, [Next]_vars
  PROVE  StartupInv'
  BY TypeStep, ProcessStep, SchemaStep, TablesStep, ClashStep, RebuildStep, AdminStep DEF StartupInv

(***************************************************************************)
(* The properties.                                                         *)
(***************************************************************************)

\* A statement of the rebuild fails on a replacement that is there already, on
\* rows that clash, or at a table that may not be dropped.
LEMMA RebuildFails ==
  ASSUME StartupInv, NEW k \in 1 .. 11,
         At("migrating"), process.migration = 9, process.stmt = k,
         schema \ Unsettled(k) = Standing(9, k) \ Unsettled(k),
         ~Succeeds(Migrations[9][k])
  PROVE  \/ k \in {1, 6} /\ Migrations[9][k].to \in schema
         \/ k \in {5, 10, 11} /\ Migrations[9][k].to \in clashes
         \/ "route_targets" \in filled
  <1> RebuildInv
    BY DEF StartupInv
  <1>1. PICK stmt : stmt = Migrations[9][k]
    OBVIOUS
  <1>2. \A thing : thing \notin Unsettled(k) => (thing \in schema <=> thing \in Standing(9, k))
    OBVIOUS
  <1>3. CASE k = 1 \/ k = 6
    <2>1. stmt.op = "create"
      BY <1>1, <1>3, RebuildStatements DEF Create
    <2> QED
      BY <1>1, <1>3, <2>1 DEF Succeeds
  <1>4. CASE k = 2
    <2>1. stmt = Copy("providers", "providers_new")
      BY <1>1, <1>4, RebuildStatements
    <2>2. {"providers", "providers_new"} \cap Unsettled(2) = {}
      BY RebuildTables DEF Unsettled
    <2>3. {"providers", "providers_new"} \subseteq schema
      BY <1>2, <1>4, <2>2, RebuildStanding
    <2>4. "providers_new" \notin filled
      BY <1>4 DEF RebuildInv
    <2>5. Succeeds(stmt)
      BY <2>1, <2>3, <2>4 DEF Succeeds, Copy
    <2> QED
      BY <1>1, <2>5
  <1>5. CASE k = 3
    <2>1. stmt = Drop("providers")
      BY <1>1, <1>5, RebuildStatements
    <2>2. "providers" \notin Unsettled(3)
      BY RebuildTables DEF Unsettled
    <2>3. "providers" \in schema
      BY <1>2, <1>5, <2>2, RebuildStanding
    <2> QED
      BY <1>1, <2>1, <2>3 DEF Succeeds, Drop
  <1>6. CASE k = 4
    <2>1. stmt = Rename("providers_new", "providers")
      BY <1>1, <1>6, RebuildStatements
    <2>2. {"providers", "providers_new"} \cap Unsettled(4) = {}
      BY RebuildTables DEF Unsettled
    <2>3. "providers_new" \in schema /\ "providers" \notin schema
      BY <1>2, <1>6, <2>2, RebuildStanding
    <2>4. Succeeds(stmt)
      BY <2>1, <2>3 DEF Succeeds, Rename
    <2> QED
      BY <1>1, <2>4
  <1>7. CASE k = 7
    <2>1. stmt = Copy("routes", "routes_new")
      BY <1>1, <1>7, RebuildStatements
    <2>2. {"routes", "routes_new"} \cap Unsettled(7) = {}
      BY RebuildTables DEF Unsettled
    <2>3. {"routes", "routes_new"} \subseteq schema
      BY <1>2, <1>7, <2>2, RebuildStanding
    <2>4. "routes_new" \notin filled
      BY <1>7 DEF RebuildInv
    <2>5. Succeeds(stmt)
      BY <2>1, <2>3, <2>4 DEF Succeeds, Copy
    <2> QED
      BY <1>1, <2>5
  <1>8. CASE k = 8
    <2>1. stmt = Drop("routes")
      BY <1>1, <1>8, RebuildStatements
    <2>2. "routes" \notin Unsettled(8)
      BY RebuildTables DEF Unsettled
    <2>3. "routes" \in schema
      BY <1>2, <1>8, <2>2, RebuildStanding
    <2> QED
      BY <1>1, <2>1, <2>3 DEF Succeeds, Drop
  <1>9. CASE k = 9
    <2>1. stmt = Rename("routes_new", "routes")
      BY <1>1, <1>9, RebuildStatements
    <2>2. Unsettled(9) = {}
      BY DEF Unsettled
    <2>3. "routes_new" \in schema /\ "routes" \notin schema
      BY <1>2, <1>9, <2>2, RebuildStanding
    <2>4. Succeeds(stmt)
      BY <2>1, <2>3 DEF Succeeds, Rename
    <2> QED
      BY <1>1, <2>4
  <1>10. CASE k \in {5, 10, 11}
    <2>1. PICK m \in 1 .. Count : m = 9
      BY MigrationList
    <2>2. k \in 1 .. Len(Migrations[m]) /\ stmt = Migrations[m][k]
      BY <1>1, <2>1, RebuildStatements
    <2>3. stmt.op = "add"
      BY <1>1, <1>10, RebuildStatements DEF Add
    <2>4. stmt.on \in Standing(9, k) /\ stmt.to \notin Standing(9, k)
      BY <2>1, <2>2, <2>3, HostStands, CreatedIsNew
    <2>5. stmt.on \notin Unsettled(k) /\ stmt.to \notin Unsettled(k)
      <3>1. CASE k = 5
        <4>1. stmt.on = "providers" /\ stmt.to = "idx_providers_name_active"
          BY <1>1, <3>1, RebuildStatements DEF Add
        <4>2. Unsettled(k) = RouteThings
          BY <3>1 DEF Unsettled
        <4> QED
          BY <4>1, <4>2, RebuildTables, RebuildThings
      <3>2. CASE k = 10 \/ k = 11
        BY <3>2 DEF Unsettled
      <3> QED
        BY <1>10, <3>1, <3>2
    <2>6. stmt.on \in schema /\ stmt.to \notin schema
      BY <1>2, <2>4, <2>5
    <2>7. stmt.to \in clashes
      BY <1>1, <2>3, <2>6 DEF Succeeds
    <2> QED
      BY <1>1, <1>10, <2>7
  <1> QED
    BY <1>3, <1>4, <1>5, <1>6, <1>7, <1>8, <1>9, <1>10

\* A statement fails at a table that may not be dropped, or on what a torn
\* migration left: the first one, the second replacement, or rows that clash.
LEMMA FailsOn ==
  ASSUME StartupInv, Fail
  PROVE  \/ process.migration = 9 /\ "route_targets" \in filled
         \/ torn /\ \/ process.stmt = 1
                    \/ Statement = Create("routes_new")
                    \/ Statement.to \in clashes
  <1> TypeOK /\ ProcessInv /\ SchemaInv /\ ClashInv
    BY DEF StartupInv
  <1>0. InMigration /\ ~Succeeds(Statement)
    BY DEF Fail
  <1>1. PICK m, k, stmt : m = Upcoming /\ k = Place /\ stmt = Statement
    OBVIOUS
  <1>2. /\ m \in 1 .. Count /\ k \in 1 .. Len(Migrations[m]) /\ stmt = Migrations[m][k]
        /\ HasKind(stmt, m, k) /\ process.migration = m /\ process.stmt = k /\ At("migrating")
    BY <1>0, <1>1, CurrentStatement
  <1>3. stmt.to \in clashes => torn
    BY DEF ClashInv
  <1>4. ASSUME Clean, stmt.op \in {"create", "add"}
        PROVE  stmt.to \notin schema
    BY <1>1, <1>2, <1>4, CreatedIsNew DEF Clean
  <1>5. CASE m = 9
    <2>1. k \in 1 .. 11 /\ ~Succeeds(Migrations[9][k])
      BY <1>0, <1>1, <1>2, <1>5, RebuildStatements
    <2>2. schema \ Unsettled(k) = Standing(9, k) \ Unsettled(k)
      BY <1>1, <1>5 DEF SchemaInv, Clean, Dirty, Left, SettledAt
    <2>3. \/ k \in {1, 6} /\ stmt.to \in schema
          \/ k \in {5, 10, 11} /\ stmt.to \in clashes
          \/ "route_targets" \in filled
      BY <1>2, <1>5, <2>1, <2>2, RebuildFails
    <2>4. ASSUME k \in {1, 6}, stmt.to \in schema
          PROVE  torn /\ (process.stmt = 1 \/ Statement = Create("routes_new"))
      <3>1. stmt.op = "create" /\ (k = 6 => stmt = Create("routes_new"))
        BY <1>2, <1>5, <2>4, RebuildStatements DEF Create
      <3>2. ~Clean
        BY <1>4, <2>4, <3>1
      <3>3. torn
        BY <3>2 DEF SchemaInv, Dirty
      <3> QED
        BY <1>1, <1>2, <2>4, <3>1, <3>3
    <2> QED
      BY <1>1, <1>2, <1>3, <1>5, <2>3, <2>4
  <1>6. CASE m # 9 /\ Clean
    <2>1. stmt.op \in {"create", "add", "ensure"}
      BY <1>2, <1>6 DEF HasKind
    <2>2. stmt.op \in {"add", "ensure"} => stmt.on \in schema
      BY <1>1, <1>2, <1>6, HostStands DEF Clean
    <2>3. stmt.to \in clashes
      BY <1>0, <1>1, <1>4, <1>6, <2>1, <2>2 DEF Succeeds
    <2> QED
      BY <1>1, <1>3, <2>3
  <1>7. CASE m # 9 /\ Dirty
    <2>1. torn /\ (m # 11 => k = 1)
      BY <1>1, <1>7 DEF Dirty, Left
    <2>2. CASE m = 11
      <3>1. k = 1 /\ schema = Standing(11, 2)
        BY <1>1, <1>7, <2>2 DEF Dirty, Left
      <3> QED
        BY <1>2, <2>1, <3>1
    <2> QED
      BY <1>2, <2>1, <2>2
  <1> QED
    BY <1>5, <1>6, <1>7 DEF SchemaInv

\* A statement leaves the rows of a table in it or in its replacement.
LEMMA KeepsRows ==
  ASSUME StartupInv, Execute, NEW table \in DOMAIN Rebuilt,
         filled \cap Rebuilt[table] # {}
  PROVE  filled' \cap Rebuilt[table] # {}
  <1> TypeOK /\ ProcessInv /\ RebuildInv
    BY DEF StartupInv
  <1>0. /\ DOMAIN Rebuilt = {"providers", "routes"}
        /\ Rebuilt["providers"] = {"providers", "providers_new"}
        /\ Rebuilt["routes"] = {"routes", "routes_new"}
    BY DEF Rebuilt
  <1>1. PICK m, k, stmt : m = Upcoming /\ k = Place /\ stmt = Statement
    OBVIOUS
  <1>2. /\ m \in 1 .. Count /\ k \in 1 .. Len(Migrations[m]) /\ stmt = Migrations[m][k]
        /\ HasKind(stmt, m, k) /\ process.migration = m /\ process.stmt = k /\ At("migrating")
    BY <1>1, CurrentStatement DEF Execute
  <1>3. filled' = FilledAfter(stmt)
    BY <1>1 DEF Execute
  <1>4. CASE stmt.on \notin filled
    BY <1>3, <1>4 DEF FilledAfter
  <1>5. CASE stmt.on \in filled /\ stmt.op = "copy"
    BY <1>3, <1>5 DEF FilledAfter
  <1>6. CASE stmt.on \in filled /\ stmt.op \in {"create", "add", "ensure"}
    BY <1>3, <1>6 DEF FilledAfter
  <1>7. CASE stmt.on \in filled /\ stmt.op = "drop"
    <2>1. filled' = filled \ {stmt.on}
      BY <1>3, <1>7 DEF FilledAfter
    <2>2. m = 9 /\ k \in {3, 8}
      BY <1>2, <1>7 DEF HasKind
    <2>3. CASE k = 3
      <3>1. stmt.on = "providers"
        BY <1>2, <2>2, <2>3, RebuildStatements DEF Drop
      <3>2. "providers_new" \in filled
        BY <1>2, <1>7, <2>2, <2>3, <3>1 DEF RebuildInv
      <3> QED
        BY <1>0, <2>1, <3>1, <3>2
    <2>4. CASE k = 8
      <3>1. stmt.on = "routes"
        BY <1>2, <2>2, <2>4, RebuildStatements DEF Drop
      <3>2. "routes_new" \in filled
        BY <1>2, <1>7, <2>2, <2>4, <3>1 DEF RebuildInv
      <3> QED
        BY <1>0, <2>1, <3>1, <3>2
    <2> QED
      BY <2>2, <2>3, <2>4
  <1>8. CASE stmt.on \in filled /\ stmt.op = "rename"
    <2>1. filled' = (filled \ {stmt.on}) \cup {stmt.to}
      BY <1>3, <1>8 DEF FilledAfter
    <2>2. m = 9 /\ k \in {4, 9}
      BY <1>2, <1>8 DEF HasKind
    <2>3. \/ stmt.on = "providers_new" /\ stmt.to = "providers"
          \/ stmt.on = "routes_new" /\ stmt.to = "routes"
      BY <1>2, <2>2, RebuildStatements DEF Rename
    <2> QED
      BY <1>0, <2>1, <2>3
  <1> QED
    BY <1>2, <1>4, <1>5, <1>6, <1>7, <1>8 DEF HasKind

\* The invariant holds, whichever versions of the program are started and
\* wherever they are cut off.
THEOREM StartupInvariant == Spec => []StartupInv
  <1>1. Init => StartupInv
    BY StartupInit
  <1>2. StartupInv /\ [Next]_vars => StartupInv'
    BY StartupStep
  <1> QED
    BY <1>1, <1>2, PTL DEF Spec

\* The variables of the startup have their types.
THEOREM StartupTypes == Spec => []TypeOK
  <1>1. StartupInv => TypeOK
    BY DEF StartupInv
  <1> QED
    BY <1>1, StartupInvariant, PTL

\* A server that serves has the whole schema of the versions recorded, and of
\* all its own, unless it is older than one that was cut off.
THEOREM ServedSchemaIsWhole == Spec => []ServesOnFullSchema
  <1>1. StartupInv => ServesOnFullSchema
    <2> SUFFICES ASSUME StartupInv, At("serving")
                 PROVE  /\ process.version <= Cardinality(applied)
                        /\ \/ schema = Schema[Cardinality(applied)]
                           \/ torn /\ \E newer \in Versions : newer > process.version
      BY DEF ServesOnFullSchema
    <2> TypeOK /\ ProcessInv /\ SchemaInv
      BY DEF StartupInv
    <2>1. process.version <= Recorded /\ process.stmt = 0
      BY DEF ProcessInv, At
    <2>2. Recorded \in 0 .. 15 /\ Upcoming = Recorded + 1 /\ Place = 1
      BY <2>1, RecordedType DEF Upcoming, Place
    <2>3. CASE Clean
      <3>1. schema = Standing(Recorded + 1, 1)
        BY <2>2, <2>3 DEF Clean
      <3>2. schema = Schema[Recorded]
        BY <2>2, <3>1, MigrationList DEF Schema
      <3> QED
        BY <2>1, <3>2 DEF Recorded
    <2>4. CASE Dirty
      <3>1. torn
        BY <2>4 DEF Dirty
      <3>2. PICK newer \in Versions : Upcoming <= newer
        BY <2>4 DEF Dirty
      <3>3. newer \in Nat /\ process.version \in Nat
        <4>1. process \in ProcessState
          BY DEF TypeOK, ProcessState
        <4>2. process.version \in Versions \cup {0}
          BY <4>1 DEF ProcessState
        <4>3. ASSUME NEW v \in Versions
              PROVE  v \in Nat
          BY StartupAssumption
        <4>4. CASE process.version = 0
          BY <3>2, <4>3, <4>4
        <4>5. CASE process.version \in Versions
          BY <3>2, <4>3, <4>5
        <4> QED
          BY <4>2, <4>4, <4>5
      <3>4. newer > process.version
        BY <2>1, <2>2, <3>2, <3>3
      <3> QED
        BY <2>1, <3>1, <3>4 DEF Recorded
    <2> QED
      BY <2>3, <2>4 DEF SchemaInv
  <1> QED
    BY <1>1, StartupInvariant, PTL

\* Whoever is the admin with a generated password finds it in the file.
THEOREM AdminCanLogIn == Spec => []NobodyIsLockedOut
  <1>1. StartupInv => NobodyIsLockedOut
    BY DEF StartupInv, AdminInv, NobodyIsLockedOut
  <1> QED
    BY <1>1, StartupInvariant, PTL

\* Without a torn migration before it, a start only fails at the tables that
\* migration 9 may not drop; and after one, only at its first statement, at the
\* second replacement of the rebuild, or on rows that clash.
THEOREM StartFailsOnlyIfTorn == Spec => FailsOnlyIfTorn
  <1>1. StartupInv /\ [Next]_vars =>
          [Fail => \/ process.migration = 9 /\ "route_targets" \in filled
                   \/ torn /\ \/ process.stmt = 1
                              \/ Statement = Create("routes_new")
                              \/ Statement.to \in clashes]_vars
    BY FailsOn
  <1> QED
    BY <1>1, StartupInvariant, PTL DEF Spec, FailsOnlyIfTorn

\* No provider and no route gets lost in the rebuild, wherever it is cut off.
THEOREM RowsSurviveMigrations == Spec => NothingIsLost
  <1>1. StartupInv /\ [Next]_vars =>
          [\A table \in DOMAIN Rebuilt : HasRows(table) => HasRows(table)']_vars
    <2> SUFFICES ASSUME StartupInv, [Next]_vars, NEW table \in DOMAIN Rebuilt,
                        filled \cap Rebuilt[table] # {}
                 PROVE  filled' \cap Rebuilt[table] # {}
      BY DEF HasRows
    <2>1. CASE Execute
      BY <2>1, KeepsRows
    <2>2. CASE Manage
      BY <2>2 DEF Manage, Fill, FillTwice, Settle
    <2>3. CASE UNCHANGED filled
      BY <2>3
    <2> QED
      BY <2>1, <2>2, <2>3 DEF Next, Manage, Start, Check, Fail, Record, Migrated, CountUsers,
           Truncate, WriteFile, InsertUser, Stop, database, tables, vars
  <1> QED
    BY <1>1, StartupInvariant, PTL DEF Spec, NothingIsLost

=============================================================================
