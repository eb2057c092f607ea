------------------------- MODULE ProjectConfigCache -------------------------
(***************************************************************************)
(* The configuration cache in front of the projects table                  *)
(* (internal/proxy/capture.go), the requests that decide by it whether to  *)
(* capture, and the admin handlers that change a project and then evict it *)
(* (internal/api/project_handlers.go).                                     *)
(*                                                                         *)
(* get, set and invalidate each hold projCache.mu for their whole body, so *)
(* each is one step; a miss reads the table between a get and a set with   *)
(* no lock held, and a handler commits its change before it evicts.  Those *)
(* gaps are where the interleavings are.                                   *)
(*                                                                         *)
(* Time advances in ticks.  An entry of age TTL is still served            *)
(* (time.Now().After(expiresAt) is strict).  MaxLag bounds, for the model, *)
(* how long a request may take between its read of the table and its set.  *)
(***************************************************************************)
EXTENDS Naturals, FiniteSets

CONSTANTS
    Project,     \* the projects
    Request,     \* the goroutines that run maybeCapture
    Admin,       \* the goroutines that run UpdateProject or DeleteProject
    TooLarge,    \* the requests whose bodies exceed captureMaxBodySize
    TTL,         \* newProjCache(60 * time.Second), in ticks
    MaxLag,      \* bound: ticks from a read of the table to the set it leads to
    MaxVersion,  \* bound: how often a project is written
    NoConfig     \* no row, no entry

ASSUME CacheAssumption ==
    /\ TTL \in Nat \ {0}
    /\ MaxLag \in Nat
    /\ MaxVersion \in Nat
    /\ TooLarge \subseteq Request
    /\ NoConfig \notin Project
    /\ NoConfig \notin [version : Nat, mode : {"off", "some", "all"}]

VARIABLES
    projects,    \* the table: project -> its configuration, NoConfig if deleted
    outdated,    \* project -> version -> ticks since it stopped being current
    items,       \* projCache.items
    request,     \* what each request is doing in getProjectCached
    verdict,     \* what the last maybeCapture of each request came to
    admin        \* the project each admin handler has still to evict

vars == <<projects, outdated, items, request, verdict, admin>>

Version == 0 .. MaxVersion

\* capture_enabled and sample_rate as far as shouldCapture tells them apart:
\* disabled or rate 0, a rate between 0 and 1, rate 1.
Mode == {"off", "some", "all"}

Config == [version : Version, mode : Mode]

\* The longest a superseded configuration may still decide.
Horizon == TTL + MaxLag

Idle == [at |-> "idle"]

NoVerdict == [entry |-> "none"]

(***************************************************************************)
(* The history variable outdated counts, up to Horizon + 1, for how long a *)
(* newer version, or a deletion, has replaced a version; raced, in a fill and in   *)
(* the entry it leaves, says that the project was evicted while the fill   *)
(* was under way.  The code keeps neither.                                 *)
(***************************************************************************)
Older(n, limit) == IF n < limit THEN n + 1 ELSE n

Superseded(p, v) == projects[p] = NoConfig \/ v < projects[p].version

\* FAULT: get does not look at expiresAt.
UsableForever(p) == items[p] # NoConfig

\* get's answer is positive: an entry that has not expired.
Usable(p) == items[p] # NoConfig /\ items[p].age <= TTL

TypeOK ==
    /\ projects \in [Project -> Config \cup {NoConfig}]
    /\ outdated \in [Project -> [Version -> 0 .. Horizon + 1]]
    /\ items \in [Project -> {NoConfig} \cup
                     [config : Config, age : 0 .. TTL + 1, raced : BOOLEAN]]
    /\ request \in [Request -> {Idle}
                      \cup [at : {"missed"}, project : Project]
                      \cup [at : {"fetched"}, project : Project,
                            config : Config, lag : 0 .. MaxLag, raced : BOOLEAN]]
    /\ verdict \in [Request -> {NoVerdict} \cup
                      [stale : 0 .. Horizon + 1,
                       entry : {"none", "whole", "stripped"}]]
    /\ admin \in [Admin -> Project \cup {NoConfig}]

Init ==
    /\ projects \in [Project -> [version : {0}, mode : Mode]]
    /\ outdated = [p \in Project |-> [v \in Version |-> 0]]
    /\ items = [p \in Project |-> NoConfig]
    /\ request = [r \in Request |-> Idle]
    /\ verdict = [r \in Request |-> NoVerdict]
    /\ admin = [a \in Admin |-> NoConfig]

(***************************************************************************)
(* Requests.                                                               *)
(***************************************************************************)

\* shouldCapture: what rand.Float64() < p.SampleRate may answer.
ShouldCapture(config) ==
    CASE config.mode = "all"  -> {TRUE}
      [] config.mode = "some" -> BOOLEAN
      [] config.mode = "off"  -> {FALSE}

\* The rest of maybeCapture once the configuration is known: no entry, the
\* entry, or the entry without its bodies.
Decide(r, p, config) ==
    \E yes \in ShouldCapture(config) :
        verdict' = [verdict EXCEPT ![r] =
            [stale |-> outdated[p][config.version],
             entry |-> IF ~yes THEN "none"
                       ELSE IF r \in TooLarge THEN "stripped" ELSE "whole"]]

\* FAULT: a hit pushes the expiry on, as a cache of sessions would.
GetHitExtends(r, p) ==
    /\ request[r] = Idle
    /\ Usable(p)
    /\ Decide(r, p, items[p].config)
    /\ items' = [items EXCEPT ![p].age = 0]
    /\ UNCHANGED <<projects, outdated, request, admin>>

\* projCache.get answers.
GetHit(r, p) ==
    /\ request[r] = Idle
    /\ Usable(p)
    /\ Decide(r, p, items[p].config)
    /\ UNCHANGED <<projects, outdated, items, request, admin>>

\* projCache.get finds nothing, or an entry that has expired: the entry stays.
GetMiss(r, p) ==
    /\ request[r] = Idle
    /\ ~Usable(p)
    /\ request' = [request EXCEPT ![r] = [at |-> "missed", project |-> p]]
    /\ verdict' = [verdict EXCEPT ![r] = NoVerdict]
    /\ UNCHANGED <<projects, outdated, items, admin>>

\* projectService.Get returns a live project.
Fetch(r) ==
    /\ request[r].at = "missed"
    /\ LET p == request[r].project IN
         /\ projects[p] # NoConfig
         /\ request' = [request EXCEPT ![r] =
              [at |-> "fetched", project |-> p, config |-> projects[p],
               lag |-> 0, raced |-> FALSE]]
    /\ UNCHANGED <<projects, outdated, items, verdict, admin>>

\* projectService.Get fails: the project is deleted, or the query fails.
\* Nothing is cached, and maybeCapture returns without an entry.
FetchFails(r) ==
    /\ request[r].at = "missed"
    /\ request' = [request EXCEPT ![r] = Idle]
    /\ UNCHANGED <<projects, outdated, items, verdict, admin>>

\* projCache.set, whatever happened since the table was read.
Fill(r) ==
    /\ request[r].at = "fetched"
    /\ LET p == request[r].project IN
         /\ items' = [items EXCEPT ![p] =
              [config |-> request[r].config, age |-> 0, raced |-> request[r].raced]]
         /\ Decide(r, p, request[r].config)
    /\ request' = [request EXCEPT ![r] = Idle]
    /\ UNCHANGED <<projects, outdated, admin>>

(***************************************************************************)
(* Admin handlers.                                                         *)
(***************************************************************************)

\* project.Service.Update, committed; an UPDATE of a deleted project matches
\* no row and succeeds, and the handler goes on to evict.
Update(a, p) ==
    /\ admin[a] = NoConfig
    /\ \/ /\ projects[p] # NoConfig
          /\ projects[p].version < MaxVersion
          /\ \E mode \in Mode : projects' = [projects EXCEPT ![p] =
                [version |-> projects[p].version + 1, mode |-> mode]]
       \/ /\ projects[p] = NoConfig
          /\ UNCHANGED projects
    /\ admin' = [admin EXCEPT ![a] = p]
    /\ UNCHANGED <<outdated, items, request, verdict>>

\* FAULT: the handler does not call OnProjectChanged.
DeleteNoEvict(a, p) ==
    /\ admin[a] = NoConfig
    /\ projects' = [projects EXCEPT ![p] = NoConfig]
    /\ UNCHANGED <<outdated, items, request, verdict, admin>>

\* project.Service.Delete, committed: Get does not see the row any more.
Delete(a, p) ==
    /\ admin[a] = NoConfig
    /\ projects' = [projects EXCEPT ![p] = NoConfig]
    /\ admin' = [admin EXCEPT ![a] = p]
    /\ UNCHANGED <<outdated, items, request, verdict>>

\* OnProjectChanged -> InvalidateProjectCache -> projCache.invalidate.
Invalidate(a) ==
    /\ admin[a] # NoConfig
    /\ items' = [items EXCEPT ![admin[a]] = NoConfig]
    /\ request' = [r \in Request |->
         IF request[r].at = "fetched" /\ request[r].project = admin[a]
         THEN [request[r] EXCEPT !.raced = TRUE] ELSE request[r]]
    /\ admin' = [admin EXCEPT ![a] = NoConfig]
    /\ UNCHANGED <<projects, outdated, verdict>>

(***************************************************************************)
(* Time, and the end of the process: the cache and every goroutine go.     *)
(***************************************************************************)

Tick ==
    /\ \A r \in Request : request[r].at = "fetched" => request[r].lag < MaxLag
    /\ outdated' = [p \in Project |-> [v \in Version |->
         IF Superseded(p, v) THEN Older(outdated[p][v], Horizon + 1) ELSE 0]]
    /\ items' = [p \in Project |-> IF items[p] = NoConfig THEN NoConfig
         ELSE [items[p] EXCEPT !.age = Older(items[p].age, TTL + 1)]]
    /\ request' = [r \in Request |-> IF request[r].at = "fetched"
         THEN [request[r] EXCEPT !.lag = request[r].lag + 1] ELSE request[r]]
    /\ UNCHANGED <<projects, verdict, admin>>

Restart ==
    /\ items' = [p \in Project |-> NoConfig]
    /\ request' = [r \in Request |-> Idle]
    /\ verdict' = [r \in Request |-> NoVerdict]
    /\ admin' = [a \in Admin |-> NoConfig]
    /\ UNCHANGED <<projects, outdated>>

RequestStep(r) ==
    \/ \E p \in Project : GetHit(r, p) \/ GetMiss(r, p)
    \/ Fetch(r)
    \/ FetchFails(r)
    \/ Fill(r)

AdminStep(a) ==
    \/ \E p \in Project : Update(a, p) \/ Delete(a, p)
    \/ Invalidate(a)

Next ==
    \/ \E r \in Request : RequestStep(r)
    \/ \E a \in Admin : AdminStep(a)
    \/ Tick
    \/ Restart

Spec == Init /\ [][Next]_vars

\* Time passes, and a request that has read the table goes on to the set.
\* Nothing is assumed of whether requests or admins come, or of the eviction.
FairSpec == Spec /\ WF_vars(Tick) /\ \A r \in Request : WF_vars(Fill(r))

(***************************************************************************)
(* Properties.                                                             *)
(***************************************************************************)

\* Staleness is bounded: maybeCapture never decides by a configuration that
\* was replaced, or by a project that was deleted, more than a TTL plus the
\* lag of one fill ago, however fills, evictions and changes interleave.
BoundedStaleness ==
    \A r \in Request : verdict[r] # NoVerdict => verdict[r].stale <= Horizon

\* The eviction after a change works: an entry that no longer agrees with the
\* table has an eviction coming to it, or was left by a fill that read the
\* table before the change and set its answer after the eviction.
StaleOnlyIfRaced ==
    \A p \in Project :
        /\ items[p] # NoConfig
        /\ Superseded(p, items[p].config.version)
        => items[p].raced \/ \E a \in Admin : admin[a] = p

\* Every change takes effect in the end: once the changes stop, the cache
\* serves nothing but the table's configuration, even when an eviction was
\* lost to a fill, because an entry's age is not reset by its use.
SettlesOnTheTable ==
    <>[](\A p \in Project : Usable(p) => ~Superseded(p, items[p].config.version))

=============================================================================
