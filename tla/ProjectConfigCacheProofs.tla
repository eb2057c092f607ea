---------------------- MODULE ProjectConfigCacheProofs ----------------------
(***************************************************************************)
(* Proofs about ProjectConfigCache, for any sets of projects, requests and *)
(* admins and any TTL, lag and number of versions.                         *)
(*                                                                         *)
(* A decision made from an entry is bounded because the age of a version's *)
(* successor is: in a fill by the lag of the fill, in an entry by its age  *)
(* plus the longest lag.  Those two bounds, with the fact that a version   *)
(* that was not replaced has not aged, are inductive (AgeInv).  RaceInv    *)
(* says of fills what StaleOnlyIfRaced says of entries, and the two        *)
(* together are inductive.                                                 *)
(***************************************************************************)
EXTENDS ProjectConfigCache, TLAPS

CurrentIsFresh ==
    \A p \in Project, v \in Version : ~Superseded(p, v) => outdated[p][v] = 0

FillsAreBounded ==
    \A r \in Request : request[r].at = "fetched" =>
        outdated[request[r].project][request[r].config.version] <= request[r].lag

EntriesAreBounded ==
    \A p \in Project : items[p] # NoConfig =>
        outdated[p][items[p].config.version] <= items[p].age + MaxLag

AgeInv ==
    /\ TypeOK
    /\ CurrentIsFresh
    /\ FillsAreBounded
    /\ EntriesAreBounded
    /\ BoundedStaleness

EvictionPending(p) == \E a \in Admin : admin[a] = p

FillsStaleOnlyIfRaced ==
    \A r \in Request :
        /\ request[r].at = "fetched"
        /\ Superseded(request[r].project, request[r].config.version)
        => request[r].raced \/ EvictionPending(request[r].project)

RaceInv ==
    /\ TypeOK
    /\ FillsStaleOnlyIfRaced
    /\ StaleOnlyIfRaced

(***************************************************************************)
(* The data.                                                               *)
(***************************************************************************)

Fills == [at : {"fetched"}, project : Project, config : Config,
          lag : 0 .. MaxLag, raced : BOOLEAN]

Entries == [config : Config, age : 0 .. TTL + 1, raced : BOOLEAN]

\* What the bounds and the sentinel are to the provers.
LEMMA Facts ==
    /\ TTL \in Nat /\ MaxLag \in Nat /\ MaxVersion \in Nat
    /\ Horizon \in Nat /\ Horizon = TTL + MaxLag
    /\ NoConfig \notin Config /\ NoConfig \notin Project
<1>1. Config \subseteq [version : Nat, mode : {"off", "some", "all"}]
  BY CacheAssumption DEF Config, Version, Mode
<1>. QED  BY <1>1, CacheAssumption DEF Horizon

\* A counter that saturates grows by at most one and never passes its limit.
LEMMA OlderBounds ==
    ASSUME NEW limit \in Nat, NEW n \in 0 .. limit
    PROVE  /\ Older(n, limit) \in 0 .. limit
           /\ Older(n, limit) <= n + 1
           /\ n < limit => Older(n, limit) = n + 1
           /\ n = limit => Older(n, limit) = limit
BY DEF Older

\* A request of TypeOK that has read the table is a fill.
LEMMA FetchedIsFill ==
    ASSUME TypeOK, NEW r \in Request, request[r].at = "fetched"
    PROVE  request[r] \in Fills
BY DEF TypeOK, Fills, Idle

Verdicts == {NoVerdict} \cup
    [stale : 0 .. Horizon + 1, entry : {"none", "whole", "stripped"}]

\* What Decide leaves: one verdict, as stale as the configuration is.
LEMMA DecideLeaves ==
    ASSUME TypeOK, NEW r \in Request, NEW p \in Project, NEW config \in Config,
           Decide(r, p, config)
    PROVE  /\ verdict' \in [Request -> Verdicts]
           /\ verdict'[r].stale = outdated[p][config.version]
           /\ \A q \in Request \ {r} : verdict'[q] = verdict[q]
<1>1. verdict \in [Request -> Verdicts] /\ outdated[p][config.version] \in 0 .. Horizon + 1
  BY DEF TypeOK, Verdicts, Config
<1>2. PICK e \in {"none", "whole", "stripped"} : verdict' = [verdict EXCEPT ![r] =
          [stale |-> outdated[p][config.version], entry |-> e]]
  BY DEF Decide
<1>. QED  BY <1>1, <1>2 DEF Verdicts

(***************************************************************************)
(* Types.                                                                  *)
(***************************************************************************)

\* The types hold initially.
LEMMA TypeInit == Init => TypeOK
<1>1. 0 \in Version /\ 0 \in 0 .. Horizon + 1
  BY Facts DEF Version
<1>. QED  BY <1>1 DEF Init, TypeOK, Config, Idle, NoVerdict

\* A step of a request keeps the types.
LEMMA TypeRequest ==
    ASSUME TypeOK, NEW r \in Request, RequestStep(r)
    PROVE  TypeOK'
<1>1. ASSUME NEW p \in Project, GetHit(r, p)  PROVE TypeOK'
  <2>1. items[p].config \in Config
    BY <1>1 DEF GetHit, Usable, TypeOK
  <2>2. verdict' \in [Request -> Verdicts]
    BY <1>1, <2>1, DecideLeaves DEF GetHit
  <2>. QED  BY <1>1, <2>2 DEF GetHit, TypeOK, Verdicts
<1>2. ASSUME NEW p \in Project, GetMiss(r, p)  PROVE TypeOK'
  BY <1>2 DEF GetMiss, TypeOK
<1>3. CASE Fetch(r)
  <2>. DEFINE p == request[r].project
  <2>1. p \in Project
    BY <1>3 DEF Fetch, TypeOK, Idle
  <2>2. projects[p] \in Config
    BY <1>3, <2>1 DEF Fetch, TypeOK
  <2>3. [at |-> "fetched", project |-> p, config |-> projects[p],
         lag |-> 0, raced |-> FALSE] \in Fills
    BY <2>1, <2>2, Facts DEF Fills
  <2>4. request' \in [Request -> {Idle} \cup [at : {"missed"}, project : Project] \cup Fills]
    BY <1>3, <2>3 DEF Fetch, TypeOK, Fills
  <2>. QED  BY <1>3, <2>4 DEF Fetch, TypeOK, Fills
<1>4. CASE FetchFails(r)
  BY <1>4 DEF FetchFails, TypeOK
<1>5. CASE Fill(r)
  <2>. DEFINE p == request[r].project
  <2>1. request[r] \in Fills
    BY <1>5, FetchedIsFill DEF Fill
  <2>2. verdict' \in [Request -> Verdicts]
    BY <1>5, <2>1, DecideLeaves DEF Fill, Fills
  <2>3. [config |-> request[r].config, age |-> 0, raced |-> request[r].raced] \in Entries
    BY <2>1, Facts DEF Fills, Entries
  <2>4. items' \in [Project -> {NoConfig} \cup Entries]
    BY <1>5, <2>1, <2>3 DEF Fill, TypeOK, Fills, Entries
  <2>5. request' \in [Request -> {Idle} \cup [at : {"missed"}, project : Project] \cup Fills]
    BY <1>5 DEF Fill, TypeOK, Fills
  <2>. QED  BY <1>5, <2>2, <2>4, <2>5 DEF Fill, TypeOK, Entries, Fills, Verdicts
<1>. QED  BY <1>1, <1>2, <1>3, <1>4, <1>5 DEF RequestStep

\* A step of an admin handler keeps the types.
LEMMA TypeAdmin ==
    ASSUME TypeOK, NEW a \in Admin, AdminStep(a)
    PROVE  TypeOK'
<1>1. ASSUME NEW p \in Project, Update(a, p)  PROVE TypeOK'
  <2>1. projects' \in [Project -> Config \cup {NoConfig}]
    <3>1. CASE projects[p] = NoConfig
      BY <1>1, <3>1 DEF Update, TypeOK
    <3>2. CASE projects[p] # NoConfig
      <4>1. projects[p].version + 1 \in Version
        BY <1>1, <3>2, Facts DEF Update, TypeOK, Config, Version
      <4>. QED  BY <1>1, <3>2, <4>1 DEF Update, TypeOK, Config
    <3>. QED  BY <3>1, <3>2
  <2>. QED  BY <1>1, <2>1 DEF Update, TypeOK
<1>2. ASSUME NEW p \in Project, Delete(a, p)  PROVE TypeOK'
  BY <1>2 DEF Delete, TypeOK
<1>3. CASE Invalidate(a)
  <2>1. \A r \in Request : request[r] \in Fills => [request[r] EXCEPT !.raced = TRUE] \in Fills
    BY DEF Fills
  <2>2. request' \in [Request -> {Idle} \cup [at : {"missed"}, project : Project] \cup Fills]
    BY <1>3, <2>1, FetchedIsFill DEF Invalidate, TypeOK, Fills
  <2>3. admin[a] \in Project /\ items' \in [Project -> {NoConfig} \cup Entries]
    BY <1>3 DEF Invalidate, TypeOK, Entries
  <2>. QED  BY <1>3, <2>2, <2>3 DEF Invalidate, TypeOK, Entries, Fills
<1>. QED  BY <1>1, <1>2, <1>3 DEF AdminStep

\* A tick keeps the types: ages saturate and a fill waits for no more than MaxLag.
LEMMA TypeTick ==
    ASSUME TypeOK, Tick
    PROVE  TypeOK'
<1>1. outdated' \in [Project -> [Version -> 0 .. Horizon + 1]]
  <2>1. \A p \in Project, v \in Version :
          Older(outdated[p][v], Horizon + 1) \in 0 .. Horizon + 1 /\ 0 \in 0 .. Horizon + 1
    BY OlderBounds, Facts DEF TypeOK
  <2>. QED  BY <2>1 DEF Tick
<1>2. items' \in [Project -> {NoConfig} \cup Entries]
  <2>1. ASSUME NEW p \in Project, items[p] # NoConfig
        PROVE  [items[p] EXCEPT !.age = Older(items[p].age, TTL + 1)] \in Entries
    <3>1. items[p] \in Entries
      BY <2>1 DEF TypeOK, Entries
    <3>2. items[p].age \in 0 .. TTL + 1 /\ TTL + 1 \in Nat
      BY <3>1, Facts DEF Entries
    <3>3. Older(items[p].age, TTL + 1) \in 0 .. TTL + 1
      BY <3>2, OlderBounds
    <3>. QED  BY <3>1, <3>3 DEF Entries
  <2>. QED  BY <2>1 DEF Tick
<1>3. request' \in [Request -> {Idle} \cup [at : {"missed"}, project : Project] \cup Fills]
  <2>1. ASSUME NEW r \in Request, request[r].at = "fetched"
        PROVE  [request[r] EXCEPT !.lag = request[r].lag + 1] \in Fills
    <3>1. request[r] \in Fills /\ request[r].lag < MaxLag
      BY <2>1, FetchedIsFill DEF Tick
    <3>2. request[r].lag + 1 \in 0 .. MaxLag
      BY <3>1, Facts DEF Fills
    <3>. QED  BY <3>1, <3>2 DEF Fills
  <2>2. \A r \in Request : request[r] \in {Idle} \cup [at : {"missed"}, project : Project] \cup Fills
    BY DEF TypeOK, Fills
  <2>. QED  BY <2>1, <2>2 DEF Tick
<1>. QED  BY <1>1, <1>2, <1>3 DEF Tick, TypeOK, Entries, Fills

\* Every step keeps the types.
LEMMA TypeNext == TypeOK /\ [Next]_vars => TypeOK'
<1>. SUFFICES ASSUME TypeOK, [Next]_vars  PROVE TypeOK'
  OBVIOUS
<1>1. CASE Restart
  BY <1>1 DEF Restart, TypeOK
<1>2. CASE UNCHANGED vars
  BY <1>2 DEF vars, TypeOK
<1>. QED  BY <1>1, <1>2, TypeRequest, TypeAdmin, TypeTick DEF Next

\* A request a tick leaves fetched was fetched, and has aged by one.
LEMMA TickFills ==
    ASSUME TypeOK, Tick, NEW r \in Request, request'[r].at = "fetched"
    PROVE  /\ request[r].at = "fetched"
           /\ request'[r] = [request[r] EXCEPT !.lag = request[r].lag + 1]
           /\ request'[r].lag = request[r].lag + 1
           /\ request'[r].project = request[r].project
           /\ request'[r].config = request[r].config
<1>1. request[r].at = "fetched"
  BY DEF Tick
<1>2. request[r] \in Fills
  BY <1>1, FetchedIsFill
<1>3. request'[r] = [request[r] EXCEPT !.lag = request[r].lag + 1]
  BY <1>1 DEF Tick
<1>. QED  BY <1>1, <1>2, <1>3 DEF Fills

(***************************************************************************)
(* Ages.                                                                   *)
(***************************************************************************)

\* Nothing has aged and nothing was read in the initial states.
LEMMA AgeInit == Init => AgeInv
<1>1. Init => CurrentIsFresh
  BY DEF Init, CurrentIsFresh
<1>2. Init => FillsAreBounded /\ EntriesAreBounded /\ BoundedStaleness
  BY DEF Init, FillsAreBounded, EntriesAreBounded, BoundedStaleness, Idle
<1>. QED  BY <1>1, <1>2, TypeInit DEF AgeInv

\* A step of a request keeps the bounds: what is read is current, what is set
\* is as old as its fill, and what decides was in reach of one of the two.
LEMMA AgeRequest ==
    ASSUME AgeInv, NEW r \in Request, RequestStep(r)
    PROVE  CurrentIsFresh' /\ FillsAreBounded' /\ EntriesAreBounded' /\ BoundedStaleness'
<1>. USE DEF AgeInv
<1>1. UNCHANGED <<projects, outdated, admin>>
  BY DEF RequestStep, GetHit, GetMiss, Fetch, FetchFails, Fill
<1>2. CurrentIsFresh'
  BY <1>1 DEF CurrentIsFresh, Superseded
<1>3. ASSUME NEW p \in Project, GetHit(r, p)
      PROVE  FillsAreBounded' /\ EntriesAreBounded' /\ BoundedStaleness'
  <2>1. items[p] \in Entries /\ items[p].age <= TTL
    BY <1>3 DEF GetHit, Usable, TypeOK, Entries
  <2>2. outdated[p][items[p].config.version] \in 0 .. Horizon + 1
    BY <2>1 DEF TypeOK, Entries, Config
  <2>3. outdated[p][items[p].config.version] <= Horizon
    BY <1>3, <2>1, <2>2, Facts DEF GetHit, Usable, EntriesAreBounded, Entries
  <2>4. verdict'[r].stale <= Horizon /\ \A q \in Request \ {r} : verdict'[q] = verdict[q]
    BY <1>3, <2>1, <2>3, DecideLeaves DEF GetHit, Entries
  <2>. QED  BY <1>3, <2>4 DEF GetHit, FillsAreBounded, EntriesAreBounded, BoundedStaleness
<1>4. ASSUME NEW p \in Project, GetMiss(r, p)
      PROVE  FillsAreBounded' /\ EntriesAreBounded' /\ BoundedStaleness'
  <2>1. request' = [request EXCEPT ![r] = [at |-> "missed", project |-> p]]
    BY <1>4 DEF GetMiss
  <2>2. verdict' = [verdict EXCEPT ![r] = NoVerdict] /\ UNCHANGED <<outdated, items>>
    BY <1>4 DEF GetMiss
  <2>. QED  BY <2>1, <2>2 DEF TypeOK, FillsAreBounded, EntriesAreBounded, BoundedStaleness
<1>5. CASE Fetch(r)
  <2>. DEFINE p == request[r].project
              new == [at |-> "fetched", project |-> p, config |-> projects[p],
                      lag |-> 0, raced |-> FALSE]
  <2>1. p \in Project /\ projects[p] # NoConfig
    BY <1>5 DEF Fetch, TypeOK, Idle
  <2>2. projects[p] \in Config
    BY <2>1 DEF TypeOK
  <2>3. projects[p].version \in Version /\ ~Superseded(p, projects[p].version)
    BY <2>1, <2>2, Facts DEF Superseded, Config, Version
  <2>4. outdated[p][projects[p].version] = 0
    BY <2>1, <2>3 DEF CurrentIsFresh
  <2>5. request' = [request EXCEPT ![r] = new] /\ UNCHANGED <<outdated, items, verdict>>
    BY <1>5 DEF Fetch
  <2>6. FillsAreBounded'
    BY <2>4, <2>5 DEF FillsAreBounded, TypeOK
  <2>. QED  BY <1>2, <2>5, <2>6 DEF EntriesAreBounded, BoundedStaleness
<1>6. CASE FetchFails(r)
  BY <1>2, <1>6 DEF FetchFails, TypeOK, Idle, FillsAreBounded, EntriesAreBounded, BoundedStaleness
<1>7. CASE Fill(r)
  <2>. DEFINE p == request[r].project
              new == [config |-> request[r].config, age |-> 0, raced |-> request[r].raced]
  <2>1. request[r] \in Fills
    BY <1>7, FetchedIsFill DEF Fill
  <2>2. outdated[p][request[r].config.version] \in 0 .. Horizon + 1
    BY <2>1 DEF TypeOK, Fills, Config
  <2>3. outdated[p][request[r].config.version] <= MaxLag
    BY <1>7, <2>1, <2>2, Facts DEF Fill, FillsAreBounded, Fills
  <2>4. outdated[p][request[r].config.version] <= Horizon
    BY <2>2, <2>3, Facts
  <2>5. verdict'[r].stale <= Horizon /\ \A q \in Request \ {r} : verdict'[q] = verdict[q]
    BY <1>7, <2>1, <2>4, DecideLeaves DEF Fill, Fills
  <2>6. BoundedStaleness'
    BY <2>5 DEF BoundedStaleness
  <2>7. items' = [items EXCEPT ![p] = new] /\ request' = [request EXCEPT ![r] = Idle]
        /\ UNCHANGED outdated
    BY <1>7 DEF Fill
  <2>8. FillsAreBounded'
    BY <2>7 DEF FillsAreBounded, TypeOK, Idle
  <2>9. EntriesAreBounded'
    <3>1. outdated[p][new.config.version] <= new.age + MaxLag
      BY <2>3, Facts
    <3>. QED  BY <2>7, <3>1 DEF EntriesAreBounded, TypeOK
  <2>. QED  BY <1>2, <2>6, <2>8, <2>9
<1>. QED  BY <1>2, <1>3, <1>4, <1>5, <1>6, <1>7 DEF RequestStep

\* A change makes a version superseded but does not age it; an eviction only
\* takes an entry away.
LEMMA AgeAdmin ==
    ASSUME AgeInv, NEW a \in Admin, AdminStep(a)
    PROVE  CurrentIsFresh' /\ FillsAreBounded' /\ EntriesAreBounded' /\ BoundedStaleness'
<1>. USE DEF AgeInv
<1>1. ASSUME NEW p \in Project, Update(a, p) \/ Delete(a, p)
      PROVE  CurrentIsFresh' /\ FillsAreBounded' /\ EntriesAreBounded' /\ BoundedStaleness'
  <2>1. UNCHANGED <<outdated, items, request, verdict>>
    BY <1>1 DEF Update, Delete
  <2>2. ASSUME NEW q \in Project, NEW v \in Version, ~Superseded(q, v)'
        PROVE  ~Superseded(q, v)
    <3>1. projects[q] = projects'[q] \/ projects'[q] = NoConfig
          \/ (projects[q] # NoConfig /\ projects'[q].version = projects[q].version + 1)
      BY <1>1 DEF Update, Delete, TypeOK
    <3>2. projects[q] # NoConfig => projects[q].version \in Nat
      BY Facts DEF TypeOK, Config, Version
    <3>3. v \in Nat
      BY Facts DEF Version
    <3>. QED  BY <2>2, <3>1, <3>2, <3>3 DEF Superseded
  <2>3. CurrentIsFresh'
    BY <2>1, <2>2 DEF CurrentIsFresh
  <2>. QED  BY <2>1, <2>3 DEF FillsAreBounded, EntriesAreBounded, BoundedStaleness
<1>2. CASE Invalidate(a)
  <2>1. UNCHANGED <<projects, outdated, verdict>>
    BY <1>2 DEF Invalidate
  <2>2. CurrentIsFresh' /\ BoundedStaleness'
    BY <2>1 DEF CurrentIsFresh, BoundedStaleness, Superseded
  <2>3. EntriesAreBounded'
    BY <1>2, <2>1 DEF Invalidate, EntriesAreBounded, TypeOK
  <2>4. ASSUME NEW r \in Request, request'[r].at = "fetched"
        PROVE  /\ request[r].at = "fetched"
               /\ request'[r].project = request[r].project
               /\ request'[r].config = request[r].config
               /\ request'[r].lag = request[r].lag
    BY <1>2, <2>4, FetchedIsFill DEF Invalidate, Fills
  <2>5. FillsAreBounded'
    BY <2>1, <2>4 DEF FillsAreBounded
  <2>. QED  BY <2>2, <2>3, <2>5
<1>. QED  BY <1>1, <1>2 DEF AdminStep

\* A tick ages a version by at most one, and only if it is superseded.
LEMMA TickAges ==
    ASSUME TypeOK, Tick, NEW p \in Project, NEW v \in Version
    PROVE  /\ outdated'[p][v] \in 0 .. Horizon + 1
           /\ outdated'[p][v] <= outdated[p][v] + 1
           /\ ~Superseded(p, v) => outdated'[p][v] = 0
<1>1. outdated[p][v] \in 0 .. Horizon + 1 /\ Horizon + 1 \in Nat
  BY Facts DEF TypeOK
<1>2. outdated'[p][v] = IF Superseded(p, v) THEN Older(outdated[p][v], Horizon + 1) ELSE 0
  BY DEF Tick
<1>3. /\ Older(outdated[p][v], Horizon + 1) \in 0 .. Horizon + 1
      /\ Older(outdated[p][v], Horizon + 1) <= outdated[p][v] + 1
  BY <1>1, OlderBounds
<1>. QED  BY <1>1, <1>2, <1>3

\* A tick ages a superseded version, the fill and the entry that hold it alike.
LEMMA AgeTick ==
    ASSUME AgeInv, Tick
    PROVE  CurrentIsFresh' /\ FillsAreBounded' /\ EntriesAreBounded' /\ BoundedStaleness'
<1>. USE DEF AgeInv
<1>1. CurrentIsFresh'
  BY TickAges DEF CurrentIsFresh, Tick, Superseded
<1>2. FillsAreBounded'
  <2>1. ASSUME NEW r \in Request, request'[r].at = "fetched"
        PROVE  outdated'[request'[r].project][request'[r].config.version] <= request'[r].lag
    <3>. DEFINE p == request[r].project
                v == request[r].config.version
    <3>1. request[r] \in Fills /\ request[r].at = "fetched"
      BY <2>1, TickFills, FetchedIsFill
    <3>2. p \in Project /\ v \in Version /\ request[r].lag \in Nat
      BY <3>1, Facts DEF Fills, Config
    <3>3. outdated[p][v] <= request[r].lag /\ outdated[p][v] \in Nat
      BY <3>1, <3>2, Facts DEF FillsAreBounded, TypeOK
    <3>4. outdated'[p][v] \in Nat /\ outdated'[p][v] <= outdated[p][v] + 1
      BY <3>2, TickAges, Facts
    <3>5. outdated'[p][v] <= request[r].lag + 1
      BY <3>2, <3>3, <3>4
    <3>. QED  BY <2>1, <3>5, TickFills
  <2>. QED  BY <2>1 DEF FillsAreBounded
<1>3. EntriesAreBounded'
  <2>1. ASSUME NEW p \in Project, items'[p] # NoConfig
        PROVE  outdated'[p][items'[p].config.version] <= items'[p].age + MaxLag
    <3>1. items[p] # NoConfig
          /\ items'[p] = [items[p] EXCEPT !.age = Older(items[p].age, TTL + 1)]
      BY <2>1 DEF Tick
    <3>2. items[p] \in Entries
      BY <3>1 DEF TypeOK, Entries
    <3>. DEFINE v == items[p].config.version
    <3>3. v \in Version /\ items'[p].config.version = v
          /\ items'[p].age = Older(items[p].age, TTL + 1)
      BY <3>1, <3>2 DEF Entries, Config
    <3>4. outdated[p][v] <= items[p].age + MaxLag /\ outdated[p][v] \in Nat
      BY <3>1, <3>3, Facts DEF EntriesAreBounded, TypeOK
    <3>5. /\ outdated'[p][v] \in Nat
          /\ outdated'[p][v] <= outdated[p][v] + 1
          /\ outdated'[p][v] <= TTL + MaxLag + 1
      BY <3>3, TickAges, Facts
    <3>6. items[p].age \in 0 .. TTL + 1 /\ TTL + 1 \in Nat
      BY <3>2, Facts DEF Entries
    <3>7. outdated'[p][v] <= Older(items[p].age, TTL + 1) + MaxLag
      <4>1. CASE items[p].age < TTL + 1
        <5>1. Older(items[p].age, TTL + 1) = items[p].age + 1
          BY <4>1 DEF Older
        <5>. QED  BY <5>1, <3>4, <3>5, <3>6, Facts
      <4>2. CASE items[p].age = TTL + 1
        <5>1. Older(items[p].age, TTL + 1) = TTL + 1
          BY <4>2, <3>6 DEF Older
        <5>. QED  BY <5>1, <3>5, Facts
      <4>. QED  BY <4>1, <4>2, <3>6
    <3>. QED  BY <3>3, <3>7
  <2>. QED  BY <2>1 DEF EntriesAreBounded
<1>4. BoundedStaleness'
  BY DEF Tick, BoundedStaleness
<1>. QED  BY <1>1, <1>2, <1>3, <1>4

\* The bounds are inductive.
LEMMA AgeNext == AgeInv /\ [Next]_vars => AgeInv'
<1>. SUFFICES ASSUME AgeInv, [Next]_vars
              PROVE  CurrentIsFresh' /\ FillsAreBounded' /\ EntriesAreBounded' /\ BoundedStaleness'
  BY TypeNext DEF AgeInv
<1>1. CASE Restart
  BY <1>1 DEF Restart, AgeInv, TypeOK, CurrentIsFresh, Superseded, FillsAreBounded,
              EntriesAreBounded, BoundedStaleness, Idle
<1>2. CASE UNCHANGED vars
  BY <1>2 DEF vars, AgeInv, CurrentIsFresh, Superseded, FillsAreBounded,
              EntriesAreBounded, BoundedStaleness
<1>. QED  BY <1>1, <1>2, AgeRequest, AgeAdmin, AgeTick DEF Next

(***************************************************************************)
(* Races.                                                                  *)
(***************************************************************************)

\* A step that changes no project supersedes nothing.
LEMMA SameProjects ==
    ASSUME UNCHANGED projects, NEW p \in Project, NEW v
    PROVE  Superseded(p, v)' <=> Superseded(p, v)
BY DEF Superseded

\* Whatever a request fetches is current, and what it sets it has fetched.
LEMMA RaceRequest ==
    ASSUME RaceInv, NEW r \in Request, RequestStep(r)
    PROVE  FillsStaleOnlyIfRaced' /\ StaleOnlyIfRaced'
<1>. USE DEF RaceInv
<1>1. UNCHANGED <<projects, outdated, admin>>
  BY DEF RequestStep, GetHit, GetMiss, Fetch, FetchFails, Fill
<1>2. ASSUME NEW p \in Project, GetHit(r, p) \/ GetMiss(r, p)
      PROVE  FillsStaleOnlyIfRaced' /\ StaleOnlyIfRaced'
  BY <1>1, <1>2, SameProjects
     DEF GetHit, GetMiss, TypeOK, Idle, FillsStaleOnlyIfRaced, StaleOnlyIfRaced,
         EvictionPending, Superseded
<1>3. CASE Fetch(r)
  <2>. DEFINE p == request[r].project
              new == [at |-> "fetched", project |-> p, config |-> projects[p],
                      lag |-> 0, raced |-> FALSE]
  <2>1. p \in Project /\ projects[p] # NoConfig
    BY <1>3 DEF Fetch, TypeOK, Idle
  <2>2. ~Superseded(p, projects[p].version)
    BY <2>1, Facts DEF Superseded, TypeOK, Config, Version
  <2>3. request' = [request EXCEPT ![r] = new] /\ UNCHANGED items
    BY <1>3 DEF Fetch
  <2>. QED  BY <1>1, <2>2, <2>3
            DEF TypeOK, FillsStaleOnlyIfRaced, StaleOnlyIfRaced, EvictionPending, Superseded
<1>4. CASE FetchFails(r)
  BY <1>1, <1>4 DEF FetchFails, TypeOK, Idle, FillsStaleOnlyIfRaced, StaleOnlyIfRaced,
                    EvictionPending, Superseded
<1>5. CASE Fill(r)
  <2>. DEFINE p == request[r].project
              new == [config |-> request[r].config, age |-> 0, raced |-> request[r].raced]
  <2>1. request[r].at = "fetched" /\ items' = [items EXCEPT ![p] = new]
        /\ request' = [request EXCEPT ![r] = Idle]
    BY <1>5 DEF Fill
  <2>2. Superseded(p, new.config.version) => new.raced \/ EvictionPending(p)
    BY <2>1 DEF FillsStaleOnlyIfRaced
  <2>. QED  BY <1>1, <2>1, <2>2
            DEF TypeOK, Idle, FillsStaleOnlyIfRaced, StaleOnlyIfRaced, EvictionPending, Superseded
<1>. QED  BY <1>2, <1>3, <1>4, <1>5 DEF RequestStep

\* A change leaves its eviction pending; the eviction marks the fills it races.
LEMMA RaceAdmin ==
    ASSUME RaceInv, NEW a \in Admin, AdminStep(a)
    PROVE  FillsStaleOnlyIfRaced' /\ StaleOnlyIfRaced'
<1>. USE DEF RaceInv
<1>1. ASSUME NEW p \in Project, Update(a, p) \/ Delete(a, p)
      PROVE  FillsStaleOnlyIfRaced' /\ StaleOnlyIfRaced'
  <2>1. /\ UNCHANGED <<items, request>>
        /\ admin[a] = NoConfig
        /\ admin' = [admin EXCEPT ![a] = p]
    BY <1>1 DEF Update, Delete
  <2>2. admin \in [Admin -> Project \cup {NoConfig}]
    BY DEF TypeOK
  <2>3. EvictionPending(p)'
    BY <2>1, <2>2 DEF EvictionPending
  <2>4. ASSUME NEW q \in Project, q # p
        PROVE  /\ EvictionPending(q) => EvictionPending(q)'
               /\ projects'[q] = projects[q]
    <3>1. projects'[q] = projects[q]
      BY <1>1, <2>4 DEF Update, Delete, TypeOK
    <3>2. ASSUME NEW b \in Admin, admin[b] = q  PROVE b # a /\ admin'[b] = q
      BY <2>1, <2>2, <3>2, Facts
    <3>. QED  BY <3>1, <3>2 DEF EvictionPending
  <2>5. FillsStaleOnlyIfRaced'
    <3>1. ASSUME NEW r \in Request, request[r].at = "fetched"
          PROVE  request[r].project \in Project
      BY <3>1, FetchedIsFill DEF Fills
    <3>. QED  BY <3>1, <2>1, <2>3, <2>4 DEF FillsStaleOnlyIfRaced, Superseded
  <2>6. StaleOnlyIfRaced'
    BY <2>1, <2>3, <2>4 DEF StaleOnlyIfRaced, Superseded, EvictionPending
  <2>. QED  BY <2>5, <2>6
<1>2. CASE Invalidate(a)
  <2>. DEFINE p == admin[a]
  <2>1. /\ p \in Project
        /\ items' = [items EXCEPT ![p] = NoConfig]
        /\ admin' = [admin EXCEPT ![a] = NoConfig]
        /\ UNCHANGED projects
    BY <1>2 DEF Invalidate, TypeOK
  <2>2. ASSUME NEW q \in Project, q # p, EvictionPending(q)  PROVE EvictionPending(q)'
    BY <2>1, <2>2 DEF EvictionPending, TypeOK
  <2>3. ASSUME NEW r \in Request, request'[r].at = "fetched"
        PROVE  /\ request[r].at = "fetched"
               /\ request'[r].project = request[r].project /\ request[r].project \in Project
               /\ request'[r].config = request[r].config
               /\ request'[r].raced = (request[r].raced \/ request[r].project = p)
    <3>1. request[r] \in Fills /\ request[r].at = "fetched"
      BY <1>2, <2>3, FetchedIsFill DEF Invalidate
    <3>2. request'[r] = IF request[r].project = p
                        THEN [request[r] EXCEPT !.raced = TRUE] ELSE request[r]
      BY <1>2, <3>1 DEF Invalidate
    <3>3. CASE request[r].project = p
      BY <3>1, <3>2, <3>3 DEF Fills
    <3>4. CASE request[r].project # p
      BY <3>1, <3>2, <3>4 DEF Fills
    <3>. QED  BY <3>3, <3>4
  <2>4. FillsStaleOnlyIfRaced'
    BY <2>1, <2>2, <2>3 DEF FillsStaleOnlyIfRaced, Superseded
  <2>5. StaleOnlyIfRaced'
    BY <2>1, <2>2 DEF StaleOnlyIfRaced, Superseded, EvictionPending, TypeOK
  <2>. QED  BY <2>4, <2>5
<1>. QED  BY <1>1, <1>2 DEF AdminStep

\* A tick changes neither what a fill read nor what an entry holds.
LEMMA RaceTick ==
    ASSUME RaceInv, Tick
    PROVE  FillsStaleOnlyIfRaced' /\ StaleOnlyIfRaced'
<1>. USE DEF RaceInv
<1>1. UNCHANGED <<projects, admin>>
  BY DEF Tick
<1>2. ASSUME NEW r \in Request, request'[r].at = "fetched"
      PROVE  request'[r].raced = request[r].raced
  <2>1. request[r] \in Fills
    BY <1>2, TickFills, FetchedIsFill
  <2>. QED  BY <1>2, <2>1, TickFills, ZenonT(40) DEF Fills
<1>3. FillsStaleOnlyIfRaced'
  <2>1. ASSUME NEW r \in Request, request'[r].at = "fetched",
               Superseded(request[r].project, request[r].config.version)
        PROVE  request'[r].raced \/ EvictionPending(request[r].project)
    BY <1>2, <2>1, TickFills DEF FillsStaleOnlyIfRaced
  <2>. QED  BY <1>1, <2>1, TickFills, ZenonT(40) DEF FillsStaleOnlyIfRaced, Superseded, EvictionPending
<1>4. ASSUME NEW p \in Project, items'[p] # NoConfig
      PROVE  /\ items[p] # NoConfig
             /\ items'[p].config = items[p].config
             /\ items'[p].raced = items[p].raced
  <2>1. items[p] # NoConfig
        /\ items'[p] = [items[p] EXCEPT !.age = Older(items[p].age, TTL + 1)]
    BY <1>4 DEF Tick
  <2>2. items[p] \in Entries
    BY <2>1 DEF TypeOK, Entries
  <2>. QED  BY <2>1, <2>2 DEF Entries
<1>5. StaleOnlyIfRaced'
  BY <1>1, <1>4 DEF StaleOnlyIfRaced, Superseded
<1>. QED  BY <1>3, <1>5

\* RaceInv is inductive.
LEMMA RaceNext == RaceInv /\ [Next]_vars => RaceInv'
<1>. SUFFICES ASSUME RaceInv, [Next]_vars
              PROVE  FillsStaleOnlyIfRaced' /\ StaleOnlyIfRaced'
  BY TypeNext DEF RaceInv
<1>1. CASE Restart
  BY <1>1 DEF Restart, Idle, FillsStaleOnlyIfRaced, StaleOnlyIfRaced
<1>2. CASE UNCHANGED vars
  BY <1>2 DEF vars, RaceInv, FillsStaleOnlyIfRaced, StaleOnlyIfRaced, Superseded,
              EvictionPending
<1>. QED  BY <1>1, <1>2, RaceRequest, RaceAdmin, RaceTick DEF Next

(***************************************************************************)
(* Theorems.                                                               *)
(***************************************************************************)

\* No configuration decides more than a TTL and the lag of one fill after it
\* was replaced or its project deleted (getProjectCached, whatever interleaves).
THEOREM StalenessIsBounded == Spec => []BoundedStaleness
<1>1. AgeInv => BoundedStaleness
  BY DEF AgeInv
<1>. QED  BY <1>1, AgeInit, AgeNext, PTL DEF Spec

\* An entry that disagrees with the table awaits its eviction or was set by a
\* fill that an eviction overtook: nothing else keeps invalidate from working.
THEOREM EvictionWorks == Spec => []StaleOnlyIfRaced
<1>1. Init => RaceInv
  BY TypeInit DEF Init, Idle, RaceInv, FillsStaleOnlyIfRaced, StaleOnlyIfRaced
<1>2. RaceInv => StaleOnlyIfRaced
  BY DEF RaceInv
<1>. QED  BY <1>1, <1>2, RaceNext, PTL DEF Spec

\* Every state of the cache is well formed.
THEOREM CacheTypeCorrect == Spec => []TypeOK
BY TypeInit, TypeNext, PTL DEF Spec

=============================================================================
