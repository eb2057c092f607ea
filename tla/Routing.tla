------------------------------- MODULE Routing -------------------------------
(***************************************************************************)
(* From a model name to an upstream: the routes and their targets of       *)
(* internal/route/service.go, and the requests of ChatCompletions in       *)
(* internal/proxy/service.go, over providers whose health changes          *)
(* (ProviderHealth).                                                       *)
(*                                                                         *)
(* A request finds its route, selects a target and calls its upstream in   *)
(* three steps with no transaction around them: routes, targets and        *)
(* providers change in between.  It does not try a second target.          *)
(* A list of models is made in as many.  API keys are left out: a request  *)
(* stands for one that is let in; and no statement of a request fails: the *)
(* errors of all of them are taken for rows that are not there.            *)
(***************************************************************************)
EXTENDS ProviderHealth, Integers

CONSTANTS
    Model,      \* public model names
    Request,    \* the requests
    Weights,    \* the weights an admin gives to targets
    MaxRoutes,  \* bound: how many rows routes gets
    MaxTargets  \* bound: how many rows route_targets gets

ASSUME RoutingAssumption ==
    /\ Weights \subseteq Int
    /\ MaxRoutes \in Nat
    /\ MaxTargets \in Nat

VARIABLES
    routes,   \* the table, by id
    targets,  \* the table route_targets, by id
    request   \* what each request is doing

vars == <<healthVars, routes, targets, request>>

Route == [model : Model, enabled : BOOLEAN, deleted : BOOLEAN]

Target == [route : 1 .. MaxRoutes, provider : ProviderId, weight : Weights,
           enabled : BOOLEAN, deleted : BOOLEAN]

\* What a request is answered: what its upstream says, or one of the errors of
\* ChatCompletions, or nothing because its handler panicked.
Outcome == {"ok", "404", "502", "503", "panic"}

Idle == [at |-> "idle"]

Asking ==
    [at : {"finding"}, model : Model]
    \cup [at : {"selecting"}, model : Model, route : 1 .. MaxRoutes]
    \cup [at : {"calling"}, model : Model, url : Url]
    \cup [at : {"done"}, model : Model, outcome : Outcome]
    \cup [at : {"listing"}, left : SUBSET (1 .. MaxRoutes), models : SUBSET Model]
    \cup [at : {"listed"}, models : SUBSET Model]

\* The partial index idx_routes_model_active.
ModelsUnique(table) ==
    \A i, j \in DOMAIN table :
        ~table[i].deleted /\ ~table[j].deleted /\ table[i].model = table[j].model => i = j

TypeOK ==
    /\ HealthTypeOK
    /\ routes \in Seq(Route) /\ Len(routes) <= MaxRoutes /\ ModelsUnique(routes)
    /\ targets \in Seq(Target) /\ Len(targets) <= MaxTargets
    /\ request \in [Request -> {Idle} \cup Asking]

\* The tables are what earlier processes left.
Init ==
    /\ HealthInit
    /\ routes \in {t \in UNION {[1 .. n -> Route] : n \in 0 .. MaxRoutes} : ModelsUnique(t)}
    /\ targets \in UNION {[1 .. n -> Target] : n \in 0 .. MaxTargets}
    /\ request = [r \in Request |-> Idle]

(***************************************************************************)
(* The admins.                                                             *)
(***************************************************************************)

\* The statements of route.Service.  An UPDATE of a route leaves its
\* public_model_name alone, that of a target its route.
RouteInserted(m, enabled) ==
    Append(routes, [model |-> m, enabled |-> enabled, deleted |-> FALSE])
RouteUpdated(id, enabled) == [routes EXCEPT ![id].enabled = enabled]
RouteDeleted(id) == [routes EXCEPT ![id].deleted = TRUE]
TargetInserted(t) == Append(targets, t)
TargetUpdated(id, t) == [targets EXCEPT ![id] = [t EXCEPT !.route = targets[id].route]]
TargetDeleted(id) == [targets EXCEPT ![id].deleted = TRUE]

\* Fails on the index if the model has a route.
CreateRoute(m, enabled) ==
    /\ Change
    /\ Len(routes) < MaxRoutes
    /\ ModelsUnique(RouteInserted(m, enabled))
    /\ routes' = RouteInserted(m, enabled)
    /\ UNCHANGED <<providers, up, sweepVars, gauges, checks, targets, request>>

UpdateRoute(id, enabled) ==
    /\ Change
    /\ ~routes[id].deleted
    /\ routes' = RouteUpdated(id, enabled)
    /\ UNCHANGED <<providers, up, sweepVars, gauges, checks, targets, request>>

\* The targets of the route stay as they are.
DeleteRoute(id) ==
    /\ Change
    /\ ~routes[id].deleted
    /\ routes' = RouteDeleted(id)
    /\ UNCHANGED <<providers, up, sweepVars, gauges, checks, targets, request>>

\* The rows of the route and the provider may be deleted, and may not exist:
\* foreign_keys is set on one connection, and the statement gets any of the pool.
\* Nothing is asked of the weight.
CreateTarget(t) ==
    /\ Change
    /\ Len(targets) < MaxTargets
    /\ targets' = TargetInserted(t)
    /\ UNCHANGED <<providers, up, sweepVars, gauges, checks, routes, request>>

UpdateTarget(id, t) ==
    /\ Change
    /\ ~targets[id].deleted
    /\ targets' = TargetUpdated(id, t)
    /\ UNCHANGED <<providers, up, sweepVars, gauges, checks, routes, request>>

DeleteTarget(id) ==
    /\ Change
    /\ ~targets[id].deleted
    /\ targets' = TargetDeleted(id)
    /\ UNCHANGED <<providers, up, sweepVars, gauges, checks, routes, request>>

RouteAdmin ==
    \/ \E m \in Model, enabled \in BOOLEAN : CreateRoute(m, enabled)
    \/ \E id \in DOMAIN routes :
         DeleteRoute(id) \/ \E enabled \in BOOLEAN : UpdateRoute(id, enabled)
    \/ \E t \in {t \in Target : ~t.deleted} :
         CreateTarget(t) \/ \E id \in DOMAIN targets : UpdateTarget(id, t)
    \/ \E id \in DOMAIN targets : DeleteTarget(id)

(***************************************************************************)
(* Selection.                                                              *)
(***************************************************************************)

\* FAULT: the health of the provider is not asked for.
ReadyTargetsAnyHealth(route) ==
    {id \in DOMAIN targets :
        /\ targets[id].route = route /\ targets[id].enabled /\ ~targets[id].deleted
        /\ Live(targets[id].provider)
        /\ providers[targets[id].provider].enabled}

\* GetReadyTargets: the join of the targets of a route with their providers.
ReadyTargets(route) ==
    {id \in DOMAIN targets :
        /\ targets[id].route = route /\ targets[id].enabled /\ ~targets[id].deleted
        /\ Live(targets[id].provider)
        /\ providers[targets[id].provider].enabled
        /\ providers[targets[id].provider].status = "healthy"}

\* The sums of the weights of some targets, from the first one on.
Sums(ids) ==
    LET sum[id \in 0 .. Len(targets)] ==
          IF id = 0 THEN 0 ELSE sum[id - 1] + (IF id \in ids THEN targets[id].weight ELSE 0)
    IN  sum

\* totalWeight, of all of them or of those up to one.
Weight(ids) == Sums(ids)[Len(targets)]
Running(ids, id) == Sums(ids)[id]

First(ids) == CHOOSE id \in ids : \A other \in ids : id <= other

\* FAULT: <= instead of <.
PickedInclusive(ids, pick) ==
    LET beyond == {id \in ids : pick <= Running(ids, id)} IN
    IF beyond = {} THEN First(ids) ELSE First(beyond)

\* The target of a pick: the first whose running weight exceeds it.
Picked(ids, pick) ==
    LET beyond == {id \in ids : pick < Running(ids, id)} IN
    IF beyond = {} THEN First(ids) ELSE First(beyond)

(***************************************************************************)
(* Requests.                                                               *)
(***************************************************************************)

requestOnly == <<healthVars, routes, targets>>

Free(r) == request[r].at \in {"idle", "done", "listed"}

Ask(r, m) ==
    /\ Free(r)
    /\ request' = [request EXCEPT ![r] = [at |-> "finding", model |-> m]]
    /\ UNCHANGED requestOnly

Answered(r, outcome) ==
    [at |-> "done", model |-> request[r].model, outcome |-> outcome]

\* FindByModelName: enabled is read and not looked at.
Find(r) ==
    /\ request[r].at = "finding"
    /\ LET m == request[r].model
           found == {id \in DOMAIN routes : ~routes[id].deleted /\ routes[id].model = m}
       IN  request' = [request EXCEPT ![r] =
             IF found = {} THEN Answered(r, "404")
             ELSE [at |-> "selecting", model |-> m, route |-> First(found)]]
    /\ UNCHANGED requestOnly

\* SelectTarget: no target, the only one, or one drawn by weight; rand.Intn
\* panics unless its argument is positive.
Select(r) ==
    /\ request[r].at = "selecting"
    /\ LET ready == ReadyTargets(request[r].route)
           Calls(id) == [at |-> "calling", model |-> request[r].model,
                         url |-> providers[targets[id].provider].url]
       IN  \/ /\ ready = {}
              /\ request' = [request EXCEPT ![r] = Answered(r, "503")]
           \/ /\ Cardinality(ready) = 1
              /\ request' = [request EXCEPT ![r] = Calls(First(ready))]
           \/ /\ Cardinality(ready) > 1
              /\ Weight(ready) <= 0
              /\ request' = [request EXCEPT ![r] = Answered(r, "panic")]
           \/ /\ Cardinality(ready) > 1
              /\ \E pick \in 0 .. Weight(ready) - 1 :
                   request' = [request EXCEPT ![r] = Calls(Picked(ready, pick))]
    /\ UNCHANGED requestOnly

\* The call of the upstream: no second one if it fails.
Call(r) ==
    /\ request[r].at = "calling"
    /\ request' = [request EXCEPT ![r] =
         Answered(r, IF request[r].url \in up THEN "ok" ELSE "502")]
    /\ UNCHANGED requestOnly

\* Where a list of models is with some routes left to look at.
Listing(left, models) ==
    IF left = {} THEN [at |-> "listed", models |-> models]
    ELSE [at |-> "listing", left |-> left, models |-> models]

\* ListModels: ListRoutes, of which those that are not enabled are passed over,
ListModels(r) ==
    /\ Free(r)
    /\ LET enabled == {id \in DOMAIN routes : ~routes[id].deleted /\ routes[id].enabled} IN
         request' = [request EXCEPT ![r] = Listing(enabled, {})]
    /\ UNCHANGED requestOnly

\* FAULT: every model of an enabled route is listed.
ListReadyAny(r) ==
    /\ request[r].at = "listing"
    /\ LET id == First(request[r].left) IN
         request' = [request EXCEPT ![r] =
           Listing(@.left \ {id}, @.models \cup {routes[id].model})]
    /\ UNCHANGED requestOnly

\* ... and for each of them GetReadyTargets: it is listed if there are some.
ListReady(r) ==
    /\ request[r].at = "listing"
    /\ LET id == First(request[r].left)
           ready == IF ReadyTargets(id) = {} THEN {} ELSE {routes[id].model}
       IN  request' = [request EXCEPT ![r] =
             Listing(@.left \ {id}, @.models \cup ready)]
    /\ UNCHANGED requestOnly

Handle(r) == Find(r) \/ Select(r) \/ Call(r) \/ ListReady(r)

(***************************************************************************)
(* The specification.                                                      *)
(***************************************************************************)

routing == <<routes, targets, request>>

Next ==
    \/ Sweep /\ UNCHANGED routing
    \/ (\E c \in Checks : Check(c)) /\ UNCHANGED routing
    \/ Admin /\ UNCHANGED routing
    \/ (\E url \in Url : Flip(url)) /\ UNCHANGED routing
    \/ Restart /\ request' = [r \in Request |-> Idle] /\ UNCHANGED <<routes, targets>>
    \/ RouteAdmin
    \/ \E r \in Request :
         \/ Handle(r) \/ ListModels(r)
         \/ \E m \in Model : Ask(r, m)

Spec == Init /\ [][Next]_vars

\* SweepWrite with an UpdateHealth of provider id that succeeds.
WriteSucceeds(id) ==
    /\ SweepWrite /\ UNCHANGED routing
    /\ current.id = id
    /\ providers'[id].status = current.status

\* The ticker fires, a probe is over after five seconds, and UpdateHealth does
\* not fail for ever.  A request that was received is handled.  Nothing is
\* assumed of CheckProvider, whose client has no timeout.
Fairness ==
    /\ WF_vars(Sweep /\ UNCHANGED routing)
    /\ \A id \in ProviderId : SF_vars(WriteSucceeds(id))
    /\ \A r \in Request : WF_vars(Handle(r))

FairSpec == Spec /\ Fairness

(***************************************************************************)
(* Properties.                                                             *)
(***************************************************************************)

\* Targets are drawn in proportion to their weights: of all the numbers
\* rand.Intn may return, as many pick a target as its weight says.
PickedByWeight ==
    \A id \in DOMAIN routes :
        LET ready == ReadyTargets(id) IN
        (\A t \in ready : targets[t].weight >= 0) =>
            \A t \in ready :
                Cardinality({pick \in 0 .. Weight(ready) - 1 : Picked(ready, pick) = t})
                    = targets[t].weight

InUse == {id \in DOMAIN providers : Live(id) /\ providers[id].enabled}
Healthy == {id \in InUse : providers[id].url \in up}

\* Health settles: once nothing changes any more, every provider in use has the
\* status its upstream deserves, whatever late answers of CheckProvider, edits
\* during a probe and failed writes came before, and the gauges count them.
HealthSettles ==
    <>[](/\ \A id \in InUse : providers[id].status = Finds(SnapshotOf(id)).status
         /\ gauges = [healthy |-> Cardinality(Healthy),
                      unhealthy |-> Cardinality(InUse \ Healthy)])

\* The enabled targets of the model at providers in use that are up.
Working(m) ==
    {id \in DOMAIN targets :
        /\ targets[id].enabled /\ ~targets[id].deleted
        /\ targets[id].provider \in Healthy
        /\ targets[id].route \in DOMAIN routes
        /\ ~routes[targets[id].route].deleted /\ routes[targets[id].route].model = m}

\* The model has one of them, or several whose weights leave something to draw.
Servable(m) == Cardinality(Working(m)) = 1 \/ Weight(Working(m)) > 0

Refused(r) ==
    /\ request'[r] # request[r]
    /\ request'[r].at = "done" /\ request'[r].outcome \in {"404", "502", "503", "panic"}

\* A list is complete.
Listed(r) == request'[r] # request[r] /\ request'[r].at = "listed"

Offered(m) == \E id \in DOMAIN routes :
    ~routes[id].deleted /\ routes[id].model = m /\ routes[id].enabled

\* Traffic settles: once nothing changes any more, a model with a target that
\* works is served by targets that work: no request fails because it was sent to
\* one that is down, or because the one that is up is not known to be, and no
\* handler panics unless there are several targets and no weight is left.  Every
\* list has this model, if its route is enabled, and a model of which no target
\* works is in no list.
TrafficSettles ==
    \A m \in Model :
        /\ <>[]Servable(m) =>
             <>[][\A r \in Request :
                    /\ Refused(r) => request[r].model # m
                    /\ Listed(r) /\ Offered(m) => m \in request'[r].models]_vars
        /\ <>[](Working(m) = {}) =>
             <>[][\A r \in Request : Listed(r) => m \notin request'[r].models]_vars

=============================================================================
