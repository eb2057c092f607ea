--------------------------- MODULE ProviderHealth ---------------------------
(***************************************************************************)
(* The table of providers and the two that probe them: the health checker  *)
(* of internal/scheduler/health.go, one goroutine that sweeps over the     *)
(* providers it listed, and CheckProvider of internal/api/handlers.go, one *)
(* request of an admin for one provider.                                   *)
(*                                                                         *)
(* Both read the provider, ask its upstream and then write what it said;   *)
(* the provider may be edited, disabled or deleted and its upstream may go *)
(* down in between, and the write matches nothing but the id.              *)
(*                                                                         *)
(* A URL stands for base_url and health_check_path together, and is in     *)
(* up when it answers with 2xx in time.                                    *)
(***************************************************************************)
EXTENDS Naturals, Sequences, FiniteSets

CONSTANTS
    Url,          \* where a provider may be
    Checks,       \* the CheckProvider requests under way
    MaxProviders, \* bound: how many rows the table gets
    MaxChanges,   \* bound: edits, upstreams going up or down, restarts
    Faults        \* what may go wrong: "statement", a failing List or UpdateHealth

ASSUME HealthAssumption ==
    /\ MaxProviders \in Nat
    /\ MaxChanges \in Nat
    /\ Faults \subseteq {"statement"}

VARIABLES
    providers, \* the table, by id
    up,        \* the upstreams that answer with 2xx
    changes,   \* how many changes there were
    pc,        \* where the health checker is
    todo,      \* the providers of this sweep it has not come to
    current,   \* the one it is at, with the answer of its upstream
    tally,     \* healthy and unhealthy, so far in this sweep
    gauges,    \* the gauges of metrics.Registry
    checks     \* what each CheckProvider is doing

sweepVars == <<pc, todo, current, tally>>
healthVars == <<providers, up, changes, sweepVars, gauges, checks>>

Status == {"unknown", "healthy", "unhealthy"}

Provider == [url : Url, enabled : BOOLEAN, deleted : BOOLEAN, status : Status]

ProviderId == 1 .. MaxProviders
Live(id) == id \in DOMAIN providers /\ ~providers[id].deleted

\* What List and Get return of a provider, as far as a probe needs it.
Snapshot == [id : ProviderId, url : Url]
SnapshotOf(id) == [id |-> id, url |-> providers[id].url]

\* What a probe found out.
Finding == [id : ProviderId, status : Status \ {"unknown"}]
Finds(s) == [id |-> s.id, status |-> IF s.url \in up THEN "healthy" ELSE "unhealthy"]

Tally == [healthy : 0 .. MaxProviders, unhealthy : 0 .. MaxProviders]
NoTally == [healthy |-> 0, unhealthy |-> 0]

NoCheck == [at |-> "none"]

\* The providers a sweep has listed and not counted yet.
Uncounted == {s.id : s \in todo} \cup (IF pc = "writing" THEN {current.id} ELSE {})

HealthTypeOK ==
    /\ providers \in Seq(Provider) /\ Len(providers) <= MaxProviders
    /\ up \subseteq Url
    /\ changes \in 0 .. MaxChanges
    /\ pc \in {"waiting", "probing", "writing"}
    /\ pc = "waiting" => todo = {} /\ tally = NoTally
    /\ todo \subseteq Snapshot
    /\ IF pc = "writing" THEN current \in Finding ELSE current = NoCheck
    /\ tally \in Tally
    /\ tally.healthy + tally.unhealthy + Cardinality(Uncounted) <= Len(providers)
    /\ gauges \in Tally
    /\ checks \in [Checks -> {NoCheck}
            \cup [at : {"probing"}, of : Snapshot]
            \cup [at : {"writing"}, found : Finding]]

\* The table is what earlier processes left, the gauges are new.
HealthInit ==
    /\ providers \in UNION {[1 .. n -> Provider] : n \in 0 .. MaxProviders}
    /\ up \in SUBSET Url
    /\ changes = 0
    /\ pc = "waiting"
    /\ todo = {}
    /\ current = NoCheck
    /\ tally = NoTally
    /\ gauges = NoTally
    /\ checks = [c \in Checks |-> NoCheck]

\* A change there is still room for.
Change == changes < MaxChanges /\ changes' = changes + 1

(***************************************************************************)
(* The admins.                                                             *)
(***************************************************************************)

\* The statements of provider.Service: an INSERT, with the default 'unknown' of
\* health_status; an UPDATE, which leaves the status as it is, whatever the new
\* base_url; and the UPDATE that sets deleted_at.
Inserted(url, enabled) ==
    Append(providers,
           [url |-> url, enabled |-> enabled, deleted |-> FALSE, status |-> "unknown"])
Updated(id, url, enabled) == [providers EXCEPT ![id].url = url, ![id].enabled = enabled]
Deleted(id) == [providers EXCEPT ![id].deleted = TRUE]

CreateProvider(url, enabled) ==
    /\ Change
    /\ Len(providers) < MaxProviders
    /\ providers' = Inserted(url, enabled)
    /\ UNCHANGED <<up, sweepVars, gauges, checks>>

UpdateProvider(id, url, enabled) ==
    /\ Change
    /\ Live(id)
    /\ providers' = Updated(id, url, enabled)
    /\ UNCHANGED <<up, sweepVars, gauges, checks>>

DeleteProvider(id) ==
    /\ Change
    /\ Live(id)
    /\ providers' = Deleted(id)
    /\ UNCHANGED <<up, sweepVars, gauges, checks>>

\* UpdateHealth: WHERE id=?, deleted or not; its error is dropped.
UpdateHealth(found) ==
    \/ providers' = [providers EXCEPT ![found.id].status = found.status]
    \/ "statement" \in Faults /\ UNCHANGED providers

\* CheckProvider reads the provider,
CheckGet(c, id) ==
    /\ checks[c] = NoCheck
    /\ Live(id)
    /\ checks' = [checks EXCEPT ![c] = [at |-> "probing", of |-> SnapshotOf(id)]]
    /\ UNCHANGED <<providers, up, changes, sweepVars, gauges>>

\* ... asks its upstream, with a client that has no timeout,
CheckProbe(c) ==
    /\ checks[c].at = "probing"
    /\ checks' = [checks EXCEPT ![c] =
         [at |-> "writing", found |-> Finds(@.of)]]
    /\ UNCHANGED <<providers, up, changes, sweepVars, gauges>>

\* ... and writes the answer.
CheckWrite(c) ==
    /\ checks[c].at = "writing"
    /\ UpdateHealth(checks[c].found)
    /\ checks' = [checks EXCEPT ![c] = NoCheck]
    /\ UNCHANGED <<up, changes, sweepVars, gauges>>

(***************************************************************************)
(* The health checker.  The order of a sweep is that of created_at, whose  *)
(* seconds need not tell providers apart: here it is any order.            *)
(***************************************************************************)

\* FAULT: a sweep passes over the providers that are known to be healthy.
SweepListUnhealthy ==
    /\ pc = "waiting"
    /\ pc' = "probing"
    /\ todo' = {SnapshotOf(id) : id \in {i \in DOMAIN providers :
                    Live(i) /\ providers[i].enabled /\ providers[i].status # "healthy"}}
    /\ UNCHANGED <<providers, up, changes, current, tally, gauges, checks>>

\* A tick: List, and the providers that are not enabled are passed over.  When
\* List fails the checker waits for the next tick.
SweepList ==
    /\ pc = "waiting"
    /\ pc' = "probing"
    /\ todo' = {SnapshotOf(id) : id \in {i \in DOMAIN providers : Live(i) /\ providers[i].enabled}}
    /\ UNCHANGED <<providers, up, changes, current, tally, gauges, checks>>

\* checkProvider: the client gives up after five seconds.
SweepProbe(s) ==
    /\ pc = "probing"
    /\ s \in todo
    /\ pc' = "writing"
    /\ todo' = todo \ {s}
    /\ current' = Finds(s)
    /\ UNCHANGED <<providers, up, changes, tally, gauges, checks>>

\* The finding is written, and counted whether it could be written or not.
SweepWrite ==
    /\ pc = "writing"
    /\ UpdateHealth(current)
    /\ tally' = [tally EXCEPT ![current.status] = @ + 1]
    /\ pc' = "probing"
    /\ current' = NoCheck
    /\ UNCHANGED <<up, changes, todo, gauges, checks>>

\* FAULT: the counts go on from one sweep to the next.
SweepGaugesKeepTally ==
    /\ pc = "probing"
    /\ todo = {}
    /\ gauges' = tally
    /\ pc' = "waiting"
    /\ UNCHANGED <<providers, up, changes, todo, current, tally, checks>>

\* SetProviderHealthCounts, at the end of the sweep, whose counts are its own.
SweepGauges ==
    /\ pc = "probing"
    /\ todo = {}
    /\ gauges' = tally
    /\ tally' = NoTally
    /\ pc' = "waiting"
    /\ UNCHANGED <<providers, up, changes, todo, current, checks>>

Sweep == SweepList \/ (\E s \in todo : SweepProbe(s)) \/ SweepWrite \/ SweepGauges

(***************************************************************************)
(* The surroundings.                                                       *)
(***************************************************************************)

\* An upstream goes up or down.
Flip(url) ==
    /\ Change
    /\ up' = IF url \in up THEN up \ {url} ELSE up \cup {url}
    /\ UNCHANGED <<providers, sweepVars, gauges, checks>>

\* The process ends and is started again: the table stays.
Restart ==
    /\ Change
    /\ pc' = "waiting"
    /\ todo' = {}
    /\ current' = NoCheck
    /\ tally' = NoTally
    /\ gauges' = NoTally
    /\ checks' = [c \in Checks |-> NoCheck]
    /\ UNCHANGED <<providers, up>>

Check(c) == (\E id \in DOMAIN providers : CheckGet(c, id)) \/ CheckProbe(c) \/ CheckWrite(c)

Admin ==
    \/ \E url \in Url, enabled \in BOOLEAN :
         \/ CreateProvider(url, enabled)
         \/ \E id \in DOMAIN providers : UpdateProvider(id, url, enabled)
    \/ \E id \in DOMAIN providers : DeleteProvider(id)

=============================================================================
