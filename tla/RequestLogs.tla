----------------------------- MODULE RequestLogs -----------------------------
(***************************************************************************)
(* The table request_logs: the rows that the proxy writes                  *)
(* (internal/logs/service.go), the hourly DELETE of                        *)
(* internal/scheduler/cleanup.go, and restarts of the process.             *)
(*                                                                         *)
(* Time is counted in ticks of any length.  created_at is text in UTC,     *)
(* datetime('now'); the cutoff is a time.Time of the zone of the server    *)
(* that the driver writes as text of that zone, and the two are compared   *)
(* as texts: the cutoff is off by the offset of the zone, and a row of the *)
(* very second of the cutoff, which has no fraction, is smaller.           *)
(*                                                                         *)
(* Of a row it matters which target it was sent to and under which names   *)
(* of the model and the provider, which are those the target had when it   *)
(* was selected, its latency, and whether it has an error code.            *)
(***************************************************************************)
EXTENDS Integers, Sequences, FiniteSets

CONSTANTS
    Target,        \* the targets of routes
    Names,         \* what public model, upstream model and provider are called
    MaxLatency,    \* the largest latency_ms
    Requests,      \* what becomes of requests, see Request
    Day,           \* how many ticks a day has
    RetentionDays, \* config: RequestLogRetentionDays, 7 if it is not positive
    Zones,         \* the offsets of the zones a server may be in, in ticks
    Faults,        \* what may go wrong: "statement", a failing SQL statement
    MaxRows,       \* bound: how many requests are logged
    MaxTime        \* bound: how many ticks pass

Request == [target : Target, names : Names, latency : 0 .. MaxLatency, failed : BOOLEAN]

ASSUME RequestLogsAssumption ==
    /\ Requests \subseteq Request
    /\ {MaxLatency, MaxRows, MaxTime} \subseteq Nat
    /\ {Day, RetentionDays} \subseteq Nat \ {0}
    /\ Zones \subseteq Int
    /\ Faults \subseteq {"statement"}

VARIABLES
    log,     \* history: every row there ever was, by id
    table,   \* the ids of those that are still there
    now,     \* the time
    zone,    \* the offset of the zone the server is in
    cleaner  \* the goroutine that deletes: waiting for the ticker, or due

logVars == <<log, table, now, zone, cleaner>>

Row ==
    [target : Target, names : Names, latency : 0 .. MaxLatency,
     failed : BOOLEAN, created : 0 .. MaxTime]

LogsTypeOK ==
    /\ log \in Seq(Row) /\ Len(log) <= MaxRows
    /\ table \subseteq DOMAIN log
    /\ now \in 0 .. MaxTime
    /\ zone \in Zones
    /\ cleaner \in {"waiting", "due"}

LogsInit ==
    /\ log = <<>>
    /\ table = {}
    /\ now = 0
    /\ zone \in Zones
    /\ cleaner = "waiting"

\* How long a row is kept, in ticks, as the two texts compare.
Kept == RetentionDays * Day - zone

\* FAULT: the cutoff is written in another format and compares by its day.
ExpiredByDay(i) == log[i].created <= now - Kept + Day

\* created_at < cutoff.
Expired(i) == log[i].created <= now - Kept

\* Service.Write: one INSERT, with the names the target had when it was selected.
Write(r) ==
    /\ Len(log) < MaxRows
    /\ log' = Append(log, [target |-> r.target, names |-> r.names, latency |-> r.latency,
                           failed |-> r.failed, created |-> now])
    /\ table' = table \cup {Len(log) + 1}
    /\ UNCHANGED <<now, zone, cleaner>>

\* The ticker of the cleanup fires.
Hour ==
    /\ cleaner = "waiting"
    /\ cleaner' = "due"
    /\ UNCHANGED <<log, table, now, zone>>

\* DELETE FROM request_logs WHERE created_at < cutoff.
Cleanup ==
    /\ cleaner = "due"
    /\ cleaner' = "waiting"
    /\ table' = {i \in table : ~Expired(i)}
    /\ UNCHANGED <<log, now, zone>>

\* FAULT: the goroutine returns when the DELETE fails.
CleanupFailsForGood ==
    /\ "statement" \in Faults
    /\ cleaner = "due"
    /\ cleaner' = "returned"
    /\ UNCHANGED <<log, table, now, zone>>

\* The DELETE fails: an hour later there is another one.
CleanupFails ==
    /\ "statement" \in Faults
    /\ cleaner = "due"
    /\ cleaner' = "waiting"
    /\ UNCHANGED <<log, table, now, zone>>

\* The process ends and another one starts, with a new ticker.
RestartLogs ==
    /\ cleaner' = "waiting"
    /\ UNCHANGED <<log, table, now, zone>>

Tick ==
    /\ now < MaxTime
    /\ now' = now + 1
    /\ UNCHANGED <<log, table, zone, cleaner>>

LogsNext ==
    \/ \E r \in Requests : Write(r)
    \/ Hour
    \/ Cleanup
    \/ CleanupFails
    \/ Tick

=============================================================================
