----------------------------- MODULE Diagnostics -----------------------------
(***************************************************************************)
(* The readers of request_logs: the overview of all models and the         *)
(* diagnosis of one target (internal/diagnostics), the list of requests    *)
(* and a single request (internal/logs, internal/api/handlers.go).         *)
(*                                                                         *)
(* An overview and a diagnosis are made of several statements without a    *)
(* transaction, while requests are logged and old rows deleted; the error  *)
(* of any but the first is dropped, and its figure is then zero or empty.  *)
(*                                                                         *)
(* Averages, sums of tokens and the rates of completed streams are left    *)
(* out: they come from the same statement as the counts.  So are the facts *)
(* of a diagnosis about route, target and provider, which are not related  *)
(* to its figures, and the refusals of a target that is not there or a     *)
(* window that is none, before anything is read.                           *)
(***************************************************************************)
EXTENDS RequestLogs

CONSTANTS
    Windows,     \* the windows that may be asked for, in ticks
    Low, High,   \* the percentiles: 95 and 99
    Cap,         \* LIMIT of the latencies that are sorted: 10000
    BriefLimit,  \* limit of failures and slow requests: 20
    ListLimit    \* limit of the list of requests: 100

ASSUME DiagnosticsAssumption ==
    /\ Windows \subseteq Nat
    /\ {Low, High} \subseteq 0 .. 100 /\ Low <= High
    /\ {Cap, BriefLimit, ListLimit} \subseteq Nat \ {0}

VARIABLE reader  \* the admin: what was asked, and how far the answer is

vars == <<logVars, reader>>

Sets == INSTANCE FiniteSetsExt

(***************************************************************************)
(* The statements.                                                         *)
(***************************************************************************)

RowId == 1 .. MaxRows
NoRow == 0

\* WHERE target_id = ? AND created_at >= ?
Scope(t, since) == {i \in table : log[i].target = t /\ log[i].created >= since}

\* GROUP BY target_id, public_model_name, upstream_model_name, provider_name
Group(t, names, since) == {i \in Scope(t, since) : log[i].names = names}

Failed(S) == {i \in S : log[i].failed}

Smaller(m, n) == IF m <= n THEN m ELSE n

\* ORDER BY key DESC LIMIT limit, in every order of rows with equal keys.
Top(S, key, limit) ==
    {T \in SUBSET S :
        /\ Cardinality(T) = Smaller(Cardinality(S), limit)
        /\ \A i \in T, j \in S \ T : key[i] >= key[j]}

Created == [i \in DOMAIN log |-> log[i].created]
Latency == [i \in DOMAIN log |-> log[i].latency]

\* Rows with a latency, and those of them with at most v ms.
Timed(S) == {i \in S : log[i].latency > 0}
AtMost(S, v) == {i \in Timed(S) : log[i].latency <= v}

\* computePercentile: of the Cap lowest latencies, sorted, the one at the index
\* n * pct / 100, but not past the end; 0 if there are none.  The latency at an
\* index is the least that more rows than the index are at most.  Rows without
\* a target, which it would look up by their model, are written by nobody.
Index(n, pct) == Smaller((n * pct) \div 100, n - 1)

Percentile(S, pct) ==
    LET n == Smaller(Cardinality(Timed(S)), Cap)
        reached == {v \in 1 .. MaxLatency : Cardinality(AtMost(S, v)) > Index(n, pct)}
    IN  IF n = 0 THEN 0 ELSE Sets!Min(reached)

\* FAULT: the last error of all times.
LastErrorsEver(t, since) == Top(Failed(Scope(t, 0)), Created, 1)

\* queryLastErrorCode: one of the newest rows with an error, or none.
LastErrors(t, since) == Top(Failed(Scope(t, since)), Created, 1)

\* List, with a filter on names and on errors: the newest rows that match.
List(names, errorsOnly) ==
    LET matching == {i \in table : /\ log[i].names \in names
                                   /\ errorsOnly => log[i].failed}
    IN  Top(matching, Created, ListLimit)

(***************************************************************************)
(* What a reader keeps.  History: seen, the rows of the target when they   *)
(* were counted, and lost, a statement for this row failed.                *)
(***************************************************************************)
Idle == [at |-> "idle"]

Figures ==
    [target : Target, count : 0 .. MaxRows, errors : 0 .. MaxRows,
     low : 0 .. MaxLatency, high : 0 .. MaxLatency, last : 0 .. MaxRows,
     failures : SUBSET RowId, slow : SUBSET RowId, seen : SUBSET RowId]

Asked == [at : {"overview"}, since : Int] \cup [at : {"diagnosis"}, since : Int, target : Target]

Place == {"low", "high", "last", "failures", "slow", "complete"}

Answering ==
    [at : Place, kind : {"overview", "diagnosis"}, since : Int, lost : BOOLEAN,
     todo : SUBSET Figures, row : Figures]

Shown == [at : {"shown"}, id : RowId]
Opened == [at : {"opened"}, id : RowId, found : BOOLEAN]

TypeOK ==
    /\ LogsTypeOK
    /\ reader \in {Idle} \cup Asked \cup Answering \cup Shown \cup Opened

Init ==
    /\ LogsInit
    /\ reader = Idle

\* A row of an answer after the statement that counts.
Counted(t, S, seen) ==
    [target |-> t, count |-> Cardinality(S), errors |-> Cardinality(Failed(S)),
     low |-> 0, high |-> 0, last |-> NoRow, failures |-> {}, slow |-> {}, seen |-> seen]

At(place) == reader.at = place

(***************************************************************************)
(* The steps of an answer.                                                 *)
(***************************************************************************)

\* parseWindow: since when, by the clock of the process.
Since(window) == now - window

AskOverview(window) ==
    /\ At("idle")
    /\ reader' = [at |-> "overview", since |-> Since(window)]
    /\ UNCHANGED logVars

AskDiagnosis(t, window) ==
    /\ At("idle")
    /\ reader' = [at |-> "diagnosis", since |-> Since(window), target |-> t]
    /\ UNCHANGED logVars

\* The rows of an overview, one for each group.
Groups(since) ==
    LET there == {g \in Target \X Names : Group(g[1], g[2], since) # {}}
    IN  {Counted(g[1], Group(g[1], g[2], since), Scope(g[1], since)) : g \in there}

\* The loop of GetModelOverview goes on with one of the rows that are left.
GoOn(since, left) ==
    \E row \in left :
        reader' = [at |-> "low", kind |-> "overview", since |-> since, lost |-> FALSE,
                   todo |-> left \ {row}, row |-> row]

\* GetModelOverview: the statement that groups and counts.
CountGroups ==
    /\ At("overview")
    /\ LET groups == Groups(reader.since) IN
         IF groups = {} THEN reader' = Idle ELSE GoOn(reader.since, groups)
    /\ UNCHANGED logVars

\* queryTargetSummary: the statement that counts.  Without rows a sum is NULL, which
\* Scan refuses: the figures stay zero and are not read.
CountTarget ==
    /\ At("diagnosis")
    /\ LET S == Scope(reader.target, reader.since) IN
         reader' = [at |-> IF S = {} THEN "failures" ELSE "low",
                    kind |-> "diagnosis", since |-> reader.since, lost |-> FALSE,
                    todo |-> {}, row |-> Counted(reader.target, S, S)]
    /\ UNCHANGED logVars

InScope == Scope(reader.row.target, reader.since)

\* computeP95 and computeP99.
ReadLow ==
    /\ At("low")
    /\ reader' = [reader EXCEPT !.row.low = Percentile(InScope, Low), !.at = "high"]
    /\ UNCHANGED logVars

ReadHigh ==
    /\ At("high")
    /\ reader' = [reader EXCEPT !.row.high = Percentile(InScope, High), !.at = "last"]
    /\ UNCHANGED logVars

\* A row of an overview is complete after its last error.
AfterLast == IF reader.kind = "overview" THEN "complete" ELSE "failures"

ReadLast ==
    /\ At("last")
    /\ \E newest \in LastErrors(reader.row.target, reader.since) :
         \E id \in (IF newest = {} THEN {NoRow} ELSE newest) :
             reader' = [reader EXCEPT !.row.last = id, !.at = AfterLast]
    /\ UNCHANGED logVars

\* queryRecentFailures.
ReadFailures ==
    /\ At("failures")
    /\ \E newest \in Top(Failed(InScope), Created, BriefLimit) :
         reader' = [reader EXCEPT !.row.failures = newest, !.at = "slow"]
    /\ UNCHANGED logVars

\* FAULT: the newest requests instead of the slowest.
ReadSlowNewest ==
    /\ At("slow")
    /\ \E newest \in Top(InScope, Created, BriefLimit) :
         reader' = [reader EXCEPT !.row.slow = newest, !.at = "complete"]
    /\ UNCHANGED logVars

\* querySlowRequests.
ReadSlow ==
    /\ At("slow")
    /\ \E slowest \in Top(InScope, Latency, BriefLimit) :
         reader' = [reader EXCEPT !.row.slow = slowest, !.at = "complete"]
    /\ UNCHANGED logVars

\* The next row of an overview, or the answer, and the admin picks one of the
\* requests that a diagnosis shows.
NextRow ==
    /\ At("complete")
    /\ \/ reader.todo # {} /\ GoOn(reader.since, reader.todo)
       \/ /\ reader.todo = {}
          /\ \/ reader' = Idle
             \/ \E id \in reader.row.failures \cup reader.row.slow :
                  reader' = [at |-> "shown", id |-> id]
    /\ UNCHANGED logVars

After(place) ==
    CASE place = "low" -> "high"
      [] place = "high" -> "last"
      [] place = "last" -> AfterLast
      [] place = "failures" -> "slow"
      [] place = "slow" -> "complete"

\* A statement after the first fails: the figure stays zero or empty.  Bound: one
\* for each row of an answer.
ReadFails ==
    /\ "statement" \in Faults
    /\ reader.at \in Place \ {"complete"}
    /\ ~reader.lost
    /\ reader' = [reader EXCEPT !.lost = TRUE, !.at = After(reader.at)]
    /\ UNCHANGED logVars

\* The first one fails: an overview is refused, then or when the next of its rows is
\* fetched, a diagnosis goes on with its lists and has no figures.
CountFails ==
    /\ "statement" \in Faults
    /\ \/ /\ At("overview") \/ (At("complete") /\ reader.kind = "overview")
          /\ reader' = Idle
       \/ /\ At("diagnosis")
          /\ reader' = [at |-> "failures", kind |-> "diagnosis", since |-> reader.since,
                        lost |-> TRUE, todo |-> {}, row |-> Counted(reader.target, {}, {})]
    /\ UNCHANGED logVars

\* ListLogs, and the admin picks one of the requests.
ListLogs(names, errorsOnly) ==
    /\ At("idle")
    /\ \E newest \in List(names, errorsOnly) : \E id \in newest :
         reader' = [at |-> "shown", id |-> id]
    /\ UNCHANGED logVars

\* GetLog of the request that was picked: the row, or 404.
GetLog ==
    /\ At("shown")
    /\ reader' = [at |-> "opened", id |-> reader.id, found |-> reader.id \in table]
    /\ UNCHANGED logVars

\* Any error is answered like a row that is not there.
GetLogFails ==
    /\ "statement" \in Faults
    /\ At("shown")
    /\ reader' = [at |-> "opened", id |-> reader.id, found |-> FALSE]
    /\ UNCHANGED logVars

\* The admin is done with the page.
Leave ==
    /\ reader.at \in {"shown", "opened"}
    /\ reader' = Idle
    /\ UNCHANGED logVars

Read ==
    \/ \E window \in Windows : AskOverview(window)
    \/ \E window \in Windows, t \in Target : AskDiagnosis(t, window)
    \/ CountGroups
    \/ CountTarget
    \/ CountFails
    \/ ReadLow
    \/ ReadHigh
    \/ ReadLast
    \/ ReadFailures
    \/ ReadSlow
    \/ ReadFails
    \/ NextRow
    \/ \E names \in SUBSET Names, errorsOnly \in BOOLEAN : ListLogs(names, errorsOnly)
    \/ GetLog
    \/ GetLogFails
    \/ Leave

Restart == RestartLogs /\ reader' = Idle

Next ==
    \/ LogsNext /\ UNCHANGED reader
    \/ Read
    \/ Restart

Spec == Init /\ [][Next]_vars

\* The ticker fires in a process that lives for an hour, and now and then one
\* does; a DELETE that is tried for ever does not fail for ever.
FairSpec ==
    /\ Spec
    /\ WF_vars(Hour /\ UNCHANGED reader)
    /\ SF_vars(Cleanup /\ UNCHANGED reader)

(***************************************************************************)
(* Properties.                                                             *)
(***************************************************************************)

Logged(t, since) == {i \in DOMAIN log : log[i].target = t /\ log[i].created >= since}

\* No statement failed, and no row of the target came or went since its rows were
\* counted: one that came and went again since then was logged, though not seen.
Undisturbed ==
    /\ ~reader.lost
    /\ InScope = reader.row.seen
    /\ Logged(reader.row.target, reader.since) = reader.row.seen

\* The share of rows that a percentile stands for: of a hundred parts at least
\* pct are at or below it, and at most pct are below it.
StandsFor(S, pct, v) ==
    /\ 100 * Cardinality(AtMost(S, v)) >= pct * Cardinality(Timed(S))
    /\ 100 * Cardinality(AtMost(S, v - 1)) <= pct * Cardinality(Timed(S))

\* The figures of one row tell one story although each is read by a statement of
\* its own, unless rows came or went in between: a last error is shown if there
\* are errors, and it is one of this window; the percentiles are in order and,
\* if no latency was cut off, stand for their share; with more than Cap latencies
\* they are never too high.
FiguresAgree ==
    (reader.at = "complete" /\ Undisturbed) =>
        LET row == reader.row
            timed == Timed(row.seen)
        IN  /\ row.count > 0 \/ reader.kind = "diagnosis"
            /\ row.errors > 0 => row.last # NoRow
            /\ row.last # NoRow => row.last \in Failed(row.seen)
            /\ row.low <= row.high
            /\ row.low = 0 <=> timed = {}
            /\ timed # {} =>
                 \A p \in {<<Low, row.low>>, <<High, row.high>>} :
                    /\ Cardinality(timed) <= Cap => StandsFor(row.seen, p[1], p[2])
                    /\ 100 * Cardinality(AtMost(row.seen, p[2] - 1)) <= p[1] * Cardinality(timed)

\* The lists of a diagnosis belong to its figures: as many failures as errors and
\* as many slow requests as requests, up to the limit, the last error is not older
\* than any failure that is shown, and no percentile exceeds the slowest request.
ListsAgree ==
    (reader.at = "complete" /\ Undisturbed /\ reader.kind = "diagnosis") =>
        LET row == reader.row IN
        /\ Cardinality(row.failures) = Smaller(row.errors, BriefLimit)
        /\ Cardinality(row.slow) = Smaller(row.count, BriefLimit)
        /\ \A i \in row.failures : log[row.last].created >= log[i].created
        /\ row.high > 0 => \E i \in row.slow : log[i].latency >= row.high

\* How long after it was asked an answer can rely on the rows of its window.
InTime(since) == since > now - Kept

\* What is counted is every request that was logged in the window, and a request
\* that was shown can be opened, until it is older than the retention by the clock
\* of the zone: the cleanup never reaches into an answer.
KeptWhileNeeded ==
    [][/\ (reader.at \in {"overview", "diagnosis"} /\ InTime(reader.since)) =>
            /\ reader'.at = "low" =>
                 reader'.row.seen = Logged(reader'.row.target, reader.since)
            /\ CountTarget /\ Logged(reader.target, reader.since) # {} => reader'.at = "low"
            /\ CountGroups => \A t \in Target :
                 Logged(t, reader.since) # {} => reader'.at = "low"
       /\ (GetLog /\ InTime(log[reader.id].created)) => reader'.found]_vars

\* Again and again there is no row left that is older than the retention, although
\* DELETEs fail and processes end before their ticker fires.
OldLogsGo == []<>(\A id \in table : ~Expired(id))

=============================================================================
