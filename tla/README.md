# LumenRoute in TLA+

LumenRoute is a gateway in Go between clients that speak the OpenAI API and the
LLM servers ("providers") behind it.  This directory models what its code does,
checks the models with TLC on small instances, and proves the properties that
matter most for every value of the constants with TLAPS.  Every definition is
translated from the code; `PROJECT.json` maps each of them to the lines it
stands for.

## 1. The system

| part | state | operations | source |
|---|---|---|---|
| capture pipeline | channel of entries, batch, LRU pool of open files, files, rows of `request_captures`, counters | `Submit`, the worker loop, `Close` | `internal/capture/{service,writer,store,metrics}.go` |
| project configuration cache | `projCache.items` | `get`, `set`, `invalidate`; `maybeCapture` | `internal/proxy/capture.go` |
| projects | table `projects` | create, update, delete; the handlers evict after they wrote | `internal/project`, `internal/api/project_handlers.go` |
| retention sweep | rows, files | every hour: list paths, delete rows, remove files | `internal/scheduler/capture_cleanup.go` |
| capture readers | cursors of clients | `ListCaptures`, `ExportCaptures` | `internal/api/capture_handlers.go` |
| providers, health checker | table `providers`, two gauges | CRUD, `CheckProvider`, a sweep every 30 s | `internal/provider`, `internal/scheduler/health.go` |
| routes and targets | tables `routes`, `route_targets` | CRUD, `FindByModelName`, `SelectTarget` | `internal/route` |
| proxied request | a handler's locals | `ChatCompletions`, `proxyNonStream`, `proxyStream`, `writeLog` | `internal/proxy/service.go` |
| stream scanner | `buf`, `carry`, `pending` | `Scan` | `internal/proxy/stream.go` |
| request logs, metrics | table `request_logs`, atomics | `Write`, hourly delete; counters and gauges | `internal/logs`, `internal/metrics` |
| server | signal, listeners, background goroutines | start, `Shutdown` with 10 s, drain | `cmd/server/main.go` |
| migrations, first admin | `schema_migrations`, `users`, a password file | `RunMigrations`, `BootstrapAdmin` | `internal/db`, `internal/auth/admin.go` |
| sessions, API keys | tables | login, logout, validation | `internal/auth/session.go`, `internal/apikey` |
| diagnostics, log readers | none of their own | overview, diagnosis, `ListLogs`, `GetLog` | `internal/diagnostics`, `internal/api` |
| configuration, web UI | none of their own | | `internal/config`, `web` |

How they interact.  A request finds its route, selects a target among the
healthy providers, calls it, writes its log row and counters, answers, and hands
an entry to `maybeCapture`, which asks the configuration cache and submits it
to the pipeline by a send that does not wait.  One worker goroutine appends
lines to hourly JSONL files and inserts their rows in batches.  Three background
goroutines (health checker, log cleanup, capture sweep) and the admins' handlers
change the same SQLite tables and files.  There are no transactions over more
than one statement except in `InsertBatch` and in the deletion of a project, no lock but those of the cache and of
the file pool, and most errors of statements are dropped.

What is hard, therefore: the gaps between two statements of a handler, a sweep or
a probe; the channel at its limit and at its closing; files that are written,
synced, evicted and removed by different actors; failing statements; the end of
the process anywhere; liveness of what is retried, ticked or timed out.
`PROJECT.json` lists the hazards line by line, each with the properties that
would catch it or a note why none does.

## 2. The modules

```
CaptureLedger  <-- refines --  CapturePipeline <-- CapturePipelineProofs
                               ProjectConfigCache <-- ProjectConfigCacheProofs
CaptureCleanup <-- extends --  CaptureExport <-- CaptureExportProofs
ProviderHealth <-- extends --  Routing <-- RoutingProofs
EventStream    <-- refines --  SSEScanner <-- ProxyRequestProofs
                               ProxyRequest <-- ProxyRequestProofs
                               Startup <-- StartupProofs
                               Access <-- AccessProofs
RequestLogs    <-- extends --  Diagnostics <-- DiagnosticsProofs
```

`MC*.tla` instantiate a module for TLC where model values need a definition; the
other modules are checked as they are.  `CaptureExportProofs` proves about the sweep
and about its readers, `ProxyRequestProofs` about a request and about the scanner of
its stream.  Operators marked `FAULT` are the code
with one plausible bug; no specification uses them, they are what shows that a
property would notice (`mutants` in `PROJECT.json`).

### CapturePipeline, CaptureLedger

`handler` is where each request is in `Submit`; `entries` is the channel;
`batch`, `attempt` and `pc` are `processLoop`; `pool` is the LRU list of the
files that are open; `files` has the cells of each file, `synced` how many of them an
fsync covers, and `unsynced` (history) the files of which a `Sync` has failed;
`rows` is the table; `counters` are those of `metrics.go`; `phase` is
`main()`.  One action per step another goroutine can observe: the send and the
increment behind it are two (`SubmitSend`, `SubmitCount`), a receive with its
append is one (`ReceiveWritten`, `ReceiveNotWritten` ...), as are sync, insert
attempt and giving up.  `Crash` loses the memory and any unsynced suffix,
`Restart` begins again.  A file is a sequence of cells rather than bytes: a
cell is what one `Write` leaves (a line, a torn line, an empty line).

`CaptureLedger` says what a capture is promised: entries are accepted into a
queue, from its front they are committed in order or lost for good, and nothing
happens to them afterwards.  `CapturePipeline` implements it, and with the
fairness of the worker its fair version: no accepted entry waits for ever.

### ProjectConfigCache

`get`, `set` and `invalidate` hold the mutex and are a step each; the query
between a missed `get` and its `set` holds none, and an admin's handler commits
before it evicts.  Versions number the states of a project's row, `outdated`
(history) ages the versions that were replaced, and time advances in ticks.

### CaptureCleanup, CaptureExport

The sweep is one step per statement: `ListPaths`, `DeleteRows`, and per path
`StatFile`, `Count`, `Remove`, while lines are appended and rows inserted.
`created_at` and the cutoff are compared as SQLite compares their texts
(`ListPaths`): on the day of the cutoff the blank sorts before the `T`.  Here a
"file" has a modification time and its rows refer to it; how it is written is
CapturePipeline's business.  `miscounted` is history: the files whose rows were there when their count
failed.  `CaptureExport` adds the clients that page through
the rows by id, as `ListCaptures`, as a paged or as a streaming export.

### ProviderHealth, Routing

A probe is three steps, a read, a request to the upstream and a write
(`SweepList`/`SweepProbe`/`SweepWrite`, `CheckGet`/`CheckProbe`/`CheckWrite`),
and `up` may change between any two.  A proxied request is three more, `Find`,
`Select`, `Call`.  `Select` draws as the code does: `pick` is any number below
the sum of the weights and `Picked` walks the targets with a running sum.
`ListModels` and `ListReady` are the list of models: one statement for the routes
and one more for each route.  A
target may refer to a row that does not exist: `foreign_keys` is switched on
by a statement (`db.go:27`) that reaches one connection of the pool.

### EventStream, SSEScanner

A stream is a sequence of letters, one each for a newline, for `data: `, for
`[DONE]` and for other text: the scanner looks for nothing but newlines until it
has a line, so where a read cuts inside of a text makes no difference beyond
that of cutting before or after it.  `Read` takes any number of letters up to the buffer, alone
or together with the end of the stream.  `EventStream` knows no reads: the
events come out in order, once, whole, up to `[DONE]` or the end; it defines them by the
positions where they begin (`Events`), without recursion.

### ProxyRequest

`handler[r].pc` is the next statement of `proxyNonStream` or `proxyStream` that
others can observe: the gauge, an event to the client, the row, the counters,
the answer, the capture, the deferred decrement.  `reply` is what the code
keeps of the response.  `Refuse` stands for every answer of `ChatCompletions`
before it has a target; which requests are refused is the matter of `Routing` and
`Access`.  `Restart` ends the process anywhere; the counters start
at zero and the table stays.

### Startup

`RunMigrations` statement by statement: each of the fifteen files is the sequence of
what its statements make and need, `schema` and `applied` are what SQLite keeps.
`Start` is the start of any version of the program in `Versions`, `Stop` ends it
anywhere, `Fail` is the statement that SQLite refuses and `log.Fatal`.  `filled` says
which tables have rows, as far as the rebuild of migration 9 depends on it.  A table
that is dropped takes its indexes and columns with it (`Parts`): that is why a rebuild
that was cut off may find its second `CREATE UNIQUE INDEX` possible again.  A server on
a table that lost its index, and has not got the new one yet, may insert a name twice
(`FillTwice`, `clashes`), and the index is refused until one of the two is gone
(`Settle`).  `BootstrapAdmin` follows, with the password file truncated and written in two
steps.  One server runs at a time.

### Access

Who is let in: a handler looks up a route, a key, an export token or a session, each
by a statement of its own; what admins change in between are calls that went
through `Middleware` themselves.  A rotation of the export token is three steps
(generate and hash, store, answer).  `entitled` is history: whether the call was
entitled to what it asks for at some moment since it arrived; `Remember` is conjoined
to every step.  A call names a credential somebody has, or none.

### RequestLogs, Diagnostics

`log` (history) has every row of `request_logs` there ever was, `table` the ids of
those still there, `cleaner` is the goroutine of the hourly DELETE.  `zone` is the
offset of the server's zone: `created_at` is text in UTC, the cutoff is text of the
zone, and both are compared as texts.

`reader` is an admin with one page: an overview (`CountGroups`, then for each group
`ReadLow`, `ReadHigh`, `ReadLast`), a diagnosis (`CountTarget`, the same three, and the
two lists), a list of requests, or a single one.  Each statement is a step of its own, as
there is no transaction, and rows are logged and deleted between any two.  The error
of every statement but the first is dropped (`ReadFails`): its figure stays zero or
its list empty, which `lost` remembers.  Without rows a `SUM` is NULL and `Scan`
refuses it, so that `CountTarget` goes on with the lists.  `Percentile` counts rows
instead of sorting them: the latency at an index of the sorted ones is the least that
more rows than the index are at most.

## 3. The runs

| run | what it asks | bounds | result |
|---|---|---|---|
| CapturePipeline | the books balance (`Accounting`); a row's line is on disk and synced, unless a `Sync` of its file failed (`IndexedLinesDurable`); the pool is sound; exact accounts after a drain; refinement of the ledger | 3 requests (one too large, one not JSON), 2 hours, channel 1, batch 2, pool 1, failing fsyncs, 2 boots | holds, 1,350,000 states |
| CapturePipelineLive | every accepted entry is settled, a shutdown ends | the same with 2 requests | holds, 156,000 |
| ProjectConfigCache | staleness is bounded by TTL plus one fill; an entry is stale only if its fill raced an eviction or one is to come; the cache settles on the table | 1 project, 2 requests, 1 admin with 2 changes, TTL 2, lag 1 | holds |
| CaptureCleanup | no pending row loses its file, a live one only to a count that failed; nothing goes more than a day early; expired rows go | 1 project, 2 rows, a day of 4 ticks and an hour of 2, failing statements, counts and removes, restarts | holds, 111,000 |
| CaptureCleanupFiles | files go when they are older than `retention_days` | as above without faults | **violated** |
| CaptureExport | nothing twice; nothing missed before the cursor, and nothing at all by a download that is complete; a download ends or is stuck on an unreadable page | 1 client in any mode, 3 rows, pages of 2, one sweep, failing queries | holds, 855,000 |
| Routing | draws are proportional; health and gauges settle; traffic and the list of models settle | 2 providers at 2 addresses, 1 route, 2 targets of weight 0 or 1, 1 change (edit, outage, restart ...), 1 `CheckProvider`, 1 request or list | holds, 251,000 |
| SSEScanner | refinement of EventStream, and of its fair version | streams of up to 6 letters, reads of up to 3 | holds |
| ProxyRequest | gauge, counters, log, captures and clients agree; a request ends | 2 requests, 2 events, 2 boots, failing inserts | holds, 181,000 |
| Startup | what serves has its whole schema; a start fails only on the rebuild of tables that targets refer to, or after a torn one in one of three ways; rebuilds, repeated ones too, lose no rows; the password file is right | 4 starts of a version with 8 or 15 migrations | holds, 162,000 |
| Access | nobody is let in who was not entitled to it since the call came; what is over does not come back | 2 calls at a time, 1 key, 1 session of a tick, 2 changes, 2 ticks | holds |
| Diagnostics | the figures and the lists of an answer agree; what is read is not cleaned up too early; old rows go | 3 rows of 2 targets, one of them under 2 names, 3 latencies, 2 ticks and a retention of 3 in a zone 1 ahead, a window of 1, LIMIT 2, lists of 1 and 2, failing statements, restarts | holds, 755,000 |

A type invariant that is proved (section 4) is not checked again by a run.

Why these bounds.  A channel, a pool and a page of one or two are full after one
or two steps, so every action at a limit happens; two requests and one actor of
each other kind are enough for each pair of actors to meet in every order, which
is what the hazards are about (each involves two actors, a third only in the
pipeline, where three entries fill a batch and leave one in the channel).  Two
boots are a crash or exit with everything that can follow it.  In `Routing` the
initial table stands for what earlier changes left, so that one more change in the
middle of sweeps and checks is the interesting case.  Six letters hold an event, a
newline and `[DONE]` with its newline and something before or behind.  Three
starts are one that is cut off, one that finds what it left, and one of the other
version.  Two changes are a revocation and what may undo it, or two rotations.  Three
rows are more than the LIMIT of the latencies and leave one that comes or goes between
two statements; a zone that is ahead lets rows expire within the two ticks.  Every
action of every specification is taken in some run.  In the cfgs of the export a
day and an hour are one tick each: what is asked there does not depend on the
retention being longer than an hour.

`CHECK_DEADLOCK FALSE` is said where a run may come to its end: all requests are
handled, time or rows are used up (the bounds in the guards), the process has
exited.  `Routing` can always go on and is checked for deadlock.

### Fairness

Each assumption is weak fairness of something the Go scheduler, a ticker or a
timeout brings about: the worker goroutine (its ticker fires every second and
`InsertBatch` returns); `main()` after the signal (`Shutdown` has a timeout); the
tick of time and a fill under way; the sweeps (tickers); a handler that can go
on, whose wait for the upstream is ended by the 120 s of the proxy's
`http.Client`, which cover the body.  Strong fairness is assumed of statements
that may fail (a statement of the sweep, `UpdateHealth`): SQLite does not fail for
ever.  For the log cleanup this means that now and then a process lives for an hour:
the ticker of `StartLogCleanup` fires after its first hour only, and a server that is
restarted more often never deletes a row.  Nothing is assumed of clients, admins, upstreams, `CheckProvider` (whose
client has no timeout), crashes or failures.

### What the violation shows

* **OldFilesGo** (`capture_cleanup.go:13-14`): a file goes only when the whole *project* has no
  row left, and its path is looked at only in the sweep that deletes its rows; the
  files of a project that goes on capturing stay for ever.

### Other divergences met while modelling

They are in the models where said so, without a run of their own.

* The sweep compares `created_at` ("YYYY-MM-DD HH:MM:SS") with a cutoff in RFC 3339 as
  texts (`store.go:155`): the blank sorts before the `T`, and all rows of the day of the
  cutoff are deleted, up to a day before `retention_days` are over.  `NeverADayEarly`
  says that this is all it costs.  `since` and `until` of an export are compared in the
  same way (`store.go:66`).
* `SyncAll` drops the error of `File.Sync` (`writer.go:164`, against
  `capture-design.md:255`): rows do outrun the lines of a file whose `Sync` failed;
  `IndexedLinesDurable` says that no other file loses a line by it.
* A body that is not JSON leaves an empty line that is indexed (`Blank`, against
  `capture-design.md:41`).
* A fill that races an eviction brings the old configuration back for a TTL
  (`capture-design.md:551`); `StaleOnlyIfRaced` and `BoundedStaleness` say exactly
  how far that goes.
* A failing count in the sweep is taken for zero and files of live rows are
  removed (`Count` with the fault `"count"`; `capture_cleanup.go:57`);
  `LiveRowsHaveTheirFiles` holds for every other file, and for pending rows always.
* The sweep lists only projects that are not deleted: the captures of a deleted one
  never expire (`project/service.go:182`, against `capture-design.md:1036`).
* `has_more` of a paged export is always true (`capture_handlers.go`, against
  `capture-design.md:807`).
* Weights are not validated; two ready targets whose weights add up to zero make
  `rand.Intn` panic (the outcome `"panic"` of `Select`).
* A disabled route is still served: `enabled` is read and not looked at (`Find`);
  `ListModels` does leave it out.
* `timeout_seconds` of a target is stored and never used; the one timeout is 120 s.
* A stream without `[DONE]` has an error in its row but is no error for
  `request_errors_total` (`IsError`), and a response of 400 or more is one for the
  counter but has no `error_code`, by which `ErrorOnly` filters the log.
* When `Shutdown` gives up after ten seconds handlers still run; `Close` closes the
  channel under them and their `Submit` panics on the send (`SubmitPanic`, against
  "Close() drains", `capture-design.md:1315`).
* If no line of a page can be read the cursor does not move and a download queries
  the same page for ever (`Stuck`, against `capture-design.md:1312`);
  `DownloadEndsOrIsStuck` says that nothing else keeps it from ending.
* A migration is neither atomic nor, but for migration 11, written to be repeated: after
  a crash between its statements, or before it is recorded, the next start executes it
  again from its first statement (`db.go:64-75`).  For most that fails at once, and at every
  later start, while an older version does start on what was left.  The rebuild of migration
  9 is the exception.  Cut off behind its statements 1 to 3 it leaves `providers_new`, and
  every later start fails on it; behind 6 to 8 it leaves `routes_new`, on which the next
  one fails after it rebuilt `providers` a second time.  Cut off behind 4, 5, 9, 10 or
  11, or before it is recorded, it is repeated and succeeds, as the tables it drops take their new
  indexes with them, unless an older version has meanwhile inserted two rows of one
  name, or targets.  Migration 9 also drops tables that `route_targets` refers to, with foreign
  keys on: a database with targets cannot be upgraded past version 8.
  `FailsOnlyIfTorn` says that there is no other way to fail.
* `optional` is treated as `required`: a protected route refuses a call without a key
  (`proxy/service.go:129-134`, against `README.md:115`).  `ProxyAuthMiddleware`, which
  would let it pass, and `IsModelAllowed` are called by nothing but tests, and
  `expires_at` of a new key is decoded and dropped (`api/handlers.go:427`).
* An export token for a deleted project is handed out and never works
  (`StoreToken`, `AnswerToken`); the row of an expired session goes only when its
  cookie is shown to `Middleware` again.
* The log cleanup compares the text of a local time with UTC text (`cleanup.go:20`): rows
  go early or late by the offset of the zone.
* The percentiles and the last error of a group of an overview are those of its whole
  target (`diagnostics/service.go:80-82`).  With more than 10000 latencies a percentile
  is that of the 10000 lowest (`helpers.go:19`): `FiguresAgree` says that it is then
  never too high.  A statement that fails, or the figures of a target without rows, look
  like zeros, and any error of `GetLog` like a row that is not there.
* If rows arrive between two statements the 95th percentile of an answer may exceed its
  99th, or there are failures without a last error; `FiguresAgree` and `ListsAgree` are
  about answers between whose statements nothing came or went.

## 4. The proofs

`tlapm` checks every theorem below to the last leaf, from the named assumptions
of the modules only (sizes are positive, sets of requests are finite, the absent
value is none of the present ones).

**CapturePipelineProofs.**  The invariants build on each other, each inductive
relative to those before it:

1. `LoopInv`: the worker returns only after `Close` with nothing in the channel or
   in the batch; a dead process holds nothing.
2. `TypeInv`: `TypeOK` and that a full batch sends the worker to flush, without
   which the bound of the batch is not inductive.  Gives `TypeCorrect`.
3. `PoolSound`, through the shape of a pool after a hit, a miss and an eviction.
   Gives `PoolIsSound`.
4. `AccountInv`: accepted entries, those not yet counted, the batch, the rows and
   the error counters balance.  Gives `BooksBalance` and, with `LoopInv`,
   `ExitIsExact`.
5. `DurableInv`: a record in the batch is written; it is synced or its file is still in
   the pool, so that the sync of a flush covers it; what is synced stays.  Gives
   `IndexedLinesAreDurable`.
6. `LedgerInv`: channel, batch and table hold no entry twice, and only entries whose
   handlers have sent them (`EntriesStayDistinct`).  With it every step of the pipeline
   is one of `CaptureLedger` or a stutter: a send accepts, an insert commits the batch, an
   entry that cannot be written and a batch that is given up are lost, and so is all of
   the queue in a crash (`PipelineImplementsLedger`).

**ProjectConfigCacheProofs.**  `BoundedStaleness` is not inductive: it speaks of the
moment of a decision.  `AgeInv` adds what makes it so, that a version not yet
replaced has not aged, that a fill is at most as stale as its lag, and an entry as
its age plus the longest lag.  `RaceInv` says of fills what `StaleOnlyIfRaced`
says of entries.

**AccessProofs.**  `OnlyEntitledGetIn` is inductive together with `Remembered` (a call
that is entitled now has been, since it came) and `Places` (only chats wait for the
lookup of a key, only exports by POST for that of a cookie).  A handler gets in by a
lookup that accepts its credential (`GetsInByLookup`), what is accepted is usable at
that moment (`AcceptedIsUsable`, for which the types are needed), and so the call
has been entitled, which is remembered until its handler returns.  `WhatIsOverStaysOver`
goes through the changes: each of them makes usable only what was issued by it, or a
key that was disabled and not deleted.

**ProxyRequestProofs.**  `StageInv` says of each place in a handler whether its
stream is open, whether its request is logged, by this process or before it, and that
its reply is known; it is inductive by itself.  Relative to it three properties follow
the handlers: the gauge is the cardinality of a set that only `OpenStream`, `Close`
and `Restart` change (`GaugeIsRight`); what is logged stays so, and was logged before
an answer or a capture (`LogComesFirst`); a request is counted once, after it was logged,
when its reply no longer changes (`CountersMatchLog`).  That there are finitely many
requests is needed for the cardinalities.  `RecordsAreTrue` needs `TruthInv`: each row
and each capture has the reply its handler stands by, and `Told` says what the client
was sent of it.  A handler that has answered does not change its mind, so what was
recorded remains true.

**DiagnosticsProofs.**  A percentile is a least number of which enough rows are at most
(`PercentileIs`), from which its share and the order of two percentiles follow by
counting.  For the answers: every step of the log keeps what is in it
(`Stays`) and what is added is of this moment (`Grows`); a row that was in a window when
it was counted and still is, and no other that was logged, makes the window the same in
every statement between (`UndisturbedBefore`).  `Told` says of each figure that was read,
if the answer is undisturbed so far, that it is the figure of the rows that were counted;
`StillSeen` that these are rows of the log.  `FiguresTellOneStory` and
`ListsBelongToFigures` follow at the end of an answer.  `NothingIsMissed` needs that a
row which is not in the table any more is older than the retention.

**CaptureExportProofs.**  First the sweep.  A file that `os.Stat` finds untouched for an hour is of an hour
that is over, since a file was last appended to in its hour (`AgeInv`); nothing is
appended to it any more, and what was has been inserted or given up, because a batch
does not wait that long (`NothingPending`; this is what `MaxPending < HourTicks` is
assumed for).  So what the count found stays true until the file is removed
(`SweepInv`), which gives `FilesStayWithTheirRows`.  `RowsAreKept` needs that a cutoff is
of the moment its sweep came to the project (`CutoffInv`).

Then the readers.  Ids go up (`IdInv`), so a row that is inserted during a request
is not of those there were before it.  A page is a prefix of what comes after the
cursor, and a short one all of it (`PageIsPrefix`, `ShortPageIsLast`, by counting what
is before a row).  While the lines of a page are read, the rows up to its last one that
were not sent are left in it or cannot be read (`PageInv`), also if the sweep deletes
them meanwhile; and what cannot be read stays so, because the file of an hour that is
over does not come back (`GoneInv`, `NothingComesBack`).  `NothingTwice` and
`NothingMissed` follow.  That the ids of a page can be put in order at all
(`SortedExists`) is shown by counting too, without induction.

**StartupProofs.**  The migrations are fixed data, so what the schema is before each of
their statements is proved of them one by one (`Standing`: what statements before made
and none took away).  `SchemaInv` says that the schema is that (`Clean`), or that a
process was cut off (`Left`).  Then the next start finds in its way the first thing the
migration makes; only the rebuild of migration 9 gets further, and before each of its
statements the schema is what it should be but for what is not settled yet (`Unsettled`):
a `CREATE` that succeeds and a `DROP` settle the table they name and, the latter, all its
indexes, whatever there was (`RebuildSettles`), so that nothing is unsettled when the version
is recorded, and the schema is `Clean` again.  `TablesInv` (of a rebuilt table there is
always itself or its replacement) is needed for that, and `ClashInv` says that rows clash only
after a torn migration, since between migrations a table has an index of its names
(`UniqueStands`).  From these follow `ServedSchemaIsWhole` and `StartFailsOnlyIfTorn`
(`RebuildFails`, statement by statement).  `RebuildInv` says that the rows of a table were copied
before it is dropped (`RowsSurviveMigrations`), `AdminInv` that the password is in the file
before the row is inserted (`AdminCanLogIn`).

**RoutingProofs.**  `PickedByWeight` speaks of sums over the targets of a route, and of a
walk along them.  Both are functions that are recursive in the number of targets, and
instead of an induction, which would take a theorem with an operator as its parameter, the
lemmas take a least counterexample from a well-founded set of numbers: sums do not fall
(`SumsRise`), and a number is drawn for the target at which the sum first exceeds it, so
that as many numbers as its weight are drawn for a target (`TargetsAreDrawnByWeight`).
For the types it is needed that a sweep has no provider twice, whatever happens to the
table meanwhile (`SweepInv`; else its counts could exceed the number of rows), and that a
list of models is made of routes of the table (`ListInv`).

**The scanner, in ProxyRequestProofs.**  `ScannerImplementsEventStream`.  Lines and events
are numbered by counting the positions before them, so that the k-th is the one of rank k
(`NthIs`, `NthOfRank`).  `CarryInv` says that `carry` is the stream from where the last line
begins (`Base`) to the last byte read; a chunk with it in front is therefore a part of the
stream that begins with a line (`ReadChunk`), and its lines are lines of the stream, but for
the last one (`ReadLines`).  `PendingInv` says that the pending lines stand for the parts
of the stream, one after the other, up to `Base`, and that all data lines before them have
come out and none of them was `[DONE]`.  The next event is then the first pending
line that is one (`NextEvent`), and with `[DONE]` or at the end of the stream there is none
left (`LastEvent`).  The invariant holds for every stream and every buffer; that only
streams of `MaxLen` letters begin is not used.

Only model-checked, and why: everything with fairness, because neither liveness nor ENABLED is
within the prover's reach.  These are `ImplementsFairLedger` and `ShutdownCompletes` of the
pipeline, `SettlesOnTheTable` of the cache, `ExpiredRowsGo`, `DownloadEndsOrIsStuck`,
`HealthSettles` and `TrafficSettles`, `ImplementsFairEventStream`, `EveryRequestEnds` and
`OldLogsGo`.  Every invariant and every action property of a run that
passes is proved; `OldFilesGo` is refuted by its run.

## 5. What is not modelled

Configuration (environment variables read once), the web UI, formatting of answers, headers and bodies, token
counts and the reconstruction of a stream's response.  Filters of lists and
exports narrow a query and are left out.  Several servers on one database are not
supported by the code.

Smaller things are taken as one step or left out where no property could tell:

* A captured line is written in the hour its path was made for (`writer.go:71`, then
  `:51`).  One that is written just after the hour goes to the file of the hour before.
  A sweep removes that at the earliest at the next midnight, with a retention of one day:
  only a line of the last hour of a day could come so late that it meets the
  removal, as the lines before it do.  That the row of a line is inserted in a later hour is
  modelled.
* The two adds of a counted request (`registry.go:32-35`) are one step: no step of the
  model reads the counters between them, and a crash loses both.
* `proxyStream` refuses a `ResponseWriter` that cannot flush (`proxy/service.go:306-319`).
  Those of `net/http` can, and no middleware of this server wraps them.
* Percentiles of rows without a target are looked up by their model
  (`diagnostics/helpers.go:21-26`).  No row is written without one.
* The UNIQUE columns of other tables than `providers` and `routes` are left out of
  `Startup`: no migration drops those tables.

## 6. Plan

1. (done) the modules above.
2. (done) the invariants, the action properties and the step simulations of
   `CaptureLedger` by `CapturePipeline` and of `EventStream` by `SSEScanner`.
3. Next: that `Access` lets a request in only with what `ProxyRequest` takes for granted
   in `Refuse`, and the parts of `internal/project` and `internal/apikey` that are left
   out of `Access`.
