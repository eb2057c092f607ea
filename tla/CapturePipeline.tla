--------------------------- MODULE CapturePipeline ---------------------------
(***************************************************************************)
(* The capture pipeline of the gateway: request handlers hand one entry   *)
(* each to a bounded channel, one background worker appends the entry to  *)
(* a JSONL file through a pool of open files, syncs the pool and inserts  *)
(* the index rows in batches, and main() drains the worker on a signal.   *)
(*                                                                         *)
(*   internal/capture/service.go  Submit, Close, processLoop               *)
(*   internal/capture/writer.go   FileWriter and its LRU pool              *)
(*   internal/capture/store.go    InsertBatch                              *)
(*   cmd/server/main.go           the shutdown sequence                    *)
(*                                                                         *)
(* A request carries at most one entry, so a request and its entry are    *)
(* the same value.  Byte offsets are abstracted to the position of a cell *)
(* in its file: a cell is what one Write call leaves behind.              *)
(***************************************************************************)
EXTENDS Naturals, Sequences, FiniteSets

CONSTANTS
    Entry,        \* the requests whose handlers may submit an entry
    Project,      \* the projects they belong to
    ProjectOf,    \* Entry -> Project
    Hour,         \* the hours time.Now() may return, one file per hour
    BodySkipped,  \* the entries whose bodies exceeded the size limit
    NotJson,      \* the entries json.Marshal refuses (a body that is not JSON)
    ChannelSize,  \* Config.ChannelSize, 256 unless configured
    BatchSize,    \* Config.BatchSize, 100 unless configured
    PoolSize,     \* capacity of the LRU pool, 16 in NewService
    FsyncMayFail, \* whether File.Sync may fail; its error is never looked at
    MaxBoots      \* bound of the model: how often the process is started

ASSUME EntryAssumption ==
    /\ IsFiniteSet(Entry)
    /\ ProjectOf \in [Entry -> Project]
    /\ BodySkipped \subseteq Entry
    /\ NotJson \subseteq Entry

ASSUME SizeAssumption ==
    /\ ChannelSize \in Nat \ {0}
    /\ BatchSize \in Nat \ {0}
    /\ PoolSize \in Nat \ {0}
    /\ MaxBoots \in Nat \ {0}
    /\ FsyncMayFail \in BOOLEAN

VARIABLES
    handler,      \* what the handler of each request has done
    phase,        \* where main() is: serving, stopping, draining, exited, ...
    forced,       \* srv.Shutdown gave up on handlers that were still running
    boots,        \* how many times the process was started
    entries,      \* the buffered channel Service.entries
    counters,     \* the four counters of metrics.go
    pc,           \* where processLoop is: select, sync, insert or returned
    returning,    \* the flush in progress is the one of the closed channel
    attempt,      \* failed InsertBatch attempts of the flush in progress
    batch,        \* the records written to a file and not yet inserted
    pool,         \* paths of the open files, most recently used first
    files,        \* path -> the cells appended to it
    synced,       \* path -> how many of them an fsync is known to cover
    unsynced,     \* history: the paths a Sync has failed for
    rows,         \* the table request_captures, in id order
    bootRows      \* how many rows there were when the process started

handlerVars == <<handler, entries>>
mainVars    == <<phase, forced, boots>>
loopVars    == <<pc, returning, attempt, batch>>
diskVars    == <<pool, files, synced, unsynced>>
tableVars   == <<rows, bootRows>>
vars == <<handlerVars, mainVars, counters, loopVars, diskVars, tableVars>>

MaxRetries == 3

Path == Project \X Hour
NoPath == <<>>

Torn  == [kind |-> "torn"]               \* a fragment without its newline
Blank == [kind |-> "blank"]              \* the lone newline of a nil marshal
Line(e) == [kind |-> "line", entry |-> e]
Cell == {Torn, Blank} \cup {Line(e) : e \in Entry}

Record == [entry : Entry, path : Path \cup {NoPath}, offset : Nat]

\* The process runs, from its start to the end of main().
Alive == phase \in {"serving", "stopping", "draining"}

\* Close() has closed the channel.
closed == phase = "draining"

HandlerState ==
    {"idle", "running",   \* before and during the proxied request
     "sent", "accepted",  \* queued, before and after captureTotal.Add
     "dropped",           \* the channel was full
     "panicked",          \* sent on the closed channel
     "notCaptured",       \* maybeCapture did not call Submit
     "aborted"}           \* the process ended first

CounterName == {"captureTotal", "captureDropped", "writeErrors", "storeErrors"}

TypeOK ==
    /\ handler \in [Entry -> HandlerState]
    /\ phase \in {"serving", "stopping", "draining", "exited", "crashed"}
    /\ forced \in BOOLEAN
    /\ boots \in 1..MaxBoots
    /\ entries \in Seq(Entry) /\ Len(entries) <= ChannelSize
    /\ counters \in [CounterName -> Nat]
    /\ pc \in {"select", "sync", "insert", "returned"}
    /\ returning \in BOOLEAN
    /\ attempt \in 0..(MaxRetries - 1)
    /\ batch \in Seq(Record) /\ Len(batch) <= BatchSize
    /\ pool \in Seq(Path)
    /\ files \in [Path -> Seq(Cell)]
    /\ synced \in [Path -> Nat]
    /\ unsynced \subseteq Path
    /\ rows \in Seq(Record)
    /\ bootRows \in Nat

Init ==
    /\ handler = [e \in Entry |-> "idle"]
    /\ phase = "serving" /\ forced = FALSE
    /\ boots = 1
    /\ entries = <<>>
    /\ counters = [c \in CounterName |-> 0]
    /\ pc = "select" /\ returning = FALSE /\ attempt = 0 /\ batch = <<>>
    /\ pool = <<>>
    /\ files = [p \in Path |-> <<>>]
    /\ synced = [p \in Path |-> 0]
    /\ unsynced = {}
    /\ rows = <<>>
    /\ bootRows = 0

Count(c, n) == counters' = [counters EXCEPT ![c] = @ + n]

----------------------------------------------------------------------------
(* Request handlers.                                                       *)

\* A request is accepted and proxied; after Shutdown no new one is.
BeginRequest(e) ==
    /\ phase = "serving"
    /\ handler[e] = "idle"
    /\ handler' = [handler EXCEPT ![e] = "running"]
    /\ UNCHANGED <<mainVars, entries, counters, loopVars, diskVars, tableVars>>

\* maybeCapture returns before Submit: no project, capture off, not sampled.
SkipCapture(e) ==
    /\ Alive
    /\ handler[e] = "running"
    /\ handler' = [handler EXCEPT ![e] = "notCaptured"]
    /\ UNCHANGED <<mainVars, entries, counters, loopVars, diskVars, tableVars>>

\* The send case of Submit's select: there is room in the channel.
SubmitSend(e) ==
    /\ Alive /\ ~closed
    /\ handler[e] = "running"
    /\ Len(entries) < ChannelSize
    /\ entries' = Append(entries, e)
    /\ handler' = [handler EXCEPT ![e] = "sent"]
    /\ UNCHANGED <<mainVars, counters, loopVars, diskVars, tableVars>>

\* captureTotal.Add(1), a statement of its own after the send: the worker
\* may already have taken the entry.
SubmitCount(e) ==
    /\ Alive
    /\ handler[e] = "sent"
    /\ handler' = [handler EXCEPT ![e] = "accepted"]
    /\ Count("captureTotal", 1)
    /\ UNCHANGED <<mainVars, entries, loopVars, diskVars, tableVars>>

\* The default case of Submit's select: the channel is full.
SubmitDrop(e) ==
    /\ Alive /\ ~closed
    /\ handler[e] = "running"
    /\ Len(entries) >= ChannelSize
    /\ handler' = [handler EXCEPT ![e] = "dropped"]
    /\ Count("captureDropped", 1)
    /\ UNCHANGED <<mainVars, entries, loopVars, diskVars, tableVars>>

\* A send on a closed channel panics whatever the buffer holds; net/http
\* recovers the panic of the handler and the process goes on.
SubmitPanic(e) ==
    /\ Alive /\ closed
    /\ handler[e] = "running"
    /\ handler' = [handler EXCEPT ![e] = "panicked"]
    /\ UNCHANGED <<mainVars, entries, counters, loopVars, diskVars, tableVars>>

Handler(e) ==
    \/ BeginRequest(e) \/ SkipCapture(e)
    \/ SubmitSend(e) \/ SubmitCount(e) \/ SubmitDrop(e) \/ SubmitPanic(e)

----------------------------------------------------------------------------
(* The file writer and its pool of open files.                             *)

\* The files of P a Sync of all of P may succeed for.
Fsynced(P) == IF FsyncMayFail THEN SUBSET P ELSE {P}

\* What is known to be on disk once the files of S were synced.
SyncedBy(S) == [p \in Path |-> IF p \in S THEN Len(files[p]) ELSE synced[p]]

\* Sync of the files of P; its error is ignored.  A file one Sync failed for may
\* have lost what it was to write, and a later one does not bring it back.
SyncFiles(P) ==
    \E S \in Fsynced(P) :
        /\ unsynced' = unsynced \cup (P \ S)
        /\ synced' = SyncedBy(S \ unsynced)

InPool == {pool[i] : i \in 1..Len(pool)}

\* Get on a path that is open: the k-th handle moves to the front.
MovedToFront(k) ==
    [i \in 1..Len(pool) |-> IF i = 1 THEN pool[k]
                            ELSE IF i <= k THEN pool[i - 1] ELSE pool[i]]

\* Get of a path that is open.
PoolHit(p) ==
    \E k \in 1..Len(pool) :
        /\ pool[k] = p
        /\ pool' = MovedToFront(k)
        /\ UNCHANGED <<synced, unsynced>>

\* FAULT: the evicted file is closed without being synced.
PoolMissNoSync(p) ==
    /\ p \notin InPool
    /\ pool' = IF Len(pool) >= PoolSize THEN <<p>> \o SubSeq(pool, 1, Len(pool) - 1)
                                        ELSE <<p>> \o pool
    /\ UNCHANGED <<synced, unsynced>>

\* FAULT: the capacity test is off by one.
PoolMissOneMore(p) ==
    /\ p \notin InPool
    /\ IF Len(pool) > PoolSize
       THEN /\ pool' = <<p>> \o SubSeq(pool, 1, Len(pool) - 1)
            /\ SyncFiles({pool[Len(pool)]})
       ELSE /\ pool' = <<p>> \o pool
            /\ UNCHANGED <<synced, unsynced>>

\* Get of a path that is not: it is opened, and in a full pool the least
\* recently used file is synced and closed first.
PoolMiss(p) ==
    /\ p \notin InPool
    /\ IF Len(pool) >= PoolSize
       THEN /\ pool' = <<p>> \o SubSeq(pool, 1, Len(pool) - 1)
            /\ SyncFiles({pool[Len(pool)]})
       ELSE /\ pool' = <<p>> \o pool
            /\ UNCHANGED <<synced, unsynced>>

PoolGet(p) == PoolHit(p) \/ PoolMiss(p)

Appended(p, cell) == files' = [files EXCEPT ![p] = Append(@, cell)]

\* marshalJSONL drops the error of json.Marshal: what is left is an empty line.
MarshalJSONL(e) == IF e \in NotJson THEN Blank ELSE Line(e)

----------------------------------------------------------------------------
(* processLoop.  One pass of its select is atomic: the worker shares the   *)
(* channel and the disk with nobody who reads them in between.  The steps *)
(* of flush are apart, so that the process can crash between them.        *)

Receive(e) ==
    /\ Alive /\ pc = "select"
    /\ entries # <<>> /\ e = Head(entries)
    /\ entries' = Tail(entries)

\* The record joins the batch, and a full batch is flushed.
Collect(rec) ==
    /\ batch' = Append(batch, rec)
    /\ pc' = IF Len(batch) + 1 >= BatchSize THEN "sync" ELSE "select"

ReceiveSkipped(e) ==
    /\ Receive(e)
    /\ e \in BodySkipped
    /\ Collect([entry |-> e, path |-> NoPath, offset |-> 0])
    /\ UNCHANGED <<handler, mainVars, counters, returning, attempt, diskVars, tableVars>>

ReceiveWritten(e, h) ==
    LET p == <<ProjectOf[e], h>> IN
    /\ Receive(e)
    /\ e \notin BodySkipped
    /\ PoolGet(p)
    /\ Appended(p, MarshalJSONL(e))
    /\ Collect([entry |-> e, path |-> p, offset |-> Len(files[p]) + 1])
    /\ UNCHANGED <<handler, mainVars, counters, returning, attempt, tableVars>>

\* mkdir or open fails: the pool is as it was.
ReceiveNotOpened(e) ==
    /\ Receive(e)
    /\ e \notin BodySkipped
    /\ Count("writeErrors", 1)
    /\ UNCHANGED <<handler, mainVars, loopVars, diskVars, tableVars>>

\* Seek or Write fails, and Write may have left a fragment behind.
ReceiveNotWritten(e, h) ==
    LET p == <<ProjectOf[e], h>> IN
    /\ Receive(e)
    /\ e \notin BodySkipped
    /\ PoolGet(p)
    /\ Appended(p, Torn) \/ files' = files
    /\ Count("writeErrors", 1)
    /\ UNCHANGED <<handler, mainVars, loopVars, tableVars>>

\* FAULT: the ticker only flushes batches that are full anyway.
TickWhenFull ==
    /\ Alive /\ pc = "select" /\ Len(batch) >= BatchSize
    /\ pc' = "sync"
    /\ UNCHANGED <<handlerVars, mainVars, counters, returning, attempt, batch, diskVars, tableVars>>

\* The ticker: flush whatever was collected.
Tick ==
    /\ Alive /\ pc = "select" /\ batch # <<>>
    /\ pc' = "sync"
    /\ UNCHANGED <<handlerVars, mainVars, counters, returning, attempt, batch, diskVars, tableVars>>

\* FAULT: the worker returns from a closed channel without the last flush.
ReceiveClosedNoFlush ==
    /\ Alive /\ pc = "select" /\ closed /\ entries = <<>>
    /\ pc' = "returned"
    /\ UNCHANGED <<handlerVars, mainVars, counters, returning, attempt, batch, diskVars, tableVars>>

\* The channel is closed and drained: flush once more and return.
ReceiveClosed ==
    /\ Alive /\ pc = "select" /\ closed /\ entries = <<>>
    /\ IF batch = <<>>
       THEN pc' = "returned" /\ UNCHANGED returning
       ELSE pc' = "sync" /\ returning' = TRUE
    /\ UNCHANGED <<handlerVars, mainVars, counters, attempt, batch, diskVars, tableVars>>

\* flush: the files first ...
FlushSync ==
    /\ Alive /\ pc = "sync"
    /\ SyncFiles(InPool)
    /\ pc' = "insert"
    /\ UNCHANGED <<handlerVars, mainVars, counters, returning, attempt, batch, pool, files, tableVars>>

FlushDone ==
    /\ batch' = <<>> /\ attempt' = 0
    /\ pc' = IF returning THEN "returned" ELSE "select"
    /\ UNCHANGED returning

\* ... then the rows, in one transaction.
FlushInsert ==
    /\ Alive /\ pc = "insert"
    /\ rows' = rows \o batch
    /\ FlushDone
    /\ UNCHANGED <<handlerVars, mainVars, counters, diskVars, bootRows>>

\* FAULT: without a transaction the rows before the failing one stay.
FlushRetryPartial ==
    /\ Alive /\ pc = "insert"
    /\ attempt + 1 < MaxRetries
    /\ attempt' = attempt + 1
    /\ rows' = Append(rows, Head(batch))
    /\ UNCHANGED <<handlerVars, mainVars, counters, pc, returning, batch, diskVars, bootRows>>

\* FAULT: the attempts are never used up.
FlushRetryForever ==
    /\ Alive /\ pc = "insert"
    /\ attempt' = IF attempt = 0 THEN 1 ELSE 0
    /\ UNCHANGED <<handlerVars, mainVars, counters, pc, returning, batch, diskVars, tableVars>>

\* InsertBatch fails and nothing of the transaction stays; it is tried again.
FlushRetry ==
    /\ Alive /\ pc = "insert"
    /\ attempt + 1 < MaxRetries
    /\ attempt' = attempt + 1
    /\ UNCHANGED <<handlerVars, mainVars, counters, pc, returning, batch, diskVars, tableVars>>

\* FAULT: the dropped batch counts as one error.
FlushGiveUpOnce ==
    /\ Alive /\ pc = "insert"
    /\ attempt + 1 = MaxRetries
    /\ Count("storeErrors", 1)
    /\ FlushDone
    /\ UNCHANGED <<handlerVars, mainVars, diskVars, tableVars>>

\* The last attempt failed: the batch is counted and dropped.
FlushGiveUp ==
    /\ Alive /\ pc = "insert"
    /\ attempt + 1 = MaxRetries
    /\ Count("storeErrors", Len(batch))
    /\ FlushDone
    /\ UNCHANGED <<handlerVars, mainVars, diskVars, tableVars>>

Worker ==
    \/ \E e \in Entry :
         \/ ReceiveSkipped(e) \/ ReceiveNotOpened(e)
         \/ \E h \in Hour : ReceiveWritten(e, h) \/ ReceiveNotWritten(e, h)
    \/ Tick \/ ReceiveClosed
    \/ FlushSync \/ FlushInsert \/ FlushRetry \/ FlushGiveUp

----------------------------------------------------------------------------
(* main() and the failures of the process.                                 *)

Signal ==
    /\ phase = "serving"
    /\ phase' = "stopping"
    /\ UNCHANGED <<handlerVars, forced, boots, counters, loopVars, diskVars, tableVars>>

\* srv.Shutdown returns: no handler is left, or its ten seconds are over and
\* the error is only logged.  Either way Close() closes the channel.
CloseEntries ==
    /\ phase = "stopping"
    /\ phase' = "draining"
    /\ forced' = (\E e \in Entry : handler[e] \in {"running", "sent"})
    /\ UNCHANGED <<handlerVars, boots, counters, loopVars, diskVars, tableVars>>

\* wg.Wait is over: the writer closes its files and main returns.
CloseWriter ==
    /\ phase = "draining" /\ pc = "returned"
    /\ phase' = "exited"
    /\ pool' = <<>>
    /\ SyncFiles(InPool)
    /\ UNCHANGED <<handlerVars, forced, boots, counters, loopVars, files, tableVars>>

\* What a crash of the machine may leave of a file: everything an fsync
\* covered, and of the rest a prefix that may end inside a line.
Survivors(p) ==
    {SubSeq(files[p], 1, n) : n \in synced[p]..Len(files[p])}
    \cup {Append(SubSeq(files[p], 1, n), Torn) : n \in synced[p]..(Len(files[p]) - 1)}

\* The process dies, alone or with the machine, and what it kept in memory is gone.
Crash ==
    /\ Alive
    /\ phase' = "crashed"
    /\ files' \in {f \in [Path -> UNION {Survivors(p) : p \in Path}] :
                      \A p \in Path : f[p] \in Survivors(p)}
    /\ entries' = <<>> /\ batch' = <<>> /\ pool' = <<>>
    /\ UNCHANGED <<handler, forced, boots, counters, pc, returning, attempt, synced, unsynced, tableVars>>

\* A new process on the same disk; the requests the old one served are over.
Restart ==
    /\ phase \in {"exited", "crashed"} /\ boots < MaxBoots
    /\ phase' = "serving" /\ forced' = FALSE /\ boots' = boots + 1
    /\ handler' = [e \in Entry |-> CASE handler[e] = "running" -> "aborted"
                                     [] handler[e] = "sent" -> "accepted"
                                     [] OTHER -> handler[e]]
    /\ counters' = [c \in CounterName |-> 0]
    /\ pc' = "select" /\ returning' = FALSE /\ attempt' = 0
    /\ bootRows' = Len(rows)
    /\ UNCHANGED <<entries, batch, diskVars, rows>>

Next ==
    \/ \E e \in Entry : Handler(e)
    \/ Worker
    \/ Signal \/ CloseEntries \/ CloseWriter
    \/ Crash \/ Restart

\* The worker goroutine is always scheduled (its ticker fires every second
\* and InsertBatch returns), and once signalled main() is not blocked for
\* ever: Shutdown has a timeout.  Nothing is assumed of requests or crashes.
Fairness == WF_vars(Worker) /\ WF_vars(CloseEntries) /\ WF_vars(CloseWriter)

Spec == Init /\ [][Next]_vars
FairSpec == Spec /\ Fairness

----------------------------------------------------------------------------
(* Properties.                                                             *)

Sent == {e \in Entry : handler[e] = "sent"}

\* No accepted entry disappears from the books of metrics.go: while the
\* process lives, what captureTotal counted, or is about to count for a
\* handler between its send and its Add, is in the channel, in the batch,
\* in the table, or counted as an error.  A batch given up after three
\* attempts and a `continue` after a failed write are where it could break.
Accounting ==
    Alive => (counters["captureTotal"] + bootRows) + Cardinality(Sent)
               = Len(entries) + Len(batch)
                 + (Len(rows) + counters["writeErrors"] + counters["storeErrors"])

\* The line a record points at is on disk and is the line of its entry, the
\* empty one if json.Marshal refused it, unless a Sync of its file has failed.
Durable(r) ==
    \/ r.path \in unsynced \cup {NoPath}
    \/ /\ r.offset \in 1..synced[r.path]
       /\ synced[r.path] <= Len(files[r.path])
       /\ files[r.path][r.offset] = MarshalJSONL(r.entry)

\* The index never runs ahead of the files: a row of request_captures refers
\* to a line that no crash can take away and that later writes, torn writes
\* and evictions leave in place.  flush syncs only the open files, so this
\* rests on the pool syncing a file before it closes it; and as the error of
\* a Sync is dropped, it is lost for the file whose Sync failed, and only for it.
IndexedLinesDurable == \A i \in 1..Len(rows) : Durable(rows[i])

\* The pool never holds more open files than its capacity, nor the same file
\* twice: a second handle would append behind the back of the first.
PoolSound ==
    /\ Len(pool) <= PoolSize
    /\ \A i, j \in 1..Len(pool) : pool[i] = pool[j] => i = j

\* After a shutdown that waited for every handler, every entry counted as
\* captured is in the table or counted as an error, and no file is open.
ExactAccountsAtExit ==
    phase = "exited" =>
        /\ entries = <<>> /\ batch = <<>> /\ pool = <<>>
        /\ ~forced => counters["captureTotal"]
                        = Len(rows) - bootRows + counters["writeErrors"]
                          + counters["storeErrors"]

\* Once Shutdown was called, main returns: Close waits for a worker that
\* drains the channel and gives up on a failing database.
ShutdownCompletes == phase = "stopping" ~> phase \in {"exited", "crashed"}

\* The entries behind a sequence of records.
EntriesOf(recs) == [i \in 1..Len(recs) |-> recs[i].entry]

ledgerQueue == EntriesOf(batch) \o entries
ledgerIndex == EntriesOf(rows)

Ledger == INSTANCE CaptureLedger WITH
    queue <- ledgerQueue,
    index <- ledgerIndex,
    lost  <- {e \in Entry : handler[e] \in {"sent", "accepted"}}
             \ ({ledgerQueue[i] : i \in 1..Len(ledgerQueue)}
                \cup {ledgerIndex[i] : i \in 1..Len(ledgerIndex)})

\* The pipeline keeps the promise of CaptureLedger: every accepted entry
\* has one fate, rows appear in the order of acceptance and exactly once
\* each, retries and restarts included.
ImplementsLedger == Ledger!Spec

\* ... and no accepted entry stays without a fate for ever.
ImplementsFairLedger == Ledger!FairSpec

=============================================================================
