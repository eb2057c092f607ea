------------------------ MODULE CapturePipelineProofs ------------------------
(***************************************************************************)
(* Proofs about CapturePipeline, for every number of requests, projects    *)
(* and hours, every channel, batch and pool size.                          *)
(***************************************************************************)
EXTENDS CapturePipeline, SequenceTheorems, FiniteSetTheorems, TLAPS

\* A prefix of a sequence.
LEMMA PrefixProperties ==
  ASSUME NEW S, NEW q \in Seq(S), NEW n \in 0..Len(q)
  PROVE  /\ SubSeq(q, 1, n) \in Seq(S)
         /\ Len(SubSeq(q, 1, n)) = n
         /\ \A i \in 1..n : SubSeq(q, 1, n)[i] = q[i]
  <1>1. Len(q) \in Nat
    BY LenProperties
  <1>2. n \in Nat /\ \A i \in 1..n : q[i] \in S
    BY <1>1, ElementOfSeq
  <1>3. n - 1 + 1 = n /\ (1 <= n \/ n = 0) /\ \A i \in 1..n : 1 + i - 1 = i
    BY <1>2
  <1>4. /\ SubSeq(q, 1, n) \in Seq(S)
        /\ Len(SubSeq(q, 1, n)) = IF 1 <= n THEN n - 1 + 1 ELSE 0
        /\ \A i \in 1..(n - 1 + 1) : SubSeq(q, 1, n)[i] = q[1 + i - 1]
    BY <1>2, SubSeqProperties
  <1> QED
    BY <1>2, <1>3, <1>4

----------------------------------------------------------------------------
(* The worker and the shutdown: processLoop returns only after Close, with *)
(* nothing left in the channel or in the batch, and a process that is gone *)
(* holds nothing in memory.                                                *)

LoopInv ==
    /\ Alive /\ pc = "returned" => closed /\ entries = <<>> /\ batch = <<>>
    /\ Alive /\ returning => closed /\ entries = <<>>
    /\ ~Alive => entries = <<>> /\ batch = <<>>

\* The worker and the shutdown start as LoopInv says.
LEMMA LoopInit == Init => LoopInv
  BY DEF Init, LoopInv, Alive

\* A flush ends with an empty batch and returns only if it was the last one.
LEMMA LoopFlushDone ==
  ASSUME LoopInv, Alive, FlushDone, UNCHANGED <<phase, entries>>
  PROVE  LoopInv'
  BY DEF LoopInv, FlushDone, Alive, closed

\* LoopInv is inductive.
LEMMA LoopNext == LoopInv /\ [Next]_vars => LoopInv'
  <1> SUFFICES ASSUME LoopInv, [Next]_vars PROVE LoopInv'
    OBVIOUS
  <1> USE DEF handlerVars, mainVars, loopVars, diskVars, tableVars
  <1>1. ASSUME NEW e \in Entry, Handler(e)
        PROVE  LoopInv'
    BY <1>1 DEF Handler, BeginRequest, SkipCapture, SubmitSend, SubmitCount,
                SubmitDrop, SubmitPanic, LoopInv, Alive, closed
  <1>2. CASE Worker
    <2>1. ASSUME NEW e \in Entry,
                 \/ ReceiveSkipped(e) \/ ReceiveNotOpened(e)
                 \/ \E h \in Hour : ReceiveWritten(e, h) \/ ReceiveNotWritten(e, h)
          PROVE  LoopInv'
      <3>1. Receive(e) /\ pc' \in {"select", "sync"} /\ UNCHANGED <<phase, returning>>
        <4>1. ASSUME NEW rec, Collect(rec) PROVE pc' \in {"select", "sync"}
          BY <4>1 DEF Collect
        <4>2. CASE ReceiveSkipped(e)
          BY <4>1, <4>2 DEF ReceiveSkipped
        <4>3. ASSUME NEW h \in Hour, ReceiveWritten(e, h)
              PROVE  Receive(e) /\ pc' \in {"select", "sync"} /\ UNCHANGED <<phase, returning>>
          BY <4>1, <4>3 DEF ReceiveWritten
        <4>4. CASE ReceiveNotOpened(e)
          BY <4>4 DEF ReceiveNotOpened, Receive
        <4>5. ASSUME NEW h \in Hour, ReceiveNotWritten(e, h)
              PROVE  Receive(e) /\ pc' \in {"select", "sync"} /\ UNCHANGED <<phase, returning>>
          BY <4>5 DEF ReceiveNotWritten, Receive
        <4> QED
          BY <2>1, <4>2, <4>3, <4>4, <4>5
      <3>2. Alive /\ entries # <<>>
        BY <3>1 DEF Receive
      <3> QED
        BY <3>1, <3>2 DEF LoopInv, Alive
    <2>2. CASE Tick \/ ReceiveClosed \/ FlushSync \/ FlushRetry
      BY <2>2 DEF Tick, ReceiveClosed, FlushSync, FlushRetry, LoopInv, Alive, closed
    <2>3. CASE FlushInsert \/ FlushGiveUp
      BY <2>3, LoopFlushDone DEF FlushInsert, FlushGiveUp
    <2> QED
      BY <1>2, <2>1, <2>2, <2>3 DEF Worker
  <1>3. CASE Signal \/ CloseEntries \/ CloseWriter \/ Crash \/ Restart
    <2>1. CASE Signal
      BY <2>1 DEF Signal, LoopInv, Alive, closed
    <2>2. CASE CloseEntries
      BY <2>2 DEF CloseEntries, LoopInv, Alive, closed
    <2>3. CASE CloseWriter
      BY <2>3 DEF CloseWriter, LoopInv, Alive, closed
    <2>4. CASE Crash
      BY <2>4 DEF Crash, LoopInv, Alive
    <2>5. CASE Restart
      <3>1. Alive' /\ pc' = "select" /\ ~returning'
        BY <2>5 DEF Restart, Alive
      <3> QED
        BY <3>1 DEF LoopInv
    <2> QED
      BY <1>3, <2>1, <2>2, <2>3, <2>4, <2>5
  <1>4. CASE UNCHANGED vars
    BY <1>4 DEF vars, LoopInv, Alive, closed
  <1> QED
    BY <1>1, <1>2, <1>3, <1>4 DEF Next

----------------------------------------------------------------------------
(* Type correctness.  The bound on the batch is inductive only together    *)
(* with the fact that a full batch sends the worker to flush.              *)

BatchNotFull == pc = "select" => Len(batch) < BatchSize

TypeInv == TypeOK /\ BatchNotFull

\* Counting keeps the counters natural numbers.
LEMMA CountType ==
  ASSUME NEW c \in CounterName, NEW n \in Nat, Count(c, n),
         counters \in [CounterName -> Nat]
  PROVE  /\ counters' \in [CounterName -> Nat]
         /\ counters'[c] = counters[c] + n
         /\ \A d \in CounterName \ {c} : counters'[d] = counters[d]
  BY DEF Count

\* Syncing files leaves a count of cells for each.
LEMMA SyncedByType ==
  ASSUME NEW S, files \in [Path -> Seq(Cell)], synced \in [Path -> Nat]
  PROVE  SyncedBy(S) \in [Path -> Nat]
  BY LenProperties DEF SyncedBy

\* Sync keeps the counts, and the history of its failures, well typed.
LEMMA SyncFilesType ==
  ASSUME TypeOK, NEW P \in SUBSET Path, SyncFiles(P)
  PROVE  synced' \in [Path -> Nat] /\ unsynced' \subseteq Path
  <1>1. PICK S \in Fsynced(P) :
           unsynced' = unsynced \cup (P \ S) /\ synced' = SyncedBy(S \ unsynced)
    BY DEF SyncFiles
  <1> QED
    BY <1>1, SyncedByType DEF TypeOK

\* The open files are files.
LEMMA InPoolType ==
  ASSUME TypeOK
  PROVE  InPool \in SUBSET Path
  BY ElementOfSeq DEF TypeOK, InPool

\* Moving a handle to the front keeps a sequence of paths of the same length.
LEMMA MovedToFrontType ==
  ASSUME pool \in Seq(Path), NEW k \in 1..Len(pool)
  PROVE  MovedToFront(k) \in Seq(Path) /\ Len(MovedToFront(k)) = Len(pool)
  <1>1. Len(pool) \in Nat
    BY LenProperties
  <1>2. \A i \in 1..Len(pool) : pool[i] \in Path
    BY ElementOfSeq
  <1>3. \A i \in 1..Len(pool) : i # 1 /\ i <= k => i - 1 \in 1..Len(pool)
    BY <1>1
  <1>4. MovedToFront(k) \in [1..Len(pool) -> Path]
    BY <1>1, <1>2, <1>3 DEF MovedToFront
  <1> QED
    BY <1>1, <1>4

\* What Get leaves of the pool and of the synced counts is well typed.
LEMMA PoolGetType ==
  ASSUME TypeOK, NEW p \in Path, PoolGet(p)
  PROVE  pool' \in Seq(Path) /\ synced' \in [Path -> Nat] /\ unsynced' \subseteq Path
  <1>1. CASE PoolHit(p)
    BY <1>1, MovedToFrontType DEF PoolHit, TypeOK
  <1>2. CASE PoolMiss(p)
    <2>1. <<p>> \in Seq(Path) /\ pool \in Seq(Path) /\ Len(pool) \in Nat
      BY LenProperties DEF TypeOK
    <2>2. SubSeq(pool, 1, Len(pool) - 1) \in Seq(Path)
      BY <2>1, SubSeqProperties, ElementOfSeq
    <2>3. pool' \in Seq(Path)
      BY <1>2, <2>1, <2>2, ConcatProperties, ZenonT(40) DEF PoolMiss
    <2>4. CASE Len(pool) >= PoolSize
      <3>1. pool[Len(pool)] \in Path
        BY <2>1, <2>4, SizeAssumption, ElementOfSeq
      <3>2. SyncFiles({pool[Len(pool)]})
        BY <1>2, <2>4 DEF PoolMiss
      <3> QED
        BY <2>3, <3>1, <3>2, SyncFilesType
    <2>5. CASE ~(Len(pool) >= PoolSize)
      BY <1>2, <2>3, <2>5 DEF PoolMiss, TypeOK
    <2> QED
      BY <2>4, <2>5
  <1> QED
    BY <1>1, <1>2 DEF PoolGet

\* The initial state is well typed.
LEMMA TypeInit == Init => TypeInv
  <1> SUFFICES ASSUME Init PROVE TypeInv
    OBVIOUS
  <1>1. 0 < BatchSize /\ 0 <= ChannelSize /\ 1 \in 1..MaxBoots
    BY SizeAssumption
  <1>2. /\ entries \in Seq(Entry) /\ Len(entries) = 0
        /\ batch \in Seq(Record) /\ Len(batch) = 0
        /\ pool \in Seq(Path) /\ rows \in Seq(Record)
        /\ files \in [Path -> Seq(Cell)]
    BY DEF Init
  <1>3. handler \in [Entry -> HandlerState] /\ counters \in [CounterName -> Nat]
    BY DEF Init, HandlerState
  <1>4. synced \in [Path -> Nat] /\ unsynced \subseteq Path /\ bootRows \in Nat /\ attempt \in 0..(MaxRetries - 1)
    BY DEF Init, MaxRetries
  <1>5. /\ phase \in {"serving", "stopping", "draining", "exited", "crashed"}
        /\ pc \in {"select", "sync", "insert", "returned"}
        /\ boots \in 1..MaxBoots
    BY <1>1 DEF Init
  <1>6. forced \in BOOLEAN /\ returning \in BOOLEAN
    BY DEF Init
  <1> QED
    BY <1>1, <1>2, <1>3, <1>4, <1>5, <1>6, SizeAssumption DEF TypeInv, TypeOK, BatchNotFull

\* A handler's step keeps the types: Submit checks the channel's capacity.
LEMMA TypeHandler ==
  ASSUME TypeInv, NEW e \in Entry, Handler(e)
  PROVE  TypeInv'
  <1> USE DEF TypeInv, TypeOK, BatchNotFull, HandlerState,
              handlerVars, mainVars, loopVars, diskVars, tableVars
  <1>1. CASE BeginRequest(e)
    BY <1>1 DEF BeginRequest
  <1>2. CASE SkipCapture(e)
    BY <1>2 DEF SkipCapture
  <1>3. CASE SubmitSend(e)
    <2>1. entries' \in Seq(Entry) /\ Len(entries') = Len(entries) + 1
      BY <1>3, AppendProperties DEF SubmitSend
    <2>2. Len(entries') <= ChannelSize
      BY <1>3, <2>1, LenProperties, SizeAssumption DEF SubmitSend
    <2> QED
      BY <1>3, <2>1, <2>2 DEF SubmitSend
  <1>4. CASE SubmitCount(e)
    BY <1>4, CountType DEF SubmitCount, CounterName
  <1>5. CASE SubmitDrop(e)
    BY <1>5, CountType DEF SubmitDrop, CounterName
  <1>6. CASE SubmitPanic(e)
    BY <1>6 DEF SubmitPanic
  <1> QED
    BY <1>1, <1>2, <1>3, <1>4, <1>5, <1>6 DEF Handler

\* Taking an entry from the channel.
LEMMA ReceiveType ==
  ASSUME TypeOK, NEW e \in Entry, Receive(e)
  PROVE  /\ entries' \in Seq(Entry) /\ Len(entries') = Len(entries) - 1
         /\ Len(entries') <= ChannelSize
  BY HeadTailProperties, LenProperties, SizeAssumption DEF Receive, TypeOK

\* Adding a record to a batch that is not full.
LEMMA CollectType ==
  ASSUME TypeInv, pc = "select", NEW rec \in Record, Collect(rec)
  PROVE  /\ batch' \in Seq(Record) /\ Len(batch') = Len(batch) + 1
         /\ Len(batch') <= BatchSize
         /\ pc' \in {"select", "sync"}
         /\ BatchNotFull'
  <1>1. batch' \in Seq(Record) /\ Len(batch') = Len(batch) + 1
    BY AppendProperties DEF Collect, TypeInv, TypeOK
  <1>2. Len(batch) \in Nat /\ BatchSize \in Nat /\ Len(batch) < BatchSize
    BY LenProperties, SizeAssumption DEF TypeInv, TypeOK, BatchNotFull
  <1> QED
    BY <1>1, <1>2 DEF Collect, BatchNotFull

\* Appending a cell to a file.
LEMMA AppendedType ==
  ASSUME TypeOK, NEW p \in Path, NEW c \in Cell, Appended(p, c)
  PROVE  /\ files' \in [Path -> Seq(Cell)]
         /\ Len(files'[p]) = Len(files[p]) + 1
         /\ files'[p][Len(files[p]) + 1] = c
         /\ \A i \in 1..Len(files[p]) : files'[p][i] = files[p][i]
         /\ \A q \in Path \ {p} : files'[q] = files[q]
  <1>1. files \in [Path -> Seq(Cell)] /\ files[p] \in Seq(Cell)
    BY DEF TypeOK
  <1>2. files' = [files EXCEPT ![p] = Append(files[p], c)]
    BY DEF Appended
  <1>3. /\ Append(files[p], c) \in Seq(Cell)
        /\ Len(Append(files[p], c)) = Len(files[p]) + 1
        /\ \A i \in 1..Len(files[p]) : Append(files[p], c)[i] = files[p][i]
        /\ Append(files[p], c)[Len(files[p]) + 1] = c
    BY <1>1, AppendProperties
  <1>4. files'[p] = Append(files[p], c) /\ \A q \in Path \ {p} : files'[q] = files[q]
    BY <1>1, <1>2
  <1> QED
    BY <1>1, <1>2, <1>3, <1>4

\* What Write appends is a cell, and the record it yields is a record.
LEMMA WrittenType ==
  ASSUME TypeOK, NEW e \in Entry, NEW h \in Hour
  PROVE  /\ <<ProjectOf[e], h>> \in Path
         /\ MarshalJSONL(e) \in Cell /\ Torn \in Cell
         /\ [entry |-> e, path |-> <<ProjectOf[e], h>>,
             offset |-> Len(files[<<ProjectOf[e], h>>]) + 1] \in Record
  <1>1. <<ProjectOf[e], h>> \in Path
    BY EntryAssumption DEF Path
  <1>2. Len(files[<<ProjectOf[e], h>>]) \in Nat
    BY <1>1, LenProperties DEF TypeOK
  <1> QED
    BY <1>1, <1>2 DEF MarshalJSONL, Cell, Torn, Blank, Line, Record

\* A step of the worker keeps the types.
LEMMA TypeWorker ==
  ASSUME TypeInv, Worker
  PROVE  TypeInv'
  <1> USE DEF handlerVars, mainVars, loopVars, diskVars, tableVars
  <1>1. ASSUME NEW e \in Entry, ReceiveSkipped(e)
        PROVE  TypeInv'
    <2>1. Receive(e) /\ pc = "select"
      BY <1>1 DEF ReceiveSkipped, Receive
    <2>2. [entry |-> e, path |-> NoPath, offset |-> 0] \in Record
      BY DEF Record
    <2>3. Collect([entry |-> e, path |-> NoPath, offset |-> 0])
      BY <1>1 DEF ReceiveSkipped
    <2> QED
      BY <1>1, <2>1, <2>2, <2>3, ReceiveType, CollectType
         DEF ReceiveSkipped, TypeInv, TypeOK
  <1>2. ASSUME NEW e \in Entry, NEW h \in Hour, ReceiveWritten(e, h)
        PROVE  TypeInv'
    <2> DEFINE p == <<ProjectOf[e], h>>
               rec == [entry |-> e, path |-> p, offset |-> Len(files[p]) + 1]
    <2>1. /\ Receive(e) /\ pc = "select" /\ PoolGet(p)
          /\ Appended(p, MarshalJSONL(e)) /\ Collect(rec)
      BY <1>2 DEF ReceiveWritten, Receive
    <2>2. p \in Path /\ MarshalJSONL(e) \in Cell /\ rec \in Record
      BY WrittenType DEF TypeInv
    <2>3. pool' \in Seq(Path) /\ synced' \in [Path -> Nat] /\ unsynced' \subseteq Path
      BY <2>1, <2>2, PoolGetType DEF TypeInv
    <2>4. files' \in [Path -> Seq(Cell)]
      BY <2>1, <2>2, AppendedType DEF TypeInv
    <2>5. entries' \in Seq(Entry) /\ Len(entries') <= ChannelSize
      BY <2>1, ReceiveType DEF TypeInv
    <2>6. /\ batch' \in Seq(Record) /\ Len(batch') <= BatchSize
          /\ pc' \in {"select", "sync", "insert", "returned"} /\ BatchNotFull'
      BY <2>1, <2>2, CollectType
    <2> QED
      BY <1>2, <2>3, <2>4, <2>5, <2>6 DEF ReceiveWritten, TypeInv, TypeOK
  <1>3. ASSUME NEW e \in Entry, ReceiveNotOpened(e)
        PROVE  TypeInv'
    <2>1. entries' \in Seq(Entry) /\ Len(entries') <= ChannelSize
      BY <1>3, ReceiveType DEF ReceiveNotOpened, TypeInv
    <2>2. counters' \in [CounterName -> Nat]
      BY <1>3, CountType DEF ReceiveNotOpened, TypeInv, TypeOK, CounterName
    <2> QED
      BY <1>3, <2>1, <2>2 DEF ReceiveNotOpened, TypeInv, TypeOK, BatchNotFull
  <1>4. ASSUME NEW e \in Entry, NEW h \in Hour, ReceiveNotWritten(e, h)
        PROVE  TypeInv'
    <2> DEFINE p == <<ProjectOf[e], h>>
    <2>1. /\ Receive(e) /\ PoolGet(p) /\ Count("writeErrors", 1)
          /\ Appended(p, Torn) \/ files' = files
      BY <1>4 DEF ReceiveNotWritten
    <2>2. p \in Path /\ Torn \in Cell
      BY WrittenType DEF TypeInv
    <2>3. pool' \in Seq(Path) /\ synced' \in [Path -> Nat] /\ unsynced' \subseteq Path
      BY <2>1, <2>2, PoolGetType DEF TypeInv
    <2>4. files' \in [Path -> Seq(Cell)]
      BY <2>1, <2>2, AppendedType DEF TypeInv, TypeOK
    <2>5. entries' \in Seq(Entry) /\ Len(entries') <= ChannelSize
      BY <2>1, ReceiveType DEF TypeInv
    <2>6. counters' \in [CounterName -> Nat]
      BY <2>1, CountType DEF TypeInv, TypeOK, CounterName
    <2> QED
      BY <1>4, <2>3, <2>4, <2>5, <2>6 DEF ReceiveNotWritten, TypeInv, TypeOK, BatchNotFull
  <1>5. CASE Tick
    BY <1>5 DEF Tick, TypeInv, TypeOK, BatchNotFull
  <1>6. CASE ReceiveClosed
    BY <1>6 DEF ReceiveClosed, TypeInv, TypeOK, BatchNotFull
  <1>7. CASE FlushSync
    <2>1. synced' \in [Path -> Nat] /\ unsynced' \subseteq Path
      BY <1>7, InPoolType, SyncFilesType DEF FlushSync, TypeInv
    <2> QED
      BY <1>7, <2>1 DEF FlushSync, TypeInv, TypeOK, BatchNotFull
  <1>8. ASSUME FlushDone, returning \in BOOLEAN
        PROVE  /\ batch' \in Seq(Record) /\ Len(batch') <= BatchSize
               /\ attempt' \in 0..(MaxRetries - 1) /\ returning' \in BOOLEAN
               /\ pc' \in {"select", "sync", "insert", "returned"}
               /\ BatchNotFull'
    <2>1. batch' \in Seq(Record) /\ Len(batch') = 0 /\ attempt' = 0 /\ returning' = returning
      BY <1>8 DEF FlushDone
    <2> QED
      BY <1>8, <2>1, SizeAssumption DEF FlushDone, BatchNotFull, MaxRetries
  <1>9. CASE FlushInsert
    <2>1. rows' \in Seq(Record)
      BY <1>9, ConcatProperties DEF FlushInsert, TypeInv, TypeOK
    <2> QED
      BY <1>8, <1>9, <2>1 DEF FlushInsert, TypeInv, TypeOK
  <1>10. CASE FlushRetry
    BY <1>10 DEF FlushRetry, TypeInv, TypeOK, BatchNotFull, MaxRetries
  <1>11. CASE FlushGiveUp
    <2>1. Len(batch) \in Nat
      BY LenProperties DEF TypeInv, TypeOK
    <2>2. counters' \in [CounterName -> Nat]
      BY <1>11, <2>1, CountType DEF FlushGiveUp, TypeInv, TypeOK, CounterName
    <2> QED
      BY <1>8, <1>11, <2>2 DEF FlushGiveUp, TypeInv, TypeOK
  <1> QED
    BY <1>1, <1>2, <1>3, <1>4, <1>5, <1>6, <1>7, <1>9, <1>10, <1>11 DEF Worker

\* What is left of a file after a crash is a file.
LEMMA SurvivorsType ==
  ASSUME TypeOK, NEW p \in Path, NEW f \in Survivors(p)
  PROVE  f \in Seq(Cell)
  <1>1. files[p] \in Seq(Cell) /\ Len(files[p]) \in Nat /\ synced[p] \in Nat
    BY LenProperties DEF TypeOK
  <1>2. \A n \in 0..Len(files[p]) : SubSeq(files[p], 1, n) \in Seq(Cell)
    BY <1>1, SubSeqProperties, ElementOfSeq
  <1>3. Torn \in Cell
    BY DEF Cell
  <1>4. \A n \in synced[p]..Len(files[p]) :
           /\ SubSeq(files[p], 1, n) \in Seq(Cell)
           /\ Append(SubSeq(files[p], 1, n), Torn) \in Seq(Cell)
    BY <1>1, <1>2, <1>3, AppendProperties
  <1> QED
    BY <1>1, <1>4 DEF Survivors

\* A step of main(), a crash and a restart keep the types.
LEMMA TypeMain ==
  ASSUME TypeInv, LoopInv, Signal \/ CloseEntries \/ CloseWriter \/ Crash \/ Restart
  PROVE  TypeInv'
  <1> USE DEF handlerVars, mainVars, loopVars, diskVars, tableVars
  <1>1. CASE Signal
    BY <1>1 DEF Signal, TypeInv, TypeOK, BatchNotFull
  <1>2. CASE CloseEntries
    BY <1>2 DEF CloseEntries, TypeInv, TypeOK, BatchNotFull
  <1>3. CASE CloseWriter
    <2>1. pool' \in Seq(Path) /\ synced' \in [Path -> Nat] /\ unsynced' \subseteq Path
      BY <1>3, InPoolType, SyncFilesType DEF CloseWriter, TypeInv
    <2> QED
      BY <1>3, <2>1 DEF CloseWriter, TypeInv, TypeOK, BatchNotFull
  <1>4. CASE Crash
    <2>1. files' \in [Path -> Seq(Cell)]
      BY <1>4, SurvivorsType DEF Crash, TypeInv
    <2>2. /\ entries' \in Seq(Entry) /\ Len(entries') = 0
          /\ batch' \in Seq(Record) /\ Len(batch') = 0
          /\ pool' \in Seq(Path)
      BY <1>4 DEF Crash
    <2> QED
      BY <1>4, <2>1, <2>2, SizeAssumption DEF Crash, TypeInv, TypeOK, BatchNotFull
  <1>5. CASE Restart
    <2>1. handler' \in [Entry -> HandlerState]
      BY <1>5 DEF Restart, TypeInv, TypeOK, HandlerState
    <2>2. counters' \in [CounterName -> Nat] /\ attempt' \in 0..(MaxRetries - 1)
      BY <1>5 DEF Restart, MaxRetries
    <2>3. boots' \in 1..MaxBoots /\ bootRows' \in Nat
      BY <1>5, LenProperties, SizeAssumption DEF Restart, TypeInv, TypeOK
    <2>4. batch' = <<>> /\ entries' = <<>>
      BY <1>5 DEF Restart, LoopInv, Alive
    <2>5. forced' \in BOOLEAN /\ returning' \in BOOLEAN
      BY <1>5 DEF Restart
    <2>6. /\ entries' \in Seq(Entry) /\ Len(entries') <= ChannelSize
          /\ batch' \in Seq(Record) /\ Len(batch') < BatchSize /\ Len(batch') <= BatchSize
      BY <2>4, SizeAssumption
    <2>7. /\ pool' \in Seq(Path) /\ files' \in [Path -> Seq(Cell)]
          /\ synced' \in [Path -> Nat] /\ unsynced' \subseteq Path
          /\ rows' \in Seq(Record)
          /\ phase' = "serving" /\ pc' = "select"
      BY <1>5 DEF Restart, TypeInv, TypeOK
    <2> QED
      BY <2>1, <2>2, <2>3, <2>5, <2>6, <2>7 DEF TypeInv, TypeOK, BatchNotFull
  <1> QED
    BY <1>1, <1>2, <1>3, <1>4, <1>5

\* Types and the bound of the batch are kept by every step, given LoopInv.
LEMMA TypeNext == TypeInv /\ LoopInv /\ [Next]_vars => TypeInv'
  <1> SUFFICES ASSUME TypeInv, LoopInv, [Next]_vars PROVE TypeInv'
    OBVIOUS
  <1>1. CASE Next
    BY <1>1, TypeHandler, TypeWorker, TypeMain DEF Next
  <1>2. CASE UNCHANGED vars
    BY <1>2 DEF vars, handlerVars, mainVars, loopVars, diskVars, tableVars,
                TypeInv, TypeOK, BatchNotFull
  <1> QED
    BY <1>1, <1>2

\* The pipeline is well typed: in particular the channel never holds more
\* than its capacity, a batch never more than BatchSize records, and a
\* flush makes at most MaxRetries attempts.
THEOREM TypeCorrect == Spec => []TypeOK
  <1>1. TypeInv => TypeOK
    BY DEF TypeInv
  <1> QED
    BY <1>1, TypeInit, TypeNext, LoopInit, LoopNext, PTL DEF Spec

\* Types and LoopInv hold throughout: the other proofs start from both.
LEMMA Invariants == Spec => [](TypeInv /\ LoopInv)
  BY TypeInit, TypeNext, LoopInit, LoopNext, PTL DEF Spec

----------------------------------------------------------------------------
(* The pool of open files.                                                 *)

\* Moving a handle to the front opens and closes nothing.
LEMMA MovedToFrontSound ==
  ASSUME TypeOK, PoolSound, NEW k \in 1..Len(pool), pool' = MovedToFront(k)
  PROVE  PoolSound' /\ pool'[1] = pool[k] /\ InPool' = InPool
  <1>1. Len(pool) \in Nat /\ Len(pool') = Len(pool)
    BY LenProperties, MovedToFrontType DEF TypeOK
  <1>2. \A i \in 1..Len(pool) :
           pool'[i] = IF i = 1 THEN pool[k] ELSE IF i <= k THEN pool[i - 1] ELSE pool[i]
    BY DEF MovedToFront
  <1>3. \A i, j \in 1..Len(pool) : pool[i] = pool[j] => i = j
    BY DEF PoolSound
  <1>4. \A i, j \in 1..Len(pool') : pool'[i] = pool'[j] => i = j
    <2>1. \A i \in 1..Len(pool) : i # 1 /\ i <= k => i - 1 \in 1..Len(pool) /\ i - 1 < k
      BY <1>1
    <2> QED
      BY <1>1, <1>2, <1>3, <2>1
  <1>5. pool'[1] = pool[k]
    BY <1>1, <1>2
  <1>6. InPool' = InPool
    <2>1. ASSUME NEW i \in 1..Len(pool)
          PROVE  pool'[i] \in InPool
      BY <1>1, <1>2 DEF InPool
    <2>2. ASSUME NEW i \in 1..Len(pool)
          PROVE  \E j \in 1..Len(pool) : pool'[j] = pool[i]
      <3>1. CASE i = k
        BY <1>1, <1>5, <3>1
      <3>2. CASE i < k
        BY <1>1, <1>2, <3>2, i + 1 \in 1..Len(pool)
      <3>3. CASE i > k
        BY <1>1, <1>2, <3>3
      <3> QED
        BY <1>1, <3>1, <3>2, <3>3
    <2>3. InPool' = {pool'[i] : i \in 1..Len(pool)}
      BY <1>1 DEF InPool
    <2> QED
      BY <2>1, <2>2, <2>3, ZenonT(40) DEF InPool
  <1> QED
    BY <1>1, <1>4, <1>5, <1>6 DEF PoolSound

\* Opening a file: it is in front, the others follow in their order, and the
\* one that had to go, if any, was the last.
LEMMA PoolMissShape ==
  ASSUME TypeOK, NEW p \in Path, PoolMiss(p)
  PROVE  /\ Len(pool) \in Nat
         /\ pool'[1] = p
         /\ \A i \in 2..Len(pool') : pool'[i] = pool[i - 1]
         /\ Len(pool') = IF Len(pool) >= PoolSize THEN Len(pool) ELSE Len(pool) + 1
  <1>1. /\ <<p>> \in Seq(Path) /\ pool \in Seq(Path) /\ Len(pool) \in Nat
        /\ Len(<<p>>) = 1 /\ <<p>>[1] = p
    BY LenProperties DEF TypeOK
  <1>2. PoolSize \in Nat /\ PoolSize > 0
    BY SizeAssumption
  <1>3. CASE Len(pool) >= PoolSize
    <2> DEFINE s == SubSeq(pool, 1, Len(pool) - 1)
    <2>1. /\ s \in Seq(Path) /\ Len(s) = Len(pool) - 1
          /\ \A i \in 1..(Len(pool) - 1) : s[i] = pool[i]
      <3>1. Len(pool) - 1 \in 0..Len(pool)
        BY <1>1, <1>2, <1>3
      <3> QED
        BY <1>1, <3>1, PrefixProperties
    <2>2. pool' = <<p>> \o s
      BY <1>3 DEF PoolMiss
    <2> HIDE DEF s
    <2> QED
      BY <1>1, <1>2, <1>3, <2>1, <2>2, ConcatProperties
  <1>4. CASE ~(Len(pool) >= PoolSize)
    <2>1. pool' = <<p>> \o pool
      BY <1>4 DEF PoolMiss
    <2> QED
      BY <1>1, <1>4, <2>1, ConcatProperties
  <1> QED
    BY <1>3, <1>4

\* Get keeps the pool sound and leaves the wanted file open.
LEMMA PoolGetSound ==
  ASSUME TypeOK, PoolSound, NEW p \in Path, PoolGet(p)
  PROVE  PoolSound' /\ p \in InPool'
  <1>1. CASE PoolHit(p)
    <2>1. PICK k \in 1..Len(pool) : pool[k] = p /\ pool' = MovedToFront(k)
      BY <1>1 DEF PoolHit
    <2> QED
      BY <2>1, MovedToFrontSound DEF InPool
  <1>2. CASE PoolMiss(p)
    <2>1. /\ Len(pool) \in Nat /\ pool'[1] = p
          /\ \A i \in 2..Len(pool') : pool'[i] = pool[i - 1]
          /\ Len(pool') = IF Len(pool) >= PoolSize THEN Len(pool) ELSE Len(pool) + 1
      BY <1>2, PoolMissShape
    <2>2. /\ PoolSize \in Nat /\ PoolSize > 0 /\ Len(pool) <= PoolSize
          /\ \A i, j \in 1..Len(pool) : pool[i] = pool[j] => i = j
          /\ \A i \in 1..Len(pool) : pool[i] # p
      BY <1>2, SizeAssumption DEF PoolSound, PoolMiss, InPool
    <2>3. Len(pool') \in Nat /\ 1 \in 1..Len(pool') /\ Len(pool') <= PoolSize
      BY <2>1, <2>2
    <2>4. \A i \in 2..Len(pool') : i - 1 \in 1..Len(pool)
      BY <2>1
    <2>5. \A i, j \in 1..Len(pool') : pool'[i] = pool'[j] => i = j
      BY <2>1, <2>2, <2>3, <2>4, SMTT(30)
    <2> QED
      BY <2>1, <2>3, <2>5 DEF PoolSound, InPool
  <1> QED
    BY <1>1, <1>2 DEF PoolGet

\* The pool is empty when the process starts.
LEMMA PoolInit == Init => PoolSound
  BY SizeAssumption DEF Init, PoolSound

\* Every step keeps the pool duplicate-free and within its capacity.
LEMMA PoolNext == TypeInv /\ PoolSound /\ [Next]_vars => PoolSound'
  <1> SUFFICES ASSUME TypeInv, PoolSound, [Next]_vars PROVE PoolSound'
    OBVIOUS
  <1> USE DEF handlerVars, mainVars, loopVars, diskVars, tableVars
  <1>1. ASSUME UNCHANGED pool PROVE PoolSound'
    BY <1>1 DEF PoolSound
  <1>2. ASSUME pool' = <<>> PROVE PoolSound'
    <2>1. Len(pool') = 0
      BY <1>2
    <2> QED
      BY <2>1, SizeAssumption DEF PoolSound
  <1>3. ASSUME NEW e \in Entry, Handler(e) PROVE UNCHANGED pool
    BY <1>3 DEF Handler, BeginRequest, SkipCapture, SubmitSend, SubmitCount,
                SubmitDrop, SubmitPanic
  <1>4. CASE Worker
    <2>1. ASSUME NEW e \in Entry, NEW h \in Hour,
                 ReceiveWritten(e, h) \/ ReceiveNotWritten(e, h)
          PROVE  PoolSound'
      <3>1. PoolGet(<<ProjectOf[e], h>>)
        BY <2>1 DEF ReceiveWritten, ReceiveNotWritten
      <3> QED
        BY <3>1, WrittenType, PoolGetSound DEF TypeInv
    <2>2. ASSUME NEW e \in Entry, ReceiveSkipped(e) \/ ReceiveNotOpened(e)
          PROVE  UNCHANGED pool
      BY <2>2 DEF ReceiveSkipped, ReceiveNotOpened
    <2>3. CASE Tick \/ ReceiveClosed \/ FlushSync \/ FlushInsert \/ FlushRetry \/ FlushGiveUp
      BY <1>1, <2>3 DEF Tick, ReceiveClosed, FlushSync, FlushInsert, FlushRetry, FlushGiveUp
    <2> QED
      BY <1>1, <1>4, <2>1, <2>2, <2>3 DEF Worker
  <1>5. CASE Signal \/ CloseEntries \/ Restart
    BY <1>1, <1>5 DEF Signal, CloseEntries, Restart
  <1>6. CASE CloseWriter \/ Crash
    BY <1>2, <1>6 DEF CloseWriter, Crash
  <1>7. CASE UNCHANGED vars
    BY <1>1, <1>7 DEF vars
  <1> QED
    BY <1>1, <1>3, <1>4, <1>5, <1>6, <1>7 DEF Next

\* The LRU pool never exceeds its capacity and never holds a file twice.
THEOREM PoolIsSound == Spec => []PoolSound
  BY Invariants, PoolInit, PoolNext, PTL DEF Spec

----------------------------------------------------------------------------
(* The books of metrics.go.                                                *)

Credit == counters["captureTotal"] + bootRows
Settled == Len(rows) + counters["writeErrors"] + counters["storeErrors"]
Balance == Credit + Cardinality(Sent) = Len(entries) + Len(batch) + Settled

\* The books balance until a crash, and after a graceful Shutdown no handler
\* is between its send and its Add.
AccountInv ==
    /\ phase # "crashed" => Balance
    /\ phase \in {"draining", "exited"} /\ ~forced =>
          \A e \in Entry : handler[e] \notin {"running", "sent"}
    /\ phase = "exited" => pool = <<>>

\* The handlers between their send and their Add can be counted.
LEMMA SentFinite == IsFiniteSet(Sent) /\ Cardinality(Sent) \in Nat
  BY EntryAssumption, FS_Subset, FS_CardinalityType DEF Sent

\* Before the first entry the books are empty.
LEMMA AccountInit == Init => AccountInv
  <1> SUFFICES ASSUME Init PROVE AccountInv
    OBVIOUS
  <1>1. Sent = {}
    BY DEF Init, Sent
  <1>2. Cardinality(Sent) = 0
    BY <1>1, FS_EmptySet
  <1>3. Len(entries) = 0 /\ Len(batch) = 0 /\ Len(rows) = 0 /\ bootRows = 0
    BY DEF Init
  <1>4. /\ counters["captureTotal"] = 0 /\ counters["writeErrors"] = 0
        /\ counters["storeErrors"] = 0
    BY DEF Init, CounterName
  <1>5. Balance
    BY <1>2, <1>3, <1>4 DEF Balance, Credit, Settled
  <1> QED
    BY <1>5 DEF Init, AccountInv

\* The terms of the balance are numbers.
LEMMA BalanceTypes ==
  ASSUME TypeOK
  PROVE  /\ \A c \in CounterName : counters[c] \in Nat
         /\ Len(entries) \in Nat /\ Len(batch) \in Nat /\ Len(rows) \in Nat
         /\ bootRows \in Nat /\ Cardinality(Sent) \in Nat
         /\ "captureTotal" \in CounterName /\ "captureDropped" \in CounterName
         /\ "writeErrors" \in CounterName /\ "storeErrors" \in CounterName
         /\ Credit \in Nat /\ Settled \in Nat
  <1>1. /\ \A c \in CounterName : counters[c] \in Nat
        /\ Len(entries) \in Nat /\ Len(batch) \in Nat /\ Len(rows) \in Nat
        /\ bootRows \in Nat /\ Cardinality(Sent) \in Nat
    BY LenProperties, SentFinite DEF TypeOK
  <1>2. /\ "captureTotal" \in CounterName /\ "captureDropped" \in CounterName
        /\ "writeErrors" \in CounterName /\ "storeErrors" \in CounterName
    BY DEF CounterName
  <1>3. /\ counters["captureTotal"] \in Nat /\ counters["writeErrors"] \in Nat
        /\ counters["storeErrors"] \in Nat
    BY <1>1, <1>2
  <1>4. Credit \in Nat /\ Settled \in Nat
    BY <1>1, <1>3, SMTT(30) DEF Credit, Settled
  <1> QED
    BY <1>1, <1>2, <1>4

\* A send adds an entry to the channel and a handler that owes an Add.
LEMMA AddBothSides ==
  ASSUME NEW c \in Nat, NEW s \in Nat, NEW n \in Nat, NEW b \in Nat, NEW t \in Nat,
         c + s = n + b + t
  PROVE  c + (s + 1) = (n + 1) + b + t
  OBVIOUS

\* A handler moves an entry from its hands to the channel, then counts it.
LEMMA AccountHandler ==
  ASSUME TypeOK, AccountInv, NEW e \in Entry, Handler(e)
  PROVE  AccountInv'
  <1> USE DEF handlerVars, mainVars, loopVars, diskVars, tableVars
  <1>1. handler \in [Entry -> HandlerState]
    BY DEF TypeOK
  <1>2. ASSUME UNCHANGED <<entries, batch, rows, bootRows, phase, forced, pool>>,
               Sent' = Sent, Alive,
               \A c \in CounterName \ {"captureDropped"} : counters'[c] = counters[c],
               \A f \in Entry : handler'[f] \in {"running", "sent"} =>
                                  handler[f] \in {"running", "sent"} \/ phase = "serving"
        PROVE  AccountInv'
    BY <1>2 DEF AccountInv, Balance, Credit, Settled, CounterName, Alive
  <1>3. CASE BeginRequest(e) \/ SkipCapture(e) \/ SubmitPanic(e)
    <2>1. Sent' = Sent
      BY <1>1, <1>3 DEF BeginRequest, SkipCapture, SubmitPanic, Sent
    <2>2. \A f \in Entry : handler'[f] \in {"running", "sent"} =>
             handler[f] \in {"running", "sent"} \/ phase = "serving"
      BY <1>1, <1>3 DEF BeginRequest, SkipCapture, SubmitPanic
    <2> QED
      BY <1>2, <1>3, <2>1, <2>2 DEF BeginRequest, SkipCapture, SubmitPanic, Alive
  <1>4. CASE SubmitDrop(e)
    <2>1. Sent' = Sent
      BY <1>1, <1>4 DEF SubmitDrop, Sent
    <2>2. \A f \in Entry : handler'[f] \in {"running", "sent"} =>
             handler[f] \in {"running", "sent"}
      BY <1>1, <1>4 DEF SubmitDrop
    <2>3. \A c \in CounterName \ {"captureDropped"} : counters'[c] = counters[c]
      BY <1>4, CountType DEF SubmitDrop, CounterName, TypeOK
    <2> QED
      BY <1>2, <1>4, <2>1, <2>2, <2>3 DEF SubmitDrop
  <1>5. CASE SubmitSend(e)
    <2>1. Sent' = Sent \cup {e} /\ e \notin Sent
      BY <1>1, <1>5 DEF SubmitSend, Sent
    <2>2. Cardinality(Sent') = Cardinality(Sent) + 1
      BY <2>1, SentFinite, FS_AddElement
    <2>3. Len(entries') = Len(entries) + 1
      BY <1>5, AppendProperties DEF SubmitSend, TypeOK
    <2>4. Balance
      BY <1>5 DEF SubmitSend, AccountInv, Alive
    <2>5. Balance'
      <3>1. Len(batch') = Len(batch) /\ Credit' = Credit /\ Settled' = Settled
        BY <1>5 DEF SubmitSend, Credit, Settled
      <3>2. Credit + Cardinality(Sent) = Len(entries) + Len(batch) + Settled
        BY <2>4 DEF Balance
      <3>3. Credit + (Cardinality(Sent) + 1) = (Len(entries) + 1) + Len(batch) + Settled
        BY <3>2, BalanceTypes, AddBothSides, SMTT(30)
      <3> QED
        BY <2>2, <2>3, <3>1, <3>3 DEF Balance
    <2> QED
      BY <1>5, <2>5 DEF SubmitSend, AccountInv, Alive, closed
  <1>6. CASE SubmitCount(e)
    <2>1. Sent' = Sent \ {e} /\ e \in Sent
      BY <1>1, <1>6 DEF SubmitCount, Sent
    <2>2. Cardinality(Sent') = Cardinality(Sent) - 1
      BY <2>1, SentFinite, FS_RemoveElement
    <2>3. /\ counters'["captureTotal"] = counters["captureTotal"] + 1
          /\ counters'["writeErrors"] = counters["writeErrors"]
          /\ counters'["storeErrors"] = counters["storeErrors"]
      BY <1>6, CountType DEF SubmitCount, CounterName, TypeOK
    <2>4. Balance
      BY <1>6 DEF SubmitCount, AccountInv, Alive
    <2>5. Balance'
      <3>1. UNCHANGED <<entries, batch, rows, bootRows>>
        BY <1>6 DEF SubmitCount
      <3>2. Settled' = Settled
        BY <2>3, <3>1 DEF Settled
      <3>3. Credit' = Credit + 1
        BY <2>3, <3>1, BalanceTypes DEF Credit
      <3> QED
        BY <2>2, <2>4, <3>1, <3>2, <3>3, BalanceTypes DEF Balance
    <2>6. \A f \in Entry : handler'[f] \in {"running", "sent"} =>
             handler[f] \in {"running", "sent"}
      BY <1>1, <1>6 DEF SubmitCount
    <2> QED
      BY <1>6, <2>5, <2>6 DEF SubmitCount, AccountInv, Alive
  <1> QED
    BY <1>3, <1>4, <1>5, <1>6 DEF Handler

\* A worker step moves an entry, or counts it, and touches nothing else.
LEMMA AccountWorker ==
  ASSUME TypeOK, AccountInv, Worker
  PROVE  AccountInv'
  <1> USE DEF handlerVars, mainVars, loopVars, diskVars, tableVars
  <1>1. Alive /\ UNCHANGED <<handler, phase, forced, bootRows>>
    BY DEF Worker, ReceiveSkipped, ReceiveWritten, ReceiveNotOpened, ReceiveNotWritten,
           Receive, Tick, ReceiveClosed, FlushSync, FlushInsert, FlushRetry, FlushGiveUp
  <1>2. Balance /\ Sent' = Sent
    BY <1>1 DEF AccountInv, Alive, Sent
  <1>3. SUFFICES Balance'
    BY <1>1, <1>3 DEF AccountInv, Alive
  <1>4. ASSUME NEW e \in Entry, Receive(e)
        PROVE  Len(entries') = Len(entries) - 1
    BY <1>4, ReceiveType
  <1>5. ASSUME NEW rec \in Record, Collect(rec)
        PROVE  Len(batch') = Len(batch) + 1
    BY <1>5, AppendProperties DEF Collect, TypeOK
  <1>6. ASSUME NEW e \in Entry, ReceiveSkipped(e)
        PROVE  Balance'
    <2>1. Len(entries') = Len(entries) - 1
      BY <1>4, <1>6 DEF ReceiveSkipped
    <2>2. [entry |-> e, path |-> NoPath, offset |-> 0] \in Record
      BY DEF Record
    <2>3. Len(batch') = Len(batch) + 1
      BY <1>5, <1>6, <2>2 DEF ReceiveSkipped
    <2>4. Credit' = Credit /\ Settled' = Settled
      BY <1>6 DEF ReceiveSkipped, Credit, Settled
    <2> QED
      BY <1>2, <2>1, <2>3, <2>4, BalanceTypes DEF Balance
  <1>7. ASSUME NEW e \in Entry, NEW h \in Hour, ReceiveWritten(e, h)
        PROVE  Balance'
    <2>1. Len(entries') = Len(entries) - 1
      BY <1>4, <1>7 DEF ReceiveWritten
    <2>2. Len(batch') = Len(batch) + 1
      BY <1>5, <1>7, WrittenType DEF ReceiveWritten
    <2>3. UNCHANGED <<counters, rows, bootRows>>
      BY <1>7 DEF ReceiveWritten
    <2>4. Credit' = Credit /\ Settled' = Settled
      BY <2>3 DEF Credit, Settled
    <2> QED
      BY <1>2, <2>1, <2>2, <2>4, BalanceTypes DEF Balance
  <1>8. ASSUME NEW e \in Entry, Receive(e), Count("writeErrors", 1),
               UNCHANGED <<batch, rows, bootRows>>
        PROVE  Balance'
    <2>1. Len(entries') = Len(entries) - 1
      BY <1>4, <1>8
    <2>2. /\ counters'["captureTotal"] = counters["captureTotal"]
          /\ counters'["writeErrors"] = counters["writeErrors"] + 1
          /\ counters'["storeErrors"] = counters["storeErrors"]
      BY <1>8, CountType DEF CounterName, TypeOK
    <2> QED
      <3>1. Credit' = Credit
        BY <1>8, <2>2 DEF Credit
      <3>2. Settled' = Settled + 1
        BY <1>8, <2>2, BalanceTypes, SMTT(30) DEF Settled
      <3> QED
        BY <1>2, <1>8, <2>1, <3>1, <3>2, BalanceTypes DEF Balance
  <1>9. ASSUME NEW e \in Entry,
               ReceiveNotOpened(e) \/ \E h \in Hour : ReceiveNotWritten(e, h)
        PROVE  Balance'
    BY <1>8, <1>9 DEF ReceiveNotOpened, ReceiveNotWritten
  <1>10. CASE Tick \/ ReceiveClosed \/ FlushSync \/ FlushRetry
    BY <1>2, <1>10 DEF Tick, ReceiveClosed, FlushSync, FlushRetry, Balance, Credit, Settled
  <1>11. FlushDone => Len(batch') = 0
    BY DEF FlushDone
  <1>12. CASE FlushInsert
    <2>1. Len(rows') = Len(rows) + Len(batch)
      BY <1>12, ConcatProperties DEF FlushInsert, TypeOK
    <2> QED
      <3>1. UNCHANGED <<entries, counters, bootRows>> /\ Len(batch') = 0
        BY <1>11, <1>12 DEF FlushInsert
      <3>2. Credit' = Credit
        BY <3>1 DEF Credit
      <3>3. Settled' = Settled + Len(batch)
        BY <2>1, <3>1, BalanceTypes, SMTT(30) DEF Settled
      <3> QED
        BY <1>2, <3>1, <3>2, <3>3, BalanceTypes DEF Balance
  <1>13. CASE FlushGiveUp
    <2>1. /\ counters'["captureTotal"] = counters["captureTotal"]
          /\ counters'["writeErrors"] = counters["writeErrors"]
          /\ counters'["storeErrors"] = counters["storeErrors"] + Len(batch)
      BY <1>13, BalanceTypes, CountType DEF FlushGiveUp, CounterName, TypeOK
    <2> QED
      <3>1. UNCHANGED <<entries, rows, bootRows>> /\ Len(batch') = 0
        BY <1>11, <1>13 DEF FlushGiveUp
      <3>2. Credit' = Credit
        BY <2>1, <3>1 DEF Credit
      <3>3. Settled' = Settled + Len(batch)
        BY <2>1, <3>1, BalanceTypes DEF Settled
      <3> QED
        BY <1>2, <3>1, <3>2, <3>3, BalanceTypes DEF Balance
  <1> QED
    BY <1>6, <1>7, <1>9, <1>10, <1>12, <1>13 DEF Worker

\* main() moves no entry, and stops the handlers before it closes the channel.
LEMMA AccountMain ==
  ASSUME TypeOK, LoopInv, AccountInv,
         Signal \/ CloseEntries \/ CloseWriter \/ Crash \/ Restart
  PROVE  AccountInv'
  <1> USE DEF handlerVars, mainVars, loopVars, diskVars, tableVars
  <1>1. CASE Signal
    BY <1>1 DEF Signal, AccountInv, Balance, Credit, Settled, Sent
  <1>2. CASE CloseEntries
    BY <1>2 DEF CloseEntries, AccountInv, Balance, Credit, Settled, Sent
  <1>3. CASE CloseWriter
    BY <1>3 DEF CloseWriter, AccountInv, Balance, Credit, Settled, Sent
  <1>4. CASE Crash
    BY <1>4 DEF Crash, AccountInv
  <1>5. CASE Restart
    <2>1. Sent' = {}
      BY <1>5 DEF Restart, Sent, TypeOK, HandlerState
    <2>2. Cardinality(Sent') = 0
      BY <2>1, FS_EmptySet
    <2>3. Len(entries') = 0 /\ Len(batch') = 0
      BY <1>5 DEF Restart, LoopInv, Alive
    <2>4. /\ counters'["captureTotal"] = 0 /\ counters'["writeErrors"] = 0
          /\ counters'["storeErrors"] = 0
      BY <1>5 DEF Restart, CounterName
    <2>5. rows' = rows /\ bootRows' = Len(rows) /\ Len(rows) \in Nat
      BY <1>5, BalanceTypes DEF Restart
    <2>6. Balance'
      BY <2>2, <2>3, <2>4, <2>5 DEF Balance, Credit, Settled
    <2> QED
      BY <1>5, <2>6 DEF Restart, AccountInv
  <1> QED
    BY <1>1, <1>2, <1>3, <1>4, <1>5

\* AccountInv is inductive, given the types and LoopInv.
LEMMA AccountNext == TypeInv /\ LoopInv /\ AccountInv /\ [Next]_vars => AccountInv'
  <1> SUFFICES ASSUME TypeInv, LoopInv, AccountInv, [Next]_vars PROVE AccountInv'
    OBVIOUS
  <1>1. CASE Next
    BY <1>1, AccountHandler, AccountWorker, AccountMain DEF Next, TypeInv
  <1>2. CASE UNCHANGED vars
    BY <1>2 DEF vars, handlerVars, mainVars, loopVars, diskVars, tableVars,
                AccountInv, Balance, Credit, Settled, Sent
  <1> QED
    BY <1>1, <1>2

\* The books balance throughout, until a crash.
LEMMA AccountInvariant == Spec => []AccountInv
  BY Invariants, AccountInit, AccountNext, PTL DEF Spec

\* No accepted entry leaves the channel, the batch and the table without
\* being counted as an error.
THEOREM BooksBalance == Spec => []Accounting
  <1>1. AccountInv => Accounting
    BY DEF AccountInv, Accounting, Balance, Credit, Settled, Alive
  <1> QED
    BY <1>1, AccountInvariant, PTL

\* After a shutdown no handler outlived, what was counted as captured is in
\* the table or was counted as an error.
THEOREM ExitIsExact == Spec => []ExactAccountsAtExit
  <1>1. TypeInv /\ LoopInv /\ AccountInv => ExactAccountsAtExit
    <2> SUFFICES ASSUME TypeInv, LoopInv, AccountInv, phase = "exited"
                 PROVE  /\ entries = <<>> /\ batch = <<>> /\ pool = <<>>
                        /\ ~forced => counters["captureTotal"]
                             = Len(rows) - bootRows + counters["writeErrors"]
                               + counters["storeErrors"]
      BY DEF ExactAccountsAtExit
    <2>1. entries = <<>> /\ batch = <<>> /\ pool = <<>> /\ Balance
      BY DEF LoopInv, AccountInv, Alive
    <2>2. ASSUME ~forced PROVE Cardinality(Sent) = 0
      <3>1. Sent = {}
        BY <2>2 DEF AccountInv, Sent
      <3> QED
        BY <3>1, FS_EmptySet
    <2>3. Len(entries) = 0 /\ Len(batch) = 0
      BY <2>1
    <2> QED
      BY <2>1, <2>2, <2>3, BalanceTypes, SMTT(30) DEF Balance, Credit, Settled, TypeInv
  <1> QED
    BY <1>1, Invariants, AccountInvariant, PTL

----------------------------------------------------------------------------
(* Durability.  flush syncs the open files only, so the invariant follows  *)
(* every record of the batch: its line is in the file, and either synced   *)
(* already or in a file that is still open.  Nothing is said of a file a   *)
(* Sync has failed for.                                                    *)

Written(r) ==
    \/ r.path \in unsynced \cup {NoPath}
    \/ /\ r.offset \in 1..Len(files[r.path])
       /\ files[r.path][r.offset] = MarshalJSONL(r.entry)
       /\ r.offset <= synced[r.path] \/ r.path \in InPool

DurableInv ==
    /\ \A q \in Path : synced[q] <= Len(files[q])
    /\ \A i \in 1..Len(rows) : Durable(rows[i])
    /\ Alive => \A i \in 1..Len(batch) : Written(batch[i])
    /\ Alive /\ pc = "insert" => \A i \in 1..Len(batch) : Durable(batch[i])

\* The synced part of every file stays as it is.
Keeps ==
    /\ unsynced \subseteq unsynced'
    /\ \A q \in Path : /\ synced[q] <= synced'[q] /\ synced'[q] <= Len(files'[q])
                       /\ \A i \in 1..synced[q] : files'[q][i] = files[q][i]

\* All of every file stays as it is, and a file that is closed is synced, or its
\* Sync has failed.
Extends ==
    /\ unsynced \subseteq unsynced'
    /\ \A q \in Path :
          /\ synced[q] <= synced'[q] /\ synced'[q] <= Len(files'[q])
          /\ Len(files[q]) <= Len(files'[q])
          /\ \A i \in 1..Len(files[q]) : files'[q][i] = files[q][i]
          /\ q \in InPool => \/ q \in InPool' \cup unsynced'
                             \/ Len(files[q]) <= synced'[q]

\* The lengths of a file and of its synced part are numbers.
LEMMA DiskTypes ==
  ASSUME TypeOK, NEW q \in Path
  PROVE  synced[q] \in Nat /\ Len(files[q]) \in Nat
  BY LenProperties DEF TypeOK

\* A disk that is only appended to keeps what is synced.
LEMMA ExtendsKeeps ==
  ASSUME TypeOK, DurableInv, Extends
  PROVE  Keeps
  BY DiskTypes DEF DurableInv, Extends, Keeps

\* A durable line stays durable.
LEMMA DurableKept ==
  ASSUME TypeOK, TypeOK', Keeps
  PROVE  \A r \in Record : Durable(r) => Durable(r)'
  <1> SUFFICES ASSUME NEW r \in Record, Durable(r), r.path \notin unsynced' \cup {NoPath}
               PROVE  Durable(r)'
    BY DEF Durable
  <1>1. r.path \in Path /\ r.path \notin unsynced \cup {NoPath} /\ r.offset \in Nat
    BY DEF Record, Keeps
  <1>2. synced[r.path] \in Nat /\ synced'[r.path] \in Nat
    BY <1>1 DEF TypeOK
  <1>3. /\ r.offset \in 1..synced[r.path]
        /\ files[r.path][r.offset] = MarshalJSONL(r.entry)
    BY <1>1 DEF Durable
  <1>4. /\ synced[r.path] <= synced'[r.path] /\ synced'[r.path] <= Len(files'[r.path])
        /\ files'[r.path][r.offset] = files[r.path][r.offset]
    BY <1>1, <1>3 DEF Keeps
  <1> QED
    BY <1>1, <1>2, <1>3, <1>4 DEF Durable, MarshalJSONL

\* A written line stays written.
LEMMA WrittenKept ==
  ASSUME TypeOK, TypeOK', Extends
  PROVE  \A r \in Record : Written(r) => Written(r)'
  <1> SUFFICES ASSUME NEW r \in Record, Written(r), r.path \notin unsynced' \cup {NoPath}
               PROVE  Written(r)'
    BY DEF Written
  <1>1. r.path \in Path /\ r.path \notin unsynced \cup {NoPath} /\ r.offset \in Nat
    BY DEF Record, Extends
  <1>2. /\ synced[r.path] \in Nat /\ Len(files[r.path]) \in Nat
        /\ synced'[r.path] \in Nat /\ Len(files'[r.path]) \in Nat
    BY <1>1, LenProperties DEF TypeOK
  <1>3. /\ r.offset \in 1..Len(files[r.path])
        /\ files[r.path][r.offset] = MarshalJSONL(r.entry)
        /\ r.offset <= synced[r.path] \/ r.path \in InPool
    BY <1>1 DEF Written
  <1>4. /\ synced[r.path] <= synced'[r.path]
        /\ Len(files[r.path]) <= Len(files'[r.path])
        /\ files'[r.path][r.offset] = files[r.path][r.offset]
        /\ r.path \in InPool => r.path \in InPool' \/ Len(files[r.path]) <= synced'[r.path]
    BY <1>1, <1>3 DEF Extends
  <1>5. r.offset \in 1..Len(files'[r.path])
    BY <1>1, <1>2, <1>3, <1>4
  <1>6. r.offset <= synced'[r.path] \/ r.path \in InPool'
    BY <1>1, <1>2, <1>3, <1>4
  <1>7. files'[r.path][r.offset] = MarshalJSONL(r.entry)
    BY <1>3, <1>4
  <1> QED
    BY <1>5, <1>6, <1>7 DEF Written, MarshalJSONL

\* Syncing a set of files makes all of each durable, or has failed for it.
LEMMA SyncFilesDo ==
  ASSUME TypeOK, DurableInv, NEW P, SyncFiles(P)
  PROVE  /\ unsynced \subseteq unsynced'
         /\ \A q \in Path : /\ synced[q] <= synced'[q] /\ synced'[q] <= Len(files[q])
                            /\ q \in P => q \in unsynced' \/ synced'[q] = Len(files[q])
  <1>1. PICK S \in Fsynced(P) :
           unsynced' = unsynced \cup (P \ S) /\ synced' = SyncedBy(S \ unsynced)
    BY DEF SyncFiles
  <1>2. \A q \in Path : synced'[q] = IF q \in S \ unsynced THEN Len(files[q]) ELSE synced[q]
    BY <1>1 DEF SyncedBy
  <1>3. \A q \in Path : synced[q] <= Len(files[q]) /\ synced[q] \in Nat /\ Len(files[q]) \in Nat
    BY DiskTypes DEF DurableInv
  <1> QED
    BY <1>1, <1>2, <1>3

\* Get alone: no file changes, and what it closes it has tried to sync.
LEMMA PoolGetExtends ==
  ASSUME TypeOK, DurableInv, NEW p \in Path, PoolGet(p)
  PROVE  /\ unsynced \subseteq unsynced'
         /\ \A q \in Path : /\ synced[q] <= synced'[q] /\ synced'[q] <= Len(files[q])
                            /\ q \in InPool => \/ q \in InPool' \cup unsynced'
                                               \/ synced'[q] = Len(files[q])
  <1>0. unsynced \subseteq unsynced'
    BY SyncFilesDo DEF PoolGet, PoolHit, PoolMiss
  <1> SUFFICES ASSUME NEW q \in Path
               PROVE  /\ synced[q] <= synced'[q] /\ synced'[q] <= Len(files[q])
                      /\ q \in InPool => \/ q \in InPool' \cup unsynced'
                                         \/ synced'[q] = Len(files[q])
    BY <1>0
  <1>1. synced[q] <= Len(files[q]) /\ synced[q] \in Nat /\ Len(files[q]) \in Nat
    BY DiskTypes DEF DurableInv
  <1>2. CASE PoolHit(p)
    <2>1. PICK k \in 1..Len(pool) : pool[k] = p /\ pool' = MovedToFront(k) /\ synced' = synced
      BY <1>2 DEF PoolHit
    <2>2. \A i \in 1..Len(pool) : \E j \in 1..Len(pool) : MovedToFront(k)[j] = pool[i]
      <3> SUFFICES ASSUME NEW i \in 1..Len(pool)
                   PROVE  \E j \in 1..Len(pool) : MovedToFront(k)[j] = pool[i]
        OBVIOUS
      <3>1. Len(pool) \in Nat
        BY LenProperties DEF TypeOK
      <3>2. \A j \in 1..Len(pool) : MovedToFront(k)[j] =
              IF j = 1 THEN pool[k] ELSE IF j <= k THEN pool[j - 1] ELSE pool[j]
        BY DEF MovedToFront
      <3>3. CASE i = k
        BY <3>1, <3>2, <3>3
      <3>4. CASE i < k
        BY <3>1, <3>2, <3>4, i + 1 \in 1..Len(pool)
      <3>5. CASE i > k
        BY <3>1, <3>2, <3>5
      <3> QED
        BY <3>1, <3>3, <3>4, <3>5
    <2>3. Len(pool') = Len(pool)
      BY <2>1, MovedToFrontType DEF TypeOK
    <2>4. q \in InPool => q \in InPool'
      BY <2>1, <2>2, <2>3 DEF InPool
    <2> QED
      BY <1>1, <2>1, <2>4
  <1>3. CASE PoolMiss(p)
    <2>1. /\ Len(pool) \in Nat /\ pool'[1] = p
          /\ \A i \in 2..Len(pool') : pool'[i] = pool[i - 1]
          /\ Len(pool') = IF Len(pool) >= PoolSize THEN Len(pool) ELSE Len(pool) + 1
      BY <1>3, PoolMissShape
    <2>2. CASE Len(pool) >= PoolSize
      <3>1. SyncFiles({pool[Len(pool)]})
        BY <1>3, <2>2 DEF PoolMiss
      <3>2. /\ synced[q] <= synced'[q] /\ synced'[q] <= Len(files[q])
            /\ q = pool[Len(pool)] => q \in unsynced' \/ synced'[q] = Len(files[q])
        BY <3>1, SyncFilesDo
      <3>3. ASSUME NEW i \in 1..Len(pool), pool[i] # pool[Len(pool)]
            PROVE  pool[i] \in InPool'
        <4>1. i + 1 \in 2..Len(pool')
          BY <2>1, <2>2, <3>3
        <4>2. pool'[i + 1] = pool[i]
          BY <2>1, <4>1, i + 1 - 1 = i
        <4> QED
          BY <2>1, <4>1, <4>2 DEF InPool
      <3> QED
        BY <1>1, <3>2, <3>3 DEF InPool
    <2>3. CASE ~(Len(pool) >= PoolSize)
      <3>1. synced' = synced
        BY <1>3, <2>3 DEF PoolMiss
      <3>2. ASSUME NEW i \in 1..Len(pool)
            PROVE  pool[i] \in InPool'
        <4>1. i + 1 \in 2..Len(pool')
          BY <2>1, <2>3
        <4>2. pool'[i + 1] = pool[i]
          BY <2>1, <4>1, i + 1 - 1 = i
        <4> QED
          BY <2>1, <4>1, <4>2 DEF InPool
      <3> QED
        BY <1>1, <3>1, <3>2 DEF InPool
    <2> QED
      BY <2>2, <2>3
  <1> QED
    BY <1>2, <1>3 DEF PoolGet

\* A Write extends the files, whatever it leaves in the one it was for.
LEMMA WriteExtends ==
  ASSUME TypeOK, DurableInv, NEW p \in Path, PoolGet(p),
         (\E c \in Cell : Appended(p, c)) \/ files' = files
  PROVE  Extends
  <1>1. \A q \in Path : /\ Len(files[q]) \in Nat /\ Len(files[q]) <= Len(files'[q])
                        /\ Len(files'[q]) \in Nat
                        /\ \A i \in 1..Len(files[q]) : files'[q][i] = files[q][i]
    <2>1. ASSUME NEW c \in Cell, Appended(p, c), NEW q \in Path
          PROVE  /\ Len(files[q]) \in Nat /\ Len(files[q]) <= Len(files'[q])
                 /\ Len(files'[q]) \in Nat
                 /\ \A i \in 1..Len(files[q]) : files'[q][i] = files[q][i]
      <3>1. Len(files[q]) \in Nat
        BY DiskTypes
      <3>2. CASE q = p
        BY <2>1, <3>1, <3>2, AppendedType
      <3>3. CASE q # p
        <4>1. files'[q] = files[q]
          BY <2>1, <3>3, AppendedType
        <4> QED
          BY <3>1, <4>1
      <3> QED
        BY <3>2, <3>3
    <2>2. ASSUME files' = files
          PROVE  \A q \in Path : /\ Len(files[q]) \in Nat /\ Len(files[q]) <= Len(files'[q])
                                 /\ Len(files'[q]) \in Nat
                                 /\ \A i \in 1..Len(files[q]) : files'[q][i] = files[q][i]
      BY <2>2, DiskTypes
    <2> QED
      BY <2>1, <2>2
  <1>2. /\ unsynced \subseteq unsynced'
        /\ \A q \in Path : /\ synced[q] <= synced'[q] /\ synced'[q] <= Len(files[q])
                           /\ q \in InPool => \/ q \in InPool' \cup unsynced'
                                              \/ synced'[q] = Len(files[q])
    BY PoolGetExtends
  <1>3. synced' \in [Path -> Nat]
    BY PoolGetType
  <1> QED
    BY <1>1, <1>2, <1>3 DEF Extends

\* Syncing a set of open files, and closing nothing or everything.
LEMMA SyncKeeps ==
  ASSUME TypeOK, DurableInv, files' = files, NEW P, SyncFiles(P)
  PROVE  Keeps
  BY SyncFilesDo, DiskTypes DEF Keeps

\* A crash keeps what was synced.
LEMMA CrashKeeps ==
  ASSUME TypeOK, DurableInv, Crash
  PROVE  Keeps
  <1> SUFFICES ASSUME NEW q \in Path
               PROVE  /\ synced[q] <= synced'[q] /\ synced'[q] <= Len(files'[q])
                      /\ \A i \in 1..synced[q] : files'[q][i] = files[q][i]
    BY DEF Keeps, Crash
  <1>1. synced' = synced /\ files'[q] \in Survivors(q)
    BY DEF Crash
  <1>2. synced[q] \in Nat /\ Len(files[q]) \in Nat /\ files[q] \in Seq(Cell)
    BY DiskTypes DEF TypeOK
  <1>3. ASSUME NEW n \in synced[q]..Len(files[q])
        PROVE  /\ SubSeq(files[q], 1, n) \in Seq(Cell) /\ Len(SubSeq(files[q], 1, n)) = n
               /\ \A i \in 1..n : SubSeq(files[q], 1, n)[i] = files[q][i]
    BY <1>2, <1>3, PrefixProperties
  <1>4. CASE \E n \in synced[q]..Len(files[q]) : files'[q] = SubSeq(files[q], 1, n)
    BY <1>1, <1>2, <1>3, <1>4
  <1>5. CASE \E n \in synced[q]..(Len(files[q]) - 1) :
               files'[q] = Append(SubSeq(files[q], 1, n), Torn)
    <2>1. PICK n \in synced[q]..(Len(files[q]) - 1) :
               files'[q] = Append(SubSeq(files[q], 1, n), Torn)
      BY <1>5
    <2>2. n \in synced[q]..Len(files[q]) /\ n \in Nat
      BY <1>2
    <2>3. Torn \in Cell
      BY DEF Cell
    <2>4. /\ Len(files'[q]) = n + 1
          /\ \A i \in 1..n : files'[q][i] = files[q][i]
      BY <1>3, <2>1, <2>2, <2>3, AppendProperties
    <2> QED
      BY <1>1, <1>2, <2>2, <2>4
  <1> QED
    BY <1>1, <1>4, <1>5 DEF Survivors

\* Nothing is indexed or batched when there is no row.
LEMMA DurableInit == Init => DurableInv
  <1> SUFFICES ASSUME Init PROVE DurableInv
    OBVIOUS
  <1>1. Len(rows) = 0 /\ Len(batch) = 0
    BY DEF Init
  <1>2. \A q \in Path : synced[q] = 0 /\ Len(files[q]) = 0
    BY DEF Init
  <1> QED
    BY <1>1, <1>2 DEF Init, DurableInv

\* A step that leaves disk, table and batch alone and does not begin an insert.
LEMMA DurableFrame ==
  ASSUME DurableInv, UNCHANGED <<files, synced, unsynced, pool, rows, batch>>,
         Alive' => Alive, pc' = "insert" => pc = "insert"
  PROVE  DurableInv'
  <1>1. \A q \in Path : synced'[q] <= Len(files'[q])
    BY DEF DurableInv
  <1>2. \A i \in 1..Len(rows') : Durable(rows[i])'
    BY DEF DurableInv, Durable, MarshalJSONL
  <1>3. Alive' => \A i \in 1..Len(batch') : Written(batch[i])'
    BY DEF DurableInv, Written, InPool, MarshalJSONL
  <1>4. Alive' /\ pc' = "insert" => \A i \in 1..Len(batch') : Durable(batch[i])'
    BY DEF DurableInv, Durable, MarshalJSONL
  <1> QED
    BY <1>1, <1>2, <1>3, <1>4 DEF DurableInv

\* The rows stay durable in a step that keeps what is synced.
LEMMA DurableRows ==
  ASSUME TypeOK, TypeOK', DurableInv, Keeps, UNCHANGED rows
  PROVE  /\ \A q \in Path : synced'[q] <= Len(files'[q])
         /\ \A i \in 1..Len(rows') : Durable(rows[i])'
  <1>1. \A i \in 1..Len(rows) : rows[i] \in Record /\ Durable(rows[i])
    BY ElementOfSeq DEF TypeOK, DurableInv
  <1>2. \A r \in Record : Durable(r) => Durable(r)'
    BY DurableKept
  <1>3. \A i \in 1..Len(rows') : Durable(rows[i])'
    BY <1>1, <1>2 DEF Durable, MarshalJSONL
  <1> QED
    BY <1>3 DEF Keeps

\* A step of the worker that extends the files, keeps or extends the batch
\* by a written record, and does not begin an insert.
LEMMA DurableCollect ==
  ASSUME TypeOK, TypeOK', DurableInv, Alive, Extends, UNCHANGED rows, pc' # "insert",
         NEW rec \in Record,
         batch' = batch \/ (batch' = Append(batch, rec) /\ Written(rec)')
  PROVE  DurableInv'
  <1>1. /\ \A q \in Path : synced'[q] <= Len(files'[q])
        /\ \A i \in 1..Len(rows') : Durable(rows[i])'
    BY ExtendsKeeps, DurableRows
  <1>2. \A i \in 1..Len(batch) : batch[i] \in Record /\ Written(batch[i])
    BY ElementOfSeq DEF TypeOK, DurableInv
  <1>3. \A r \in Record : Written(r) => Written(r)'
    BY WrittenKept
  <1>4. \A i \in 1..Len(batch') : Written(batch[i])'
    <2>1. CASE batch' = batch
      BY <1>2, <1>3, <2>1 DEF Written, InPool, MarshalJSONL
    <2>2. CASE batch' = Append(batch, rec) /\ Written(rec)'
      <3>1. /\ Len(batch') = Len(batch) + 1 /\ Len(batch) \in Nat
            /\ \A i \in 1..Len(batch) : batch'[i] = batch[i]
            /\ batch'[Len(batch) + 1] = rec
        BY <2>2, AppendProperties, LenProperties DEF TypeOK
      <3> SUFFICES ASSUME NEW i \in 1..Len(batch')
                   PROVE  Written(batch[i])'
        OBVIOUS
      <3>2. CASE i \in 1..Len(batch)
        <4>1. batch'[i] = batch[i]
          BY <3>1, <3>2
        <4> QED
          BY <1>2, <1>3, <3>2, <4>1 DEF Written, InPool, MarshalJSONL
      <3>3. CASE i = Len(batch) + 1
        <4>1. batch'[i] = rec
          BY <3>1, <3>3
        <4> QED
          BY <2>2, <4>1 DEF Written, InPool, MarshalJSONL
      <3> QED
        BY <3>1, <3>2, <3>3
    <2> QED
      BY <2>1, <2>2
  <1> QED
    BY <1>1, <1>4 DEF DurableInv

\* The record of the line just appended is written: its file is open.
LEMMA NewRecordWritten ==
  ASSUME TypeOK, PoolSound, NEW e \in Entry, NEW p \in Path,
         PoolGet(p), Appended(p, MarshalJSONL(e)), MarshalJSONL(e) \in Cell,
         NEW rec \in Record,
         rec = [entry |-> e, path |-> p, offset |-> Len(files[p]) + 1]
  PROVE  Written(rec)'
  <1>1. p \in InPool' /\ Len(files[p]) \in Nat
    BY PoolGetSound, DiskTypes
  <1>2. /\ Len(files'[p]) = Len(files[p]) + 1
        /\ files'[p][Len(files[p]) + 1] = MarshalJSONL(e)
    BY AppendedType
  <1>3. rec.entry = e /\ rec.path = p /\ rec.offset = Len(files[p]) + 1
    OBVIOUS
  <1>4. rec.offset \in 1..Len(files'[p]) /\ files'[p][rec.offset] = MarshalJSONL(e)
    BY <1>1, <1>2, <1>3
  <1> QED
    BY <1>1, <1>3, <1>4 DEF Written, MarshalJSONL

\* The batch is made durable by syncing every open file.
LEMMA DurableFlushSync ==
  ASSUME TypeOK, TypeOK', DurableInv, FlushSync
  PROVE  DurableInv'
  <1>1. /\ Alive /\ SyncFiles(InPool)
        /\ UNCHANGED <<files, pool, rows, batch, phase>>
    BY DEF FlushSync, mainVars, tableVars
  <1>2. /\ Keeps
        /\ \A q \in Path : /\ synced[q] <= synced'[q]
                           /\ q \in InPool => q \in unsynced' \/ synced'[q] = Len(files[q])
    BY <1>1, SyncKeeps, SyncFilesDo
  <1>3. /\ \A q \in Path : synced'[q] <= Len(files'[q])
        /\ \A i \in 1..Len(rows') : Durable(rows[i])'
    BY <1>1, <1>2, DurableRows
  <1>4. \A i \in 1..Len(batch) : batch[i] \in Record /\ Written(batch[i])
    BY <1>1, ElementOfSeq DEF TypeOK, DurableInv
  <1>5. ASSUME NEW r \in Record, Written(r)
        PROVE  Written(r)' /\ Durable(r)'
    <2>1. CASE r.path \in unsynced' \cup {NoPath}
      BY <2>1 DEF Written, Durable
    <2>2. CASE r.path \notin unsynced' \cup {NoPath}
      <3>1. /\ r.path \in Path /\ r.path \notin unsynced \cup {NoPath} /\ r.offset \in Nat
            /\ Len(files[r.path]) \in Nat /\ synced[r.path] \in Nat
            /\ synced'[r.path] \in Nat
        BY <1>2, <2>2, DiskTypes DEF Record, TypeOK, Keeps
      <3>2. /\ r.offset \in 1..Len(files[r.path])
            /\ files[r.path][r.offset] = MarshalJSONL(r.entry)
            /\ r.offset <= synced[r.path] \/ r.path \in InPool
        BY <1>5, <3>1 DEF Written
      <3>3. r.offset \in 1..synced'[r.path] /\ synced'[r.path] <= Len(files[r.path])
        BY <1>1, <1>2, <1>3, <2>2, <3>1, <3>2
      <3> QED
        BY <1>1, <3>1, <3>2, <3>3 DEF Written, Durable, MarshalJSONL, InPool
    <2> QED
      BY <2>1, <2>2
  <1>6. \A i \in 1..Len(batch') : Written(batch[i])'
    BY <1>1, <1>4, <1>5 DEF Written, InPool, MarshalJSONL
  <1>7. \A i \in 1..Len(batch') : Durable(batch[i])'
    BY <1>1, <1>4, <1>5 DEF Durable, MarshalJSONL
  <1> QED
    BY <1>3, <1>6, <1>7 DEF DurableInv

\* The rows inserted are the durable records of the batch.
LEMMA DurableFlushInsert ==
  ASSUME TypeOK, DurableInv, FlushInsert
  PROVE  DurableInv'
  <1>1. /\ Alive /\ pc = "insert" /\ rows' = rows \o batch /\ batch' = <<>>
        /\ UNCHANGED <<files, synced, unsynced>>
    BY DEF FlushInsert, FlushDone, diskVars
  <1>2. /\ Len(rows') = Len(rows) + Len(batch)
        /\ Len(rows) \in Nat /\ Len(batch) \in Nat /\ Len(batch') = 0
        /\ \A i \in 1..Len(rows') :
              rows'[i] = IF i <= Len(rows) THEN rows[i] ELSE batch[i - Len(rows)]
    BY <1>1, ConcatProperties, LenProperties DEF TypeOK
  <1>3. ASSUME NEW i \in 1..Len(rows')
        PROVE  Durable(rows[i])'
    <2>1. CASE i <= Len(rows)
      <3>1. i \in 1..Len(rows) /\ rows'[i] = rows[i]
        BY <1>2, <2>1
      <3> QED
        BY <1>1, <3>1 DEF DurableInv, Durable, MarshalJSONL
    <2>2. CASE ~(i <= Len(rows))
      <3>1. i - Len(rows) \in 1..Len(batch) /\ rows'[i] = batch[i - Len(rows)]
        BY <1>2, <2>2
      <3> QED
        BY <1>1, <3>1 DEF DurableInv, Durable, MarshalJSONL
    <2> QED
      BY <2>1, <2>2
  <1>4. \A q \in Path : synced'[q] <= Len(files'[q])
    BY <1>1 DEF DurableInv
  <1> QED
    BY <1>2, <1>3, <1>4 DEF DurableInv

\* A step that ends with an empty batch on a disk that keeps what is synced.
LEMMA DurableEmpty ==
  ASSUME TypeOK, TypeOK', DurableInv, Keeps, UNCHANGED rows, batch' = <<>>
  PROVE  DurableInv'
  <1>1. Len(batch') = 0
    OBVIOUS
  <1> QED
    BY <1>1, DurableRows DEF DurableInv

\* A disk that does not change keeps what is synced.
LEMMA UnchangedKeeps ==
  ASSUME TypeOK, DurableInv, UNCHANGED <<files, synced, unsynced>>
  PROVE  Keeps
  BY DiskTypes DEF DurableInv, Keeps

\* A step of processLoop keeps every indexed line durable.
LEMMA DurableWorker ==
  ASSUME TypeOK, TypeOK', PoolSound, DurableInv, Worker
  PROVE  DurableInv'
  <1> USE DEF handlerVars, mainVars, loopVars, diskVars, tableVars
  <1>1. ASSUME NEW e \in Entry, NEW h \in Hour, ReceiveWritten(e, h)
        PROVE  DurableInv'
    <2> DEFINE p == <<ProjectOf[e], h>>
    <2>1. p \in Path /\ MarshalJSONL(e) \in Cell
      BY WrittenType
    <2>2. PICK rec \in Record :
             rec = [entry |-> e, path |-> p, offset |-> Len(files[p]) + 1]
      BY WrittenType
    <2>3. /\ Alive /\ PoolGet(p) /\ Appended(p, MarshalJSONL(e))
          /\ UNCHANGED rows /\ Collect(rec)
      BY <1>1, <2>2 DEF ReceiveWritten, Receive
    <2>4. Written(rec)'
      BY <2>1, <2>2, <2>3, NewRecordWritten
    <2>5. batch' = Append(batch, rec) /\ pc' # "insert"
      BY <2>3 DEF Collect
    <2>6. Extends
      BY <2>1, <2>3, WriteExtends
    <2> QED
      BY <2>3, <2>4, <2>5, <2>6, DurableCollect
  <1>2. ASSUME NEW e \in Entry, NEW h \in Hour, ReceiveNotWritten(e, h)
        PROVE  DurableInv'
    <2> DEFINE p == <<ProjectOf[e], h>>
    <2>1. p \in Path /\ Torn \in Cell
      BY WrittenType
    <2>2. /\ Alive /\ PoolGet(p) /\ (Appended(p, Torn) \/ files' = files)
          /\ UNCHANGED <<rows, batch, pc>> /\ pc = "select"
      BY <1>2 DEF ReceiveNotWritten, Receive
    <2>3. Extends
      BY <2>1, <2>2, WriteExtends
    <2>4. [entry |-> e, path |-> NoPath, offset |-> 0] \in Record
      BY DEF Record
    <2> QED
      BY <2>2, <2>3, <2>4, DurableCollect
  <1>3. ASSUME NEW e \in Entry, ReceiveSkipped(e)
        PROVE  DurableInv'
    <2> DEFINE rec == [entry |-> e, path |-> NoPath, offset |-> 0]
    <2>1. rec \in Record /\ rec.path = NoPath
      BY DEF Record
    <2>2. /\ Alive /\ UNCHANGED <<files, synced, unsynced, pool, rows>> /\ Collect(rec)
      BY <1>3 DEF ReceiveSkipped, Receive
    <2>3. batch' = Append(batch, rec) /\ pc' # "insert"
      BY <2>2 DEF Collect
    <2>4. Extends
      BY <2>2, DiskTypes DEF DurableInv, Extends, InPool
    <2>5. Written(rec)'
      BY <2>1 DEF Written
    <2> HIDE DEF rec
    <2> QED
      BY <2>1, <2>2, <2>3, <2>4, <2>5, DurableCollect
  <1>4. ASSUME NEW e \in Entry, ReceiveNotOpened(e)
        PROVE  DurableInv'
    <2>1. UNCHANGED <<files, synced, unsynced, pool, rows, batch, phase, pc>>
      BY <1>4 DEF ReceiveNotOpened
    <2> QED
      BY <2>1, DurableFrame DEF Alive
  <1>5. CASE Tick
    BY <1>5, DurableFrame DEF Tick, Alive
  <1>6. CASE ReceiveClosed
    <2>1. UNCHANGED <<files, synced, unsynced, pool, rows, batch, phase>> /\ pc' # "insert"
      BY <1>6 DEF ReceiveClosed
    <2> QED
      BY <2>1, DurableFrame DEF Alive
  <1>7. CASE FlushRetry
    BY <1>7, DurableFrame DEF FlushRetry, Alive
  <1>8. CASE FlushGiveUp
    BY <1>8, UnchangedKeeps, DurableEmpty DEF FlushGiveUp, FlushDone
  <1> QED
    BY <1>1, <1>2, <1>3, <1>4, <1>5, <1>6, <1>7, <1>8, DurableFlushSync, DurableFlushInsert
       DEF Worker

\* DurableInv is inductive, whether File.Sync fails or not.
LEMMA DurableNext ==
  TypeInv /\ TypeInv' /\ LoopInv /\ LoopInv' /\ PoolSound /\ DurableInv
     /\ [Next]_vars => DurableInv'
  <1> SUFFICES ASSUME TypeInv, TypeInv', LoopInv, LoopInv', PoolSound,
                      DurableInv, [Next]_vars
               PROVE  DurableInv'
    OBVIOUS
  <1> USE DEF handlerVars, mainVars, loopVars, diskVars, tableVars
  <1>0. TypeOK /\ TypeOK'
    BY DEF TypeInv
  <1>1. ASSUME NEW e \in Entry, Handler(e)
        PROVE  DurableInv'
    <2>1. UNCHANGED <<files, synced, unsynced, pool, rows, batch, phase, pc>>
      BY <1>1 DEF Handler, BeginRequest, SkipCapture, SubmitSend, SubmitCount,
                  SubmitDrop, SubmitPanic
    <2> QED
      BY <2>1, DurableFrame DEF Alive
  <1>2. CASE Worker
    BY <1>0, <1>2, DurableWorker
  <1>3. CASE Signal \/ CloseEntries
    <2>1. UNCHANGED <<files, synced, unsynced, pool, rows, batch, pc>> /\ Alive
      BY <1>3 DEF Signal, CloseEntries, Alive
    <2> QED
      BY <2>1, DurableFrame
  <1>4. CASE CloseWriter
    <2>1. UNCHANGED <<files, rows>> /\ SyncFiles(InPool) /\ ~Alive'
      BY <1>4 DEF CloseWriter, Alive
    <2>2. batch' = <<>> /\ Keeps
      BY <1>0, <2>1, SyncKeeps DEF LoopInv
    <2> QED
      BY <1>0, <2>1, <2>2, DurableEmpty
  <1>5. CASE Crash
    <2>1. Keeps /\ UNCHANGED rows /\ batch' = <<>>
      BY <1>0, <1>5, CrashKeeps DEF Crash
    <2> QED
      BY <1>0, <2>1, DurableEmpty
  <1>6. CASE Restart
    <2>1. UNCHANGED <<files, synced, unsynced, rows, batch>> /\ batch = <<>>
      BY <1>6 DEF Restart, LoopInv, Alive
    <2> QED
      BY <1>0, <2>1, UnchangedKeeps, DurableEmpty
  <1>7. CASE UNCHANGED vars
    <2>1. UNCHANGED <<files, synced, unsynced, pool, rows, batch, phase, pc>>
      BY <1>7 DEF vars
    <2> QED
      BY <2>1, DurableFrame DEF Alive
  <1> QED
    BY <1>1, <1>2, <1>3, <1>4, <1>5, <1>6, <1>7 DEF Next

\* An indexed line is on disk, unharmed by crashes, torn writes, evictions and
\* whatever is written later, unless a Sync of its own file has failed.
THEOREM IndexedLinesAreDurable == Spec => []IndexedLinesDurable
  <1>1. DurableInv => IndexedLinesDurable
    BY DEF DurableInv, IndexedLinesDurable
  <1> QED
    BY <1>1, DurableInit, DurableNext, Invariants, PoolIsSound, PTL DEF Spec

----------------------------------------------------------------------------
(* The pipeline implements CaptureLedger.  The lemmas about Accept, Commit *)
(* and Lose are about any queue q and index x whose entries are distinct   *)
(* and all among those accepted, A: this is the invariant the mapping      *)
(* needs, for otherwise an entry could be lost and still be in the queue.  *)

Elements(s) == {s[i] : i \in 1..Len(s)}

Distinct(s) == \A i, j \in 1..Len(s) : s[i] = s[j] => i = j

Sound(q, x, A) ==
    /\ q \in Seq(Entry) /\ Distinct(q)
    /\ x \in Seq(Entry) /\ Distinct(x)
    /\ Elements(q) \cap Elements(x) = {}
    /\ Elements(q) \cup Elements(x) \subseteq A

LostOf(q, x, A) == A \ (Elements(q) \cup Elements(x))

\* Accepting an entry that was not accepted before.
LEMMA AcceptSound ==
  ASSUME NEW q, NEW x, NEW A, Sound(q, x, A), NEW e \in Entry, e \notin A
  PROVE  /\ Sound(Append(q, e), x, A \cup {e})
         /\ e \notin Elements(q) \cup Elements(x) \cup LostOf(q, x, A)
         /\ LostOf(Append(q, e), x, A \cup {e}) = LostOf(q, x, A)
  <1>1. q \in Seq(Entry) /\ Len(q) \in Nat
    BY LenProperties DEF Sound
  <1>2. PICK n \in Nat : n = Len(q)
    BY <1>1
  <1>3. /\ Append(q, e) \in Seq(Entry) /\ Len(Append(q, e)) = n + 1
        /\ \A i \in 1..n : Append(q, e)[i] = q[i]
        /\ Append(q, e)[n + 1] = e
    BY <1>1, <1>2, AppendProperties
  <1>4. Elements(Append(q, e)) = Elements(q) \cup {e}
    <2>1. Elements(Append(q, e)) \subseteq Elements(q) \cup {e}
      <3> SUFFICES ASSUME NEW i \in 1..(n + 1)
                   PROVE  Append(q, e)[i] \in Elements(q) \cup {e}
        BY <1>3 DEF Elements
      <3>1. CASE i = n + 1
        BY <3>1, <1>3
      <3>2. CASE i # n + 1
        BY <3>2, <1>2, <1>3 DEF Elements
      <3> QED
        BY <3>1, <3>2
    <2>2. Elements(q) \subseteq Elements(Append(q, e))
      <3> SUFFICES ASSUME NEW i \in 1..n
                   PROVE  q[i] \in Elements(Append(q, e))
        BY <1>2 DEF Elements
      <3>1. i \in 1..(n + 1)
        BY <1>2
      <3> QED
        BY <3>1, <1>3 DEF Elements
    <2>3. e \in Elements(Append(q, e))
      <3>1. n + 1 \in 1..(n + 1)
        BY <1>2
      <3> QED
        BY <3>1, <1>3 DEF Elements
    <2> QED
      BY <2>1, <2>2, <2>3
  <1>5. e \notin Elements(q) \cup Elements(x)
    BY DEF Sound
  <1>6. Distinct(Append(q, e))
    <2> SUFFICES ASSUME NEW i \in 1..(n + 1), NEW j \in 1..(n + 1),
                        Append(q, e)[i] = Append(q, e)[j]
                 PROVE  i = j
      BY <1>3 DEF Distinct
    <2>1. \A k \in 1..n : q[k] # e
      BY <1>2, <1>5 DEF Elements
    <2>2. CASE i \in 1..n /\ j \in 1..n
      BY <1>2, <1>3, <2>2 DEF Sound, Distinct
    <2>3. CASE i = n + 1 /\ j \in 1..n
      BY <1>3, <2>1, <2>3
    <2>4. CASE j = n + 1 /\ i \in 1..n
      BY <1>3, <2>1, <2>4
    <2> QED
      BY <1>2, <2>2, <2>3, <2>4
  <1> QED
    BY <1>3, <1>4, <1>5, <1>6 DEF Sound, LostOf

\* What a part of a sequence holds.
LEMMA PartOf ==
  ASSUME NEW S, NEW q \in Seq(S), NEW l \in Nat, l = Len(q),
         NEW m \in 1..(l + 1), NEW n \in (m - 1)..l
  PROVE  /\ SubSeq(q, m, n) \in Seq(S)
         /\ Len(SubSeq(q, m, n)) = n + 1 - m
         /\ \A i \in 1..(n + 1 - m) : SubSeq(q, m, n)[i] = q[m + i - 1]
  <1>1. m \in Int /\ n \in Int /\ \A i \in m..n : q[i] \in S
    BY ElementOfSeq
  <1>2. /\ SubSeq(q, m, n) \in Seq(S)
        /\ Len(SubSeq(q, m, n)) = IF m <= n THEN n - m + 1 ELSE 0
        /\ \A i \in 1..(n - m + 1) : SubSeq(q, m, n)[i] = q[m + i - 1]
    BY <1>1, SubSeqProperties
  <1>3. n + 1 - m = n - m + 1 /\ (IF m <= n THEN n - m + 1 ELSE 0) = n + 1 - m
    BY <1>1
  <1> QED
    BY <1>2, <1>3

\* What a concatenation holds.
LEMMA ElementsOfConcat ==
  ASSUME NEW S, NEW s \in Seq(S), NEW t \in Seq(S)
  PROVE  /\ Elements(s \o t) = Elements(s) \cup Elements(t)
         /\ Distinct(s) /\ Distinct(t) /\ Elements(s) \cap Elements(t) = {}
               => Distinct(s \o t)
  <1>1. PICK a \in Nat, b \in Nat : a = Len(s) /\ b = Len(t)
    BY LenProperties
  <1>2. /\ Len(s \o t) = a + b
        /\ \A i \in 1..(a + b) : (s \o t)[i] = IF i <= a THEN s[i] ELSE t[i - a]
    BY <1>1, ConcatProperties
  <1>3. Elements(s \o t) \subseteq Elements(s) \cup Elements(t)
    <2> SUFFICES ASSUME NEW i \in 1..(a + b)
                 PROVE  (s \o t)[i] \in Elements(s) \cup Elements(t)
      BY <1>2 DEF Elements
    <2>1. CASE i <= a
      <3>1. i \in 1..a
        BY <1>1, <2>1
      <3> QED
        BY <1>1, <1>2, <2>1, <3>1 DEF Elements
    <2>2. CASE ~(i <= a)
      <3>1. i - a \in 1..b
        BY <1>1, <2>2
      <3> QED
        BY <1>1, <1>2, <2>2, <3>1 DEF Elements
    <2> QED
      BY <2>1, <2>2
  <1>4. Elements(s) \subseteq Elements(s \o t)
    <2> SUFFICES ASSUME NEW i \in 1..a PROVE s[i] \in Elements(s \o t)
      BY <1>1 DEF Elements
    <2>1. i \in 1..(a + b) /\ i <= a
      BY <1>1
    <2> QED
      BY <2>1, <1>2 DEF Elements
  <1>5. Elements(t) \subseteq Elements(s \o t)
    <2> SUFFICES ASSUME NEW i \in 1..b PROVE t[i] \in Elements(s \o t)
      BY <1>1 DEF Elements
    <2>1. i + a \in 1..(a + b) /\ ~(i + a <= a) /\ i + a - a = i
      BY <1>1
    <2>2. (s \o t)[i + a] = t[i]
      BY <2>1, <1>2
    <2> QED
      BY <2>1, <2>2, <1>2 DEF Elements
  <1>6. ASSUME Distinct(s), Distinct(t), Elements(s) \cap Elements(t) = {}
        PROVE  Distinct(s \o t)
    <2> SUFFICES ASSUME NEW i \in 1..(a + b), NEW j \in 1..(a + b),
                        (s \o t)[i] = (s \o t)[j]
                 PROVE  i = j
      BY <1>2 DEF Distinct
    <2>1. \A k \in 1..a, l \in 1..b : s[k] # t[l]
      BY <1>1, <1>6 DEF Elements
    <2>2. /\ i <= a => i \in 1..a
          /\ j <= a => j \in 1..a
          /\ ~(i <= a) => i - a \in 1..b
          /\ ~(j <= a) => j - a \in 1..b
          /\ i - a = j - a => i = j
      BY <1>1
    <2>3. CASE i <= a /\ j <= a
      BY <1>1, <1>2, <1>6, <2>2, <2>3 DEF Distinct
    <2>4. CASE ~(i <= a) /\ ~(j <= a)
      BY <1>1, <1>2, <1>6, <2>2, <2>4 DEF Distinct
    <2>5. CASE i <= a /\ ~(j <= a)
      BY <1>2, <2>1, <2>2, <2>5
    <2>6. CASE ~(i <= a) /\ j <= a
      BY <1>2, <2>1, <2>2, <2>6
    <2> QED
      BY <2>3, <2>4, <2>5, <2>6
  <1> QED
    BY <1>3, <1>4, <1>5, <1>6

\* The two parts of q before m and after n, and what they hold.
PartsFit(S, q, m, n) ==
    LET a == SubSeq(q, 1, m - 1)
        b == SubSeq(q, n + 1, Len(q))
    IN  /\ a \in Seq(S) /\ Distinct(a)
        /\ b \in Seq(S) /\ Distinct(b)
        /\ Elements(a) \cap Elements(b) = {}
        /\ Elements(a) \cup Elements(b) = Elements(q) \ {q[i] : i \in m..n}

\* Two distant parts of a queue without duplicates share nothing, and miss
\* only what lies between them.
LEMMA PartsOf ==
  ASSUME NEW S, NEW q \in Seq(S), Distinct(q), NEW l \in Nat, l = Len(q),
         NEW m \in 1..(l + 1), NEW n \in (m - 1)..l
  PROVE  PartsFit(S, q, m, n)
  <1>1. /\ 1 \in 1..(l + 1) /\ m - 1 \in 0..l /\ m - 1 + 1 - 1 = m - 1
        /\ n + 1 \in 1..(l + 1) /\ l \in n..l /\ n + 1 - 1 = n
        /\ l + 1 - (n + 1) = l - n /\ 1 - 1 = 0
    OBVIOUS
  <1>2. /\ SubSeq(q, 1, m - 1) \in Seq(S)
        /\ Len(SubSeq(q, 1, m - 1)) = m - 1
        /\ \A i \in 1..(m - 1) : SubSeq(q, 1, m - 1)[i] = q[i]
    <2>1. /\ SubSeq(q, 1, m - 1) \in Seq(S)
          /\ Len(SubSeq(q, 1, m - 1)) = m - 1 + 1 - 1
          /\ \A i \in 1..(m - 1 + 1 - 1) : SubSeq(q, 1, m - 1)[i] = q[1 + i - 1]
      BY <1>1, PartOf
    <2>2. \A i \in 1..(m - 1) : 1 + i - 1 = i
      OBVIOUS
    <2> QED
      BY <1>1, <2>1, <2>2
  <1>3. /\ SubSeq(q, n + 1, l) \in Seq(S)
        /\ Len(SubSeq(q, n + 1, l)) = l - n
        /\ \A i \in 1..(l - n) : SubSeq(q, n + 1, l)[i] = q[n + i]
    <2>1. /\ SubSeq(q, n + 1, l) \in Seq(S)
          /\ Len(SubSeq(q, n + 1, l)) = l + 1 - (n + 1)
          /\ \A i \in 1..(l + 1 - (n + 1)) : SubSeq(q, n + 1, l)[i] = q[n + 1 + i - 1]
      BY <1>1, PartOf
    <2>2. \A i \in 1..(l - n) : n + 1 + i - 1 = n + i
      OBVIOUS
    <2> QED
      BY <1>1, <2>1, <2>2
  <1>4. /\ \A i \in 1..(m - 1) : i \in 1..l /\ i < m
        /\ \A i \in 1..(l - n) : n + i \in (n + 1)..l /\ n + i \in 1..l
        /\ \A i \in (n + 1)..l : i - n \in 1..(l - n) /\ n + (i - n) = i
        /\ \A i \in (n + 1)..l : i \in 1..l /\ ~(i < m)
        /\ \A i \in m..n : i \in 1..l /\ ~(i < m) /\ i \notin (n + 1)..l
        /\ \A i \in 1..l : i \in 1..(m - 1) \/ i \in m..n \/ i \in (n + 1)..l
        /\ \A i, j \in 1..(l - n) : n + i = n + j => i = j
    OBVIOUS
  <1>5. Elements(SubSeq(q, 1, m - 1)) = {q[i] : i \in 1..(m - 1)}
    BY <1>2 DEF Elements
  <1>6. Elements(SubSeq(q, n + 1, l)) = {q[i] : i \in (n + 1)..l}
    <2>1. Elements(SubSeq(q, n + 1, l)) = {q[n + i] : i \in 1..(l - n)}
      BY <1>3 DEF Elements
    <2> QED
      BY <1>4, <2>1
  <1>7. \A i, j \in 1..l : q[i] = q[j] => i = j
    BY DEF Distinct
  <1>8. Distinct(SubSeq(q, 1, m - 1))
    BY <1>2, <1>4, <1>7 DEF Distinct
  <1>9. Distinct(SubSeq(q, n + 1, l))
    <2>1. \A i, j \in 1..(l - n) : q[n + i] = q[n + j] => i = j
      BY <1>4, <1>7
    <2>2. PICK b, k : b = SubSeq(q, n + 1, l) /\ k = l - n
      OBVIOUS
    <2>3. Len(b) = k /\ \A i \in 1..k : b[i] = q[n + i]
      BY <1>3, <2>2
    <2>4. \A i, j \in 1..k : b[i] = b[j] => i = j
      BY <2>1, <2>2, <2>3
    <2> QED
      BY <2>2, <2>3, <2>4 DEF Distinct
  <1>10. {q[i] : i \in 1..(m - 1)} \cap {q[i] : i \in (n + 1)..l} = {}
    <2> SUFFICES ASSUME NEW i \in 1..(m - 1), NEW j \in (n + 1)..l, q[i] = q[j]
                 PROVE  FALSE
      OBVIOUS
    <2> QED
      BY <1>4, <1>7
  <1>11. {q[i] : i \in 1..(m - 1)} \cup {q[i] : i \in (n + 1)..l}
           = Elements(q) \ {q[i] : i \in m..n}
    <2>1. \A i \in 1..(m - 1) : q[i] \in Elements(q) \ {q[j] : j \in m..n}
      <3> SUFFICES ASSUME NEW i \in 1..(m - 1), NEW j \in m..n, q[i] = q[j]
                   PROVE  FALSE
        BY <1>4 DEF Elements
      <3> QED
        BY <1>4, <1>7
    <2>2. \A i \in (n + 1)..l : q[i] \in Elements(q) \ {q[j] : j \in m..n}
      <3> SUFFICES ASSUME NEW i \in (n + 1)..l, NEW j \in m..n, q[i] = q[j]
                   PROVE  FALSE
        BY <1>4 DEF Elements
      <3> QED
        BY <1>4, <1>7
    <2>3. \A i \in 1..l : q[i] \in {q[j] : j \in 1..(m - 1)} \cup {q[j] : j \in (n + 1)..l}
                             \cup {q[j] : j \in m..n}
      BY <1>4
    <2>4. Elements(q) = {q[i] : i \in 1..l}
      BY DEF Elements
    <2> QED
      BY <2>1, <2>2, <2>3, <2>4
  <1> QED
    BY <1>2, <1>3, <1>5, <1>6, <1>8, <1>9, <1>10, <1>11 DEF PartsFit

\* Committing the oldest entries: nothing is lost by it.
LEMMA CommitSound ==
  ASSUME NEW q, NEW x, NEW A, Sound(q, x, A), NEW n \in 0..Len(q)
  PROVE  LET r == SubSeq(q, n + 1, Len(q))
             y == x \o SubSeq(q, 1, n)
         IN  Sound(r, y, A) /\ LostOf(r, y, A) = LostOf(q, x, A)
  <1>1. q \in Seq(Entry) /\ x \in Seq(Entry) /\ Distinct(q) /\ Distinct(x)
    BY DEF Sound
  <1>2. PICK l \in Nat : l = Len(q)
    BY <1>1, LenProperties
  <1>3. n + 1 \in 1..(l + 1) /\ n \in (n + 1 - 1)..l /\ n + 1 - 1 = n /\ (n + 1)..n = {}
    BY <1>2
  <1>4. PICK a, b : a = SubSeq(q, 1, n) /\ b = SubSeq(q, n + 1, l)
    OBVIOUS
  <1>5. /\ a \in Seq(Entry) /\ Distinct(a) /\ b \in Seq(Entry) /\ Distinct(b)
        /\ Elements(a) \cap Elements(b) = {}
        /\ Elements(a) \cup Elements(b) = Elements(q)
    <2>1. PICK m \in 1..(l + 1) : m = n + 1 /\ m - 1 = n
      BY <1>3
    <2>2. n \in (m - 1)..l /\ {q[i] : i \in m..n} = {}
      BY <1>3, <2>1
    <2>3. PartsFit(Entry, q, m, n)
      BY <1>1, <1>2, <2>1, <2>2, PartsOf
    <2> QED
      BY <1>2, <1>4, <2>1, <2>2, <2>3 DEF PartsFit
  <1>6. x \o a \in Seq(Entry) /\ Elements(x \o a) = Elements(x) \cup Elements(a)
    BY <1>1, <1>5, ElementsOfConcat, ConcatProperties
  <1>7. Elements(x) \cap Elements(a) = {}
    BY <1>5 DEF Sound
  <1>8. Distinct(x \o a)
    BY <1>1, <1>5, <1>7, ElementsOfConcat
  <1>9. Sound(b, x \o a, A) /\ LostOf(b, x \o a, A) = LostOf(q, x, A)
    BY <1>5, <1>6, <1>8 DEF Sound, LostOf
  <1> QED
    BY <1>2, <1>4, <1>9

\* The entries from m to n, and they alone, join the lost ones.
LosesPart(q, x, A, m, n) ==
    LET r == SubSeq(q, 1, m - 1) \o SubSeq(q, n + 1, Len(q))
    IN  /\ Sound(r, x, A)
        /\ LostOf(r, x, A) = LostOf(q, x, A) \cup {q[i] : i \in m..n}

\* Losing the entries from m to n.
LEMMA LoseSound ==
  ASSUME NEW q, NEW x, NEW A, Sound(q, x, A),
         NEW m \in 1..Len(q), NEW n \in m..Len(q)
  PROVE  LosesPart(q, x, A, m, n)
  <1>1. q \in Seq(Entry) /\ x \in Seq(Entry) /\ Distinct(q) /\ Distinct(x)
    BY DEF Sound
  <1>2. PICK l \in Nat : l = Len(q)
    BY <1>1, LenProperties
  <1>3. m \in 1..(l + 1) /\ n \in (m - 1)..l /\ \A i \in m..n : i \in 1..l
    BY <1>2
  <1>4. PICK a, b : a = SubSeq(q, 1, m - 1) /\ b = SubSeq(q, n + 1, l)
    OBVIOUS
  <1>5. PICK G : G = {q[i] : i \in m..n}
    OBVIOUS
  <1>6. /\ a \in Seq(Entry) /\ Distinct(a) /\ b \in Seq(Entry) /\ Distinct(b)
        /\ Elements(a) \cap Elements(b) = {}
        /\ Elements(a) \cup Elements(b) = Elements(q) \ G
    <2>1. PartsFit(Entry, q, m, n)
      BY <1>1, <1>2, <1>3, PartsOf
    <2> QED
      BY <1>2, <1>4, <1>5, <2>1 DEF PartsFit
  <1>7. G \subseteq Elements(q)
    BY <1>2, <1>3, <1>5 DEF Elements
  <1>8. /\ a \o b \in Seq(Entry) /\ Distinct(a \o b)
        /\ Elements(a \o b) = Elements(q) \ G
    BY <1>6, ElementsOfConcat, ConcatProperties
  <1>9. Sound(a \o b, x, A) /\ LostOf(a \o b, x, A) = LostOf(q, x, A) \cup G
    BY <1>7, <1>8 DEF Sound, LostOf
  <1> QED
    BY <1>2, <1>4, <1>5, <1>9 DEF LosesPart

\* What EntriesOf makes of a sequence of records.
LEMMA EntriesOfProperties ==
  ASSUME NEW s \in Seq(Record)
  PROVE  /\ EntriesOf(s) \in Seq(Entry)
         /\ Len(EntriesOf(s)) = Len(s)
         /\ \A i \in 1..Len(s) : EntriesOf(s)[i] = s[i].entry
  <1>1. Len(s) \in Nat /\ \A i \in 1..Len(s) : s[i] \in Record
    BY LenProperties, ElementOfSeq
  <1>2. \A i \in 1..Len(s) : s[i].entry \in Entry
    BY <1>1 DEF Record
  <1>3. EntriesOf(s) \in [1..Len(s) -> Entry]
    BY <1>2 DEF EntriesOf
  <1> QED
    BY <1>1, <1>3, SeqDef DEF EntriesOf

\* The entries of no records, of one record more, and of two sequences joined.
LEMMA EntriesOfOperations ==
  ASSUME NEW s \in Seq(Record)
  PROVE  /\ EntriesOf(<<>>) = <<>>
         /\ \A r \in Record : EntriesOf(Append(s, r)) = Append(EntriesOf(s), r.entry)
         /\ \A t \in Seq(Record) : EntriesOf(s \o t) = EntriesOf(s) \o EntriesOf(t)
  <1>1. EntriesOf(<<>>) = <<>>
    BY EmptySeq, EntriesOfProperties
  <1>2. ASSUME NEW r \in Record
        PROVE  EntriesOf(Append(s, r)) = Append(EntriesOf(s), r.entry)
    <2>1. PICK n \in Nat : n = Len(s)
      BY LenProperties
    <2>2. r.entry \in Entry /\ EntriesOf(s) \in Seq(Entry) /\ Len(EntriesOf(s)) = n
      BY <2>1, EntriesOfProperties DEF Record
    <2>3. PICK u : u = Append(s, r)
      OBVIOUS
    <2>4. u \in Seq(Record) /\ Len(u) = n + 1 /\ u[n + 1] = r
          /\ \A i \in 1..n : u[i] = s[i]
      BY <2>1, <2>3, AppendProperties
    <2>5. PICK v : v = Append(EntriesOf(s), r.entry)
      OBVIOUS
    <2>6. v \in Seq(Entry) /\ Len(v) = n + 1 /\ v[n + 1] = r.entry
          /\ \A i \in 1..n : v[i] = EntriesOf(s)[i]
      BY <2>2, <2>5, AppendProperties
    <2>7. EntriesOf(u) \in Seq(Entry) /\ Len(EntriesOf(u)) = n + 1
          /\ \A i \in 1..(n + 1) : EntriesOf(u)[i] = u[i].entry
      BY <2>4, EntriesOfProperties
    <2>8. \A i \in 1..n : EntriesOf(s)[i] = s[i].entry
      BY <2>1, EntriesOfProperties
    <2>9. \A i \in 1..(n + 1) : EntriesOf(u)[i] = v[i]
      <3> SUFFICES ASSUME NEW i \in 1..(n + 1) PROVE EntriesOf(u)[i] = v[i]
        OBVIOUS
      <3>1. i = n + 1 \/ i \in 1..n
        OBVIOUS
      <3> QED
        BY <2>4, <2>6, <2>7, <2>8, <3>1
    <2> QED
      BY <2>3, <2>5, <2>6, <2>7, <2>9, SeqEqual
  <1>3. ASSUME NEW t \in Seq(Record)
        PROVE  EntriesOf(s \o t) = EntriesOf(s) \o EntriesOf(t)
    <2>1. PICK a \in Nat, b \in Nat : a = Len(s) /\ b = Len(t)
      BY LenProperties
    <2>2. PICK u, v : u = s \o t /\ v = EntriesOf(s) \o EntriesOf(t)
      OBVIOUS
    <2>3. /\ EntriesOf(s) \in Seq(Entry) /\ Len(EntriesOf(s)) = a
          /\ EntriesOf(t) \in Seq(Entry) /\ Len(EntriesOf(t)) = b
          /\ \A i \in 1..a : EntriesOf(s)[i] = s[i].entry
          /\ \A i \in 1..b : EntriesOf(t)[i] = t[i].entry
      BY <2>1, EntriesOfProperties
    <2>4. u \in Seq(Record) /\ Len(u) = a + b
          /\ \A i \in 1..(a + b) : u[i] = IF i <= a THEN s[i] ELSE t[i - a]
      BY <2>1, <2>2, ConcatProperties
    <2>5. v \in Seq(Entry) /\ Len(v) = a + b
          /\ \A i \in 1..(a + b) :
               v[i] = IF i <= a THEN EntriesOf(s)[i] ELSE EntriesOf(t)[i - a]
      BY <2>2, <2>3, ConcatProperties
    <2>6. EntriesOf(u) \in Seq(Entry) /\ Len(EntriesOf(u)) = a + b
          /\ \A i \in 1..(a + b) : EntriesOf(u)[i] = u[i].entry
      BY <2>4, EntriesOfProperties
    <2>7. \A i \in 1..(a + b) : EntriesOf(u)[i] = v[i]
      <3> SUFFICES ASSUME NEW i \in 1..(a + b) PROVE EntriesOf(u)[i] = v[i]
        OBVIOUS
      <3>1. CASE i <= a
        <4>1. i \in 1..a
          BY <3>1
        <4> QED
          BY <2>3, <2>4, <2>5, <2>6, <3>1, <4>1
      <3>2. CASE ~(i <= a)
        <4>1. i - a \in 1..b
          BY <3>2
        <4> QED
          BY <2>3, <2>4, <2>5, <2>6, <3>2, <4>1
      <3> QED
        BY <3>1, <3>2
    <2> QED
      BY <2>2, <2>5, <2>6, <2>7, SeqEqual
  <1> QED
    BY <1>1, <1>2, <1>3

----------------------------------------------------------------------------
(* The refinement mapping: an entry is taken once its handler has sent it. *)

Taken == {e \in Entry : handler[e] \in {"sent", "accepted"}}

\* The entries of the channel, the batch and the table are distinct, and
\* their handlers have sent them.
LedgerInv == Sound(ledgerQueue, ledgerIndex, Taken)

\* A step that leaves queue, index and the entries taken alone is a stutter.
LEMMA LedgerStutter ==
  ASSUME LedgerInv, UNCHANGED <<ledgerQueue, ledgerIndex, Taken>>
  PROVE  LedgerInv' /\ UNCHANGED Ledger!vars
  BY DEF LedgerInv, Sound, Ledger!vars, Taken

\* A handler that sends its entry accepts it.
LEMMA LedgerAccept ==
  ASSUME LedgerInv, NEW e \in Entry, e \notin Taken,
         ledgerQueue' = Append(ledgerQueue, e), UNCHANGED ledgerIndex,
         Taken' = Taken \cup {e}
  PROVE  LedgerInv' /\ Ledger!Accept(e)
  <1>1. /\ Sound(Append(ledgerQueue, e), ledgerIndex, Taken \cup {e})
        /\ e \notin Elements(ledgerQueue) \cup Elements(ledgerIndex)
                      \cup LostOf(ledgerQueue, ledgerIndex, Taken)
        /\ LostOf(Append(ledgerQueue, e), ledgerIndex, Taken \cup {e})
             = LostOf(ledgerQueue, ledgerIndex, Taken)
    BY AcceptSound DEF LedgerInv
  <1>2. LedgerInv'
    BY <1>1 DEF LedgerInv, Sound
  <1>3. LostOf(ledgerQueue, ledgerIndex, Taken)' = LostOf(ledgerQueue, ledgerIndex, Taken)
    BY <1>1 DEF LostOf
  <1> QED
    BY <1>1, <1>2, <1>3 DEF Ledger!Accept, Ledger!Elements, LostOf, Taken, Elements

\* A step that moves the n oldest entries of the queue to the index commits them.
LEMMA LedgerCommit ==
  ASSUME LedgerInv, NEW n \in 1..Len(ledgerQueue),
         ledgerQueue' = SubSeq(ledgerQueue, n + 1, Len(ledgerQueue)),
         ledgerIndex' = ledgerIndex \o SubSeq(ledgerQueue, 1, n),
         UNCHANGED Taken
  PROVE  LedgerInv' /\ Ledger!Commit(n)
  <1>0. n \in 0..Len(ledgerQueue)
    BY LenProperties DEF LedgerInv, Sound
  <1>1. PICK r, y : /\ r = SubSeq(ledgerQueue, n + 1, Len(ledgerQueue))
                    /\ y = ledgerIndex \o SubSeq(ledgerQueue, 1, n)
    OBVIOUS
  <1>2. /\ Sound(r, y, Taken)
        /\ LostOf(r, y, Taken) = LostOf(ledgerQueue, ledgerIndex, Taken)
    BY <1>0, <1>1, CommitSound DEF LedgerInv
  <1>3. ledgerQueue' = r /\ ledgerIndex' = y
    BY <1>1
  <1>4. LedgerInv'
    BY <1>2, <1>3 DEF LedgerInv, Sound
  <1>5. LostOf(ledgerQueue, ledgerIndex, Taken)' = LostOf(ledgerQueue, ledgerIndex, Taken)
    BY <1>2, <1>3 DEF LostOf
  <1> QED
    BY <1>4, <1>5 DEF Ledger!Commit, LostOf, Taken, Elements

\* A step that takes the entries from m to n out of the queue loses them.
LEMMA LedgerLose ==
  ASSUME LedgerInv, NEW m \in 1..Len(ledgerQueue), NEW n \in m..Len(ledgerQueue),
         ledgerQueue' = SubSeq(ledgerQueue, 1, m - 1)
                          \o SubSeq(ledgerQueue, n + 1, Len(ledgerQueue)),
         UNCHANGED <<ledgerIndex, Taken>>
  PROVE  LedgerInv' /\ Ledger!Lose(m, n)
  <1>1. PICK r : r = SubSeq(ledgerQueue, 1, m - 1)
                       \o SubSeq(ledgerQueue, n + 1, Len(ledgerQueue))
    OBVIOUS
  <1>2. /\ Sound(r, ledgerIndex, Taken)
        /\ LostOf(r, ledgerIndex, Taken)
             = LostOf(ledgerQueue, ledgerIndex, Taken) \cup {ledgerQueue[i] : i \in m..n}
    <2>1. PICK q, x, A : q = ledgerQueue /\ x = ledgerIndex /\ A = Taken
      OBVIOUS
    <2>2. Sound(q, x, A) /\ m \in 1..Len(q) /\ n \in m..Len(q)
      BY <2>1 DEF LedgerInv
    <2>3. LosesPart(q, x, A, m, n)
      BY <2>2, LoseSound
    <2> QED
      BY <1>1, <2>1, <2>3 DEF LosesPart
  <1>3. ledgerQueue' = r
    BY <1>1
  <1>4. LedgerInv'
    BY <1>2, <1>3 DEF LedgerInv, Sound
  <1>5. LostOf(ledgerQueue, ledgerIndex, Taken)'
          = LostOf(ledgerQueue, ledgerIndex, Taken) \cup {ledgerQueue[i] : i \in m..n}
    BY <1>2, <1>3 DEF LostOf
  <1>6. ({e \in Entry : handler[e] \in {"sent", "accepted"}}
           \ ({ledgerQueue[i] : i \in 1..Len(ledgerQueue)}
                 \cup {ledgerIndex[i] : i \in 1..Len(ledgerIndex)}))'
        = ({e \in Entry : handler[e] \in {"sent", "accepted"}}
             \ ({ledgerQueue[i] : i \in 1..Len(ledgerQueue)}
                   \cup {ledgerIndex[i] : i \in 1..Len(ledgerIndex)}))
          \cup {ledgerQueue[i] : i \in m..n}
    BY <1>5, Zenon DEF LostOf, Taken, Elements
  <1> QED
    BY <1>4, <1>6, Zenon DEF Ledger!Lose

\* What every step of the pipeline does to the ledger.
LedgerStep == LedgerInv' /\ [Ledger!Next]_(Ledger!vars)

\* The four kinds of steps, as steps of the ledger.
LEMMA LedgerSteps ==
  ASSUME LedgerInv
  PROVE  /\ LedgerInv' /\ UNCHANGED Ledger!vars => LedgerStep
         /\ \A e \in Entry : LedgerInv' /\ Ledger!Accept(e) => LedgerStep
         /\ \A n \in 1..Len(ledgerQueue) : LedgerInv' /\ Ledger!Commit(n) => LedgerStep
         /\ \A m \in 1..Len(ledgerQueue) : \A n \in m..Len(ledgerQueue) :
              LedgerInv' /\ Ledger!Lose(m, n) => LedgerStep
  BY DEF LedgerStep, Ledger!Next, Ledger!Settle

\* The queue of the ledger: the batch, then the channel.
LEMMA LedgerQueue ==
  ASSUME TypeOK
  PROVE  /\ EntriesOf(batch) \in Seq(Entry) /\ Len(EntriesOf(batch)) = Len(batch)
         /\ entries \in Seq(Entry)
         /\ ledgerQueue \in Seq(Entry)
         /\ Len(batch) \in Nat /\ Len(entries) \in Nat
         /\ Len(ledgerQueue) = Len(batch) + Len(entries)
  <1>1. batch \in Seq(Record) /\ entries \in Seq(Entry)
    BY DEF TypeOK
  <1>2. EntriesOf(batch) \in Seq(Entry) /\ Len(EntriesOf(batch)) = Len(batch)
    BY <1>1, EntriesOfProperties
  <1>3. PICK a : a = EntriesOf(batch)
    OBVIOUS
  <1>4. PICK k \in Nat, l \in Nat : k = Len(batch) /\ l = Len(entries)
    BY <1>1, LenProperties
  <1>5. a \in Seq(Entry) /\ Len(a) = k
    BY <1>2, <1>3, <1>4
  <1>6. a \o entries \in Seq(Entry) /\ Len(a \o entries) = Len(a) + Len(entries)
    BY <1>1, <1>5, ConcatProperties
  <1> QED
    BY <1>1, <1>2, <1>3, <1>4, <1>5, <1>6 DEF ledgerQueue

\* The worker takes an entry from the channel into the batch: its place in
\* the queue is the same.
LEMMA QueueCollect ==
  ASSUME TypeOK, NEW rec \in Record, entries # <<>>, rec.entry = Head(entries),
         entries' = Tail(entries), batch' = Append(batch, rec)
  PROVE  ledgerQueue' = ledgerQueue
  <1>1. batch \in Seq(Record) /\ entries \in Seq(Entry)
    BY DEF TypeOK
  <1>2. PICK a, h, t : a = EntriesOf(batch) /\ h = Head(entries) /\ t = Tail(entries)
    OBVIOUS
  <1>3. a \in Seq(Entry) /\ h \in Entry /\ t \in Seq(Entry) /\ <<h>> \in Seq(Entry)
    BY <1>1, <1>2, EntriesOfProperties, HeadTailProperties
  <1>4. EntriesOf(Append(batch, rec)) = Append(a, h)
    BY <1>1, <1>2, EntriesOfOperations
  <1>5. Append(a, h) = a \o <<h>> /\ entries = <<h>> \o t
    <2>1. entries = <<h>> \o t
      <3>1. PICK n \in Nat : n = Len(entries)
        BY <1>1, LenProperties
      <3>2. n # 0
        BY <1>1, <3>1, EmptySeq
      <3>3. t = SubSeq(entries, 2, n) /\ h = entries[1]
        BY <1>1, <1>2, <3>1, TailIsSubSeq, HeadTailProperties
      <3>4. SubSeq(entries, 1, n) = <<entries[1]>> \o SubSeq(entries, 1 + 1, n)
        BY <1>1, <3>1, <3>2, SubSeqRecursiveFirst
      <3> QED
        BY <1>1, <3>1, <3>3, <3>4, SubSeqFull
    <2> QED
      BY <1>3, <2>1, AppendIsConcat
  <1>6. (a \o <<h>>) \o t = a \o (<<h>> \o t)
    BY <1>3, ConcatAssociative
  <1> QED
    BY <1>2, <1>4, <1>5, <1>6 DEF ledgerQueue

\* The first part of a concatenation, and what its second part has after j.
SplitsAt(a, b, j) ==
    /\ SubSeq(a \o b, 1, Len(a)) = a
    /\ SubSeq(a \o b, Len(a) + j + 1, Len(a \o b)) = SubSeq(b, j + 1, Len(b))

\* A concatenation splits into its parts.
LEMMA PartsOfConcat ==
  ASSUME NEW S, NEW a \in Seq(S), NEW b \in Seq(S), NEW j \in 0..Len(b)
  PROVE  SplitsAt(a, b, j)
  <1>1. PICK k \in Nat, l \in Nat : k = Len(a) /\ l = Len(b)
    BY LenProperties
  <1>2. PICK c : c = a \o b
    OBVIOUS
  <1>3. /\ c \in Seq(S) /\ Len(c) = k + l
        /\ \A i \in 1..(k + l) : c[i] = IF i <= k THEN a[i] ELSE b[i - k]
    BY <1>1, <1>2, ConcatProperties
  <1>4. SubSeq(c, 1, k) = a
    <2>1. PICK d : d = SubSeq(c, 1, k)
      OBVIOUS
    <2>2. k \in 0..Len(c)
      BY <1>3
    <2>3. d \in Seq(S) /\ Len(d) = k /\ \A i \in 1..k : d[i] = c[i]
      BY <1>3, <2>1, <2>2, PrefixProperties
    <2>4. \A i \in 1..k : i \in 1..(k + l) /\ i <= k
      OBVIOUS
    <2>5. \A i \in 1..k : d[i] = a[i]
      BY <1>3, <2>3, <2>4
    <2> QED
      BY <1>1, <2>1, <2>3, <2>5, SeqEqual
  <1>5. SubSeq(c, k + j + 1, k + l) = SubSeq(b, j + 1, l)
    <2>1. PICK u \in Nat, v \in Nat : u = k + j + 1 /\ v = k + l
      BY <1>1
    <2>2. u \in 1..(v + 1) /\ v \in (u - 1)..v /\ v + 1 - u = l - j
      BY <1>1, <2>1
    <2>3. /\ SubSeq(c, u, v) \in Seq(S) /\ Len(SubSeq(c, u, v)) = v + 1 - u
          /\ \A i \in 1..(v + 1 - u) : SubSeq(c, u, v)[i] = c[u + i - 1]
      BY <1>3, <2>1, <2>2, PartOf
    <2>4. PICK w \in Nat : w = j + 1
      BY <1>1
    <2>5. w \in 1..(l + 1) /\ l \in (w - 1)..l /\ l + 1 - w = l - j
      BY <1>1, <2>4
    <2>6. /\ SubSeq(b, w, l) \in Seq(S) /\ Len(SubSeq(b, w, l)) = l + 1 - w
          /\ \A i \in 1..(l + 1 - w) : SubSeq(b, w, l)[i] = b[w + i - 1]
      BY <1>1, <2>5, PartOf
    <2>7. PICK d, f : d = SubSeq(c, u, v) /\ f = SubSeq(b, w, l)
      OBVIOUS
    <2>8. \A i \in 1..(l - j) : c[u + i - 1] = b[w + i - 1]
      <3> SUFFICES ASSUME NEW i \in 1..(l - j) PROVE c[u + i - 1] = b[w + i - 1]
        OBVIOUS
      <3>1. /\ u + i - 1 \in 1..(k + l) /\ ~(u + i - 1 <= k)
            /\ u + i - 1 - k = w + i - 1
        BY <1>1, <2>1, <2>4
      <3> QED
        BY <1>3, <3>1
    <2>9. \A i \in 1..(l - j) : d[i] = f[i]
      BY <2>2, <2>3, <2>5, <2>6, <2>7, <2>8
    <2>10. d \in Seq(S) /\ f \in Seq(S) /\ Len(d) = l - j /\ Len(f) = l - j
      BY <2>2, <2>3, <2>5, <2>6, <2>7
    <2>11. d = f
      BY <2>9, <2>10, SeqEqual
    <2> QED
      BY <2>1, <2>4, <2>7, <2>11
  <1> QED
    BY <1>1, <1>2, <1>3, <1>4, <1>5 DEF SplitsAt

\* What the handlers' steps do to the entries taken.
LEMMA TakenBy ==
  ASSUME TypeOK, NEW e \in Entry, NEW s, handler' = [handler EXCEPT ![e] = s]
  PROVE  /\ s \in {"sent", "accepted"} => Taken' = Taken \cup {e}
         /\ s \notin {"sent", "accepted"} /\ e \notin Taken => Taken' = Taken
  <1>1. handler \in [Entry -> HandlerState]
    BY DEF TypeOK
  <1>2. handler'[e] = s /\ \A f \in Entry \ {e} : handler'[f] = handler[f]
    BY <1>1
  <1> QED
    BY <1>2 DEF Taken

\* A handler accepts its entry when the send succeeds; every other step of a
\* handler, the late captureTotal.Add included, is none of the ledger.
LEMMA LedgerHandler ==
  ASSUME TypeOK, LedgerInv, NEW e \in Entry, Handler(e)
  PROVE  LedgerStep
  <1> USE DEF handlerVars, mainVars, loopVars, diskVars, tableVars
  <1>1. CASE SubmitSend(e)
    <2>1. /\ handler' = [handler EXCEPT ![e] = "sent"] /\ handler[e] = "running"
          /\ entries' = Append(entries, e) /\ UNCHANGED <<batch, rows>>
      BY <1>1 DEF SubmitSend
    <2>2. e \notin Taken /\ Taken' = Taken \cup {e}
      BY <2>1, TakenBy DEF Taken
    <2>3. EntriesOf(batch) \o Append(entries, e) = Append(EntriesOf(batch) \o entries, e)
      <3>1. PICK a : a = EntriesOf(batch)
        OBVIOUS
      <3>2. a \in Seq(Entry) /\ entries \in Seq(Entry) /\ <<e>> \in Seq(Entry)
            /\ a \o entries \in Seq(Entry)
        BY <3>1, LedgerQueue, ConcatProperties
      <3>3. Append(entries, e) = entries \o <<e>>
            /\ Append(a \o entries, e) = (a \o entries) \o <<e>>
        BY <3>2, AppendIsConcat
      <3>4. (a \o entries) \o <<e>> = a \o (entries \o <<e>>)
        BY <3>2, ConcatAssociative
      <3> QED
        BY <3>1, <3>3, <3>4
    <2>4. ledgerQueue' = Append(ledgerQueue, e) /\ UNCHANGED ledgerIndex
      BY <2>1, <2>3 DEF ledgerQueue, ledgerIndex, EntriesOf
    <2> QED
      BY <2>2, <2>4, LedgerAccept, LedgerSteps
  <1>2. CASE BeginRequest(e) \/ SkipCapture(e) \/ SubmitCount(e)
             \/ SubmitDrop(e) \/ SubmitPanic(e)
    <2>1. UNCHANGED <<entries, batch, rows>>
      BY <1>2 DEF BeginRequest, SkipCapture, SubmitCount, SubmitDrop, SubmitPanic
    <2>2. CASE SubmitCount(e)
      <3>1. handler' = [handler EXCEPT ![e] = "accepted"] /\ e \in Taken
        BY <2>2 DEF SubmitCount, Taken
      <3> QED
        BY <3>1, TakenBy, <2>1, LedgerStutter, LedgerSteps DEF ledgerQueue, ledgerIndex, EntriesOf
    <2>3. CASE ~SubmitCount(e)
      <3>1. PICK s \in {"running", "notCaptured", "dropped", "panicked"} :
               handler' = [handler EXCEPT ![e] = s]
        BY <1>2, <2>3 DEF BeginRequest, SkipCapture, SubmitDrop, SubmitPanic
      <3>2. e \notin Taken
        BY <1>2, <2>3 DEF BeginRequest, SkipCapture, SubmitDrop, SubmitPanic, Taken
      <3>3. Taken' = Taken
        BY <3>1, <3>2, TakenBy
      <3> QED
        BY <2>1, <3>3, LedgerStutter, LedgerSteps DEF ledgerQueue, ledgerIndex, EntriesOf
    <2> QED
      BY <2>2, <2>3
  <1> QED
    BY <1>1, <1>2 DEF Handler

\* A flush that ends, with or without its rows, empties the batch; what is left
\* of the queue is the channel.
LEMMA QueueFlushed ==
  ASSUME TypeOK, batch' = <<>>, UNCHANGED entries
  PROVE  /\ ledgerQueue' = entries
         /\ SubSeq(ledgerQueue, 1, Len(batch)) = EntriesOf(batch)
         /\ SubSeq(ledgerQueue, Len(batch) + 1, Len(ledgerQueue)) = entries
  <1>1. batch \in Seq(Record) /\ entries \in Seq(Entry)
    BY DEF TypeOK
  <1>2. PICK a, k : a = EntriesOf(batch) /\ k = Len(batch)
    OBVIOUS
  <1>3. a \in Seq(Entry) /\ Len(a) = k /\ k \in Nat
    BY <1>1, <1>2, EntriesOfProperties, LenProperties
  <1>4. ledgerQueue' = entries
    <2>1. EntriesOf(<<>>) = <<>> /\ <<>> \o entries = entries
      BY <1>1, EntriesOfOperations, ConcatEmptySeq
    <2> QED
      BY <2>1 DEF ledgerQueue, EntriesOf
  <1>5. PICK j \in 0..Len(entries) : j + 1 = 1 /\ k + j + 1 = k + 1
    <2>1. Len(entries) \in Nat /\ 0 \in 0..Len(entries) /\ 0 + 1 = 1 /\ k + 0 + 1 = k + 1
      BY <1>1, <1>3, LenProperties
    <2> QED
      BY <2>1
  <1>6. SplitsAt(a, entries, j)
    BY <1>1, <1>3, PartsOfConcat
  <1>7. SubSeq(entries, j + 1, Len(entries)) = entries
    BY <1>1, <1>5, SubSeqFull
  <1>8. /\ SubSeq(a \o entries, 1, k) = a
        /\ SubSeq(a \o entries, k + 1, Len(a \o entries)) = entries
    BY <1>3, <1>5, <1>6, <1>7 DEF SplitsAt
  <1> QED
    BY <1>2, <1>4, <1>8 DEF ledgerQueue

\* The worker takes an entry off the channel and fails to write it.
LEMMA LedgerSkip ==
  ASSUME TypeOK, LedgerInv, entries # <<>>, entries' = Tail(entries),
         UNCHANGED <<handler, batch, rows>>
  PROVE  LedgerStep
  <1>1. entries \in Seq(Entry) /\ batch \in Seq(Record)
    BY DEF TypeOK
  <1>2. PICK a : a = EntriesOf(batch)
    OBVIOUS
  <1>3. PICK k \in Nat, l \in Nat : k = Len(batch) /\ l = Len(entries)
    BY <1>1, LenProperties
  <1>4. l # 0
    BY <1>1, <1>3, EmptySeq
  <1>5. a \in Seq(Entry) /\ Len(a) = k
    BY <1>1, <1>2, <1>3, EntriesOfProperties
  <1>6. PICK m \in Nat : m = k + 1
    OBVIOUS
  <1>7. Len(ledgerQueue) = k + l /\ m \in 1..(k + l) /\ m \in m..(k + l)
        /\ m - 1 = k /\ m + 1 = k + 1 + 1 /\ 1 \in 0..l /\ 0 \in 0..l
    BY <1>3, <1>4, <1>6, LedgerQueue
  <1>8. /\ SubSeq(a \o entries, 1, k) = a
        /\ SubSeq(a \o entries, k + 1 + 1, Len(a \o entries)) = SubSeq(entries, 2, l)
    <2>1. PICK j \in 0..Len(entries) : j + 1 = 2 /\ k + j + 1 = k + 1 + 1
      <3>1. 1 \in 0..Len(entries) /\ 1 + 1 = 2
        BY <1>3, <1>7
      <3> QED
        BY <3>1
    <2>2. SplitsAt(a, entries, j)
      BY <1>1, <1>5, PartsOfConcat
    <2> QED
      BY <1>3, <1>5, <2>1, <2>2 DEF SplitsAt
  <1>9. Tail(entries) = SubSeq(entries, 2, l)
    BY <1>1, <1>3, TailIsSubSeq
  <1>10. ledgerQueue' = a \o Tail(entries) /\ ledgerQueue = a \o entries
         /\ UNCHANGED <<ledgerIndex, Taken>>
    BY <1>2 DEF ledgerQueue, ledgerIndex, EntriesOf, Taken
  <1>11. ledgerQueue' = SubSeq(ledgerQueue, 1, m - 1)
                           \o SubSeq(ledgerQueue, m + 1, Len(ledgerQueue))
    BY <1>7, <1>8, <1>9, <1>10
  <1>12. m \in 1..Len(ledgerQueue) /\ m \in m..Len(ledgerQueue)
    BY <1>7
  <1> QED
    BY <1>10, <1>11, <1>12, LedgerLose, LedgerSteps

\* A flush whose rows are inserted commits the batch.
LEMMA LedgerFlushInsert ==
  ASSUME TypeOK, LedgerInv, FlushInsert
  PROVE  LedgerStep
  <1> USE DEF handlerVars, mainVars, loopVars, diskVars, tableVars
  <1>1. /\ rows' = rows \o batch /\ batch' = <<>> /\ UNCHANGED <<handler, entries>>
        /\ batch \in Seq(Record) /\ rows \in Seq(Record)
    BY DEF FlushInsert, FlushDone, TypeOK
  <1>2. PICK k \in Nat : k = Len(batch)
    BY <1>1, LenProperties
  <1>3. /\ ledgerQueue' = SubSeq(ledgerQueue, k + 1, Len(ledgerQueue))
        /\ SubSeq(ledgerQueue, 1, k) = EntriesOf(batch)
        /\ ledgerQueue' = entries
    BY <1>1, <1>2, QueueFlushed
  <1>4. ledgerIndex' = ledgerIndex \o SubSeq(ledgerQueue, 1, k)
    <2>1. EntriesOf(rows \o batch) = EntriesOf(rows) \o EntriesOf(batch)
      BY <1>1, EntriesOfOperations
    <2> QED
      BY <1>1, <1>3, <2>1 DEF ledgerIndex, EntriesOf
  <1>5. Taken' = Taken
    BY <1>1 DEF Taken
  <1>6. CASE k = 0
    <2>1. batch = <<>>
      BY <1>1, <1>2, <1>6, EmptySeq
    <2>2. UNCHANGED <<batch, rows, entries>>
      BY <1>1, <2>1, ConcatEmptySeq
    <2> QED
      BY <2>2, <1>5, LedgerStutter, LedgerSteps DEF ledgerQueue, ledgerIndex, EntriesOf
  <1>7. CASE k # 0
    <2>1. k \in 1..Len(ledgerQueue)
      BY <1>2, <1>7, LedgerQueue
    <2> QED
      BY <2>1, <1>3, <1>4, <1>5, LedgerCommit, LedgerSteps
  <1> QED
    BY <1>6, <1>7

\* A step that empties the batch, or the batch and the channel, without
\* inserting rows, loses what it takes.
LEMMA LedgerDropFirst ==
  ASSUME TypeOK, LedgerInv, NEW n \in 0..Len(ledgerQueue),
         ledgerQueue' = SubSeq(ledgerQueue, n + 1, Len(ledgerQueue)),
         UNCHANGED <<handler, rows>>
  PROVE  LedgerStep
  <1>1. UNCHANGED <<ledgerIndex, Taken>>
    BY DEF ledgerIndex, EntriesOf, Taken
  <1>2. ledgerQueue \in Seq(Entry) /\ Len(ledgerQueue) \in Nat
    BY LedgerQueue, LenProperties
  <1>3. CASE n = 0
    <2>1. ledgerQueue' = ledgerQueue
      BY <1>2, <1>3, SubSeqFull
    <2> QED
      BY <1>1, <2>1, LedgerStutter, LedgerSteps
  <1>4. CASE n # 0
    <2>1. PICK one : one = 1
      OBVIOUS
    <2>2. one \in 1..Len(ledgerQueue) /\ n \in one..Len(ledgerQueue) /\ one - 1 < 1
      BY <1>2, <1>4, <2>1
    <2>3. SubSeq(ledgerQueue, 1, one - 1) = <<>>
      BY <2>1, <2>2, SubSeqEmpty
    <2>4. SubSeq(ledgerQueue, n + 1, Len(ledgerQueue)) \in Seq(Entry)
      <3>1. n + 1 \in 1..(Len(ledgerQueue) + 1) /\ Len(ledgerQueue) \in (n + 1 - 1)..Len(ledgerQueue)
        BY <1>2
      <3> QED
        BY <1>2, <3>1, PartOf
    <2>5. ledgerQueue' = SubSeq(ledgerQueue, 1, one - 1)
                            \o SubSeq(ledgerQueue, n + 1, Len(ledgerQueue))
      BY <2>3, <2>4, ConcatEmptySeq
    <2> QED
      BY <1>1, <2>2, <2>5, LedgerLose, LedgerSteps
  <1> QED
    BY <1>3, <1>4

\* The worker: an entry keeps its place when it joins the batch, is lost when
\* it cannot be written, and shares the fate of its batch from there on.
LEMMA LedgerWorker ==
  ASSUME TypeOK, LedgerInv, Worker
  PROVE  LedgerStep
  <1> USE DEF handlerVars, mainVars, loopVars, diskVars, tableVars
  <1>1. ASSUME NEW e \in Entry, NEW rec \in Record, rec.entry = e,
               Receive(e), Collect(rec), UNCHANGED <<handler, rows>>
        PROVE  LedgerStep
    <2>1. /\ entries # <<>> /\ e = Head(entries) /\ entries' = Tail(entries)
          /\ batch' = Append(batch, rec)
      BY <1>1 DEF Receive, Collect
    <2>2. ledgerQueue' = ledgerQueue
      BY <1>1, <2>1, QueueCollect
    <2> QED
      BY <1>1, <2>2, LedgerStutter, LedgerSteps DEF ledgerIndex, EntriesOf, Taken
  <1>2. ASSUME NEW e \in Entry, ReceiveSkipped(e)
        PROVE  LedgerStep
    <2>1. PICK rec \in Record : rec = [entry |-> e, path |-> NoPath, offset |-> 0]
      BY DEF Record
    <2> QED
      BY <1>1, <1>2, <2>1 DEF ReceiveSkipped
  <1>3. ASSUME NEW e \in Entry, NEW h \in Hour, ReceiveWritten(e, h)
        PROVE  LedgerStep
    <2>1. PICK rec \in Record :
             rec = [entry |-> e, path |-> <<ProjectOf[e], h>>,
                    offset |-> Len(files[<<ProjectOf[e], h>>]) + 1]
      BY WrittenType
    <2> QED
      BY <1>1, <1>3, <2>1 DEF ReceiveWritten
  <1>4. ASSUME NEW e \in Entry,
               ReceiveNotOpened(e) \/ \E h \in Hour : ReceiveNotWritten(e, h)
        PROVE  LedgerStep
    BY <1>4, LedgerSkip DEF ReceiveNotOpened, ReceiveNotWritten, Receive
  <1>5. CASE Tick \/ ReceiveClosed \/ FlushSync \/ FlushRetry
    <2>1. UNCHANGED <<handler, entries, batch, rows>>
      BY <1>5 DEF Tick, ReceiveClosed, FlushSync, FlushRetry
    <2> QED
      BY <2>1, LedgerStutter, LedgerSteps DEF ledgerQueue, ledgerIndex, EntriesOf, Taken
  <1>6. CASE FlushInsert
    BY <1>6, LedgerFlushInsert
  <1>7. CASE FlushGiveUp
    <2>1. batch' = <<>> /\ UNCHANGED <<entries, handler, rows>>
      BY <1>7 DEF FlushGiveUp, FlushDone
    <2>2. PICK n \in 0..Len(ledgerQueue) : n = Len(batch)
      BY LedgerQueue
    <2>3. ledgerQueue' = SubSeq(ledgerQueue, n + 1, Len(ledgerQueue))
      BY <2>1, <2>2, QueueFlushed
    <2> QED
      BY <2>1, <2>3, LedgerDropFirst
  <1> QED
    BY <1>2, <1>3, <1>4, <1>5, <1>6, <1>7 DEF Worker

\* main() and the failures: a crash loses whatever was in memory, and a restart
\* changes no entry's fate.
LEMMA LedgerMain ==
  ASSUME TypeOK, LoopInv, LedgerInv,
         Signal \/ CloseEntries \/ CloseWriter \/ Crash \/ Restart
  PROVE  LedgerStep
  <1> USE DEF handlerVars, mainVars, loopVars, diskVars, tableVars
  <1>1. CASE Signal \/ CloseEntries \/ CloseWriter
    <2>1. UNCHANGED <<handler, entries, batch, rows>>
      BY <1>1 DEF Signal, CloseEntries, CloseWriter
    <2> QED
      BY <2>1, LedgerStutter, LedgerSteps DEF ledgerQueue, ledgerIndex, EntriesOf, Taken
  <1>2. CASE Crash
    <2>1. batch' = <<>> /\ entries' = <<>> /\ UNCHANGED <<handler, rows>>
      BY <1>2 DEF Crash
    <2>2. ledgerQueue' = <<>>
      <3>1. EntriesOf(<<>>) = <<>> /\ <<>> \in Seq(Entry)
        BY EmptySeq, EntriesOfProperties
      <3>2. <<>> \o <<>> = <<>>
        BY <3>1, ConcatEmptySeq
      <3> QED
        BY <2>1, <3>1, <3>2 DEF ledgerQueue, EntriesOf
    <2>3. Len(ledgerQueue) \in 0..Len(ledgerQueue)
      BY LedgerQueue, LenProperties
    <2>4. SubSeq(ledgerQueue, Len(ledgerQueue) + 1, Len(ledgerQueue)) = <<>>
      <3>1. PICK l \in Nat : l = Len(ledgerQueue)
        BY <2>3
      <3>2. l + 1 \in Int /\ l \in Int /\ l < l + 1
        OBVIOUS
      <3>3. SubSeq(ledgerQueue, l + 1, l) = <<>>
        BY <3>2, SubSeqEmpty
      <3> QED
        BY <3>1, <3>3
    <2> QED
      BY <2>1, <2>2, <2>3, <2>4, LedgerDropFirst
  <1>3. CASE Restart
    <2>1. /\ UNCHANGED <<entries, batch, rows>>
          /\ handler' = [e \in Entry |-> CASE handler[e] = "running" -> "aborted"
                                           [] handler[e] = "sent" -> "accepted"
                                           [] OTHER -> handler[e]]
      BY <1>3 DEF Restart
    <2>2. \A e \in Entry : handler'[e] \in {"sent", "accepted"}
                             <=> handler[e] \in {"sent", "accepted"}
      <3> SUFFICES ASSUME NEW e \in Entry
                   PROVE  handler'[e] \in {"sent", "accepted"}
                            <=> handler[e] \in {"sent", "accepted"}
        OBVIOUS
      <3>1. CASE handler[e] = "running"
        BY <2>1, <3>1
      <3>2. CASE handler[e] = "sent"
        BY <2>1, <3>2
      <3>3. CASE handler[e] # "running" /\ handler[e] # "sent"
        BY <2>1, <3>3
      <3> QED
        BY <3>1, <3>2, <3>3
    <2>3. Taken' = Taken
      BY <2>2 DEF Taken
    <2> QED
      BY <2>1, <2>3, LedgerStutter, LedgerSteps DEF ledgerQueue, ledgerIndex, EntriesOf
  <1> QED
    BY <1>1, <1>2, <1>3

\* Initially nothing was accepted.
LEMMA LedgerInit == Init => LedgerInv /\ Ledger!Init
  <1> SUFFICES ASSUME Init PROVE LedgerInv /\ Ledger!Init
    OBVIOUS
  <1>1. entries = <<>> /\ batch = <<>> /\ rows = <<>> /\ Taken = {}
    BY DEF Init, Taken
  <1>2. EntriesOf(<<>>) = <<>> /\ <<>> \in Seq(Entry) /\ Len(<<>>) = 0
    BY EmptySeq, EntriesOfProperties
  <1>3. <<>> \o <<>> = <<>>
    BY <1>2, ConcatEmptySeq
  <1>4. ledgerQueue = <<>> /\ ledgerIndex = <<>>
    BY <1>1, <1>2, <1>3 DEF ledgerQueue, ledgerIndex
  <1>5. Elements(<<>>) = {} /\ Distinct(<<>>)
    BY <1>2 DEF Elements, Distinct
  <1>6. LedgerInv
    BY <1>1, <1>2, <1>4, <1>5 DEF LedgerInv, Sound
  <1>7. {e \in Entry : handler[e] \in {"sent", "accepted"}} = {}
    BY <1>1 DEF Taken
  <1> QED
    BY <1>4, <1>6, <1>7 DEF Ledger!Init

\* Every step of the pipeline is a step of the ledger or a stutter.
LEMMA LedgerNext ==
  TypeInv /\ LoopInv /\ LedgerInv /\ [Next]_vars => LedgerInv' /\ [Ledger!Next]_(Ledger!vars)
  <1> SUFFICES ASSUME TypeInv, LoopInv, LedgerInv, [Next]_vars
               PROVE  LedgerStep
    BY DEF LedgerStep
  <1> USE DEF handlerVars, mainVars, loopVars, diskVars, tableVars
  <1>1. TypeOK
    BY DEF TypeInv
  <1>2. ASSUME NEW e \in Entry, Handler(e)
        PROVE  LedgerStep
    BY <1>1, <1>2, LedgerHandler
  <1>3. CASE Worker
    BY <1>1, <1>3, LedgerWorker
  <1>4. CASE Signal \/ CloseEntries \/ CloseWriter \/ Crash \/ Restart
    BY <1>1, <1>4, LedgerMain
  <1>5. CASE UNCHANGED vars
    <2>1. UNCHANGED <<handler, entries, batch, rows>>
      BY <1>5 DEF vars
    <2> QED
      BY <2>1, LedgerStutter, LedgerSteps DEF ledgerQueue, ledgerIndex, EntriesOf, Taken
  <1> QED
    BY <1>2, <1>3, <1>4, <1>5 DEF Next

\* The entries of the channel, the batch and the table are distinct and were
\* sent by their handlers: no retry, crash or restart inserts an entry twice.
THEOREM EntriesStayDistinct == Spec => []LedgerInv
  BY LedgerInit, LedgerNext, Invariants, PTL DEF Spec

\* The pipeline implements CaptureLedger: each accepted entry is queued, then
\* committed in the order of acceptance, exactly once, or lost for good,
\* whatever fails and however often the process is restarted.
THEOREM PipelineImplementsLedger == Spec => ImplementsLedger
  <1>1. Init => Ledger!Init
    BY LedgerInit
  <1> QED
    BY <1>1, LedgerNext, Invariants, EntriesStayDistinct, PTL
       DEF Spec, ImplementsLedger, Ledger!Spec

=============================================================================
