------------------------- MODULE CaptureExportProofs -------------------------
(***************************************************************************)
(* Proofs about CaptureCleanup and, on top of them, about CaptureExport,   *)
(* for any number of projects, rows, clients and ticks, any hour, day and  *)
(* retention, any size of a page and all faults.                           *)
(*                                                                         *)
(* Why no line that is still needed is removed: a file that os.Stat finds  *)
(* untouched for an hour is of an hour that is over, so nothing is         *)
(* appended to it any more (AgeInv), and what was appended has been        *)
(* inserted or given up by then, because a batch does not wait that long.  *)
(* What the count finds therefore stays true until the file is removed     *)
(* (SweepInv).                                                             *)
(*                                                                         *)
(* Why nothing is missed: ids go up, so what is inserted during a request  *)
(* is not of the rows there were before it (TableInv); a page is a prefix  *)
(* of what comes after the cursor (PageIsPrefix), and of the rows up to    *)
(* the last one of a page that is read, those not read yet are in it or    *)
(* cannot be read (ReaderInv).  A line that cannot be read stays so: the   *)
(* file of an hour that is over does not come back (GoneInv).              *)
(***************************************************************************)
EXTENDS CaptureExport, TLAPS, FiniteSetTheorems, SequenceTheorems, WellFoundedInduction

-----------------------------------------------------------------------------
(***************************************************************************)
(* The sweep.                                                              *)
(***************************************************************************)

\* Retention of a project in ticks.
Retention == RetentionDays * DayTicks

\* The sizes are numbers.
LEMMA Sizes ==
    /\ MaxTime \in Nat /\ MaxRows \in Nat /\ MaxPending \in Nat
    /\ HourTicks \in Nat \ {0} /\ DayTicks \in Nat \ {0}
    /\ MaxPending < HourTicks
    /\ Retention \in Nat
    /\ Retention - DayTicks = (RetentionDays - 1) * DayTicks
BY CleanupAssumption DEF Retention

\* Hours are numbered in the order of time, and one that began an hour ago is over.
LEMMA Hours ==
    ASSUME NEW s \in Nat, NEW t \in Nat
    PROVE  /\ Hour(t) \in Nat
           /\ s <= t => Hour(s) <= Hour(t)
           /\ t - s >= HourTicks => Hour(s) < Hour(t)
BY CleanupAssumption DEF Hour

\* What is not after the day of the cutoff is at most a day younger than it.
LEMMA Days ==
    ASSUME NEW s \in Nat, NEW t \in Int, Day(s) <= Day(t)
    PROVE  s < t + DayTicks
BY CleanupAssumption DEF Day

\* The absent file is none.
LEMMA NoFileIsNone == NoFile \notin File
BY Sizes, Hours, CleanupAssumption DEF File

-----------------------------------------------------------------------------
(***************************************************************************)
(* Types.                                                                  *)
(***************************************************************************)

TypeInv ==
    /\ TypeOK
    /\ lastId + Len(pending) <= MaxRows

LEMMA TypeInit == Init => TypeInv
<1> SUFFICES ASSUME Init PROVE TypeInv
    OBVIOUS
<1>1. pending \in Seq(Record) /\ lastId + Len(pending) <= MaxRows
    BY Sizes DEF Init
<1>2. cutoff \in -(RetentionDays * DayTicks) .. MaxTime
    BY Sizes DEF Init, Retention
<1>3. mtime \in [File -> Time \cup {NotThere}]
    BY DEF Init
<1>4. now \in Time /\ lastId \in 0 .. MaxRows
    BY Sizes DEF Init, Time
<1> QED
    BY <1>1, <1>2, <1>3, <1>4 DEF Init, TypeInv, TypeOK

\* A file of this moment is a file.
LEMMA FileOfNow ==
    ASSUME TypeInv, NEW p \in Project
    PROVE  [project |-> p, hour |-> Hour(now)] \in File
<1>1. now \in Nat /\ MaxTime \in Nat /\ now <= MaxTime
    BY Sizes DEF TypeInv, TypeOK, Time
<1>2. Hour(now) \in Nat /\ Hour(MaxTime) \in Nat /\ Hour(now) <= Hour(MaxTime)
    BY <1>1, Hours
<1> QED
    BY <1>2 DEF File

LEMMA PipelineType ==
    ASSUME TypeInv, Pipeline
    PROVE  TypeInv'
<1> USE DEF TypeInv, TypeOK, Time
<1>1. CASE \E p \in Project : KeepMetadata(p)
    <2>1. PICK p \in Project : KeepMetadata(p)
        BY <1>1
    <2> DEFINE r == [project |-> p, file |-> NoFile, line |-> "none", at |-> now]
    <2>2. r \in Record /\ pending' = Append(pending, r)
        BY <2>1 DEF KeepMetadata, Record, Line, Time
    <2>3. pending' \in Seq(Record) /\ Len(pending') = Len(pending) + 1
        BY <2>2
    <2>4. lastId' + Len(pending') <= MaxRows
        BY <2>1, <2>3, Sizes DEF KeepMetadata, Room, tableVars
    <2> QED
        BY <2>1, <2>3, <2>4 DEF KeepMetadata, tableVars, sweepVars
<1>2. CASE \E p \in Project : \E line \in Lines : AppendLine(p, line)
    <2>1. PICK p \in Project, line \in Lines : AppendLine(p, line)
        BY <1>2
    <2> DEFINE f == [project |-> p, hour |-> Hour(now)]
               r == [project |-> p, file |-> f, line |-> line, at |-> now]
    <2>2. f \in File
        BY FileOfNow
    <2>3. r \in Record /\ pending' = Append(pending, r)
        BY <2>1, <2>2 DEF AppendLine, Record, Line, Time
    <2>4. pending' \in Seq(Record) /\ Len(pending') = Len(pending) + 1
        BY <2>3
    <2>5. lastId' + Len(pending') <= MaxRows
        BY <2>1, <2>4, Sizes DEF AppendLine, Room, tableVars
    <2>6. mtime' \in [File -> Time \cup {NotThere}]
        BY <2>1 DEF AppendLine
    <2> QED
        BY <2>1, <2>4, <2>5, <2>6 DEF AppendLine, tableVars, sweepVars
<1>3. CASE InsertBatch
    <2>1. \A i \in DOMAIN pending : pending[i] \in Record /\ lastId + i \in 1 .. MaxRows
        BY Sizes
    <2>2. rows' \subseteq Row
        BY <1>3, <2>1 DEF InsertBatch, Row, Record, Time
    <2>3. lastId' \in 0 .. MaxRows /\ pending' = <<>> /\ lastId' + Len(pending') <= MaxRows
        BY <1>3, Sizes DEF InsertBatch
    <2> QED
        BY <1>3, <2>2, <2>3 DEF InsertBatch, sweepVars
<1>4. CASE GiveUp
    BY <1>4, Sizes DEF GiveUp, tableVars, sweepVars
<1> QED
    BY <1>1, <1>2, <1>3, <1>4 DEF Pipeline

LEMMA CleanerType ==
    ASSUME TypeInv, Cleaner
    PROVE  TypeInv'
<1> USE NoFileIsNone DEF TypeInv, TypeOK, tableVars
<1>1. CASE Sweep
    BY <1>1 DEF Sweep
<1>2. ASSUME NEW p \in Project, ListPaths(p) PROVE TypeInv'
    <2>1. cutoff' \in -(RetentionDays * DayTicks) .. MaxTime
        BY <1>2, Sizes DEF ListPaths, Time, Retention
    <2>2. paths' \subseteq File \cup {NoFile}
        BY <1>2 DEF ListPaths, RowsOf, Row
    <2> QED
        BY <1>2, <2>1, <2>2 DEF ListPaths
<1>3. CASE DeleteRows
    BY <1>3 DEF DeleteRows
<1>4. CASE DeleteFails
    <2>1. cutoff' \in -(RetentionDays * DayTicks) .. MaxTime
        BY <1>4, Sizes DEF DeleteFails, Retention
    <2> QED
        BY <1>4, <2>1 DEF DeleteFails
<1>5. ASSUME NEW f \in paths, SkipFile(f) PROVE TypeInv'
    BY <1>5 DEF SkipFile
<1>6. ASSUME NEW f \in paths, StatFile(f) PROVE TypeInv'
    BY <1>6 DEF StatFile
<1>7. CASE Count
    BY <1>7 DEF Count
<1>8. CASE Remove
    <2>1. mtime' \in [File -> Time \cup {NotThere}]
        BY <1>8 DEF Remove
    <2> QED
        BY <1>8, <2>1 DEF Remove
<1>9. CASE NextProject
    <2>1. cutoff' \in -(RetentionDays * DayTicks) .. MaxTime
        BY <1>9, Sizes DEF NextProject, Retention
    <2> QED
        BY <1>9, <2>1 DEF NextProject
<1>10. CASE SweepDone
    BY <1>10 DEF SweepDone
<1> QED
    BY <1>1, <1>2, <1>3, <1>4, <1>5, <1>6, <1>7, <1>8, <1>9, <1>10 DEF Cleaner

LEMMA TypeNext == TypeInv /\ [Next]_vars => TypeInv'
<1> SUFFICES ASSUME TypeInv, [Next]_vars PROVE TypeInv'
    OBVIOUS
<1> USE DEF TypeInv, TypeOK
<1>1. CASE Cleaner
    BY <1>1, CleanerType
<1>2. CASE Pipeline
    BY <1>2, PipelineType
<1>3. ASSUME NEW p \in Project, DeleteProject(p) PROVE TypeInv'
    BY <1>3 DEF DeleteProject, tableVars, sweepVars
<1>4. CASE Tick
    BY <1>4, Sizes DEF Tick, tableVars, sweepVars, Time
<1>5. CASE Restart
    <2>1. cutoff' \in -(RetentionDays * DayTicks) .. MaxTime
        BY <1>5, Sizes DEF Restart, Retention
    <2>2. pending' \in Seq(Record) /\ Len(pending') = 0
        BY <1>5 DEF Restart
    <2> QED
        BY <1>5, <2>1, <2>2, Sizes, NoFileIsNone DEF Restart, tableVars
<1>6. CASE UNCHANGED vars
    BY <1>6 DEF vars, tableVars, sweepVars
<1> QED
    BY <1>1, <1>2, <1>3, <1>4, <1>5, <1>6 DEF Next

\* Every variable of the sweep and of the tables and files it shares keeps its type
\* (TypeOK).
THEOREM CleanupTypeCorrect == Spec => []TypeOK
<1>1. TypeInv => TypeOK
    BY DEF TypeInv
<1> QED
    BY <1>1, TypeInit, TypeNext, PTL DEF Spec

-----------------------------------------------------------------------------
(***************************************************************************)
(* Files.                                                                  *)
(***************************************************************************)

\* What was appended is not older than a batch may wait, and its file not older.
Appended(r) ==
    /\ r.at <= now /\ now - r.at <= MaxPending
    /\ r.file # NoFile =>
         r.file.project = r.project /\ OnDisk(r.file) /\ r.at <= mtime[r.file]

\* A file was last appended to in its hour.
AgeInv ==
    /\ \A f \in File : OnDisk(f) => mtime[f] <= now /\ f.hour = Hour(mtime[f])
    /\ \A i \in DOMAIN pending : Appended(pending[i])
    /\ \A row \in rows : row.file # NoFile => row.file.project = row.project

\* The file the sweep is at is of an hour that is over, and if it is about to go, no
\* row points into it, unless the count has failed.
SweepInv ==
    /\ \A f \in paths \ {NoFile} : f.project = current
    /\ pc \in {"count", "remove"} => OnDisk(path) /\ now - mtime[path] >= HourTicks
    /\ pc = "remove" /\ path \notin miscounted => \A row \in rows : row.file # path

Inv == TypeInv /\ AgeInv /\ SweepInv /\ LiveRowsHaveTheirFiles

\* What is pending is a record, of a file or none.
LEMMA PendingRecords ==
    ASSUME TypeInv, NEW i \in DOMAIN pending
    PROVE  /\ pending[i] \in Record
           /\ pending[i].at \in Nat /\ pending[i].file \in File \cup {NoFile}
<1>1. pending[i] \in Record
    BY DEF TypeInv, TypeOK
<1> QED
    BY <1>1, Sizes DEF Record, Time

\* Nothing pending points into the file the sweep is at.
LEMMA NothingPending ==
    ASSUME TypeInv, AgeInv, SweepInv, pc \in {"count", "remove"}
    PROVE  \A i \in DOMAIN pending : pending[i].file # path
<1> SUFFICES ASSUME NEW i \in DOMAIN pending, pending[i].file = path
             PROVE  FALSE
    OBVIOUS
<1>1. path \in File /\ path # NoFile
    BY NoFileIsNone DEF TypeInv, TypeOK
<1>2. pending[i] \in Record
    BY DEF TypeInv, TypeOK
<1>3. pending[i].at <= mtime[path] /\ now - pending[i].at <= MaxPending
    BY <1>1 DEF AgeInv, Appended
<1>4. now - mtime[path] >= HourTicks /\ mtime[path] \in Nat /\ now \in Nat /\ pending[i].at \in Nat
    BY <1>1, <1>2, Sizes DEF SweepInv, TypeInv, TypeOK, Time, OnDisk, Record
<1> QED
    BY <1>3, <1>4, Sizes

\* A line is appended to the file of this hour, which the sweep is not at.
LEMMA AppendLineKeeps ==
    ASSUME Inv, NEW p \in Project, NEW line \in Lines, AppendLine(p, line)
    PROVE  AgeInv' /\ SweepInv' /\ LiveRowsHaveTheirFiles'
<1> DEFINE f == [project |-> p, hour |-> Hour(now)]
           r == [project |-> p, file |-> f, line |-> line, at |-> now]
<1>1. now \in Nat /\ mtime \in [File -> Time \cup {NotThere}] /\ pending \in Seq(Record)
    BY Sizes DEF Inv, TypeInv, TypeOK, Time
<1>2. f \in File /\ f # NoFile
    BY FileOfNow, NoFileIsNone DEF Inv
<1>3. /\ now' = now /\ rows' = rows /\ miscounted' = miscounted /\ pc' = pc
      /\ path' = path /\ paths' = paths /\ current' = current
      /\ pending' = Append(pending, r)
      /\ mtime' = [mtime EXCEPT ![f] = now]
    BY DEF AppendLine, tableVars, sweepVars
<1>4. mtime'[f] = now /\ now # NotThere
    BY <1>1, <1>2, <1>3 DEF NotThere
<1>5. \A g \in File : g # f => mtime'[g] = mtime[g] /\ (OnDisk(g)' <=> OnDisk(g))
    BY <1>1, <1>2, <1>3 DEF OnDisk
<1>6. \A g \in File : OnDisk(g) => mtime[g] \in Nat /\ OnDisk(g)' /\ mtime[g] <= mtime'[g]
    <2> SUFFICES ASSUME NEW g \in File, OnDisk(g)
                 PROVE  mtime[g] \in Nat /\ OnDisk(g)' /\ mtime[g] <= mtime'[g]
        OBVIOUS
    <2>1. mtime[g] \in Nat
        BY <1>1, Sizes DEF OnDisk, Time
    <2>2. mtime[g] <= now
        BY DEF Inv, AgeInv
    <2>3. CASE g = f
        BY <1>1, <1>4, <2>1, <2>2, <2>3 DEF OnDisk, NotThere
    <2>4. CASE g # f
        BY <1>5, <2>1, <2>4
    <2> QED
        BY <2>3, <2>4
<1>7. AgeInv'
    <2>1. \A g \in File : OnDisk(g)' => mtime'[g] <= now' /\ g.hour = Hour(mtime'[g])
        BY <1>1, <1>3, <1>4, <1>5 DEF Inv, AgeInv
    <2>2. ASSUME NEW i \in DOMAIN pending' PROVE Appended(pending[i])'
        <3>1. CASE i = Len(pending) + 1
            <4>1. pending'[i] = r
                BY <1>1, <1>3, <3>1
            <4> QED
                BY <1>1, <1>2, <1>3, <1>4, <4>1, Sizes DEF Appended, OnDisk
        <3>2. CASE i # Len(pending) + 1
            <4>1. i \in DOMAIN pending /\ pending'[i] = pending[i]
                BY <1>1, <1>3, <3>2
            <4>2. PICK old : old = pending[i]
                OBVIOUS
            <4>3. old.at \in Nat /\ old.file \in File \cup {NoFile}
                BY <4>1, <4>2, PendingRecords DEF Inv
            <4>4. Appended(old)
                BY <4>1, <4>2 DEF Inv, AgeInv
            <4>5. old.file # NoFile => OnDisk(old.file)' /\ old.at <= mtime'[old.file]
                <5> SUFFICES ASSUME old.file # NoFile
                             PROVE  OnDisk(old.file)' /\ old.at <= mtime'[old.file]
                    OBVIOUS
                <5>1. old.file \in File /\ OnDisk(old.file) /\ old.at <= mtime[old.file]
                    BY <4>3, <4>4 DEF Appended
                <5>2. mtime'[old.file] \in Nat
                    BY <1>1, <1>4, <1>5, <1>6, <5>1
                <5> QED
                    BY <1>6, <4>3, <5>1, <5>2
            <4> QED
                BY <1>3, <4>1, <4>2, <4>4, <4>5 DEF Appended
        <3> QED
            BY <3>1, <3>2
    <2> QED
        BY <1>3, <2>1, <2>2 DEF Inv, AgeInv
<1>8. SweepInv'
    <2>1. ASSUME pc \in {"count", "remove"} PROVE path \in File /\ path # f
        <3>1. path \in File
            BY <2>1 DEF Inv, TypeInv, TypeOK
        <3>2. OnDisk(path) /\ now - mtime[path] >= HourTicks /\ path.hour = Hour(mtime[path])
            BY <2>1, <3>1 DEF Inv, AgeInv, SweepInv
        <3>3. Hour(mtime[path]) < Hour(now) /\ Hour(mtime[path]) \in Nat /\ Hour(now) \in Nat
            BY <1>1, <1>6, <3>1, <3>2, Hours
        <3> QED
            BY <3>1, <3>2, <3>3
    <2> QED
        BY <1>3, <1>5, <2>1 DEF Inv, SweepInv
<1>9. LiveRowsHaveTheirFiles'
    <2>1. \A row \in rows : row.file # NoFile => row.file \in File
        BY DEF Inv, TypeInv, TypeOK, Row
    <2>2. \A i \in DOMAIN pending' : (pending[i].file # NoFile => OnDisk(pending[i].file))'
        BY <1>7 DEF AgeInv, Appended
    <2> QED
        BY <1>3, <1>6, <2>1, <2>2 DEF Inv, LiveRowsHaveTheirFiles
<1> QED
    BY <1>7, <1>8, <1>9

\* What a batch inserts was pending.
LEMMA InsertBatchKeeps ==
    ASSUME Inv, InsertBatch
    PROVE  AgeInv' /\ SweepInv' /\ LiveRowsHaveTheirFiles'
<1>1. /\ now' = now /\ mtime' = mtime /\ miscounted' = miscounted /\ pc' = pc
      /\ path' = path /\ paths' = paths /\ current' = current
      /\ pending' = <<>>
    BY DEF InsertBatch, sweepVars
<1>2. \A row \in rows' : row \in rows \/ \E i \in DOMAIN pending :
            row.file = pending[i].file /\ row.project = pending[i].project
    BY DEF InsertBatch
<1>3. \A f : OnDisk(f)' <=> OnDisk(f)
    BY <1>1 DEF OnDisk
<1>4. DOMAIN pending' = {}
    BY <1>1
<1>5. AgeInv'
    BY <1>1, <1>2, <1>3, <1>4 DEF Inv, AgeInv, Appended
<1>6. SweepInv'
    BY <1>1, <1>2, <1>3, NothingPending DEF Inv, SweepInv
<1>7. LiveRowsHaveTheirFiles'
    BY <1>1, <1>2, <1>3, <1>4 DEF Inv, LiveRowsHaveTheirFiles
<1> QED
    BY <1>5, <1>6, <1>7

\* The steps of the sweep.
LEMMA CleanerKeeps ==
    ASSUME Inv, Cleaner
    PROVE  AgeInv' /\ SweepInv' /\ LiveRowsHaveTheirFiles'
<1> DEFINE Goal == AgeInv' /\ SweepInv' /\ LiveRowsHaveTheirFiles'
<1>1. ASSUME now' = now, rows' \subseteq rows, pending' = pending, mtime' = mtime,
             miscounted' = miscounted
      PROVE  AgeInv' /\ LiveRowsHaveTheirFiles'
    BY <1>1 DEF Inv, AgeInv, Appended, LiveRowsHaveTheirFiles, OnDisk
<1>2. CASE Sweep
    BY <1>1, <1>2 DEF Sweep, tableVars, Inv, SweepInv
<1>3. ASSUME NEW p \in Project, ListPaths(p) PROVE Goal
    <2>1. \A f \in paths' \ {NoFile} : f.project = current'
        BY <1>3 DEF ListPaths, RowsOf, Inv, AgeInv
    <2> QED
        BY <1>1, <1>3, <2>1 DEF ListPaths, tableVars, SweepInv
<1>4. CASE DeleteRows
    BY <1>1, <1>4 DEF DeleteRows, Inv, SweepInv
<1>5. CASE DeleteFails
    BY <1>1, <1>5 DEF DeleteFails, tableVars, SweepInv
<1>6. ASSUME NEW f \in paths, SkipFile(f) PROVE Goal
    BY <1>1, <1>6 DEF SkipFile, tableVars, Inv, SweepInv
<1>7. ASSUME NEW f \in paths, StatFile(f) PROVE Goal
    BY <1>1, <1>7 DEF StatFile, tableVars, Inv, SweepInv, OnDisk
<1>8. CASE Count
    <2>1. path \in File /\ path # NoFile /\ path \in paths /\ OnDisk(path) /\ path.project = current
        BY <1>8, NoFileIsNone DEF Count, Inv, TypeInv, TypeOK, SweepInv
    <2>2. /\ now' = now /\ rows' = rows /\ pending' = pending /\ mtime' = mtime
          /\ current' = current
        BY <1>8 DEF Count, tableVars
    <2>3. AgeInv'
        BY <2>2 DEF Inv, AgeInv, Appended, OnDisk
    <2>4. RowsOf(current) = {} => \A row \in rows : row.file # path
        BY <2>1 DEF RowsOf, Inv, AgeInv
    <2>5. miscounted \ {path} \subseteq miscounted'
        BY <1>8 DEF Count
    <2>6. LiveRowsHaveTheirFiles'
        BY <2>1, <2>2, <2>5 DEF Inv, LiveRowsHaveTheirFiles, OnDisk
    <2>7. SweepInv'
        <3>1. CASE pc' = "remove"
            BY <1>8, <2>2, <2>4, <3>1 DEF Count, Inv, SweepInv, OnDisk
        <3>2. CASE pc' = "files"
            BY <1>8, <2>2, <3>2 DEF Count, Inv, SweepInv
        <3> QED
            BY <1>8, <3>1, <3>2 DEF Count
    <2> QED
        BY <2>3, <2>6, <2>7
<1>9. CASE Remove
    <2>1. path \in File /\ path # NoFile /\ pc \in {"count", "remove"}
        BY <1>9, NoFileIsNone DEF Remove, Inv, TypeInv, TypeOK
    <2>2. /\ now' = now /\ rows' = rows /\ pending' = pending /\ miscounted' = miscounted
          /\ current' = current /\ pc' = "files" /\ paths' \subseteq paths
        BY <1>9 DEF Remove, tableVars
    <2>3. \A f \in File : OnDisk(f)' => mtime'[f] = mtime[f] /\ OnDisk(f)
        BY <1>9, <2>1 DEF Remove, OnDisk, Inv, TypeInv, TypeOK
    <2>4. \A f \in File : OnDisk(f) /\ f # path => OnDisk(f)' /\ mtime'[f] = mtime[f]
        BY <1>9, <2>1 DEF Remove, OnDisk, Inv, TypeInv, TypeOK
    <2>5. \A i \in DOMAIN pending : pending[i].file # path /\ pending[i].file \in File \cup {NoFile}
        BY <2>1, NothingPending, PendingRecords DEF Inv
    <2>6. \A row \in rows : /\ row.file \in File \cup {NoFile}
                            /\ row.file = path => path \in miscounted
        BY <1>9 DEF Remove, Inv, SweepInv, TypeInv, TypeOK, Row
    <2>7. AgeInv'
        BY <2>2, <2>3, <2>4, <2>5 DEF Inv, AgeInv, Appended
    <2>8. SweepInv'
        BY <2>2 DEF Inv, SweepInv
    <2>9. LiveRowsHaveTheirFiles'
        BY <2>2, <2>4, <2>5, <2>6 DEF Inv, LiveRowsHaveTheirFiles
    <2> QED
        BY <2>7, <2>8, <2>9
<1>10. CASE NextProject
    BY <1>1, <1>10 DEF NextProject, tableVars, Inv, SweepInv
<1>11. CASE SweepDone
    BY <1>1, <1>11 DEF SweepDone, tableVars, Inv, SweepInv
<1> QED
    BY <1>2, <1>3, <1>4, <1>5, <1>6, <1>7, <1>8, <1>9, <1>10, <1>11 DEF Cleaner

LEMMA InvNext == Inv /\ [Next]_vars => Inv'
<1> SUFFICES ASSUME Inv, [Next]_vars PROVE AgeInv' /\ SweepInv' /\ LiveRowsHaveTheirFiles'
    BY TypeNext DEF Inv
<1> DEFINE Goal == AgeInv' /\ SweepInv' /\ LiveRowsHaveTheirFiles'
<1> USE DEF Inv
<1>1. CASE Cleaner
    BY <1>1, CleanerKeeps
<1>2. ASSUME NEW p \in Project, KeepMetadata(p) PROVE Goal
    <2> DEFINE r == [project |-> p, file |-> NoFile, line |-> "none", at |-> now]
    <2>1. now \in Nat /\ pending \in Seq(Record)
        BY Sizes DEF TypeInv, TypeOK, Time
    <2>2. \A i \in DOMAIN pending' :
            pending'[i] = r \/ (i \in DOMAIN pending /\ pending'[i] = pending[i])
        BY <1>2, <2>1 DEF KeepMetadata
    <2>3. Appended(r)
        BY <2>1, Sizes DEF Appended
    <2> QED
        BY <1>2, <2>2, <2>3 DEF KeepMetadata, tableVars, sweepVars, AgeInv, SweepInv, Appended,
            LiveRowsHaveTheirFiles, OnDisk
<1>3. ASSUME NEW p \in Project, NEW line \in Lines, AppendLine(p, line) PROVE Goal
    BY <1>3, AppendLineKeeps
<1>4. CASE InsertBatch
    BY <1>4, InsertBatchKeeps
<1>5. CASE GiveUp
    <2>1. DOMAIN pending' = {}
        BY <1>5 DEF GiveUp
    <2> QED
        BY <1>5, <2>1 DEF GiveUp, tableVars, sweepVars, AgeInv, SweepInv, LiveRowsHaveTheirFiles, OnDisk
<1>6. ASSUME NEW p \in Project, DeleteProject(p) PROVE Goal
    BY <1>6 DEF DeleteProject, tableVars, sweepVars, AgeInv, Appended, SweepInv,
        LiveRowsHaveTheirFiles, OnDisk
<1>7. CASE Tick
    <2>1. now \in Nat /\ now' = now + 1
        BY <1>7, Sizes DEF Tick, TypeInv, TypeOK, Time
    <2>2. \A f \in File : OnDisk(f) => mtime[f] \in Nat
        BY Sizes DEF TypeInv, TypeOK, OnDisk, Time
    <2>3. \A i \in DOMAIN pending : pending[i].at \in Nat /\ now' - pending[i].at <= MaxPending
        BY <1>7, <2>1, PendingRecords, Sizes DEF Tick
    <2>4. AgeInv'
        BY <1>7, <2>1, <2>2, <2>3, Sizes DEF Tick, tableVars, AgeInv, Appended, OnDisk
    <2>5. pc \in {"count", "remove"} => path \in File
        BY DEF TypeInv, TypeOK
    <2>6. SweepInv'
        BY <1>7, <2>1, <2>2, <2>5, Sizes DEF Tick, tableVars, sweepVars, SweepInv, OnDisk
    <2> QED
        BY <1>7, <2>4, <2>6 DEF Tick, tableVars, LiveRowsHaveTheirFiles, OnDisk
<1>8. CASE Restart
    <2>1. DOMAIN pending' = {}
        BY <1>8 DEF Restart
    <2> QED
        BY <1>8, <2>1 DEF Restart, tableVars, AgeInv, SweepInv, LiveRowsHaveTheirFiles, OnDisk
<1>9. CASE UNCHANGED vars
    BY <1>9 DEF vars, tableVars, sweepVars, AgeInv, Appended, SweepInv, LiveRowsHaveTheirFiles, OnDisk
<1> QED
    BY <1>1, <1>2, <1>3, <1>4, <1>5, <1>6, <1>7, <1>8, <1>9 DEF Next, Pipeline

LEMMA InvInit == Init => Inv
<1> SUFFICES ASSUME Init PROVE AgeInv /\ SweepInv /\ LiveRowsHaveTheirFiles
    BY TypeInit DEF Inv
<1>1. DOMAIN pending = {} /\ rows = {} /\ paths = {} /\ pc = "idle"
    BY DEF Init
<1>2. \A f \in File : ~OnDisk(f)
    BY DEF Init, OnDisk
<1> QED
    BY <1>1, <1>2 DEF AgeInv, SweepInv, LiveRowsHaveTheirFiles

\* The sweep removes no file that a row points into or is about to point into, unless
\* its count of the rows has failed (LiveRowsHaveTheirFiles).
THEOREM FilesStayWithTheirRows == Spec => []LiveRowsHaveTheirFiles
<1>1. Inv => LiveRowsHaveTheirFiles
    BY DEF Inv
<1> QED
    BY <1>1, InvInit, InvNext, PTL DEF Spec

-----------------------------------------------------------------------------
(***************************************************************************)
(* Rows.                                                                   *)
(***************************************************************************)

\* The cutoff of a DELETE is of the moment its sweep came to the project.
CutoffInv == pc = "delete" => cutoff <= now - Retention

LEMMA CutoffNext == TypeInv /\ CutoffInv /\ [Next]_vars => CutoffInv'
<1> SUFFICES ASSUME TypeInv, CutoffInv, [Next]_vars PROVE CutoffInv'
    OBVIOUS
<1>1. now \in Int /\ cutoff \in Int /\ Retention \in Nat
    BY Sizes DEF TypeInv, TypeOK, Time, Retention
<1>2. CASE pc' # "delete"
    BY <1>2 DEF CutoffInv
<1>3. ASSUME NEW p \in Project, ListPaths(p) PROVE CutoffInv'
    <2>1. cutoff' = now - Retention /\ now' = now
        BY <1>3 DEF ListPaths, Retention
    <2> QED
        BY <1>1, <2>1 DEF CutoffInv
<1>4. CASE Tick
    BY <1>1, <1>4 DEF Tick, sweepVars, CutoffInv
<1>5. CASE pc' = pc /\ cutoff' = cutoff /\ now' = now
    BY <1>5 DEF CutoffInv
<1>6. CASE Cleaner
    BY <1>2, <1>3, <1>6 DEF Cleaner, Sweep, DeleteRows, DeleteFails, SkipFile, StatFile, Count,
        Remove, NextProject, SweepDone, TypeInv
<1>7. CASE Pipeline
    BY <1>5, <1>7 DEF Pipeline, KeepMetadata, AppendLine, InsertBatch, GiveUp, sweepVars
<1>8. CASE \E p \in Project : DeleteProject(p)
    BY <1>5, <1>8 DEF DeleteProject, sweepVars
<1>9. CASE Restart
    BY <1>2, <1>9 DEF Restart
<1>10. CASE UNCHANGED vars
    BY <1>5, <1>10 DEF vars, sweepVars
<1> QED
    BY <1>4, <1>6, <1>7, <1>8, <1>9, <1>10 DEF Next

\* The comparison of two formats of a time costs a row at most a day (NeverADayEarly).
THEOREM RowsAreKept == Spec => NeverADayEarly
<1> DEFINE Kept == \A row \in rows \ rows' : now - row.created > (RetentionDays - 1) * DayTicks
<1>1. Init => CutoffInv
    BY DEF Init, CutoffInv
<1>2. ASSUME TypeInv, CutoffInv, [Next]_vars PROVE [Kept]_vars
    <2> SUFFICES ASSUME NEW row \in rows, row \notin rows'
                 PROVE  now - row.created > (RetentionDays - 1) * DayTicks
        OBVIOUS
    <2>1. DeleteRows
        BY <1>2 DEF Next, Cleaner, Pipeline, Sweep, ListPaths, DeleteFails, SkipFile, StatFile,
            Count, Remove, NextProject, SweepDone, KeepMetadata, AppendLine, InsertBatch, GiveUp,
            DeleteProject, Tick, Restart, vars, tableVars
    <2>2. Day(row.created) <= Day(cutoff) /\ pc = "delete"
        BY <2>1 DEF DeleteRows, Expired, RowsOf
    <2>3. row.created \in Nat /\ now \in Nat /\ cutoff \in Int
        BY <1>2, Sizes DEF TypeInv, TypeOK, Row, Time, Retention
    <2>4. row.created < cutoff + DayTicks
        BY <2>2, <2>3, Days
    <2>5. cutoff <= now - Retention
        BY <1>2, <2>2 DEF CutoffInv
    <2>6. now - row.created > Retention - DayTicks
        BY <2>3, <2>4, <2>5, Sizes
    <2> QED
        BY <2>6, Sizes
<1> QED
    BY <1>1, <1>2, TypeInit, TypeNext, CutoffNext, PTL DEF Spec, NeverADayEarly

-----------------------------------------------------------------------------
(***************************************************************************)
(* Finite sets of numbers.                                                 *)
(***************************************************************************)

\* A set of numbers that is not empty has a least one.
LEMMA LeastNumber ==
    ASSUME NEW S \in SUBSET Nat, S # {}
    PROVE  \E v \in S : \A w \in S : v <= w
<1>1. PICK v \in S : \A w \in S : <<w, v>> \notin OpToRel(<, Nat)
    BY NatLessThanWellFounded, WFMin
<1>2. \A w \in S : ~(w < v)
    BY <1>1 DEF OpToRel
<1> QED
    BY <1>2

\* A bounded one has a greatest one.
LEMMA GreatestNumber ==
    ASSUME NEW bound \in Nat, NEW S \in SUBSET (0 .. bound), S # {}
    PROVE  \E v \in S : \A w \in S : w <= v
<1> DEFINE T == {bound - w : w \in S}
<1>1. T \in SUBSET Nat /\ T # {}
    <2>1. \A w \in S : bound - w \in Nat
        OBVIOUS
    <2> QED
        BY <2>1
<1> HIDE DEF T
<1>2. PICK t \in T : \A u \in T : t <= u
    BY <1>1, LeastNumber
<1>3. PICK v \in S : t = bound - v
    BY <1>2 DEF T
<1>4. \A w \in S : bound - w \in T
    BY DEF T
<1> QED
    BY <1>2, <1>3, <1>4

\* What is below an element of a set.
Below(S, x) == {y \in S : y < x}

\* There are more below a greater element.
LEMMA BelowGrows ==
    ASSUME NEW S \in SUBSET Nat, IsFiniteSet(S), NEW x \in S, NEW y \in S, x < y
    PROVE  Cardinality(Below(S, x)) + 1 <= Cardinality(Below(S, y))
<1>1. Below(S, y) \in SUBSET S /\ Below(S, x) \in SUBSET S
    BY DEF Below
<1>2. IsFiniteSet(Below(S, y)) /\ IsFiniteSet(Below(S, x))
    BY <1>1, FS_Subset
<1>3. Below(S, x) \cup {x} \in SUBSET Below(S, y)
    <2>1. \A z \in S : z \in Nat
        OBVIOUS
    <2>2. \A z \in S : z < x => z < y
        BY <2>1
    <2> QED
        BY <2>2 DEF Below
<1>4. x \notin Below(S, x)
    BY DEF Below
<1>5. Cardinality(Below(S, x) \cup {x}) = Cardinality(Below(S, x)) + 1
    BY <1>2, <1>4, FS_AddElement
<1>6. Cardinality(Below(S, x) \cup {x}) <= Cardinality(Below(S, y))
    BY <1>2, <1>3, FS_Subset
<1> QED
    BY <1>5, <1>6

\* A finite set of numbers can be listed in increasing order.
LEMMA SortedExists ==
    ASSUME NEW S \in SUBSET Nat, IsFiniteSet(S)
    PROVE  \E seq \in [1 .. Cardinality(S) -> S] :
               \A i, j \in DOMAIN seq : i < j => seq[i] < seq[j]
<1> DEFINE n == Cardinality(S)
           rank == [x \in S |-> Cardinality(Below(S, x)) + 1]
           seq == [k \in 1 .. n |-> CHOOSE x \in S : rank[x] = k]
<1>1. n \in Nat /\ \A x \in S : x \in Nat
    BY FS_CardinalityType
<1>2. ASSUME NEW x \in S
      PROVE  rank[x] \in 1 .. n /\ Cardinality(Below(S, x)) \in Nat
    <2>1. Below(S, x) \in SUBSET S /\ x \in S /\ x \notin Below(S, x)
        BY DEF Below
    <2>2. IsFiniteSet(Below(S, x)) /\ Cardinality(Below(S, x)) <= n
          /\ (n = Cardinality(Below(S, x)) => S = Below(S, x))
        BY <2>1, FS_Subset
    <2>3. Cardinality(Below(S, x)) \in Nat
        BY <2>2, FS_CardinalityType
    <2> QED
        BY <1>1, <2>1, <2>2, <2>3
<1>3. ASSUME NEW x \in S, NEW y \in S, x < y PROVE rank[x] < rank[y]
    <2>1. Cardinality(Below(S, x)) + 1 <= Cardinality(Below(S, y))
        BY <1>3, BelowGrows
    <2>2. Cardinality(Below(S, x)) \in Nat /\ Cardinality(Below(S, y)) \in Nat
        BY <1>2
    <2>3. rank[x] = Cardinality(Below(S, x)) + 1 /\ rank[y] = Cardinality(Below(S, y)) + 1
        OBVIOUS
    <2> HIDE DEF rank
    <2> QED
        BY <2>1, <2>2, <2>3
<1>4. rank \in [S -> 1 .. n]
    BY <1>2
<1> HIDE DEF rank
<1>5. \A x, y \in S : rank[x] = rank[y] => x = y
    <2> SUFFICES ASSUME NEW x \in S, NEW y \in S, x # y PROVE rank[x] # rank[y]
        OBVIOUS
    <2>1. rank[x] \in Nat /\ rank[y] \in Nat
        BY <1>1, <1>4
    <2>2. x < y \/ y < x
        BY <1>1
    <2> QED
        BY <1>3, <2>1, <2>2
<1>6. rank \in Injection(S, 1 .. n)
    BY <1>4, <1>5 DEF Injection, IsInjective
<1>7. IsFiniteSet(1 .. n) /\ Cardinality(1 .. n) = n
    <2>1. 1 \in Int /\ n \in Int /\ (IF 1 > n THEN 0 ELSE n - 1 + 1) = n
        BY <1>1
    <2> QED
        BY <2>1, FS_Interval
<1>8. rank \in Surjection(S, 1 .. n)
    BY <1>6, <1>7, FS_Injection
<1>9. \A k \in 1 .. n : \E x \in S : rank[x] = k
    BY <1>8 DEF Surjection
<1>10. \A k \in 1 .. n : seq[k] \in S /\ rank[seq[k]] = k
    BY <1>9
<1>11. seq \in [1 .. n -> S]
    BY <1>10
<1> HIDE DEF seq
<1>12. DOMAIN seq = 1 .. n
    BY <1>11
<1>13. \A i, j \in 1 .. n : i < j => seq[i] < seq[j]
    <2> SUFFICES ASSUME NEW i \in 1 .. n, NEW j \in 1 .. n, i < j, ~(seq[i] < seq[j])
                 PROVE  FALSE
        OBVIOUS
    <2>1. seq[i] \in S /\ seq[j] \in S /\ rank[seq[i]] = i /\ rank[seq[j]] = j
        BY <1>10
    <2>2. seq[i] \in Nat /\ seq[j] \in Nat
        BY <1>1, <2>1
    <2>3. seq[i] = seq[j] \/ seq[j] < seq[i]
        BY <2>2
    <2>4. seq[j] < seq[i] => j < i
        BY <1>3, <2>1
    <2> QED
        BY <1>1, <2>1, <2>3, <2>4
<1> QED
    BY <1>11, <1>12, <1>13

-----------------------------------------------------------------------------
(***************************************************************************)
(* The table and the files.                                                *)
(***************************************************************************)

\* Ids go up and are unique.
IdInv ==
    /\ \A row \in rows : row.id <= lastId
    /\ \A row, other \in rows : row.id = other.id => row = other

\* A file that is gone is of an hour that is over.
GoneInv ==
    \A row \in rows : row.file # NoFile /\ ~OnDisk(row.file) => row.file.hour < Hour(now)

TableInv == Inv /\ IdInv /\ GoneInv

\* What a step adds to the table has ids after all that were given.
LEMMA NewIds ==
    ASSUME TypeInv, [Next]_vars
    PROVE  /\ lastId \in Nat /\ lastId' \in Nat /\ lastId <= lastId'
           /\ \A row \in rows' \ rows :
                /\ row.id > lastId /\ row.id <= lastId'
                /\ \E i \in DOMAIN pending : /\ row.id = lastId + i
                                             /\ row.file = pending[i].file
           /\ \A row, other \in rows' \ rows : row.id = other.id => row = other
           /\ rows' \subseteq rows \/ mtime' = mtime
<1>1. lastId \in Nat /\ pending \in Seq(Record)
    BY Sizes DEF TypeInv, TypeOK
<1>2. CASE InsertBatch
    <2> DEFINE new(i) ==
            [id |-> lastId + i, project |-> pending[i].project, file |-> pending[i].file,
             line |-> pending[i].line, created |-> now]
    <2>1. DOMAIN pending = 1 .. Len(pending) /\ Len(pending) \in Nat
        BY <1>1
    <2>2. lastId' = lastId + Len(pending) /\ mtime' = mtime
        BY <1>2 DEF InsertBatch
    <2>3. \A row \in rows' \ rows : \E i \in DOMAIN pending : row = new(i)
        BY <1>2 DEF InsertBatch
    <2>4. \A row \in rows' \ rows : \E i \in 1 .. Len(pending) :
              row = new(i) /\ row.id = lastId + i /\ row.file = pending[i].file
        BY <2>1, <2>3
    <2> HIDE DEF new
    <2>5. \A row, other \in rows' \ rows : row.id = other.id => row = other
        <3> SUFFICES ASSUME NEW row \in rows' \ rows, NEW other \in rows' \ rows,
                            row.id = other.id
                     PROVE  row = other
            OBVIOUS
        <3>1. PICK i \in 1 .. Len(pending) : row = new(i) /\ row.id = lastId + i
            BY <2>4
        <3>2. PICK j \in 1 .. Len(pending) : other = new(j) /\ other.id = lastId + j
            BY <2>4
        <3>3. i = j
            BY <1>1, <2>1, <3>1, <3>2
        <3> QED
            BY <3>1, <3>2, <3>3
    <2> QED
        BY <1>1, <2>1, <2>2, <2>4, <2>5
<1>3. CASE rows' \subseteq rows /\ lastId' = lastId
    BY <1>1, <1>3
<1> QED
    BY <1>2, <1>3 DEF Next, Cleaner, Pipeline, Sweep, ListPaths, DeleteRows, DeleteFails, SkipFile,
        StatFile, Count, Remove, NextProject, SweepDone, KeepMetadata, AppendLine, GiveUp,
        DeleteProject, Tick, Restart, vars, tableVars

\* A file comes into being in its hour, and goes when that is over.
LEMMA FilesComeAndGo ==
    ASSUME Inv, [Next]_vars
    PROVE  /\ now \in Nat /\ now' \in Nat /\ now <= now'
           /\ \A f \in File : ~OnDisk(f) /\ OnDisk(f)' => f.hour = Hour(now)
           /\ \A f \in File : OnDisk(f) /\ ~OnDisk(f)' => f.hour < Hour(now)
<1>1. now \in Nat /\ mtime \in [File -> Time \cup {NotThere}]
    BY Sizes DEF Inv, TypeInv, TypeOK, Time
<1>2. CASE \E p \in Project : \E line \in Lines : AppendLine(p, line)
    <2>1. PICK p \in Project, line \in Lines : AppendLine(p, line)
        BY <1>2
    <2> DEFINE f == [project |-> p, hour |-> Hour(now)]
    <2>2. f \in File /\ f.hour = Hour(now)
        BY FileOfNow DEF Inv
    <2>3. now' = now /\ mtime' = [mtime EXCEPT ![f] = now]
        BY <2>1 DEF AppendLine
    <2>4. now # NotThere
        BY <1>1 DEF NotThere
    <2> QED
        BY <1>1, <2>2, <2>3, <2>4 DEF OnDisk
<1>3. CASE Remove
    <2>1. PICK f \in File : f = path
        BY <1>3 DEF Remove, Inv, TypeInv, TypeOK
    <2>2. /\ now' = now
          /\ \A g \in File : g # f => mtime'[g] = mtime[g]
          /\ mtime'[f] \in {mtime[f], NotThere}
        BY <1>1, <1>3, <2>1 DEF Remove
    <2>3. OnDisk(f) /\ now - mtime[f] >= HourTicks /\ f.hour = Hour(mtime[f])
        BY <1>3, <2>1 DEF Remove, Inv, SweepInv, AgeInv
    <2>4. mtime[f] \in Nat
        BY <1>1, <2>1, <2>3, Sizes DEF OnDisk, Time
    <2>5. f.hour < Hour(now)
        BY <1>1, <2>3, <2>4, Hours
    <2> QED
        BY <1>1, <2>2, <2>5 DEF OnDisk
<1>4. CASE mtime' = mtime /\ (now' = now \/ Tick)
    BY <1>1, <1>4 DEF OnDisk, Tick
<1> QED
    BY <1>2, <1>3, <1>4 DEF Next, Cleaner, Pipeline, Sweep, ListPaths, DeleteRows, DeleteFails,
        SkipFile, StatFile, Count, NextProject, SweepDone, KeepMetadata, InsertBatch, GiveUp,
        DeleteProject, Tick, Restart, vars

LEMMA TableNext == TableInv /\ [Next]_vars => TableInv'
<1> SUFFICES ASSUME TableInv, [Next]_vars PROVE IdInv' /\ GoneInv'
    BY InvNext DEF TableInv
<1> USE DEF TableInv
<1>1. TypeInv
    BY DEF Inv
<1>2. \A row \in rows : row.id \in Nat /\ row.file \in File \cup {NoFile}
    BY <1>1, Sizes DEF TypeInv, TypeOK, Row
<1>3. IdInv'
    <2>1. \A row \in rows' : row.id <= lastId'
        BY <1>1, <1>2, NewIds DEF IdInv
    <2>2. ASSUME NEW row \in rows', NEW other \in rows', row.id = other.id PROVE row = other
        <3>1. \A r \in rows, s \in rows' \ rows : r.id # s.id
            BY <1>1, <1>2, NewIds DEF IdInv
        <3> QED
            BY <1>1, <2>2, <3>1, NewIds DEF IdInv
    <2> QED
        BY <2>1, <2>2 DEF IdInv
<1>4. GoneInv'
    <2> SUFFICES ASSUME NEW row \in rows', row.file # NoFile, ~OnDisk(row.file)'
                 PROVE  row.file.hour < Hour(now')
        BY DEF GoneInv
    <2>1. Hour(now) \in Nat /\ Hour(now') \in Nat /\ Hour(now) <= Hour(now')
        BY FilesComeAndGo, Hours
    <2>2. CASE row \in rows
        <3>1. row.file \in File
            BY <1>2, <2>2
        <3>2. row.file.hour \in Nat
            BY <3>1 DEF File
        <3>3. row.file.hour < Hour(now)
            BY <2>2, <3>1, FilesComeAndGo DEF GoneInv
        <3> QED
            BY <2>1, <3>2, <3>3
    <2>3. CASE row \notin rows
        <3>1. PICK i \in DOMAIN pending : row.file = pending[i].file
            BY <1>1, <2>3, NewIds
        <3>2. OnDisk(row.file)
            BY <3>1 DEF Inv, LiveRowsHaveTheirFiles
        <3>3. mtime' = mtime
            BY <1>1, <2>3, NewIds
        <3> QED
            BY <3>2, <3>3 DEF OnDisk
    <2> QED
        BY <2>2, <2>3
<1> QED
    BY <1>3, <1>4

LEMMA TableInit == Init => TableInv
<1> SUFFICES ASSUME Init PROVE IdInv /\ GoneInv
    BY InvInit DEF TableInv
<1> QED
    BY DEF Init, IdInv, GoneInv

\* A line that cannot be read stays so.
LEMMA NothingComesBack ==
    ASSUME TableInv, [Next]_vars, NEW row \in rows, Readable(row)'
    PROVE  Readable(row)
<1>1. row.file \in File \cup {NoFile}
    BY DEF TableInv, Inv, TypeInv, TypeOK, Row
<1>2. row.file # NoFile => OnDisk(row.file)' /\ row.line = "whole"
    BY DEF Readable
<1>3. ASSUME row.file # NoFile, ~OnDisk(row.file) PROVE FALSE
    <2>1. row.file.hour < Hour(now)
        BY <1>3 DEF TableInv, GoneInv
    <2>2. row.file.hour = Hour(now)
        BY <1>1, <1>2, <1>3, FilesComeAndGo DEF TableInv
    <2>3. Hour(now) \in Nat
        BY FilesComeAndGo, Hours DEF TableInv
    <2> QED
        BY <2>1, <2>2, <2>3
<1> QED
    BY <1>2, <1>3 DEF Readable

-----------------------------------------------------------------------------
(***************************************************************************)
(* Pages.                                                                  *)
(***************************************************************************)

\* Rows are as many as ids, at most.
LEMMA RowsFinite ==
    ASSUME TypeInv, IdInv, NEW S \in SUBSET rows
    PROVE  IsFiniteSet(S)
<1> DEFINE id == [row \in S |-> row.id]
<1>1. \A row \in S : row.id \in 1 .. MaxRows
    BY DEF TypeInv, TypeOK, Row
<1>2. id \in Injection(S, 1 .. MaxRows)
    BY <1>1 DEF Injection, IsInjective, IdInv
<1>3. IsFiniteSet(1 .. MaxRows)
    <2>1. 1 \in Int /\ MaxRows \in Int
        BY Sizes
    <2> QED
        BY <2>1, FS_Interval
<1> QED
    BY <1>2, <1>3, FS_Injection

\* The rows a query may return.
After(p, c) == {row \in RowsOf(p) : row.id > c}

Before(p, c, row) == {other \in After(p, c) : other.id < row.id}

LEMMA PageIs ==
    ASSUME NEW p, NEW c
    PROVE  ListAfterCursor(p, c) =
               {row \in After(p, c) : Cardinality(Before(p, c, row)) < PageSize}
BY DEF ListAfterCursor, After, Before

\* A page is what comes first after the cursor.
LEMMA PageIsPrefix ==
    ASSUME TypeInv, IdInv, NEW p \in Project, NEW c \in Nat
    PROVE  /\ ListAfterCursor(p, c) \subseteq After(p, c)
           /\ \A row \in After(p, c) : row \in rows /\ row.id \in Nat
           /\ \A row \in ListAfterCursor(p, c), other \in After(p, c) :
                  other.id <= row.id => other \in ListAfterCursor(p, c)
           /\ \A row \in After(p, c) : Cardinality(Before(p, c, row)) \in Nat
<1>1. \A row \in After(p, c) : row \in rows /\ row.id \in Nat
    BY Sizes DEF After, RowsOf, TypeInv, TypeOK, Row
<1>2. ASSUME NEW row \in After(p, c), NEW other \in After(p, c), other.id <= row.id
      PROVE  Cardinality(Before(p, c, other)) <= Cardinality(Before(p, c, row))
    <2>1. Before(p, c, other) \in SUBSET Before(p, c, row)
        <3>1. \A z \in After(p, c) : z.id < other.id => z.id < row.id
            BY <1>1, <1>2
        <3> QED
            BY <3>1 DEF Before
    <2>2. IsFiniteSet(Before(p, c, row))
        <3>1. Before(p, c, row) \in SUBSET rows
            BY <1>1 DEF Before
        <3> QED
            BY <3>1, RowsFinite
    <2> QED
        BY <2>1, <2>2, FS_Subset
<1>3. ASSUME NEW row \in After(p, c) PROVE Cardinality(Before(p, c, row)) \in Nat
    <2>1. Before(p, c, row) \in SUBSET rows
        BY <1>1 DEF Before
    <2> QED
        BY <2>1, RowsFinite, FS_CardinalityType
<1>4. PageSize \in Nat
    BY ExportAssumption
<1>5. ASSUME NEW row \in ListAfterCursor(p, c), NEW other \in After(p, c), other.id <= row.id
      PROVE  other \in ListAfterCursor(p, c)
    <2>1. row \in After(p, c) /\ Cardinality(Before(p, c, row)) < PageSize
        BY PageIs
    <2>2. /\ Cardinality(Before(p, c, other)) <= Cardinality(Before(p, c, row))
          /\ Cardinality(Before(p, c, row)) \in Nat /\ Cardinality(Before(p, c, other)) \in Nat
        BY <1>2, <1>3, <1>5, <2>1
    <2>3. Cardinality(Before(p, c, other)) < PageSize
        BY <1>4, <2>1, <2>2
    <2> QED
        BY <2>3, PageIs
<1>6. ListAfterCursor(p, c) \subseteq After(p, c)
    BY PageIs
<1> QED
    BY <1>1, <1>3, <1>5, <1>6

\* Of rows there is a first and a last.
LEMMA Ends ==
    ASSUME TypeInv, NEW page \in SUBSET Row, page # {}
    PROVE  /\ First(page) \in page /\ \A other \in page : First(page).id <= other.id
           /\ LastId(page) \in {row.id : row \in page} /\ \A row \in page : row.id <= LastId(page)
           /\ \E row \in page : \A other \in page : other.id <= row.id
<1> DEFINE ids == {row.id : row \in page}
<1>1. ids \in SUBSET (0 .. MaxRows) /\ ids \in SUBSET Nat /\ ids # {} /\ MaxRows \in Nat
    BY Sizes DEF Row
<1>2. \A row \in page : row.id \in ids
    OBVIOUS
<1> HIDE DEF ids
<1>3. PICK least \in ids : \A id \in ids : least <= id
    BY <1>1, LeastNumber
<1>4. PICK most \in ids : \A id \in ids : id <= most
    BY <1>1, GreatestNumber
<1>5. PICK row \in page : row.id = least
    BY <1>3 DEF ids
<1>6. PICK last \in page : last.id = most
    BY <1>4 DEF ids
<1>7. \A other \in page : row.id <= other.id /\ other.id <= most
    BY <1>2, <1>3, <1>4, <1>5
<1>8. First(page) \in page /\ \A other \in page : First(page).id <= other.id
    BY <1>7 DEF First
<1>9. LastId(page) \in {r.id : r \in page} /\ \A r \in page : r.id <= LastId(page)
    BY <1>4, <1>7 DEF LastId, ids
<1> QED
    BY <1>6, <1>7, <1>8, <1>9

\* A page that is not full is all there is, and an empty one is not full.
LEMMA ShortPageIsLast ==
    ASSUME TypeInv, IdInv, NEW p \in Project, NEW c \in Nat,
           Cardinality(ListAfterCursor(p, c)) # PageSize
    PROVE  After(p, c) \subseteq ListAfterCursor(p, c)
<1> DEFINE page == ListAfterCursor(p, c)
           missing == After(p, c) \ page
<1> SUFFICES ASSUME missing # {} PROVE FALSE
    OBVIOUS
<1>1. page \in SUBSET rows /\ missing \in SUBSET rows /\ page \in SUBSET Row /\ missing \in SUBSET Row
    BY PageIsPrefix DEF TypeInv, TypeOK
<1>2. \A row \in Row : row.id \in Nat
    BY Sizes DEF Row
<1>3. PageSize \in Nat \ {0}
    BY ExportAssumption
<1>4. PICK x \in missing : \A other \in missing : x.id <= other.id
    BY <1>1, Ends
<1>5. Before(p, c, x) = page
    <2>1. ASSUME NEW row \in page PROVE row.id < x.id
        <3>1. x.id <= row.id => x \in page
            BY <1>4, PageIsPrefix
        <3> QED
            BY <1>1, <1>2, <1>4, <3>1
    <2>2. ASSUME NEW row \in After(p, c), row.id < x.id PROVE row \in page
        BY <1>1, <1>2, <1>4, <2>2, PageIsPrefix
    <2>3. page \subseteq After(p, c)
        BY PageIsPrefix
    <2> QED
        BY <2>1, <2>2, <2>3 DEF Before
<1>6. IsFiniteSet(page) /\ Cardinality(page) \in Nat
    BY <1>1, RowsFinite, FS_CardinalityType
<1>7. Cardinality(page) >= PageSize
    <2>1. x \in After(p, c) /\ x \notin page
        BY <1>4
    <2>2. ~(Cardinality(Before(p, c, x)) < PageSize)
        BY <2>1, PageIs
    <2> HIDE DEF page
    <2> QED
        BY <1>3, <1>5, <1>6, <2>2
<1>8. page # {}
    BY <1>3, <1>7, FS_EmptySet
<1>9. PICK last \in page : \A other \in page : other.id <= last.id
    BY <1>1, <1>8, Ends
<1>10. Before(p, c, last) = page \ {last}
    <2>1. ASSUME NEW row \in page, row # last PROVE row.id < last.id
        BY <1>1, <1>2, <1>9, <2>1 DEF IdInv
    <2>2. ASSUME NEW row \in After(p, c), row.id < last.id PROVE row \in page /\ row # last
        BY <1>1, <1>2, <2>2, PageIsPrefix
    <2>3. page \subseteq After(p, c)
        BY PageIsPrefix
    <2> QED
        BY <2>1, <2>2, <2>3 DEF Before
<1>11. Cardinality(page \ {last}) < PageSize
    BY <1>10, PageIs
<1>12. Cardinality(page \ {last}) = Cardinality(page) - 1
    BY <1>6, FS_RemoveElement
<1> HIDE DEF page
<1>13. Cardinality(page) = PageSize
    BY <1>3, <1>6, <1>7, <1>11, <1>12
<1> QED
    BY <1>13 DEF page

\* What a list answers is the ids of its page, in order.
LEMMA IdsAre ==
    ASSUME TypeInv, IdInv, NEW page \in SUBSET rows
    PROVE  /\ IdsOf(page) \in Seq(1 .. MaxRows)
           /\ \A i \in DOMAIN IdsOf(page) : \E row \in page : IdsOf(page)[i] = row.id
           /\ \A row \in page : \E i \in DOMAIN IdsOf(page) : IdsOf(page)[i] = row.id
           /\ \A i, j \in DOMAIN IdsOf(page) : i < j => IdsOf(page)[i] < IdsOf(page)[j]
<1> DEFINE ids == {row.id : row \in page}
           n == Cardinality(ids)
           Sorted(seq) == \A i, j \in DOMAIN seq : i < j => seq[i] < seq[j]
<1>1. ids \in SUBSET Nat /\ ids \in SUBSET (1 .. MaxRows)
    BY Sizes DEF TypeInv, TypeOK, Row
<1>2. IsFiniteSet(ids)
    <2>1. 1 \in Int /\ MaxRows \in Int
        BY Sizes
    <2> QED
        BY <1>1, <2>1, FS_Interval, FS_Subset
<1> HIDE DEF ids
<1>3. n \in Nat
    BY <1>2, FS_CardinalityType
<1>4. \E seq \in [1 .. n -> ids] : Sorted(seq)
    BY <1>1, <1>2, SortedExists
<1>5. IdsOf(page) = CHOOSE seq \in [1 .. n -> ids] : Sorted(seq)
    BY DEF IdsOf, ids
<1> HIDE DEF n, Sorted
<1>6. IdsOf(page) \in [1 .. n -> ids] /\ Sorted(IdsOf(page))
    BY <1>4, <1>5
<1>7. PICK seq : seq = IdsOf(page)
    OBVIOUS
<1>8. seq \in [1 .. n -> ids] /\ \A i, j \in 1 .. n : i < j => seq[i] < seq[j]
    BY <1>6, <1>7 DEF Sorted
<1>9. IsFiniteSet(1 .. n) /\ Cardinality(1 .. n) = n
    <2>1. 1 \in Int /\ n \in Int /\ (IF 1 > n THEN 0 ELSE n - 1 + 1) = n
        BY <1>3
    <2> QED
        BY <2>1, FS_Interval
<1>10. seq \in Injection(1 .. n, ids)
    <2>1. \A i, j \in 1 .. n : seq[i] = seq[j] => i = j
        <3> SUFFICES ASSUME NEW i \in 1 .. n, NEW j \in 1 .. n, i # j PROVE seq[i] # seq[j]
            OBVIOUS
        <3>1. i < j \/ j < i
            BY <1>3
        <3>2. seq[i] \in Nat /\ seq[j] \in Nat
            BY <1>1, <1>8
        <3> QED
            BY <1>8, <3>1, <3>2
    <2> QED
        BY <1>8, <2>1 DEF Injection, IsInjective
<1>11. seq \in Surjection(1 .. n, ids)
    BY <1>2, <1>9, <1>10, FS_Injection DEF n
<1>12. \A id \in ids : \E i \in 1 .. n : seq[i] = id
    BY <1>11 DEF Surjection
<1>13. seq \in Seq(1 .. MaxRows) /\ DOMAIN seq = 1 .. n
    <2>1. seq \in [1 .. n -> 1 .. MaxRows]
        BY <1>1, <1>8
    <2>2. PICK m \in Nat : m = n
        BY <1>3
    <2>3. seq \in Seq(1 .. MaxRows)
        BY <2>1, <2>2, SeqDef
    <2> QED
        BY <2>1, <2>3
<1>14. \A i \in DOMAIN seq : \E row \in page : seq[i] = row.id
    BY <1>8, <1>13 DEF ids
<1>15. \A row \in page : \E i \in DOMAIN seq : seq[i] = row.id
    BY <1>12, <1>13 DEF ids
<1>16. \A i, j \in DOMAIN seq : i < j => seq[i] < seq[j]
    BY <1>8, <1>13
<1> QED
    BY <1>7, <1>13, <1>14, <1>15, <1>16

-----------------------------------------------------------------------------
(***************************************************************************)
(* Readers.                                                                *)
(***************************************************************************)

Increasing(seq) == \A i, j \in DOMAIN seq : i < j => seq[i] < seq[j]

\* A row its client was sent, or need not be.
Covered(rd, row) ==
    /\ row.id \in rd.before
    /\ row.id <= rd.cursor \/ rd.at = "finished"
    /\ Readable(row) \/ rd.mode = "list"
    => \E i \in DOMAIN rd.sent : rd.sent[i] = row.id

\* The rows left of a page: all of their ids that can be read are among them.
PageInv(rd) ==
    rd.at = "lines" =>
        /\ rd.page # {} /\ rd.mode # "list"
        /\ \A row \in rd.page : row.id > rd.cursor /\ row.id <= lastId
        /\ \A row, other \in rd.page : row.id = other.id => row = other
        /\ \A row \in RowsOf(rd.project), last \in rd.page :
               row.id > rd.cursor /\ row.id <= last.id /\ Readable(row) => row \in rd.page

ReadInv(rd) ==
    /\ rd \in Reading
    /\ Increasing(rd.sent)
    /\ rd.at # "finished" => \A i \in DOMAIN rd.sent : rd.sent[i] <= rd.cursor
    /\ rd.cursor <= lastId /\ \A id \in rd.before : id <= lastId
    /\ PageInv(rd)
    /\ \A row \in RowsOf(rd.project) : Covered(rd, row)

ReaderInv ==
    /\ reader \in [Reader -> {NotStarted} \cup Reading]
    /\ \A r \in Reader : reader[r] # NotStarted => ReadInv(reader[r])

\* What happens to the table and the files changes nothing for a reader.
LEMMA TableKeepsReader ==
    ASSUME TableInv, [Next]_vars, NEW rd, ReadInv(rd)
    PROVE  ReadInv(rd)'
<1>1. TypeInv
    BY DEF TableInv, Inv
<1>2. rd.cursor \in Nat /\ rd.before \subseteq Nat /\ rd.page \subseteq Row /\ rd \in Reading
    BY Sizes DEF ReadInv, Reading
<1>3. \A row \in rows : row.id \in Nat
    BY <1>1, Sizes DEF TypeInv, TypeOK, Row
<1>4. \A row \in Row : row.id \in Nat
    BY Sizes DEF Row
<1>5. lastId \in Nat /\ lastId' \in Nat /\ lastId <= lastId'
    BY <1>1, NewIds
<1>6. \A row \in rows' \ rows : row.id \in Nat /\ row.id > lastId
    <2>1. TypeInv'
        BY <1>1, TypeNext
    <2>2. \A row \in rows' : row.id \in Nat
        BY <2>1, Sizes DEF TypeInv, TypeOK, Row
    <2> QED
        BY <1>1, <2>2, NewIds
<1>7. ASSUME NEW row \in rows', row.project = rd.project PROVE Covered(rd, row)'
    <2>1. CASE row \in rows
        <3>1. Covered(rd, row)
            BY <1>7, <2>1 DEF ReadInv, RowsOf
        <3> QED
            BY <2>1, <3>1, NothingComesBack DEF Covered
    <2>2. CASE row \notin rows
        <3>1. row.id \notin rd.before
            BY <1>2, <1>5, <1>6, <2>2 DEF ReadInv
        <3> QED
            BY <3>1 DEF Covered
    <2> QED
        BY <2>1, <2>2
<1>8. PageInv(rd)'
    <2> SUFFICES ASSUME rd.at = "lines" PROVE PageInv(rd)'
        BY DEF PageInv
    <2>1. \A row \in rd.page : row.id \in Nat /\ row.id > rd.cursor /\ row.id <= lastId
        BY <1>2, <1>4 DEF ReadInv, PageInv
    <2>2. ASSUME NEW row \in rows', row.project = rd.project, NEW last \in rd.page,
                 row.id > rd.cursor, row.id <= last.id, Readable(row)'
          PROVE  row \in rd.page
        <3>1. row \in rows
            BY <1>5, <1>6, <2>1, <2>2
        <3>2. Readable(row)
            BY <2>2, <3>1, NothingComesBack
        <3> QED
            BY <2>2, <3>1, <3>2 DEF ReadInv, PageInv, RowsOf
    <2> QED
        BY <1>5, <2>1, <2>2 DEF ReadInv, PageInv, RowsOf
<1>9. rd.cursor <= lastId' /\ \A id \in rd.before : id <= lastId'
    BY <1>2, <1>5 DEF ReadInv
<1> QED
    BY <1>7, <1>8, <1>9 DEF ReadInv, RowsOf

\* A request that starts has been sent nothing.
LEMMA StartKeeps ==
    ASSUME TableInv, NEW mode \in Modes, NEW p \in Project
    PROVE  ReadInv([at |-> "query", mode |-> mode, project |-> p, cursor |-> 0, page |-> {},
                    sent |-> <<>>, before |-> {row.id : row \in RowsOf(p)}])
<1> DEFINE rd == [at |-> "query", mode |-> mode, project |-> p, cursor |-> 0, page |-> {},
                  sent |-> <<>>, before |-> {row.id : row \in RowsOf(p)}]
<1>1. TypeInv
    BY DEF TableInv, Inv
<1>2. \A row \in rows : row.id \in 1 .. MaxRows /\ row.id <= lastId
    BY <1>1, Sizes DEF TypeInv, TypeOK, Row, TableInv, IdInv
<1>3. rd.before \subseteq 1 .. MaxRows /\ \A id \in rd.before : id <= lastId
    BY <1>2 DEF RowsOf
<1>4. 0 \in 0 .. MaxRows /\ 0 <= lastId
    BY <1>1, Sizes DEF TypeInv, TypeOK
<1>5. rd \in Reading
    BY <1>3, <1>4 DEF Reading
<1>6. DOMAIN rd.sent = {}
    OBVIOUS
<1>7. \A row \in RowsOf(p) : Covered(rd, row)
    BY <1>2, Sizes DEF Covered, RowsOf
<1> QED
    BY <1>3, <1>4, <1>5, <1>6, <1>7 DEF ReadInv, PageInv, Increasing

\* A list answers with the page, in order.
LEMMA ListKeeps ==
    ASSUME TableInv, NEW rd, ReadInv(rd), rd.at = "query", rd.mode = "list",
           NEW page, page = ListAfterCursor(rd.project, rd.cursor),
           NEW full, full = (Cardinality(page) = PageSize)
    PROVE  ReadInv([rd EXCEPT !.sent = @ \o IdsOf(page),
                              !.cursor = IF full THEN LastId(page) ELSE @,
                              !.at = IF full THEN "query" ELSE "finished"])
<1> DEFINE new == [rd EXCEPT !.sent = @ \o IdsOf(page),
                             !.cursor = IF full THEN LastId(page) ELSE @,
                             !.at = IF full THEN "query" ELSE "finished"]
           ids == IdsOf(page)
<1>1. TypeInv /\ IdInv
    BY DEF TableInv, Inv
<1>2. /\ rd \in Reading /\ rd.cursor \in Nat /\ rd.project \in Project
      /\ rd.sent \in Seq(1 .. MaxRows) /\ rd.cursor <= lastId
    BY Sizes DEF ReadInv, Reading
<1>3. /\ page \in SUBSET rows /\ page \in SUBSET Row
      /\ \A row \in page : row.id \in Nat /\ row.id > rd.cursor
      /\ \A row \in page, other \in After(rd.project, rd.cursor) :
             other.id <= row.id => other \in page
    BY <1>1, <1>2, PageIsPrefix DEF After, TypeInv, TypeOK
<1>4. /\ ids \in Seq(1 .. MaxRows)
      /\ \A i \in DOMAIN ids : \E row \in page : ids[i] = row.id
      /\ \A row \in page : \E i \in DOMAIN ids : ids[i] = row.id
      /\ \A i, j \in DOMAIN ids : i < j => ids[i] < ids[j]
    BY <1>1, <1>3, IdsAre
<1> HIDE DEF ids
<1>5. /\ new.sent = rd.sent \o ids /\ new.page = rd.page /\ new.mode = rd.mode
      /\ new.project = rd.project /\ new.before = rd.before
      /\ new.cursor = (IF full THEN LastId(page) ELSE rd.cursor)
      /\ new.at = (IF full THEN "query" ELSE "finished")
    BY <1>2 DEF Reading, ids
<1>6. full => /\ LastId(page) \in {row.id : row \in page}
              /\ \A row \in page : row.id <= LastId(page)
    <2>1. full => page # {}
        BY ExportAssumption, FS_EmptySet
    <2> QED
        BY <1>1, <1>3, <2>1, Ends
<1>7. new.cursor \in 0 .. MaxRows /\ new.cursor <= lastId /\ rd.cursor <= new.cursor
    <2>1. \A row \in page : row.id \in 1 .. MaxRows /\ row.id <= lastId
        BY <1>1, <1>3 DEF Row, IdInv
    <2>2. rd.cursor \in 0 .. MaxRows
        BY <1>2 DEF Reading
    <2>3. CASE full
        <3>1. PICK row \in page : row.id = LastId(page)
            BY <1>6, <2>3
        <3> QED
            BY <1>2, <1>3, <1>5, <2>1, <2>3, <3>1, Sizes
    <2>4. CASE ~full
        BY <1>2, <1>5, <2>2, <2>4
    <2> QED
        BY <2>3, <2>4
<1>8. new \in Reading
    <2>1. PICK sent, cursor, at :
              /\ sent = rd.sent \o ids
              /\ cursor = IF full THEN LastId(page) ELSE rd.cursor
              /\ at = IF full THEN "query" ELSE "finished"
        OBVIOUS
    <2>2. sent \in Seq(1 .. MaxRows) /\ cursor \in 0 .. MaxRows /\ at \in {"query", "finished"}
        BY <1>2, <1>4, <1>5, <1>7, <2>1
    <2>3. new = [rd EXCEPT !.sent = sent, !.cursor = cursor, !.at = at]
        BY <2>1 DEF ids
    <2> HIDE DEF new
    <2> QED
        BY <1>2, <2>2, <2>3 DEF Reading
<1> HIDE DEF new
<1>9. /\ DOMAIN rd.sent = 1 .. Len(rd.sent) /\ DOMAIN ids = 1 .. Len(ids)
      /\ DOMAIN new.sent = 1 .. Len(rd.sent) + Len(ids)
      /\ Len(rd.sent) \in Nat /\ Len(ids) \in Nat
      /\ \A i \in DOMAIN rd.sent : i \in DOMAIN new.sent /\ new.sent[i] = rd.sent[i]
      /\ \A i \in DOMAIN ids : /\ Len(rd.sent) + i \in DOMAIN new.sent
                               /\ new.sent[Len(rd.sent) + i] = ids[i]
    BY <1>2, <1>4, <1>5
<1>10. \A i \in DOMAIN rd.sent : rd.sent[i] \in Nat /\ rd.sent[i] <= rd.cursor
    BY <1>2, Sizes DEF ReadInv
<1>11. \A i \in DOMAIN ids : ids[i] \in Nat /\ ids[i] > rd.cursor
    BY <1>3, <1>4
<1>12. Increasing(new.sent)
    <2> SUFFICES ASSUME NEW i \in DOMAIN new.sent, NEW j \in DOMAIN new.sent, i < j
                 PROVE  new.sent[i] < new.sent[j]
        BY DEF Increasing
    <2>1. CASE j \in DOMAIN rd.sent
        BY <1>9, <2>1 DEF ReadInv, Increasing
    <2>2. CASE i \in DOMAIN rd.sent /\ j \notin DOMAIN rd.sent
        <3>1. PICK k \in DOMAIN ids : j = Len(rd.sent) + k
            <4>1. j - Len(rd.sent) \in DOMAIN ids /\ j = Len(rd.sent) + (j - Len(rd.sent))
                BY <1>9, <2>2
            <4> QED
                BY <4>1
        <3> QED
            BY <1>2, <1>9, <1>10, <1>11, <2>2, <3>1
    <2>3. CASE i \notin DOMAIN rd.sent
        <3>1. PICK m \in Nat, n \in Nat : m = Len(rd.sent) /\ n = Len(ids)
            BY <1>9
        <3>2. /\ i - m \in 1 .. n /\ i = m + (i - m)
              /\ j - m \in 1 .. n /\ j = m + (j - m)
              /\ i - m < j - m
            BY <1>9, <2>3, <3>1
        <3>3. ids[i - m] < ids[j - m]
            BY <1>4, <1>9, <3>1, <3>2
        <3> QED
            BY <1>9, <3>1, <3>2, <3>3
    <2> QED
        BY <1>9, <2>1, <2>2, <2>3
<1>13. new.at # "finished" => \A i \in DOMAIN new.sent : new.sent[i] <= new.cursor
    <2> SUFFICES ASSUME full, NEW i \in DOMAIN new.sent PROVE new.sent[i] <= new.cursor
        BY <1>5
    <2>1. CASE i \in DOMAIN rd.sent
        BY <1>2, <1>7, <1>9, <1>10, <2>1
    <2>2. CASE i \notin DOMAIN rd.sent
        <3>1. i - Len(rd.sent) \in DOMAIN ids /\ i = Len(rd.sent) + (i - Len(rd.sent))
            BY <1>9, <2>2
        <3>2. PICK k \in DOMAIN ids : new.sent[i] = ids[k]
            BY <1>9, <3>1
        <3> QED
            BY <1>4, <1>5, <1>6, <3>2
    <2> QED
        BY <2>1, <2>2
<1>14. ASSUME NEW row \in RowsOf(rd.project), row.id \in rd.before,
              row.id <= new.cursor \/ new.at = "finished"
       PROVE  \E i \in DOMAIN new.sent : new.sent[i] = row.id
    <2>1. row.id \in Nat /\ row \in rows
        BY <1>1, Sizes DEF RowsOf, TypeInv, TypeOK, Row
    <2>2. CASE row.id <= rd.cursor
        <3>1. \E i \in DOMAIN rd.sent : rd.sent[i] = row.id
            BY <1>14, <2>2 DEF ReadInv, Covered
        <3> QED
            BY <1>9, <3>1
    <2>3. CASE row.id > rd.cursor
        <3>1. row \in After(rd.project, rd.cursor)
            BY <2>3 DEF After
        <3>2. row \in page
            <4>1. CASE full
                BY <1>3, <1>5, <1>6, <1>14, <3>1, <4>1
            <4>2. CASE ~full
                BY <1>1, <1>2, <3>1, <4>2, ShortPageIsLast
            <4> QED
                BY <4>1, <4>2
        <3>3. \E i \in DOMAIN ids : ids[i] = row.id
            BY <1>4, <3>2
        <3> QED
            BY <1>9, <3>3
    <2> QED
        BY <1>2, <2>1, <2>2, <2>3
<1>15. PageInv(new)
    BY <1>5 DEF PageInv
<1>16. ReadInv(new)
    BY <1>5, <1>7, <1>8, <1>12, <1>13, <1>14, <1>15 DEF ReadInv, Covered
<1> QED
    BY <1>16 DEF new

\* A line is sent, and the cursor comes to it.
LEMMA SendLineKeeps ==
    ASSUME TableInv, NEW rd, ReadInv(rd), rd.at = "lines",
           NEW row, row = First(rd.page), Readable(row),
           NEW left, left = rd.page \ {row},
           NEW at \in {"lines", "query", "answered"}, at = "lines" => left # {}
    PROVE  ReadInv([rd EXCEPT !.sent = Append(@, row.id), !.cursor = row.id,
                              !.page = left, !.at = at])
<1> DEFINE new == [rd EXCEPT !.sent = Append(@, row.id), !.cursor = row.id,
                             !.page = left, !.at = at]
<1>1. TypeInv /\ IdInv
    BY DEF TableInv, Inv
<1>2. /\ rd \in Reading /\ rd.cursor \in Nat /\ rd.page \in SUBSET Row /\ rd.page # {}
      /\ rd.sent \in Seq(1 .. MaxRows) /\ rd.cursor <= lastId /\ rd.mode # "list"
    BY Sizes DEF ReadInv, Reading, PageInv
<1>3. row \in rd.page /\ \A other \in rd.page : row.id <= other.id
    BY <1>1, <1>2, Ends
<1>4. /\ \A other \in rd.page : other.id \in Nat /\ other.id > rd.cursor /\ other.id <= lastId
      /\ row.id \in 1 .. MaxRows
    BY <1>2, <1>3, Sizes DEF Row, ReadInv, PageInv
<1>5. /\ new.sent = Append(rd.sent, row.id) /\ new.page = left /\ new.mode = rd.mode
      /\ new.project = rd.project /\ new.before = rd.before
      /\ new.cursor = row.id /\ new.at = at
    BY <1>2 DEF Reading
<1>6. new \in Reading
    <2>1. PICK sent : sent = Append(rd.sent, row.id)
        OBVIOUS
    <2>2. sent \in Seq(1 .. MaxRows) /\ row.id \in 0 .. MaxRows /\ left \subseteq Row
        BY <1>2, <1>4, <2>1
    <2>3. new = [rd EXCEPT !.sent = sent, !.cursor = row.id, !.page = left, !.at = at]
        BY <2>1
    <2> HIDE DEF new
    <2> QED
        BY <1>2, <2>2, <2>3 DEF Reading
<1> HIDE DEF new
<1>7. /\ DOMAIN rd.sent = 1 .. Len(rd.sent) /\ Len(rd.sent) \in Nat
      /\ DOMAIN new.sent = 1 .. Len(rd.sent) + 1
      /\ \A i \in DOMAIN rd.sent : i \in DOMAIN new.sent /\ new.sent[i] = rd.sent[i]
      /\ new.sent[Len(rd.sent) + 1] = row.id
    BY <1>2, <1>5
<1>8. \A i \in DOMAIN rd.sent : rd.sent[i] \in Nat /\ rd.sent[i] < row.id
    BY <1>2, <1>3, <1>4, Sizes DEF ReadInv
<1>9. \A i \in DOMAIN new.sent : new.sent[i] <= row.id
    BY <1>4, <1>7, <1>8
<1>10. Increasing(new.sent)
    <2> SUFFICES ASSUME NEW i \in DOMAIN new.sent, NEW j \in DOMAIN new.sent, i < j
                 PROVE  new.sent[i] < new.sent[j]
        BY DEF Increasing
    <2>1. i \in DOMAIN rd.sent
        BY <1>7
    <2>2. CASE j \in DOMAIN rd.sent
        BY <1>7, <2>1, <2>2 DEF ReadInv, Increasing
    <2>3. CASE j = Len(rd.sent) + 1
        BY <1>7, <1>8, <2>1, <2>3
    <2> QED
        BY <1>7, <2>2, <2>3
<1>11. \A other \in rows : other.id \in Nat
    BY <1>1, Sizes DEF TypeInv, TypeOK, Row
<1>12. ASSUME NEW other \in RowsOf(rd.project), NEW last \in rd.page,
              other.id > rd.cursor, other.id <= last.id, Readable(other)
       PROVE  other \in rd.page
    BY <1>12 DEF ReadInv, PageInv
<1>13. PageInv(new)
    <2> SUFFICES ASSUME at = "lines" PROVE PageInv(new)
        BY <1>5 DEF PageInv
    <2>1. \A other \in left : other.id > row.id /\ other.id <= lastId
        BY <1>2, <1>3, <1>4 DEF ReadInv, PageInv
    <2>2. \A one, other \in left : one.id = other.id => one = other
        BY <1>2 DEF ReadInv, PageInv
    <2> QED
        BY <1>2, <1>3, <1>4, <1>5, <1>11, <1>12, <2>1, <2>2 DEF PageInv, RowsOf
<1>14. ASSUME NEW other \in RowsOf(rd.project), other.id \in rd.before,
              other.id <= row.id, Readable(other)
       PROVE  \E i \in DOMAIN new.sent : new.sent[i] = other.id
    <2>1. other.id \in Nat
        BY <1>11 DEF RowsOf
    <2>2. CASE other.id <= rd.cursor
        <3>1. \E i \in DOMAIN rd.sent : rd.sent[i] = other.id
            BY <1>14, <2>2 DEF ReadInv, Covered
        <3> QED
            BY <1>7, <3>1
    <2>3. CASE other.id > rd.cursor
        <3>1. other \in rd.page
            BY <1>3, <1>12, <1>14, <2>3
        <3>2. other.id = row.id
            BY <1>3, <1>4, <1>14, <2>1, <3>1
        <3> QED
            BY <1>7, <3>2
    <2> QED
        BY <1>2, <2>1, <2>2, <2>3
<1>15. new.cursor <= lastId /\ new.at # "finished"
    BY <1>3, <1>4, <1>5
<1>16. ReadInv(new)
    BY <1>2, <1>5, <1>6, <1>9, <1>10, <1>13, <1>14, <1>15 DEF ReadInv, Covered
<1> QED
    BY <1>16 DEF new

\* A line that cannot be read is left out.
LEMMA SkipLineKeeps ==
    ASSUME TableInv, NEW rd, ReadInv(rd), rd.at = "lines",
           NEW row, row = First(rd.page), ~Readable(row),
           NEW left, left = rd.page \ {row},
           NEW at \in {"lines", "query", "answered"}, at = "lines" => left # {}
    PROVE  ReadInv([rd EXCEPT !.page = left, !.at = at])
<1> DEFINE new == [rd EXCEPT !.page = left, !.at = at]
<1>1. rd \in Reading /\ rd.page \subseteq Row /\ rd.mode # "list"
    BY DEF ReadInv, Reading, PageInv
<1>2. /\ new.sent = rd.sent /\ new.page = left /\ new.mode = rd.mode
      /\ new.project = rd.project /\ new.before = rd.before
      /\ new.cursor = rd.cursor /\ new.at = at
    BY <1>1 DEF Reading
<1>3. new \in Reading
    BY <1>1 DEF Reading
<1> HIDE DEF new
<1>4. PageInv(new)
    BY <1>1, <1>2 DEF ReadInv, PageInv
<1>5. ReadInv(new)
    BY <1>2, <1>3, <1>4 DEF ReadInv, Covered
<1> QED
    BY <1>5 DEF new

\* A query finds a page of lines.
LEMMA QueryKeeps ==
    ASSUME TableInv, NEW rd, ReadInv(rd), rd.at = "query", rd.mode # "list",
           NEW page, page = ListAfterCursor(rd.project, rd.cursor), page # {}
    PROVE  ReadInv([rd EXCEPT !.page = page, !.at = "lines"])
<1> DEFINE new == [rd EXCEPT !.page = page, !.at = "lines"]
<1>1. TypeInv /\ IdInv
    BY DEF TableInv, Inv
<1>2. rd \in Reading /\ rd.cursor \in Nat /\ rd.project \in Project
    BY Sizes DEF ReadInv, Reading
<1>3. /\ page \in SUBSET rows /\ page \in SUBSET Row
      /\ \A row \in page : row.id > rd.cursor /\ row.id <= lastId
      /\ \A row, other \in page : row.id = other.id => row = other
      /\ \A row \in page, other \in After(rd.project, rd.cursor) :
             other.id <= row.id => other \in page
    BY <1>1, <1>2, PageIsPrefix DEF After, TypeInv, TypeOK, IdInv
<1>4. /\ new.sent = rd.sent /\ new.page = page /\ new.mode = rd.mode
      /\ new.project = rd.project /\ new.before = rd.before
      /\ new.cursor = rd.cursor /\ new.at = "lines"
    BY <1>2 DEF Reading
<1>5. new \in Reading
    BY <1>2, <1>3 DEF Reading
<1> HIDE DEF new
<1>6. PageInv(new)
    BY <1>3, <1>4 DEF PageInv, After
<1>7. ReadInv(new)
    BY <1>4, <1>5, <1>6 DEF ReadInv, Covered
<1> QED
    BY <1>7 DEF new

\* A query that finds nothing ends a request with everything, one that fails does not.
LEMMA TurnKeeps ==
    ASSUME TableInv, NEW rd, ReadInv(rd),
           NEW at \in {"query", "finished", "failed"},
           IF at = "finished" THEN ListAfterCursor(rd.project, rd.cursor) = {}
                              ELSE rd.at # "finished"
    PROVE  ReadInv([rd EXCEPT !.at = at])
<1> DEFINE new == [rd EXCEPT !.at = at]
<1>1. TypeInv /\ IdInv
    BY DEF TableInv, Inv
<1>2. rd \in Reading /\ rd.cursor \in Nat /\ rd.project \in Project
    BY Sizes DEF ReadInv, Reading
<1>3. /\ new.sent = rd.sent /\ new.page = rd.page /\ new.mode = rd.mode
      /\ new.project = rd.project /\ new.before = rd.before
      /\ new.cursor = rd.cursor /\ new.at = at
    BY <1>2 DEF Reading
<1>4. new \in Reading
    BY <1>2 DEF Reading
<1> HIDE DEF new
<1>5. ASSUME at = "finished", NEW row \in RowsOf(rd.project) PROVE row.id <= rd.cursor
    <2>1. Cardinality(ListAfterCursor(rd.project, rd.cursor)) # PageSize
        BY <1>5, ExportAssumption, FS_EmptySet
    <2>2. After(rd.project, rd.cursor) = {}
        BY <1>1, <1>2, <1>5, <2>1, ShortPageIsLast
    <2>3. row.id \in Nat
        BY <1>1, Sizes DEF TypeInv, TypeOK, Row, RowsOf
    <2> QED
        BY <1>2, <2>2, <2>3 DEF After
<1>6. \A row \in RowsOf(rd.project) : Covered(new, row)
    BY <1>3, <1>5 DEF ReadInv, Covered
<1>7. ReadInv(new)
    BY <1>3, <1>4, <1>6 DEF ReadInv, PageInv
<1> QED
    BY <1>7 DEF new

ExportInv == TableInv /\ ReaderInv

\* A step of one client, whose request becomes new.
LEMMA OneReader ==
    ASSUME ExportInv, NEW r \in Reader, UNCHANGED vars,
           NEW new, ReadInv(new), reader' = [reader EXCEPT ![r] = new]
    PROVE  ReaderInv'
<1>1. [Next]_vars
    OBVIOUS
<1>2. new \in Reading
    BY DEF ReadInv
<1>3. reader \in [Reader -> {NotStarted} \cup Reading]
    BY DEF ExportInv, ReaderInv
<1>4. ASSUME NEW q \in Reader, reader'[q] # NotStarted PROVE ReadInv(reader[q])'
    <2>1. PICK rd : rd = reader'[q]
        OBVIOUS
    <2>2. ReadInv(rd)
        BY <1>3, <1>4, <2>1 DEF ExportInv, ReaderInv
    <2>3. ReadInv(rd)'
        BY <1>1, <2>2, TableKeepsReader DEF ExportInv
    <2> QED
        BY <2>1, <2>3
<1> QED
    BY <1>2, <1>3, <1>4 DEF ReaderInv

LEMMA StepKeeps ==
    ASSUME ExportInv, NEW r \in Reader, Step(r) \/ QueryFails(r)
    PROVE  ReaderInv'
<1>1. PICK rd : rd = reader[r]
    OBVIOUS
<1>2. reader \in [Reader -> {NotStarted} \cup Reading]
    BY DEF ExportInv, ReaderInv
<1>3. rd.at \in {"query", "lines", "answered"} => rd \in Reading /\ ReadInv(rd)
    <2>1. rd = NotStarted \/ (rd \in Reading /\ ReadInv(rd))
        BY <1>1, <1>2 DEF ExportInv, ReaderInv
    <2> QED
        BY <2>1 DEF NotStarted
<1>4. TableInv
    BY DEF ExportInv
<1>5. CASE List(r)
    <2>1. PICK page, full : /\ page = ListAfterCursor(rd.project, rd.cursor)
                            /\ full = (Cardinality(page) = PageSize)
        OBVIOUS
    <2> DEFINE new == [rd EXCEPT !.sent = @ \o IdsOf(page),
                                 !.cursor = IF full THEN LastId(page) ELSE @,
                                 !.at = IF full THEN "query" ELSE "finished"]
    <2>2. rd.at = "query" /\ rd.mode = "list" /\ UNCHANGED vars
        BY <1>1, <1>5 DEF List
    <2>3. reader' = [reader EXCEPT ![r] = new]
        BY <1>1, <1>2, <1>5, <2>1 DEF List
    <2>4. ReadInv(new)
        BY <1>3, <1>4, <2>1, <2>2, ListKeeps
    <2> HIDE DEF new
    <2> QED
        BY <2>2, <2>3, <2>4, OneReader
<1>6. CASE Query(r)
    <2>1. PICK page : page = ListAfterCursor(rd.project, rd.cursor)
        OBVIOUS
    <2> DEFINE new == [rd EXCEPT !.page = page, !.at = "lines"]
    <2>2. rd.at = "query" /\ rd.mode # "list" /\ page # {} /\ UNCHANGED vars
        BY <1>1, <1>6, <2>1 DEF Query
    <2>3. reader' = [reader EXCEPT ![r] = new]
        BY <1>1, <1>2, <1>6, <2>1 DEF Query
    <2>4. ReadInv(new)
        BY <1>3, <1>4, <2>1, <2>2, QueryKeeps
    <2> HIDE DEF new
    <2> QED
        BY <2>2, <2>3, <2>4, OneReader
<1>7. ASSUME NEW at \in {"query", "finished", "failed"}, UNCHANGED vars,
             reader' = [reader EXCEPT ![r].at = at], rd.at \in {"query", "answered"},
             at = "finished" => ListAfterCursor(rd.project, rd.cursor) = {}
      PROVE  ReaderInv'
    <2> DEFINE new == [rd EXCEPT !.at = at]
    <2>1. reader' = [reader EXCEPT ![r] = new]
        BY <1>1, <1>2, <1>7
    <2>2. ReadInv(new)
        BY <1>3, <1>4, <1>7, TurnKeeps
    <2> HIDE DEF new
    <2> QED
        BY <1>7, <2>1, <2>2, OneReader
<1>8. CASE QueryEmpty(r) \/ QueryFails(r) \/ NextPage(r)
    BY <1>1, <1>7, <1>8 DEF QueryEmpty, QueryFails, NextPage
<1>9. CASE SendLine(r)
    <2>1. PICK row, left, at : /\ row = First(rd.page) /\ left = rd.page \ {row}
                               /\ at = AfterLines(r, left)
        OBVIOUS
    <2> DEFINE new == [rd EXCEPT !.sent = Append(@, row.id), !.cursor = row.id,
                                 !.page = left, !.at = at]
    <2>2. rd.at = "lines" /\ Readable(row) /\ UNCHANGED vars
        BY <1>1, <1>9, <2>1 DEF SendLine
    <2>3. at \in {"lines", "query", "answered"} /\ (at = "lines" => left # {})
        BY <2>1 DEF AfterLines
    <2>4. reader' = [reader EXCEPT ![r] = new]
        BY <1>1, <1>2, <1>9, <2>1 DEF SendLine
    <2>5. ReadInv(new)
        BY <1>3, <1>4, <2>1, <2>2, <2>3, SendLineKeeps
    <2> HIDE DEF new
    <2> QED
        BY <2>2, <2>4, <2>5, OneReader
<1>10. CASE SkipLine(r)
    <2>1. PICK row, left, at : /\ row = First(rd.page) /\ left = rd.page \ {row}
                               /\ at = AfterLines(r, left)
        OBVIOUS
    <2> DEFINE new == [rd EXCEPT !.page = left, !.at = at]
    <2>2. rd.at = "lines" /\ ~Readable(row) /\ UNCHANGED vars
        BY <1>1, <1>10, <2>1 DEF SkipLine
    <2>3. at \in {"lines", "query", "answered"} /\ (at = "lines" => left # {})
        BY <2>1 DEF AfterLines
    <2>4. reader' = [reader EXCEPT ![r] = new]
        BY <1>1, <1>2, <1>10, <2>1 DEF SkipLine
    <2>5. ReadInv(new)
        BY <1>3, <1>4, <2>1, <2>2, <2>3, SkipLineKeeps
    <2> HIDE DEF new
    <2> QED
        BY <2>2, <2>4, <2>5, OneReader
<1> QED
    BY <1>5, <1>6, <1>8, <1>9, <1>10 DEF Step

LEMMA ExportInvNext == ExportInv /\ [ExportNext]_exportVars => ExportInv'
<1> SUFFICES ASSUME ExportInv, [ExportNext]_exportVars PROVE ExportInv'
    OBVIOUS
<1>1. [Next]_vars
    BY DEF ExportNext, exportVars, Start, Step, List, Query, QueryEmpty, QueryFails, SendLine,
        SkipLine, NextPage
<1>2. TableInv'
    BY <1>1, TableNext DEF ExportInv
<1>3. CASE reader' = reader
    <2>1. ASSUME NEW q \in Reader, reader[q] # NotStarted PROVE ReadInv(reader[q])'
        <3>1. PICK rd : rd = reader[q]
            OBVIOUS
        <3>2. ReadInv(rd)'
            BY <1>1, <2>1, <3>1, TableKeepsReader DEF ExportInv, ReaderInv
        <3> QED
            BY <1>3, <3>1, <3>2
    <2>2. ReaderInv'
        BY <1>3, <2>1 DEF ExportInv, ReaderInv
    <2> QED
        BY <1>2, <2>2 DEF ExportInv
<1>4. ASSUME NEW r \in Reader, NEW mode \in Modes, NEW p \in Project, Start(r, mode, p)
      PROVE  ExportInv'
    <2> DEFINE new == [at |-> "query", mode |-> mode, project |-> p, cursor |-> 0, page |-> {},
                       sent |-> <<>>, before |-> {row.id : row \in RowsOf(p)}]
    <2>1. reader' = [reader EXCEPT ![r] = new] /\ UNCHANGED vars
        BY <1>4 DEF Start
    <2>2. ReadInv(new)
        BY StartKeeps DEF ExportInv
    <2> HIDE DEF new
    <2>3. ReaderInv'
        BY <2>1, <2>2, OneReader
    <2> QED
        BY <1>2, <2>3 DEF ExportInv
<1>5. ASSUME NEW r \in Reader, Step(r) \/ QueryFails(r) PROVE ExportInv'
    BY <1>2, <1>5, StepKeeps DEF ExportInv
<1> QED
    BY <1>3, <1>4, <1>5 DEF ExportNext, exportVars

LEMMA ExportInvInit == ExportInit => ExportInv
BY TableInit DEF ExportInit, ExportInv, ReaderInv

\* Every client's request keeps its type (ExportTypeOK).
THEOREM ExportTypeCorrect == ExportSpec => []ExportTypeOK
<1>1. ExportInv => ExportTypeOK
    BY DEF ExportInv, ReaderInv, ExportTypeOK
<1> QED
    BY <1>1, ExportInvInit, ExportInvNext, PTL DEF ExportSpec

\* Whatever is inserted, deleted or skipped between the queries of a list or an
\* export, no client is sent a row twice, and the rows come in the order of their ids
\* (NoRowTwice).
THEOREM NothingTwice == ExportSpec => []NoRowTwice
<1>1. ExportInv => NoRowTwice
    BY DEF ExportInv, ReaderInv, ReadInv, Increasing, NoRowTwice
<1> QED
    BY <1>1, ExportInvInit, ExportInvNext, PTL DEF ExportSpec

\* A row that was there when a client began, and is still there and readable, was sent
\* to it if it comes before the client's cursor, and at all if the client was told that
\* it had everything (NoRowMissed).
THEOREM NothingMissed == ExportSpec => []NoRowMissed
<1>1. ASSUME ExportInv PROVE NoRowMissed
    <2> SUFFICES ASSUME NEW r \in Reader, reader[r] # NotStarted,
                        NEW row \in RowsOf(reader[r].project),
                        row.id \in reader[r].before,
                        row.id <= reader[r].cursor \/ reader[r].at = "finished",
                        Readable(row) \/ reader[r].mode = "list"
                 PROVE  \E i \in DOMAIN reader[r].sent : reader[r].sent[i] = row.id
        BY DEF NoRowMissed
    <2> QED
        BY <1>1 DEF ExportInv, ReaderInv, ReadInv, Covered
<1> QED
    BY <1>1, ExportInvInit, ExportInvNext, PTL DEF ExportSpec

=============================================================================
