--------------------------- MODULE CaptureCleanup ---------------------------
(***************************************************************************)
(* The retention sweep of internal/scheduler/capture_cleanup.go, and the   *)
(* table and the files it shares with the capture pipeline.                *)
(*                                                                         *)
(* Every statement of the sweep is a step of its own, because nothing      *)
(* locks the table or the files between two of them: the list of expired   *)
(* paths, the DELETE, and for each path its os.Stat, the count of the      *)
(* project's rows and the os.Remove.  In between lines are appended and    *)
(* batches are inserted.  CapturePipeline says how; here a batch is what   *)
(* was appended and is not in the table yet.                               *)
(*                                                                         *)
(* Time is in ticks.  created_at is the text datetime('now') makes,        *)
(* "2006-01-02 15:04:05", and the cutoff is RFC 3339,                      *)
(* "2006-01-02T15:04:05Z": the comparison is the one of SQLite's texts.    *)
(***************************************************************************)
EXTENDS Integers, Sequences, FiniteSets

CONSTANTS
    Project,        \* the projects
    Forever,        \* those whose retention_days is not positive
    RetentionDays,  \* retention_days of the others
    HourTicks,      \* an hour: a capture file covers one
    DayTicks,       \* a day
    MaxPending,     \* how long a batch may wait for its insert (bound)
    MaxTime,        \* bound: the last tick
    MaxRows,        \* bound: how many records are captured
    Lines,          \* what a line may turn out to be when it is read back
    Faults,         \* what may go wrong, see Fault
    NoFile          \* the file_path '' of a record without bodies

\* A statement of a sweep or an insert fails, a count fails, os.Remove fails,
\* the process is restarted.
Fault == {"statement", "count", "remove", "restart"}

ASSUME CleanupAssumption ==
    /\ Forever \subseteq Project
    /\ RetentionDays \in Nat \ {0}
    /\ HourTicks \in Nat \ {0}
    /\ DayTicks \in Nat \ {0}
    /\ MaxPending \in 0 .. HourTicks - 1
    /\ MaxTime \in Nat
    /\ MaxRows \in Nat
    /\ Lines \subseteq {"whole", "broken"}
    /\ Faults \subseteq Fault
    /\ NoFile \notin [project : Project, hour : Nat]

VARIABLES
    now,       \* the clock
    deleted,   \* the projects with a deleted_at
    rows,      \* the table request_captures
    lastId,    \* its AUTOINCREMENT sequence
    pending,   \* the records appended to a file and not inserted yet
    mtime,     \* file -> when it was last appended to, NotThere if it is not
    miscounted, \* history: the files whose last count failed, and rows there were
    pc,        \* where runCaptureCleanup is
    todo,      \* the projects of this sweep it has not come to
    current,   \* the project it is at,
    cutoff,    \* ... its cutoff,
    paths,     \* ... the expired paths it has not looked at
    path       \* ... and the one it is looking at

tableVars == <<rows, lastId>>
sweepVars == <<pc, todo, current, cutoff, paths, path>>
vars == <<now, deleted, tableVars, pending, mtime, miscounted, sweepVars>>

Time == 0 .. MaxTime
Hour(t) == t \div HourTicks
Day(t) == t \div DayTicks

File == [project : Project, hour : 0 .. Hour(MaxTime)]
Line == Lines \cup {"none"}
NotThere == -1
OnDisk(f) == mtime[f] # NotThere

Row == [id : 1 .. MaxRows, project : Project, file : File \cup {NoFile},
        line : Line, created : Time]
Record == [project : Project, file : File \cup {NoFile}, line : Line, at : Time]

RowsOf(p) == {row \in rows : row.project = p}

\* created_at < cutoff as texts: on the day of the cutoff the space after the
\* date sorts before the T, whatever the time is.
Expired(row, limit) == Day(row.created) <= Day(limit)

TypeOK ==
    /\ now \in Time
    /\ deleted \subseteq Project
    /\ rows \subseteq Row
    /\ lastId \in 0 .. MaxRows
    /\ pending \in Seq(Record)
    /\ mtime \in [File -> Time \cup {NotThere}]
    /\ miscounted \subseteq File
    /\ pc \in {"idle", "project", "delete", "files", "count", "remove"}
    /\ todo \subseteq Project
    /\ current \in Project
    /\ cutoff \in -(RetentionDays * DayTicks) .. MaxTime
    /\ paths \subseteq File \cup {NoFile}
    /\ path \in File \cup {NoFile}
    /\ IF pc \in {"count", "remove"} THEN path \in paths \cap File ELSE path = NoFile

Init ==
    /\ now = 0
    /\ deleted = {}
    /\ rows = {}
    /\ lastId = 0
    /\ pending = <<>>
    /\ mtime = [f \in File |-> NotThere]
    /\ miscounted = {}
    /\ pc = "idle"
    /\ todo = {}
    /\ current \in Project
    /\ cutoff = 0
    /\ paths = {}
    /\ path = NoFile

(***************************************************************************)
(* The pipeline and the projects.                                          *)
(***************************************************************************)

Room == lastId + Len(pending) < MaxRows

\* FileWriter.Write, to the file of the project and the hour.  The choice of the
\* path and the write are one step: no line comes late, after the end of its
\* hour, while its row may (Insert).  A line export cannot read back ("broken")
\* is longer than its scanner's buffer.
AppendLine(p, line) ==
    /\ Room
    /\ LET f == [project |-> p, hour |-> Hour(now)] IN
         /\ pending' = Append(pending,
              [project |-> p, file |-> f, line |-> line, at |-> now])
         /\ mtime' = [mtime EXCEPT ![f] = now]
    /\ UNCHANGED <<now, deleted, tableVars, miscounted, sweepVars>>

\* The record of an entry with BodySkipped: no line, no file.
KeepMetadata(p) ==
    /\ Room
    /\ pending' = Append(pending,
         [project |-> p, file |-> NoFile, line |-> "none", at |-> now])
    /\ UNCHANGED <<now, deleted, tableVars, mtime, miscounted, sweepVars>>

\* Store.InsertBatch commits: ids go up, created_at is the time of the insert.
InsertBatch ==
    /\ pending # <<>>
    /\ rows' = rows \cup
         {[id |-> lastId + i, project |-> pending[i].project, file |-> pending[i].file,
           line |-> pending[i].line, created |-> now] : i \in DOMAIN pending}
    /\ lastId' = lastId + Len(pending)
    /\ pending' = <<>>
    /\ UNCHANGED <<now, deleted, mtime, miscounted, sweepVars>>

\* InsertBatch has failed for the last time: the lines stay without rows.
GiveUp ==
    /\ "statement" \in Faults
    /\ pending # <<>>
    /\ pending' = <<>>
    /\ UNCHANGED <<now, deleted, tableVars, mtime, miscounted, sweepVars>>

DeleteProject(p) ==
    /\ p \notin deleted
    /\ deleted' = deleted \cup {p}
    /\ UNCHANGED <<now, tableVars, pending, mtime, miscounted, sweepVars>>

Tick ==
    /\ now < MaxTime
    /\ \A i \in DOMAIN pending : now + 1 - pending[i].at <= MaxPending
    /\ now' = now + 1
    /\ UNCHANGED <<deleted, tableVars, pending, mtime, miscounted, sweepVars>>

(***************************************************************************)
(* The sweep.                                                              *)
(***************************************************************************)

\* The ticker fires and ListWithRetention answers.
Sweep ==
    /\ pc = "idle"
    /\ todo' = Project \ (deleted \cup Forever)
    /\ pc' = "project"
    /\ UNCHANGED <<now, deleted, tableVars, pending, mtime, miscounted,
                   current, cutoff, paths, path>>

\* FAULT: the retention is taken for hours.
ListPathsInHours(p) ==
    /\ pc = "project" /\ p \in todo
    /\ todo' = todo \ {p}
    /\ current' = p
    /\ cutoff' = now - RetentionDays * HourTicks
    /\ paths' = {row.file : row \in {row \in RowsOf(p) : Expired(row, cutoff')}}
    /\ pc' = "delete"
    /\ UNCHANGED <<now, deleted, tableVars, pending, mtime, miscounted, path>>

\* FAULT: the minus of the cutoff is lost.
ListPathsAhead(p) ==
    /\ pc = "project" /\ p \in todo
    /\ todo' = todo \ {p}
    /\ current' = p
    /\ cutoff' = now + RetentionDays * DayTicks
    /\ paths' = {row.file : row \in {row \in RowsOf(p) : Expired(row, cutoff')}}
    /\ pc' = "delete"
    /\ UNCHANGED <<now, deleted, tableVars, pending, mtime, miscounted, path>>

\* The cutoff, and the query of DeleteByProjectBefore for the expired paths.
ListPaths(p) ==
    /\ pc = "project" /\ p \in todo
    /\ todo' = todo \ {p}
    /\ current' = p
    /\ cutoff' = now - RetentionDays * DayTicks
    /\ paths' = {row.file : row \in {row \in RowsOf(p) : Expired(row, cutoff')}}
    /\ pc' = "delete"
    /\ UNCHANGED <<now, deleted, tableVars, pending, mtime, miscounted, path>>

\* ... and its DELETE, with the same cutoff.
DeleteRows ==
    /\ pc = "delete"
    /\ rows' = rows \ {row \in RowsOf(current) : Expired(row, cutoff)}
    /\ pc' = "files"
    /\ UNCHANGED <<now, deleted, lastId, pending, mtime, miscounted,
                   todo, current, cutoff, paths, path>>

\* Either statement fails: this project waits for the next sweep.
DeleteFails ==
    /\ "statement" \in Faults
    /\ pc = "delete"
    /\ paths' = {}
    /\ cutoff' = 0
    /\ pc' = "project"
    /\ UNCHANGED <<now, deleted, tableVars, pending, mtime, miscounted,
                   todo, current, path>>

\* os.Stat fails, or the file was written to less than an hour ago.  The path
\* '' is the directory of the captures: os.Remove would refuse it.
SkipFile(f) ==
    /\ pc = "files" /\ f \in paths
    /\ f # NoFile /\ OnDisk(f) => now - mtime[f] < HourTicks
    /\ paths' = paths \ {f}
    /\ UNCHANGED <<now, deleted, tableVars, pending, mtime, miscounted,
                   pc, todo, current, cutoff, path>>

\* FAULT: the age of the file is not looked at.
StatFileAnyAge(f) ==
    /\ pc = "files" /\ f \in paths
    /\ f # NoFile /\ OnDisk(f)
    /\ path' = f
    /\ pc' = "count"
    /\ UNCHANGED <<now, deleted, tableVars, pending, mtime, miscounted,
                   todo, current, cutoff, paths>>

\* os.Stat finds a file nobody writes to any more.
StatFile(f) ==
    /\ pc = "files" /\ f \in paths
    /\ f # NoFile /\ OnDisk(f)
    /\ now - mtime[f] >= HourTicks
    /\ path' = f
    /\ pc' = "count"
    /\ UNCHANGED <<now, deleted, tableVars, pending, mtime, miscounted,
                   todo, current, cutoff, paths>>

\* CountByProject, of the whole project.  If the query fails the count is 0.
Count ==
    /\ pc = "count"
    /\ \/ /\ RowsOf(current) = {} \/ "count" \in Faults
          /\ pc' = "remove"
          /\ miscounted' = IF RowsOf(current) = {} THEN miscounted \ {path}
                                                  ELSE miscounted \cup {path}
          /\ UNCHANGED <<paths, path>>
       \/ /\ RowsOf(current) # {}
          /\ pc' = "files"
          /\ paths' = paths \ {path}
          /\ path' = NoFile
          /\ miscounted' = miscounted \ {path}
    /\ UNCHANGED <<now, deleted, tableVars, pending, mtime, todo, current, cutoff>>

\* os.Remove, which may fail.
Remove ==
    /\ pc = "remove"
    /\ \/ mtime' = [mtime EXCEPT ![path] = NotThere]
       \/ "remove" \in Faults /\ mtime' = mtime
    /\ paths' = paths \ {path}
    /\ path' = NoFile
    /\ pc' = "files"
    /\ UNCHANGED <<now, deleted, tableVars, pending, miscounted, todo, current, cutoff>>

\* The paths of a project are through.
NextProject ==
    /\ pc = "files" /\ paths = {}
    /\ cutoff' = 0
    /\ pc' = "project"
    /\ UNCHANGED <<now, deleted, tableVars, pending, mtime, miscounted,
                   todo, current, paths, path>>

\* FAULT: a timer that fires once where the ticker was.
SweepDoneForGood ==
    /\ pc = "project" /\ todo = {}
    /\ pc' = "returned"
    /\ UNCHANGED <<now, deleted, tableVars, pending, mtime, miscounted,
                   todo, current, cutoff, paths, path>>

\* The projects of a sweep are through.
SweepDone ==
    /\ pc = "project" /\ todo = {}
    /\ pc' = "idle"
    /\ UNCHANGED <<now, deleted, tableVars, pending, mtime, miscounted,
                   todo, current, cutoff, paths, path>>

\* The process ends and is started again: a batch and a sweep are forgotten.
Restart ==
    /\ "restart" \in Faults
    /\ pending' = <<>>
    /\ pc' = "idle"
    /\ todo' = {}
    /\ cutoff' = 0
    /\ paths' = {}
    /\ path' = NoFile
    /\ UNCHANGED <<now, deleted, tableVars, mtime, miscounted, current>>

Cleaner ==
    \/ Sweep
    \/ \E p \in Project : ListPaths(p)
    \/ DeleteRows
    \/ DeleteFails
    \/ \E f \in paths : SkipFile(f) \/ StatFile(f)
    \/ Count
    \/ Remove
    \/ NextProject
    \/ SweepDone

Pipeline ==
    \/ \E p \in Project : KeepMetadata(p) \/ \E line \in Lines : AppendLine(p, line)
    \/ InsertBatch
    \/ GiveUp

Next ==
    \/ Cleaner
    \/ Pipeline
    \/ \E p \in Project : DeleteProject(p)
    \/ Tick
    \/ Restart

Spec == Init /\ [][Next]_vars

\* Time passes, a batch is inserted or given up, the ticker fires, and a sweep
\* goes on: a statement that fails now and then, or a process that is restarted
\* now and then, does not fail or end each time before the same step.
FairSpec ==
    /\ Spec
    /\ WF_vars(Tick)
    /\ WF_vars(InsertBatch)
    /\ WF_vars(Sweep) /\ WF_vars(SweepDone) /\ WF_vars(NextProject)
    /\ \A p \in Project : SF_vars(ListPaths(p))
    /\ SF_vars(DeleteRows)
    /\ SF_vars(\E f \in paths : SkipFile(f) \/ StatFile(f))
    /\ SF_vars(Count)
    /\ SF_vars(Remove /\ mtime' # mtime)

(***************************************************************************)
(* Properties.                                                             *)
(***************************************************************************)

\* The sweep removes no file that a row points into, or a row about to be
\* inserted: the count covers the rows there are, and the age of the file the
\* ones that are pending (capture_cleanup.go:48-62).  Only a count that fails,
\* which is taken for zero, costs a row its file, and never one that is pending.
LiveRowsHaveTheirFiles ==
    /\ \A row \in rows : row.file \notin miscounted \cup {NoFile} => OnDisk(row.file)
    /\ \A i \in DOMAIN pending : pending[i].file # NoFile => OnDisk(pending[i].file)

\* The comparison of the texts costs at most a day: a row that is deleted was
\* kept for more than retention_days - 1 days.
NeverADayEarly ==
    [][\A row \in rows \ rows' : now - row.created > (RetentionDays - 1) * DayTicks]_vars

\* The sweep gets to every row: one that has expired, of a project that is not
\* deleted and has a retention, is deleted in the end.
Overdue(row) == Expired(row, now - RetentionDays * DayTicks)

ExpiredRowsGo ==
    \A p \in Project \ Forever, id \in 1 .. MaxRows :
        (\E row \in RowsOf(p) : row.id = id /\ Overdue(row))
            ~> (p \in deleted \/ ~\E row \in rows : row.id = id)

\* capture_cleanup.go:13, "delete capture records and JSONL files": the file an
\* overdue row points into goes as well.
OldFilesGo ==
    \A p \in Project \ Forever, f \in File :
        (\E row \in RowsOf(p) : row.file = f /\ Overdue(row)) ~> (p \in deleted \/ ~OnDisk(f))

=============================================================================
