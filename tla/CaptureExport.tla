---------------------------- MODULE CaptureExport ----------------------------
(***************************************************************************)
(* The readers of the captures: ListCaptures and ExportCaptures of         *)
(* internal/api/capture_handlers.go, which page through the table by id    *)
(* while the pipeline inserts rows and the sweep deletes rows and files    *)
(* (CaptureCleanup).  No transaction spans two queries, or a query and the *)
(* lines that are read for it.                                             *)
(*                                                                         *)
(* A reader is a client and its requests, in one of three modes:           *)
(*   list      ListCaptures, asked again with next_cursor until it is null *)
(*   paged     ExportCaptures, asked again with the next_cursor of _meta   *)
(*   download  ExportCaptures with download=true, one request for all      *)
(* Filters other than the project only narrow what a query may return and  *)
(* are left out.                                                           *)
(***************************************************************************)
EXTENDS CaptureCleanup

CONSTANTS
    Reader,     \* the clients
    Modes,      \* how they read, see above
    PageSize    \* page_size, and the 500 of a download

ASSUME ExportAssumption ==
    /\ Modes \subseteq {"list", "paged", "download"}
    /\ PageSize \in Nat \ {0}

VARIABLE reader

exportVars == <<vars, reader>>

\* Before the first request.
NotStarted == [at |-> "start"]

(***************************************************************************)
(* What a reader that has started keeps: the cursor, the rows of the last  *)
(* query it has not read and what it was sent.  before is history: the     *)
(* rows there were when it started.                                        *)
(***************************************************************************)
Reading ==
    [at : {"query", "lines", "answered", "finished", "failed"},
     mode : Modes, project : Project, cursor : 0 .. MaxRows,
     page : SUBSET Row, sent : Seq(1 .. MaxRows), before : SUBSET (1 .. MaxRows)]

ExportTypeOK == reader \in [Reader -> {NotStarted} \cup Reading]

ExportInit ==
    /\ Init
    /\ reader = [r \in Reader |-> NotStarted]

\* FAULT: the cursor is inclusive.
ListFromCursor(p, cursor) ==
    LET after == {row \in RowsOf(p) : row.id >= cursor} IN
    {row \in after : Cardinality({other \in after : other.id < row.id}) < PageSize}

\* FAULT: a page is a range of ids instead of a number of rows.
ListIdRange(p, cursor) ==
    {row \in RowsOf(p) : row.id \in cursor + 1 .. cursor + PageSize}

\* Store.ListAfterCursor: ... id > cursor ORDER BY id LIMIT pageSize.
ListAfterCursor(p, cursor) ==
    LET after == {row \in RowsOf(p) : row.id > cursor} IN
    {row \in after : Cardinality({other \in after : other.id < row.id}) < PageSize}

\* readCaptureLine finds the line: its metadata if there is no file, else the
\* line at the offset, if the file is still there and the scanner can take it.
Readable(row) ==
    row.file # NoFile => OnDisk(row.file) /\ row.line = "whole"

\* The ids of a page in the order of its query.
IdsOf(page) ==
    LET ids == {row.id : row \in page} IN
    CHOOSE seq \in [1 .. Cardinality(ids) -> ids] :
        \A i, j \in DOMAIN seq : i < j => seq[i] < seq[j]

First(page) == CHOOSE row \in page : \A other \in page : row.id <= other.id

LastId(page) == CHOOSE id \in {row.id : row \in page} : \A row \in page : row.id <= id

\* A request of a client that has not asked before.
Start(r, mode, p) ==
    /\ reader[r] = NotStarted
    /\ reader' = [reader EXCEPT ![r] =
         [at |-> "query", mode |-> mode, project |-> p, cursor |-> 0, page |-> {},
          sent |-> <<>>, before |-> {row.id : row \in RowsOf(p)}]]
    /\ UNCHANGED vars

\* ListCaptures: the page is the answer, and next_cursor is its last id if the
\* page is full, else null.
List(r) ==
    /\ reader[r].at = "query" /\ reader[r].mode = "list"
    /\ LET page == ListAfterCursor(reader[r].project, reader[r].cursor)
           full == Cardinality(page) = PageSize
       IN  reader' = [reader EXCEPT ![r].sent = @ \o IdsOf(page),
                                    ![r].cursor = IF full THEN LastId(page) ELSE @,
                                    ![r].at = IF full THEN "query" ELSE "finished"]
    /\ UNCHANGED vars

\* ExportCaptures: a query of its loop finds rows.
Query(r) ==
    /\ reader[r].at = "query" /\ reader[r].mode # "list"
    /\ LET page == ListAfterCursor(reader[r].project, reader[r].cursor) IN
         /\ page # {}
         /\ reader' = [reader EXCEPT ![r].page = page,
                                     ![r].at = "lines"]
    /\ UNCHANGED vars

\* FAULT: a query without rows continues the loop instead of leaving it.
QueryEmptyContinues(r) ==
    /\ reader[r].at = "query" /\ reader[r].mode # "list"
    /\ ListAfterCursor(reader[r].project, reader[r].cursor) = {}
    /\ UNCHANGED exportVars

\* ... or none: the loop is left, _meta is written.  Its has_more is always true
\* for a paged client, which takes the page without lines for the end.
QueryEmpty(r) ==
    /\ reader[r].at = "query" /\ reader[r].mode # "list"
    /\ ListAfterCursor(reader[r].project, reader[r].cursor) = {}
    /\ reader' = [reader EXCEPT ![r].at = "finished"]
    /\ UNCHANGED vars

\* ... or it fails: a download ends as if it were complete.
QueryFails(r) ==
    /\ "statement" \in Faults
    /\ reader[r].at = "query"
    /\ reader' = [reader EXCEPT ![r].at = "failed"]
    /\ UNCHANGED vars

\* After the last line of a page a download queries again and a paged export
\* writes its _meta.
AfterLines(r, left) ==
    IF left # {} THEN "lines"
    ELSE IF reader[r].mode = "download" THEN "query" ELSE "answered"

\* FAULT: the cursor is the id to go on with instead of the last one.
SendLineNextId(r) ==
    /\ reader[r].at = "lines"
    /\ Readable(First(reader[r].page))
    /\ LET row == First(reader[r].page)
           left == reader[r].page \ {row}
       IN
         reader' = [reader EXCEPT ![r].sent = Append(@, row.id),
                                  ![r].cursor = row.id + 1,
                                  ![r].page = left,
                                  ![r].at = AfterLines(r, left)]
    /\ UNCHANGED vars

\* The next line of the page is sent, and only then the cursor moves.
SendLine(r) ==
    /\ reader[r].at = "lines"
    /\ Readable(First(reader[r].page))
    /\ LET row == First(reader[r].page)
           left == reader[r].page \ {row}
       IN
         reader' = [reader EXCEPT ![r].sent = Append(@, row.id),
                                  ![r].cursor = row.id,
                                  ![r].page = left,
                                  ![r].at = AfterLines(r, left)]
    /\ UNCHANGED vars

\* readCaptureLine returns nil: the line is counted and skipped.
SkipLine(r) ==
    /\ reader[r].at = "lines"
    /\ ~Readable(First(reader[r].page))
    /\ LET row == First(reader[r].page)
           left == reader[r].page \ {row}
       IN
         reader' = [reader EXCEPT ![r].page = left,
                                  ![r].at = AfterLines(r, left)]
    /\ UNCHANGED vars

\* The client asks for the next page, with next_cursor.
NextPage(r) ==
    /\ reader[r].at = "answered"
    /\ reader' = [reader EXCEPT ![r].at = "query"]
    /\ UNCHANGED vars

Step(r) ==
    \/ List(r)
    \/ Query(r)
    \/ QueryEmpty(r)
    \/ SendLine(r)
    \/ SkipLine(r)
    \/ NextPage(r)

ExportNext ==
    \/ Next /\ UNCHANGED reader
    \/ \E r \in Reader :
         \/ \E mode \in Modes, p \in Project : Start(r, mode, p)
         \/ Step(r) \/ QueryFails(r)

ExportSpec == ExportInit /\ [][ExportNext]_exportVars

\* A request that has been received is worked on; a query need not fail.
FairExportSpec == ExportSpec /\ \A r \in Reader : WF_exportVars(Step(r))

(***************************************************************************)
(* Properties.                                                             *)
(***************************************************************************)

\* Nothing is sent twice: whatever is inserted and deleted between two queries,
\* and whatever is skipped, a client gets rows in the order of their ids.
NoRowTwice ==
    \A r \in Reader : reader[r] # NotStarted =>
        \A i, j \in DOMAIN reader[r].sent : i < j => reader[r].sent[i] < reader[r].sent[j]

\* Nothing is missed: a client was sent each row up to its cursor that was there
\* when it began, is still there and can be read, and if it was told that it had
\* everything, each one at all.  A download with a query that failed looks to the
\* client like one that is complete: what it lacks is what comes after its cursor.
NoRowMissed ==
    \A r \in Reader : reader[r] # NotStarted =>
        \A row \in RowsOf(reader[r].project) :
               /\ row.id \in reader[r].before
               /\ row.id <= reader[r].cursor \/ reader[r].at = "finished"
               /\ Readable(row) \/ reader[r].mode = "list"
            => \E i \in DOMAIN reader[r].sent : reader[r].sent[i] = row.id

\* No line of the page a download asks for can be read: a file is gone, or the
\* line does not fit the buffer.
Stuck(r) ==
    LET page == ListAfterCursor(reader[r].project, reader[r].cursor) IN
    page # {} /\ \A row \in page : ~Readable(row)

\* A download ends, whatever is inserted, swept and removed meanwhile, unless it
\* comes to a page without a line that can be read: the cursor moves with the
\* lines that are sent, and rows stop coming.
DownloadEndsOrIsStuck ==
    \A r \in Reader :
        (reader[r].at = "query" /\ reader[r].mode = "download")
            ~> (reader[r].at \in {"finished", "failed"}
                \/ (reader[r].at = "query" /\ Stuck(r)))

=============================================================================
