---------------------------- MODULE ProxyRequest ----------------------------
(***************************************************************************)
(* A proxied request, from ChatCompletions to its end: proxyNonStream,     *)
(* proxyStream and writeLog of internal/proxy/service.go, with the log     *)
(* table, the counters of metrics.Registry and the entries it submits for  *)
(* capture.  Many requests run at once and share these three; a handler    *)
(* may be cut off anywhere by the end of the process.                      *)
(*                                                                         *)
(* A request that is refused before the upstream call is answered and      *)
(* leaves nothing behind (Routing says when there is no target).  A        *)
(* ResponseWriter that cannot flush is left out: net/http's can.  Of a     *)
(* stream the scanner hands out some events and then knows whether there   *)
(* was a [DONE] (EventStream).  Submit is a step that does not block       *)
(* (CapturePipeline).                                                      *)
(***************************************************************************)
EXTENDS Naturals, Sequences, FiniteSets

CONSTANTS
    Request,    \* the requests
    MaxEvents,  \* bound: how many events a stream has
    MaxBoots,   \* bound: how many times the process is started
    Faults      \* "insert": logs.Service.Write may fail

ASSUME ProxyAssumption ==
    /\ IsFiniteSet(Request)
    /\ MaxEvents \in Nat
    /\ MaxBoots \in Nat \ {0}
    /\ Faults \subseteq {"insert"}

VARIABLES
    handler,   \* what the handler of each request is doing
    client,    \* what was written to each client
    rows,      \* the table request_logs
    total,     \* requests_total
    errors,    \* request_errors_total
    active,    \* active_streams
    captured,  \* the entries given to maybeCapture
    boots,     \* how many times the process was started
    lost,      \* history: the requests whose row could not be inserted
    before     \* history: the requests with a row, or a lost one, at the last start

logVars == <<rows, lost>>
counters == <<total, errors>>
bootVars == <<boots, before>>
vars == <<handler, client, rows, total, errors, active, captured, boots, lost, before>>

\* How the upstream call went: no response, a status of 400 or more, a
\* response in one piece, a stream with [DONE] and one without.
Reply == {"failed", "error", "whole", "completed", "broken off"}

Pc == {"idle", "calling", "streaming", "logging", "counting", "answering",
       "capturing", "closing", "ended", "refused", "cut off"}

\* What a row of request_logs and a capture entry say of a request.
Record == [request : Request, stream : BOOLEAN, reply : Reply]

Idle == [pc |-> "idle", stream |-> FALSE, project |-> FALSE, open |-> FALSE, reply |-> "none"]

Init ==
    /\ handler = [r \in Request |-> Idle]
    /\ client = [r \in Request |-> [status |-> "none", events |-> 0, done |-> FALSE]]
    /\ rows = <<>>
    /\ total = 0
    /\ errors = 0
    /\ active = 0
    /\ captured = <<>>
    /\ boots = 1
    /\ lost = {}
    /\ before = {}

At(r, pc) == handler[r].pc = pc
GoTo(r, pc) == handler' = [handler EXCEPT ![r].pc = pc]
RecordOf(r) ==
    [request |-> r, stream |-> handler[r].stream, reply |-> handler[r].reply]
Logged == {rows[i].request : i \in 1 .. Len(rows)} \cup lost

\* writeLog: IsError of a status and an error code.  That of a stream without
\* [DONE] is in its StreamResult, where it is not looked for.
IsError(reply) == reply \in {"failed", "error"}

-----------------------------------------------------------------------------
\* ChatCompletions answers 400, 401, 404, 405, 413 or 503 itself, or no
\* upstream request can be built (502): nothing is logged and nothing counted.
Refuse(r) ==
    /\ At(r, "idle")
    /\ client' = [client EXCEPT ![r].status = "error"]
    /\ GoTo(r, "refused")
    /\ UNCHANGED <<logVars, counters, active, captured, bootVars>>

\* ChatCompletions has a target and calls proxyStream or proxyNonStream.
Begin(r, stream, project) ==
    /\ At(r, "idle")
    /\ handler' = [handler EXCEPT ![r] =
         [Idle EXCEPT !.pc = "calling", !.stream = stream, !.project = project]]
    /\ UNCHANGED <<client, logVars, counters, active, captured, bootVars>>

\* FAULT: a failed call is answered on the way out, before the log is written.
ResponseAnswersFirst(r, reply) ==
    /\ At(r, "calling")
    /\ reply = "whole" => ~handler[r].stream
    /\ handler' = [handler EXCEPT ![r].reply = reply,
                                 ![r].pc = IF reply = "failed" THEN "answering" ELSE "logging"]
    /\ UNCHANGED <<client, logVars, counters, active, captured, bootVars>>

\* client.Do fails, or gives a response that is no stream of events.
Response(r, reply) ==
    /\ At(r, "calling")
    /\ reply = "whole" => ~handler[r].stream
    /\ handler' = [handler EXCEPT ![r].reply = reply, ![r].pc = "logging"]
    /\ UNCHANGED <<client, logVars, counters, active, captured, bootVars>>

\* A stream: the client gets the header, and the gauge goes up until the return.
OpenStream(r) ==
    /\ At(r, "calling")
    /\ handler[r].stream
    /\ client' = [client EXCEPT ![r].status = "ok"]
    /\ active' = active + 1
    /\ handler' = [handler EXCEPT ![r].pc = "streaming", ![r].open = TRUE]
    /\ UNCHANGED <<logVars, counters, captured, bootVars>>

\* An event is passed on.
Event(r) ==
    /\ At(r, "streaming")
    /\ client[r].events < MaxEvents
    /\ client' = [client EXCEPT ![r].events = @ + 1]
    /\ UNCHANGED <<handler, logVars, counters, active, captured, bootVars>>

\* The scanner has seen [DONE], which is passed on.
Done(r) ==
    /\ At(r, "streaming")
    /\ client' = [client EXCEPT ![r].done = TRUE]
    /\ handler' = [handler EXCEPT ![r].reply = "completed", ![r].pc = "logging"]
    /\ UNCHANGED <<logVars, counters, active, captured, bootVars>>

\* FAULT: the end of the body is taken for the end of the stream.
BrokenOffIsDone(r) ==
    /\ At(r, "streaming")
    /\ handler' = [handler EXCEPT ![r].reply = "completed", ![r].pc = "logging"]
    /\ UNCHANGED <<client, logVars, counters, active, captured, bootVars>>

\* FAULT: the timeout covers the header only, and a stream that has begun may hang.
BrokenOffUnlessBegun(r) ==
    /\ At(r, "streaming")
    /\ client[r].events = 0
    /\ handler' = [handler EXCEPT ![r].reply = "broken off", ![r].pc = "logging"]
    /\ UNCHANGED <<client, logVars, counters, active, captured, bootVars>>

\* The stream ends without [DONE]: at its end, by an error or by the timeout
\* of the proxy's http.Client, which covers the body.
BrokenOff(r) ==
    /\ At(r, "streaming")
    /\ handler' = [handler EXCEPT ![r].reply = "broken off", ![r].pc = "logging"]
    /\ UNCHANGED <<client, logVars, counters, active, captured, bootVars>>

\* writeLog inserts the row, and drops the error if it cannot,
Log(r) ==
    /\ At(r, "logging")
    /\ \/ rows' = Append(rows, RecordOf(r)) /\ UNCHANGED lost
       \/ "insert" \in Faults /\ lost' = lost \cup {r} /\ UNCHANGED rows
    /\ GoTo(r, "counting")
    /\ UNCHANGED <<client, counters, active, captured, bootVars>>

\* FAULT: only requests with a response are counted.
CountResponses(r) ==
    /\ At(r, "counting")
    /\ total' = IF handler[r].reply = "failed" THEN total ELSE total + 1
    /\ errors' = IF IsError(handler[r].reply) THEN errors + 1 ELSE errors
    /\ GoTo(r, IF handler[r].open THEN "capturing" ELSE "answering")
    /\ UNCHANGED <<client, logVars, active, captured, bootVars>>

\* ... and counts the request: the two adds are one step, as nothing here reads
\* the counters in between.  A stream has been answered by then.
Count(r) ==
    /\ At(r, "counting")
    /\ total' = total + 1
    /\ errors' = IF IsError(handler[r].reply) THEN errors + 1 ELSE errors
    /\ GoTo(r, IF handler[r].open THEN "capturing" ELSE "answering")
    /\ UNCHANGED <<client, logVars, active, captured, bootVars>>

\* The response is written, or the 502 of a call that failed.
Answer(r) ==
    /\ At(r, "answering")
    /\ client' = [client EXCEPT ![r].status =
         IF handler[r].reply = "whole" THEN "ok" ELSE "error"]
    /\ GoTo(r, IF handler[r].reply = "failed" THEN "ended" ELSE "capturing")
    /\ UNCHANGED <<logVars, counters, active, captured, bootVars>>

\* FAULT: a return ahead of the decrement, where there is no project.
CaptureReturnsEarly(r) ==
    /\ At(r, "capturing")
    /\ captured' = IF handler[r].project THEN Append(captured, RecordOf(r)) ELSE captured
    /\ GoTo(r, IF handler[r].open /\ handler[r].project THEN "closing" ELSE "ended")
    /\ UNCHANGED <<client, logVars, counters, active, bootVars>>

\* maybeCapture, for the route of a project.
Capture(r) ==
    /\ At(r, "capturing")
    /\ captured' = IF handler[r].project THEN Append(captured, RecordOf(r)) ELSE captured
    /\ GoTo(r, IF handler[r].open THEN "closing" ELSE "ended")
    /\ UNCHANGED <<client, logVars, counters, active, bootVars>>

\* The deferred DecActiveStream.
Close(r) ==
    /\ At(r, "closing")
    /\ active' = active - 1
    /\ GoTo(r, "ended")
    /\ UNCHANGED <<client, logVars, counters, captured, bootVars>>

\* The process ends, and is started again with counters of its own.
Restart ==
    /\ boots < MaxBoots
    /\ boots' = boots + 1
    /\ handler' = [r \in Request |->
         IF handler[r].pc \in {"idle", "ended", "refused"} THEN handler[r]
         ELSE [handler[r] EXCEPT !.pc = "cut off"]]
    /\ total' = 0
    /\ errors' = 0
    /\ active' = 0
    /\ before' = Logged
    /\ UNCHANGED <<client, logVars, captured>>

\* What needs nobody but the proxy and its timeout.
Proceed(r) ==
    \/ Response(r, "failed")
    \/ BrokenOff(r)
    \/ Log(r)
    \/ Count(r)
    \/ Answer(r)
    \/ Capture(r)
    \/ Close(r)

\* What the client and the upstream do.
Outside(r) ==
    \/ Refuse(r)
    \/ \E stream, project \in BOOLEAN : Begin(r, stream, project)
    \/ \E reply \in {"error", "whole"} : Response(r, reply)
    \/ OpenStream(r)
    \/ Event(r)
    \/ Done(r)

Next ==
    \/ \E r \in Request : Proceed(r) \/ Outside(r)
    \/ Restart

Spec == Init /\ [][Next]_vars

\* A goroutine that can run does run, and the client's timeout of two minutes
\* ends the wait for an upstream that does nothing; nothing is owed by the
\* upstream and the clients.
FairSpec == Spec /\ \A r \in Request : WF_vars(Proceed(r))

-----------------------------------------------------------------------------
\* The handlers that have opened a stream and not returned.
OpenStreams == {r \in Request : handler[r].open /\ handler[r].pc \notin {"ended", "cut off"}}

\* The requests that this process has logged and counted.
Counted == {r \in Logged \ before : ~At(r, "counting")}

\* The type of the state.
TypeOK ==
    /\ handler \in [Request -> [pc : Pc, stream : BOOLEAN, project : BOOLEAN,
                                open : BOOLEAN, reply : Reply \cup {"none"}]]
    /\ client \in [Request -> [status : {"none", "ok", "error"},
                               events : 0 .. MaxEvents, done : BOOLEAN]]
    /\ rows \in Seq(Record)
    /\ captured \in Seq(Record)
    /\ total \in Nat
    /\ errors \in Nat
    /\ active \in Nat
    /\ boots \in 1 .. MaxBoots
    /\ lost \subseteq Request
    /\ before \subseteq Request

\* active_streams is the number of handlers in proxyStream after its
\* IncActiveStream, whichever way their streams and their returns go.
GaugeCountsStreams == active = Cardinality(OpenStreams)

\* The counters of a process and the table agree: each request that it logged,
\* or failed to log, and went on to count is in requests_total once, and in
\* request_errors_total if the call failed or was answered with an error.
BooksAgree ==
    /\ total = Cardinality(Counted)
    /\ errors = Cardinality({r \in Counted : IsError(handler[r].reply)})

\* request_logs and the captures say what the client saw: a request is
\* in each of them once at most, as a completed stream just when the client
\* was sent [DONE], and if it is in both they say the same.
RecordsTellTheTruth ==
    \A records \in {rows, captured} :
        /\ \A i, j \in 1 .. Len(records) : records[i].request = records[j].request => i = j
        /\ \A i \in 1 .. Len(records) :
             LET r == records[i].request IN
             /\ records[i].reply = "completed" <=> client[r].done
             /\ records[i].reply \in {"completed", "broken off"} => client[r].status = "ok"
             /\ \A j \in 1 .. Len(rows) : rows[j].request = r => rows[j] = records[i]

\* A client that was given a response in one piece, or an error, finds its
\* request in the log, whatever crash comes then, unless the insert failed; of
\* a capture the same holds for streams too.  A request that was refused is in
\* neither.
AnsweredIsLogged ==
    /\ \A r \in Request :
         client[r].status # "none" /\ ~handler[r].open => (r \in Logged <=> ~At(r, "refused"))
    /\ \A i \in 1 .. Len(captured) : captured[i].request \in Logged

\* Every request that was passed on comes to an end, or its process does.
EveryRequestEnds ==
    \A r \in Request : At(r, "calling") ~> handler[r].pc \in {"ended", "cut off"}

=============================================================================
