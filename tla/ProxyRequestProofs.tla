------------------------- MODULE ProxyRequestProofs -------------------------
(***************************************************************************)
(* Proofs about ProxyRequest, for any number of requests, events, failing  *)
(* inserts and restarts, and, in the second half, about SSEScanner, which  *)
(* reads the stream a request relays.                                      *)
(*                                                                         *)
(* StageInv says of each place in a handler what is already there: whether *)
(* the stream is open, whether the request is logged, in this process or   *)
(* an earlier one, whether the client has been answered.  With it the      *)
(* gauge, the counters and the log follow the handlers step by step.       *)
(* TruthInv says that a handler has at most one row and one capture and    *)
(* that each has the reply it stands by, and Told what its client was sent *)
(* of that reply.                                                          *)
(***************************************************************************)
EXTENDS ProxyRequest, SSEScanner, FiniteSetTheorems, SequenceTheorems, TLAPS

HandlerRecord ==
    [pc : Pc, stream : BOOLEAN, project : BOOLEAN, open : BOOLEAN, reply : Reply \cup {"none"}]

StateType ==
    /\ handler \in [Request -> HandlerRecord]
    /\ DOMAIN client = Request
    /\ \A r \in Request : DOMAIN client[r] = {"status", "events", "done"}
    /\ rows \in Seq(Record)
    /\ captured \in Seq(Record)
    /\ lost \subseteq Request
    /\ before \subseteq Request

Stage(r) ==
    /\ handler[r].pc \in {"idle", "calling", "answering", "refused"} => ~handler[r].open
    /\ handler[r].pc \in {"streaming", "closing"} => handler[r].open
    /\ handler[r].pc \in {"logging", "counting", "answering", "capturing", "closing"}
         => handler[r].reply \in Reply
    /\ handler[r].pc \in {"idle", "calling", "streaming", "logging", "refused"} => r \notin Logged
    /\ handler[r].pc = "counting" => r \in Logged \ before
    /\ handler[r].pc \in {"answering", "capturing", "closing"} => r \in Logged
    /\ handler[r].pc = "idle" => client[r].status = "none"

StageInv == StateType /\ before \subseteq Logged /\ \A r \in Request : Stage(r)

-----------------------------------------------------------------------------
\* Rows are rows of requests.
LEMMA LoggedInRequest == ASSUME StateType PROVE Logged \subseteq Request
<1>1. \A i \in 1 .. Len(rows) : rows[i] \in Record
    BY DEF StateType
<1>2. \A i \in 1 .. Len(rows) : rows[i].request \in Request
    BY <1>1 DEF Record
<1> QED
    BY <1>2 DEF StateType, Logged

\* What an insert, or a failing one, does to Logged.
LEMMA LogAdds ==
    ASSUME StageInv, NEW r \in Request, Log(r)
    PROVE  Logged' = Logged \cup {r} /\ rows' \in Seq(Record) /\ lost' \subseteq Request
<1>1. RecordOf(r) \in Record /\ RecordOf(r).request = r
    BY DEF Log, At, StageInv, StateType, Stage, HandlerRecord, RecordOf, Record
<1>2. CASE rows' = Append(rows, RecordOf(r)) /\ UNCHANGED lost
    <2>1. /\ rows' \in Seq(Record)
          /\ Len(rows') = Len(rows) + 1
          /\ \A i \in 1 .. Len(rows) : rows'[i] = rows[i]
          /\ rows'[Len(rows) + 1] = RecordOf(r)
        BY <1>1, <1>2 DEF StageInv, StateType
    <2>2. Len(rows) \in Nat
        BY DEF StageInv, StateType
    <2>3. {rows'[i].request : i \in 1 .. Len(rows')} = {rows[i].request : i \in 1 .. Len(rows)} \cup {r}
        BY <1>1, <2>1, <2>2
    <2> QED
        BY <1>2, <2>1, <2>3 DEF Logged, StageInv, StateType
<1>3. CASE lost' = lost \cup {r} /\ UNCHANGED rows
    BY <1>3 DEF Logged, StageInv, StateType
<1> QED
    BY <1>2, <1>3 DEF Log

\* StageInv holds at the start,
LEMMA InitStages == Init => StageInv
BY DEF Init, StageInv, StateType, Stage, HandlerRecord, Idle, Pc, Logged, Record

\* A step of a handler leaves the others, and their clients, alone.
LEMMA OthersStay ==
    ASSUME StateType, NEW r \in Request, Proceed(r) \/ Outside(r),
           NEW other \in Request, other # r
    PROVE  handler'[other] = handler[other] /\ client'[other] = client[other]
BY DEF StateType, Proceed, Outside, Response, BrokenOff, Log, Count, Answer, Capture, Close,
       Refuse, Begin, OpenStream, Event, Done, GoTo

\* Nothing but Log and Restart changes what is logged, and when.
LEMMA BooksStay ==
    ASSUME NEW r \in Request, (Proceed(r) /\ ~Log(r)) \/ Outside(r)
    PROVE  UNCHANGED <<rows, lost, before, boots>>
BY DEF Proceed, Outside, Response, BrokenOff, Count, Answer, Capture, Close,
       Refuse, Begin, OpenStream, Event, Done, logVars, bootVars

\* The assignments that the actions make to a handler and to a client.
LEMMA HandlerTouched ==
    ASSUME StateType, NEW r \in Request,
           NEW pc \in Pc, NEW open \in BOOLEAN, NEW reply \in Reply
    PROVE  /\ [handler EXCEPT ![r].pc = pc] \in [Request -> HandlerRecord]
           /\ [handler EXCEPT ![r].pc = pc, ![r].open = open] \in [Request -> HandlerRecord]
           /\ [handler EXCEPT ![r].reply = reply, ![r].pc = pc] \in [Request -> HandlerRecord]
<1>1. handler[r] \in HandlerRecord
    BY DEF StateType
<1>2. /\ [handler[r] EXCEPT !.pc = pc] \in HandlerRecord
      /\ [[handler[r] EXCEPT !.pc = pc] EXCEPT !.open = open] \in HandlerRecord
      /\ [[handler[r] EXCEPT !.reply = reply] EXCEPT !.pc = pc] \in HandlerRecord
    BY <1>1 DEF HandlerRecord
<1> QED
    BY <1>2 DEF StateType

\* What was written to a client keeps its fields.
LEMMA ClientTouched ==
    ASSUME StateType, NEW r \in Request, NEW value,
           \/ client' = client
           \/ client' = [client EXCEPT ![r].status = value]
           \/ client' = [client EXCEPT ![r].events = value]
           \/ client' = [client EXCEPT ![r].done = value]
    PROVE  DOMAIN client' = Request
           /\ \A s \in Request : DOMAIN client'[s] = {"status", "events", "done"}
BY DEF StateType

\* A step of a handler keeps the shape of the state ...
LEMMA StepTypes ==
    ASSUME StageInv, NEW r \in Request, Proceed(r) \/ Outside(r)
    PROVE  StateType'
<1>1. handler' \in [Request -> HandlerRecord]
    <2>0. StateType
        BY DEF StageInv
    <2>1. Pc = {"idle", "calling", "streaming", "logging", "counting", "answering",
                "capturing", "closing", "ended", "refused", "cut off"}
        BY DEF Pc
    <2>2. ASSUME NEW reply \in Reply, Response(r, reply) PROVE handler' \in [Request -> HandlerRecord]
        BY <2>0, <2>1, <2>2, HandlerTouched DEF Response
    <2>3. CASE BrokenOff(r)
        <3>1. "broken off" \in Reply /\ "logging" \in Pc
            BY <2>1 DEF Reply
        <3>2. [handler EXCEPT ![r].reply = "broken off", ![r].pc = "logging"]
                \in [Request -> HandlerRecord]
            BY <2>0, <3>1, HandlerTouched
        <3> QED
            BY <2>3, <3>2 DEF BrokenOff
    <2>4. CASE Log(r) \/ Count(r) \/ Answer(r) \/ Capture(r) \/ Close(r) \/ Refuse(r)
        <3>1. "failed" \in Reply
            BY DEF Reply
        <3>2. PICK pc \in Pc : handler' = [handler EXCEPT ![r].pc = pc]
            BY <2>1, <2>4 DEF Log, Count, Answer, Capture, Close, Refuse, GoTo
        <3>3. [handler EXCEPT ![r].pc = pc] \in [Request -> HandlerRecord]
            BY <2>0, <3>1, HandlerTouched
        <3> QED
            BY <3>2, <3>3
    <2>5. ASSUME NEW stream \in BOOLEAN, NEW project \in BOOLEAN, Begin(r, stream, project)
          PROVE  handler' \in [Request -> HandlerRecord]
        <3>1. [Idle EXCEPT !.pc = "calling", !.stream = stream, !.project = project]
                \in HandlerRecord
            BY <2>1 DEF Idle, HandlerRecord
        <3> QED
            BY <2>0, <2>5, <3>1 DEF Begin, StateType
    <2>6. CASE OpenStream(r)
        <3>1. "failed" \in Reply /\ "streaming" \in Pc /\ TRUE \in BOOLEAN
            BY <2>1 DEF Reply
        <3>2. [handler EXCEPT ![r].pc = "streaming", ![r].open = TRUE]
                \in [Request -> HandlerRecord]
            BY <2>0, <3>1, HandlerTouched
        <3> QED
            BY <2>6, <3>2, Zenon DEF OpenStream
    <2>7. CASE Event(r)
        BY <2>0, <2>7 DEF Event, StateType
    <2>8. CASE Done(r)
        <3>1. "completed" \in Reply /\ "logging" \in Pc
            BY <2>1 DEF Reply
        <3>2. [handler EXCEPT ![r].reply = "completed", ![r].pc = "logging"]
                \in [Request -> HandlerRecord]
            BY <2>0, <3>1, HandlerTouched
        <3> QED
            BY <2>8, <3>2, Zenon DEF Done
    <2> QED
        BY <2>2, <2>3, <2>4, <2>5, <2>6, <2>7, <2>8 DEF Proceed, Outside, Reply
<1>2. DOMAIN client' = Request /\ \A s \in Request : DOMAIN client'[s] = {"status", "events", "done"}
    <2>1. \/ client' = client
          \/ \E value : \/ client' = [client EXCEPT ![r].status = value]
                         \/ client' = [client EXCEPT ![r].events = value]
                         \/ client' = [client EXCEPT ![r].done = value]
        BY DEF Proceed, Outside, Response, BrokenOff, Log, Count, Answer, Capture, Close,
               Refuse, Begin, OpenStream, Event, Done
    <2> QED
        BY <2>1, ClientTouched DEF StageInv
<1>3. captured' \in Seq(Record)
    <2>1. CASE Capture(r)
        <3>1. RecordOf(r) \in Record
            BY <2>1 DEF Capture, At, StageInv, StateType, Stage, HandlerRecord, RecordOf, Record
        <3> QED
            BY <2>1, <3>1 DEF Capture, StageInv, StateType
    <2>2. CASE ~Capture(r)
        <3>1. captured' = captured
            BY <2>2 DEF Proceed, Outside, Response, BrokenOff, Log, Count, Answer, Close,
                        Refuse, Begin, OpenStream, Event, Done
        <3> QED
            BY <3>1 DEF StageInv, StateType
    <2> QED
        BY <2>1, <2>2
<1>4. rows' \in Seq(Record) /\ lost' \subseteq Request /\ before' \subseteq Request
    <2>1. CASE Log(r)
        BY <2>1, LogAdds DEF Log, bootVars, StageInv, StateType
    <2>2. CASE ~Log(r)
        BY <2>2, BooksStay DEF StageInv, StateType
    <2> QED
        BY <2>1, <2>2
<1> QED
    BY <1>1, <1>2, <1>3, <1>4 DEF StateType

\* ... and, unless it is Log, which changes what is logged, takes its own
\* handler from one place to another of which Stage holds.
LEMMA StepKeepsStage ==
    ASSUME StageInv, NEW r \in Request, (Proceed(r) /\ ~Log(r)) \/ Outside(r), Logged' = Logged
    PROVE  Stage(r)'
<1> USE DEF StageInv, StateType, Stage, At, HandlerRecord
<1>0. before' = before
    BY BooksStay
<1>1. ASSUME NEW reply \in Reply, Response(r, reply) PROVE Stage(r)'
    BY <1>0, <1>1 DEF Response
<1>2. CASE BrokenOff(r)
    BY <1>0, <1>2 DEF BrokenOff, Reply
<1>4. CASE Count(r)
    BY <1>0, <1>4 DEF Count, GoTo
<1>5. CASE Answer(r)
    BY <1>0, <1>5 DEF Answer, GoTo
<1>6. CASE Capture(r)
    BY <1>0, <1>6 DEF Capture, GoTo
<1>7. CASE Close(r)
    BY <1>0, <1>7 DEF Close, GoTo
<1>8. ASSUME NEW stream \in BOOLEAN, NEW project \in BOOLEAN, Begin(r, stream, project)
      PROVE  Stage(r)'
    BY <1>0, <1>8 DEF Begin, Idle
<1>9. CASE OpenStream(r)
    BY <1>0, <1>9 DEF OpenStream
<1>10. CASE Event(r)
    BY <1>0, <1>10 DEF Event
<1>11. CASE Done(r)
    BY <1>0, <1>11, ZenonT(40) DEF Done, Reply
<1>12. CASE Refuse(r)
    BY <1>0, <1>12 DEF Refuse, GoTo
<1> QED
    BY <1>1, <1>2, <1>4, <1>5, <1>6, <1>7, <1>8, <1>9, <1>10, <1>11, <1>12
    DEF Proceed, Outside, Reply

\* ... and each step keeps it,
LEMMA StepStages == StageInv /\ [Next]_vars => StageInv'
<1> SUFFICES ASSUME StageInv, [Next]_vars PROVE StageInv'
    OBVIOUS
<1>1. CASE UNCHANGED vars
    BY <1>1 DEF StageInv, StateType, Stage, Logged, vars, logVars, counters, bootVars
<1>2. CASE Restart
    <2>1. Logged' = Logged
        BY <1>2 DEF Restart, logVars, Logged
    <2>2. ASSUME NEW r \in Request
          PROVE  /\ handler'[r] \in HandlerRecord
                 /\ handler'[r].pc \in {"idle", "ended", "refused", "cut off"}
                 /\ handler'[r].pc \in {"idle", "refused"} => handler'[r] = handler[r]
        <3>1. handler[r] \in HandlerRecord
            BY DEF StageInv, StateType
        <3>2. CASE handler[r].pc \in {"idle", "ended", "refused"}
            <4>1. handler'[r] = handler[r]
                BY <1>2, <3>2 DEF Restart
            <4> QED
                BY <3>1, <3>2, <4>1
        <3>3. CASE handler[r].pc \notin {"idle", "ended", "refused"}
            <4>1. handler'[r] = [handler[r] EXCEPT !.pc = "cut off"]
                BY <1>2, <3>3 DEF Restart
            <4> QED
                BY <3>1, <4>1 DEF HandlerRecord, Pc
        <3> QED
            BY <3>2, <3>3
    <2>3. StateType'
        BY <1>2, <2>2, LoggedInRequest DEF Restart, logVars, StageInv, StateType
    <2>4. \A r \in Request : Stage(r)'
        BY <1>2, <2>1, <2>2 DEF Restart, StageInv, Stage
    <2> QED
        BY <1>2, <2>1, <2>3, <2>4 DEF Restart, StageInv
<1>3. ASSUME NEW r \in Request, Proceed(r) \/ Outside(r)
      PROVE  StageInv'
    <2>1. \A s \in Request \ {r} : handler'[s] = handler[s] /\ client'[s] = client[s]
        BY <1>3, OthersStay DEF StageInv
    <2>2. StateType'
        BY <1>3, StepTypes
    <2>3. CASE Log(r)
        <3>1. Logged' = Logged \cup {r}
            BY <2>3, LogAdds
        <3>2. before' = before
            BY <2>3 DEF Log, bootVars
        <3>3. handler'[r] = [handler[r] EXCEPT !.pc = "counting"] /\ handler[r].pc = "logging"
            BY <2>3 DEF Log, GoTo, At, StageInv, StateType
        <3>4. handler[r] \in HandlerRecord /\ handler[r].reply \in Reply /\ r \notin Logged
            BY <3>3 DEF StageInv, StateType, Stage
        <3>5. handler'[r].pc = "counting" /\ handler'[r].reply \in Reply
            BY <3>3, <3>4 DEF HandlerRecord
        <3>6. r \notin before
            BY <3>4 DEF StageInv
        <3>7. Stage(r)'
            BY <3>1, <3>2, <3>5, <3>6 DEF Stage
        <3>8. \A s \in Request \ {r} : Stage(s)'
            BY <2>1, <3>1, <3>2 DEF StageInv, Stage
        <3> QED
            BY <2>2, <3>1, <3>2, <3>7, <3>8 DEF StageInv
    <2>4. CASE ~Log(r)
        <3>1. Logged' = Logged /\ before' = before
            BY <1>3, <2>4, BooksStay DEF Logged
        <3>2. Stage(r)'
            BY <1>3, <2>4, <3>1, StepKeepsStage
        <3>3. \A s \in Request \ {r} : Stage(s)'
            BY <2>1, <3>1 DEF StageInv, Stage
        <3> QED
            BY <2>2, <3>1, <3>2, <3>3 DEF StageInv
    <2> QED
        BY <2>3, <2>4
<1> QED
    BY <1>1, <1>2, <1>3 DEF Next

\* ... so that it always holds.
LEMMA StagesHold == Spec => []StageInv
BY InitStages, StepStages, PTL DEF Spec

-----------------------------------------------------------------------------
\* The handlers whose stream is open are some of finitely many.
LEMMA StreamsFinite == IsFiniteSet(OpenStreams)
<1>1. IsFiniteSet(Request) /\ OpenStreams \subseteq Request
    BY ProxyAssumption DEF OpenStreams
<1> QED
    BY <1>1, FS_Subset

\* All but three steps leave the gauge and the streams it counts alone.
LEMMA StreamsStay ==
    ASSUME StageInv, NEW r \in Request, Proceed(r) \/ Outside(r), ~OpenStream(r), ~Close(r)
    PROVE  active' = active /\ OpenStreams' = OpenStreams
<1>1. active' = active
    BY DEF Proceed, Outside, Response, BrokenOff, Log, Count, Answer, Capture,
           Refuse, Begin, Event, Done
<1>2. /\ handler'[r].open = handler[r].open
      /\ handler[r].open => /\ handler[r].pc \notin {"ended", "cut off"}
                            /\ handler'[r].pc \notin {"ended", "cut off"}
    <2> USE DEF StageInv, StateType, Stage, At, HandlerRecord
    <2>1. ASSUME NEW reply \in Reply, Response(r, reply) PROVE <1>2
        BY <2>1 DEF Response
    <2>2. CASE BrokenOff(r)
        BY <2>2 DEF BrokenOff
    <2>3. CASE Event(r)
        BY <2>3 DEF Event
    <2>4. CASE Done(r)
        BY <2>4 DEF Done
    <2>5. CASE Log(r)
        BY <2>5 DEF Log, GoTo
    <2>6. CASE Count(r)
        BY <2>6 DEF Count, GoTo
    <2>7. CASE Answer(r)
        BY <2>7 DEF Answer, GoTo
    <2>8. CASE Capture(r)
        BY <2>8 DEF Capture, GoTo
    <2>9. ASSUME NEW stream \in BOOLEAN, NEW project \in BOOLEAN, Begin(r, stream, project)
          PROVE  <1>2
        BY <2>9 DEF Begin, Idle
    <2>10. CASE Refuse(r)
        BY <2>10 DEF Refuse, GoTo
    <2> QED
        BY <2>1, <2>2, <2>3, <2>4, <2>5, <2>6, <2>7, <2>8, <2>9, <2>10 DEF Proceed, Outside, Reply
<1>3. \A s \in Request \ {r} : handler'[s] = handler[s]
    BY OthersStay DEF StageInv
<1> QED
    BY <1>1, <1>2, <1>3 DEF OpenStreams

\* The gauge follows the streams, step by step.
LEMMA StepGauge == StageInv /\ GaugeCountsStreams /\ [Next]_vars => GaugeCountsStreams'
<1> SUFFICES ASSUME StageInv, GaugeCountsStreams, [Next]_vars PROVE GaugeCountsStreams'
    OBVIOUS
<1>1. CASE UNCHANGED vars
    BY <1>1 DEF GaugeCountsStreams, OpenStreams, vars
<1>2. CASE Restart
    <2>1. ASSUME NEW r \in Request, handler'[r].open
          PROVE  handler'[r].pc \in {"ended", "cut off"}
        <3>1. CASE handler[r].pc \in {"idle", "ended", "refused"}
            BY <1>2, <2>1, <3>1 DEF Restart, StageInv, StateType, Stage
        <3>2. CASE handler[r].pc \notin {"idle", "ended", "refused"}
            <4>1. handler[r] \in HandlerRecord
                BY DEF StageInv, StateType
            <4>2. handler'[r] = [handler[r] EXCEPT !.pc = "cut off"]
                BY <1>2, <3>2 DEF Restart
            <4> QED
                BY <4>1, <4>2 DEF HandlerRecord
        <3> QED
            BY <3>1, <3>2
    <2>2. OpenStreams' = {} /\ active' = 0
        BY <1>2, <2>1 DEF Restart, OpenStreams
    <2> QED
        BY <2>2, FS_EmptySet DEF GaugeCountsStreams
<1>3. ASSUME NEW r \in Request, Proceed(r) \/ Outside(r)
      PROVE  GaugeCountsStreams'
    <2>1. \A s \in Request \ {r} : handler'[s] = handler[s]
        BY <1>3, OthersStay DEF StageInv
    <2>2. CASE OpenStream(r)
        <3>1. r \notin OpenStreams
            BY <2>2 DEF OpenStream, At, StageInv, Stage, OpenStreams
        <3>2. handler'[r].open /\ handler'[r].pc = "streaming"
            BY <2>2 DEF OpenStream, StageInv, StateType, HandlerRecord
        <3>3. OpenStreams' = OpenStreams \cup {r} /\ active' = active + 1
            BY <2>1, <2>2, <3>2 DEF OpenStream, OpenStreams
        <3> QED
            BY <3>1, <3>3, StreamsFinite, FS_AddElement DEF GaugeCountsStreams
    <2>3. CASE Close(r)
        <3>1. r \in OpenStreams
            BY <2>3 DEF Close, At, StageInv, Stage, OpenStreams
        <3>2. handler'[r].pc = "ended"
            BY <2>3 DEF Close, GoTo, StageInv, StateType, HandlerRecord
        <3>3. OpenStreams' = OpenStreams \ {r} /\ active' = active - 1
            BY <2>1, <2>3, <3>2 DEF Close, OpenStreams
        <3> QED
            BY <3>1, <3>3, StreamsFinite, FS_RemoveElement DEF GaugeCountsStreams
    <2>4. CASE ~OpenStream(r) /\ ~Close(r)
        BY <1>3, <2>4, StreamsStay DEF GaugeCountsStreams
    <2> QED
        BY <2>2, <2>3, <2>4
<1> QED
    BY <1>1, <1>2, <1>3 DEF Next

\* active_streams is never off: whichever way a stream ends, the gauge goes
\* down once, and it never goes down for a request that opened none.
THEOREM GaugeIsRight == Spec => []GaugeCountsStreams
<1>1. Init => GaugeCountsStreams
    <2> SUFFICES ASSUME Init PROVE GaugeCountsStreams
        OBVIOUS
    <2>1. OpenStreams = {} /\ active = 0
        BY DEF Init, Idle, OpenStreams
    <2> QED
        BY <2>1, FS_EmptySet DEF GaugeCountsStreams
<1> QED
    BY <1>1, StepGauge, StagesHold, PTL DEF Spec

-----------------------------------------------------------------------------
\* What is logged stays logged.
LEMMA LoggedGrows ==
    ASSUME StageInv, [Next]_vars
    PROVE  Logged \subseteq Logged'
<1>1. CASE UNCHANGED vars \/ Restart
    BY <1>1 DEF vars, Restart, logVars, Logged
<1>2. ASSUME NEW r \in Request, Proceed(r) \/ Outside(r)
      PROVE  Logged \subseteq Logged'
    <2>1. CASE Log(r)
        BY <2>1, LogAdds
    <2>2. CASE ~Log(r)
        BY <1>2, <2>2, BooksStay DEF Logged
    <2> QED
        BY <2>1, <2>2
<1> QED
    BY <1>1, <1>2 DEF Next

\* A client with an answer in one piece, or an error, is in the log, unless it
\* was refused.
AnswerLogged(r) ==
    client[r].status # "none" /\ ~handler[r].open => (r \in Logged <=> ~At(r, "refused"))

\* A handler is not answered before it is logged, streams apart ...
LEMMA StepAnswers ==
    ASSUME StageInv, NEW r \in Request, Proceed(r) \/ Outside(r), AnswerLogged(r),
           Logged \subseteq Logged'
    PROVE  AnswerLogged(r)'
<1> USE DEF StageInv, StateType, Stage, At, HandlerRecord, AnswerLogged
<1>0. ~Log(r) => Logged' = Logged
    BY BooksStay DEF Logged
<1>1. ASSUME NEW reply \in Reply, Response(r, reply) PROVE AnswerLogged(r)'
    BY <1>1 DEF Response
<1>2. CASE BrokenOff(r)
    BY <1>2, ZenonT(40) DEF BrokenOff
<1>3. CASE Log(r)
    BY <1>3, LogAdds DEF Log, GoTo
<1>4. CASE Count(r)
    BY <1>4 DEF Count, GoTo
<1>5. CASE Answer(r)
    BY <1>5 DEF Answer, GoTo
<1>6. CASE Capture(r)
    BY <1>6 DEF Capture, GoTo
<1>7. CASE Close(r)
    BY <1>7 DEF Close, GoTo
<1>8. ASSUME NEW stream \in BOOLEAN, NEW project \in BOOLEAN, Begin(r, stream, project)
      PROVE  AnswerLogged(r)'
    BY <1>8 DEF Begin, Idle
<1>9. CASE OpenStream(r)
    BY <1>9 DEF OpenStream
<1>10. CASE Event(r)
    BY <1>10 DEF Event
<1>11. CASE Done(r)
    BY <1>11 DEF Done
<1>12. CASE Refuse(r)
    <2>1. handler[r].pc = "idle" /\ handler'[r] = [handler[r] EXCEPT !.pc = "refused"]
        BY <1>12 DEF Refuse, GoTo
    <2>2. handler'[r].pc = "refused" /\ r \notin Logged
        BY <2>1
    <2>3. Logged' = Logged
        BY <1>12 DEF Refuse, logVars, Logged
    <2> QED
        BY <2>2, <2>3
<1> QED
    BY <1>1, <1>2, <1>3, <1>4, <1>5, <1>6, <1>7, <1>8, <1>9, <1>10, <1>11, <1>12
    DEF Proceed, Outside, Reply

\* ... and its capture is not submitted before.
LEMMA StepCaptures ==
    ASSUME StageInv, NEW r \in Request, Proceed(r) \/ Outside(r),
           Logged \subseteq Logged',
           \A i \in 1 .. Len(captured) : captured[i].request \in Logged
    PROVE  \A i \in 1 .. Len(captured') : captured'[i].request \in Logged'
<1>1. CASE captured' = captured
    BY <1>1
<1>2. CASE Capture(r) /\ captured' = Append(captured, RecordOf(r))
    <2>1. RecordOf(r).request = r /\ r \in Logged
        BY <1>2 DEF Capture, At, StageInv, Stage, RecordOf
    <2>2. captured \in Seq(Record)
        BY DEF StageInv, StateType
    <2>3. /\ Len(captured') = Len(captured) + 1
          /\ captured'[Len(captured) + 1] = RecordOf(r)
          /\ \A i \in 1 .. Len(captured) : captured'[i] = captured[i]
        BY <1>2, <2>2
    <2>4. Len(captured) \in Nat
        BY <2>2
    <2> QED
        BY <2>1, <2>3, <2>4
<1> QED
    BY <1>1, <1>2 DEF Proceed, Outside, Response, BrokenOff, Log, Count, Answer, Capture, Close,
                      Refuse, Begin, OpenStream, Event, Done

\* So each step keeps AnsweredIsLogged.
LEMMA StepAnswered == StageInv /\ AnsweredIsLogged /\ [Next]_vars => AnsweredIsLogged'
<1> SUFFICES ASSUME StageInv, AnsweredIsLogged, [Next]_vars PROVE AnsweredIsLogged'
    OBVIOUS
<1>0. Logged \subseteq Logged'
    BY LoggedGrows
<1>1. CASE UNCHANGED vars
    BY <1>1 DEF AnsweredIsLogged, Logged, At, vars
<1>2. CASE Restart
    <2>0. Logged' = Logged
        BY <1>2 DEF Restart, logVars, Logged
    <2>1. ASSUME NEW r \in Request
          PROVE  /\ handler'[r].open = handler[r].open
                 /\ handler'[r].pc = "refused" <=> handler[r].pc = "refused"
        <3>1. handler[r] \in HandlerRecord
            BY DEF StageInv, StateType
        <3>2. \/ handler'[r] = handler[r]
              \/ handler[r].pc # "refused" /\ handler'[r] = [handler[r] EXCEPT !.pc = "cut off"]
            BY <1>2 DEF Restart
        <3> QED
            BY <3>1, <3>2 DEF HandlerRecord
    <2> QED
        BY <1>2, <2>0, <2>1 DEF Restart, AnsweredIsLogged, At
<1>3. ASSUME NEW r \in Request, Proceed(r) \/ Outside(r)
      PROVE  AnsweredIsLogged'
    <2>1. \A s \in Request \ {r} : handler'[s] = handler[s] /\ client'[s] = client[s]
        BY <1>3, OthersStay DEF StageInv
    <2>2. AnswerLogged(r)'
        BY <1>0, <1>3, StepAnswers DEF AnsweredIsLogged, AnswerLogged
    <2>3. \A i \in 1 .. Len(captured') : captured'[i].request \in Logged'
        BY <1>0, <1>3, StepCaptures DEF AnsweredIsLogged
    <2>4. Logged' \ {r} = Logged \ {r}
        <3>1. CASE Log(r)
            BY <3>1, LogAdds
        <3>2. CASE ~Log(r)
            BY <1>3, <3>2, BooksStay DEF Logged
        <3> QED
            BY <3>1, <3>2
    <2> QED
        BY <2>1, <2>2, <2>3, <2>4 DEF AnsweredIsLogged, AnswerLogged, At
<1> QED
    BY <1>1, <1>2, <1>3 DEF Next

\* The log is written before the client is answered and before the capture is
\* submitted, so no crash can leave an answer or a capture without its row.
THEOREM LogComesFirst == Spec => []AnsweredIsLogged
<1>1. Init => AnsweredIsLogged
    BY DEF Init, AnsweredIsLogged, At
<1> QED
    BY <1>1, StepAnswered, StagesHold, PTL DEF Spec

-----------------------------------------------------------------------------
CountedErrors == {r \in Counted : IsError(handler[r].reply)}

\* What is counted is finite.
LEMMA CountedFinite == ASSUME StageInv PROVE IsFiniteSet(Counted) /\ IsFiniteSet(CountedErrors)
<1>1. IsFiniteSet(Request) /\ Counted \subseteq Request /\ CountedErrors \subseteq Request
    BY ProxyAssumption, LoggedInRequest DEF StageInv, Counted, CountedErrors
<1> QED
    BY <1>1, FS_Subset

\* A step that does not count leaves the counters and what they count alone:
\* a reply comes to be known before its request is logged, and what has just
\* been logged is not yet counted.
LEMMA BooksKept ==
    ASSUME StageInv, NEW r \in Request, Proceed(r) \/ Outside(r), ~Count(r)
    PROVE  /\ UNCHANGED <<total, errors>>
           /\ Counted' = Counted
           /\ CountedErrors' = CountedErrors
<1>1. UNCHANGED <<total, errors>>
    BY DEF Proceed, Outside, Response, BrokenOff, Log, Answer, Capture, Close,
           Refuse, Begin, OpenStream, Event, Done, counters
<1>2. \A s \in Request \ {r} : handler'[s] = handler[s]
    BY OthersStay DEF StageInv
<1>3. Logged \subseteq Request
    BY LoggedInRequest DEF StageInv
<1>4. CASE Log(r)
    <2>1. Logged' = Logged \cup {r} /\ before' = before
        BY <1>4, LogAdds DEF Log, bootVars
    <2>2. handler[r].pc = "logging" /\ handler'[r].pc = "counting"
        BY <1>4 DEF Log, At, GoTo, StageInv, StateType, HandlerRecord
    <2>3. r \notin Logged
        BY <2>2 DEF StageInv, Stage
    <2>4. Counted' = Counted /\ r \notin Counted
        BY <1>2, <1>3, <2>1, <2>2, <2>3 DEF Counted, At
    <2>5. CountedErrors' = CountedErrors
        BY <1>2, <1>3, <2>4 DEF CountedErrors, Counted
    <2> QED
        BY <1>1, <2>4, <2>5
<1>5. CASE ~Log(r)
    <2>1. Logged' = Logged /\ before' = before
        BY <1>5, BooksStay DEF Logged
    <2>2. /\ handler[r].pc # "counting" /\ handler'[r].pc # "counting"
          /\ r \in Logged => handler'[r].reply = handler[r].reply
        <3> USE DEF StageInv, StateType, Stage, At, HandlerRecord
        <3>1. ASSUME NEW reply \in Reply, Response(r, reply) PROVE <2>2
            BY <3>1 DEF Response
        <3>2. CASE BrokenOff(r)
            BY <3>2 DEF BrokenOff
        <3>3. CASE Answer(r)
            BY <3>3 DEF Answer, GoTo
        <3>4. CASE Capture(r)
            BY <3>4 DEF Capture, GoTo
        <3>5. CASE Close(r)
            BY <3>5 DEF Close, GoTo
        <3>6. ASSUME NEW stream \in BOOLEAN, NEW project \in BOOLEAN, Begin(r, stream, project)
              PROVE  <2>2
            BY <3>6 DEF Begin, Idle
        <3>7. CASE OpenStream(r)
            BY <3>7 DEF OpenStream
        <3>8. CASE Event(r)
            BY <3>8 DEF Event
        <3>9. CASE Done(r)
            BY <3>9 DEF Done
        <3>10. CASE Refuse(r)
            BY <3>10 DEF Refuse, GoTo
        <3> QED
            BY <1>5, <3>1, <3>2, <3>3, <3>4, <3>5, <3>6, <3>7, <3>8, <3>9, <3>10
            DEF Proceed, Outside, Reply
    <2>3. Counted' = Counted
        BY <1>2, <1>3, <2>1, <2>2 DEF Counted, At
    <2>4. CountedErrors' = CountedErrors
        BY <1>2, <1>3, <2>2, <2>3 DEF CountedErrors, Counted
    <2> QED
        BY <1>1, <2>3, <2>4
<1> QED
    BY <1>4, <1>5

\* The counters follow the books, step by step.
LEMMA StepBooks == StageInv /\ BooksAgree /\ [Next]_vars => BooksAgree'
<1> SUFFICES ASSUME StageInv, BooksAgree, [Next]_vars PROVE BooksAgree'
    OBVIOUS
<1>0. BooksAgree <=> total = Cardinality(Counted) /\ errors = Cardinality(CountedErrors)
    BY DEF BooksAgree, CountedErrors
<1>00. BooksAgree' <=> total' = Cardinality(Counted') /\ errors' = Cardinality(CountedErrors')
    BY DEF BooksAgree, CountedErrors
<1>1. CASE UNCHANGED vars
    <2>1. Counted' = Counted
        BY <1>1 DEF Counted, Logged, At, vars
    <2>2. CountedErrors' = CountedErrors
        BY <1>1, <2>1 DEF CountedErrors, vars
    <2> QED
        BY <1>0, <1>00, <1>1, <2>1, <2>2 DEF vars
<1>2. CASE Restart
    <2>1. Logged' = Logged /\ before' = Logged /\ total' = 0 /\ errors' = 0
        BY <1>2 DEF Restart, logVars, Logged
    <2>2. Counted' = {} /\ CountedErrors' = {}
        BY <2>1 DEF Counted, CountedErrors
    <2> QED
        BY <1>00, <2>1, <2>2, FS_EmptySet
<1>3. ASSUME NEW r \in Request, Proceed(r) \/ Outside(r)
      PROVE  BooksAgree'
    <2>1. CASE Count(r)
        <3>1. \A s \in Request \ {r} : handler'[s] = handler[s]
            BY <1>3, OthersStay DEF StageInv
        <3>2. Logged \subseteq Request /\ Logged' = Logged /\ before' = before
            BY <2>1, LoggedInRequest DEF Count, logVars, bootVars, Logged, StageInv
        <3>3. /\ handler[r].pc = "counting" /\ handler'[r].pc # "counting"
              /\ handler'[r].reply = handler[r].reply
            BY <2>1 DEF Count, At, GoTo, StageInv, StateType, HandlerRecord
        <3>4. r \in Logged \ before
            BY <3>3 DEF StageInv, Stage
        <3>5. Counted' = Counted \cup {r} /\ r \notin Counted
            BY <3>1, <3>2, <3>3, <3>4 DEF Counted, At
        <3>6. CountedErrors' = IF IsError(handler[r].reply) THEN CountedErrors \cup {r}
                               ELSE CountedErrors
            BY <3>1, <3>2, <3>3, <3>5 DEF CountedErrors, Counted
        <3>7. r \notin CountedErrors
            BY <3>5 DEF CountedErrors
        <3>8. /\ total' = total + 1
              /\ errors' = IF IsError(handler[r].reply) THEN errors + 1 ELSE errors
            BY <2>1 DEF Count
        <3>9. total' = Cardinality(Counted')
            BY <1>0, <3>5, <3>8, CountedFinite, FS_AddElement
        <3>10. errors' = Cardinality(CountedErrors')
            BY <1>0, <3>6, <3>7, <3>8, CountedFinite, FS_AddElement
        <3> QED
            BY <1>00, <3>9, <3>10
    <2>2. CASE ~Count(r)
        BY <1>0, <1>00, <1>3, <2>2, BooksKept
    <2> QED
        BY <2>1, <2>2
<1> QED
    BY <1>1, <1>2, <1>3 DEF Next

\* The counters of a process count the rows it wrote, and those it lost, once
\* each, and as errors those that were answered so.
THEOREM CountersMatchLog == Spec => []BooksAgree
<1>1. Init => BooksAgree
    <2> SUFFICES ASSUME Init PROVE BooksAgree
        OBVIOUS
    <2>1. Logged = {} /\ total = 0 /\ errors = 0
        BY DEF Init, Logged
    <2>2. Counted = {}
        BY <2>1 DEF Counted
    <2> QED
        BY <2>1, <2>2, FS_EmptySet DEF BooksAgree
<1> QED
    BY <1>1, StepBooks, StagesHold, PTL DEF Spec

-----------------------------------------------------------------------------
ClientRecord ==
    [status : {"none", "ok", "error"}, events : 0 .. MaxEvents, done : BOOLEAN]

\* What the clients were given, and the number of starts.
OutsideType ==
    /\ client \in [Request -> ClientRecord]
    /\ boots \in 1 .. MaxBoots

\* A handler writes a header, an event or [DONE] to its client ...
LEMMA StepClients ==
    ASSUME OutsideType, NEW r \in Request, Proceed(r) \/ Outside(r)
    PROVE  client' \in [Request -> ClientRecord]
<1>0. client[r] \in ClientRecord
    BY DEF OutsideType
<1>1. CASE client' = client
    BY <1>1 DEF OutsideType
<1>2. ASSUME NEW status \in {"ok", "error"}, client' = [client EXCEPT ![r].status = status]
      PROVE  client' \in [Request -> ClientRecord]
    <2>1. [client[r] EXCEPT !.status = status] \in ClientRecord
        BY <1>0 DEF ClientRecord
    <2> QED
        BY <1>2, <2>1 DEF OutsideType
<1>3. CASE Event(r)
    <2>1. client[r].events + 1 \in 0 .. MaxEvents
        BY <1>0, <1>3, ProxyAssumption DEF Event, ClientRecord
    <2>2. [client[r] EXCEPT !.events = client[r].events + 1] \in ClientRecord
        BY <1>0, <2>1 DEF ClientRecord
    <2>3. client' = [client EXCEPT ![r] = [client[r] EXCEPT !.events = client[r].events + 1]]
        BY <1>3 DEF Event
    <2> QED
        BY <2>2, <2>3 DEF OutsideType
<1>4. CASE Done(r)
    <2>1. [client[r] EXCEPT !.done = TRUE] \in ClientRecord
        BY <1>0 DEF ClientRecord
    <2> QED
        BY <1>4, <2>1 DEF Done, OutsideType
<1>5. CASE Answer(r)
    <2>1. PICK status \in {"ok", "error"} : client' = [client EXCEPT ![r].status = status]
        BY <1>5 DEF Answer
    <2> QED
        BY <1>2, <2>1
<1>6. CASE Refuse(r) \/ OpenStream(r)
    BY <1>2, <1>6 DEF Refuse, OpenStream
<1> QED
    BY <1>1, <1>3, <1>4, <1>5, <1>6
    DEF Proceed, Outside, Response, BrokenOff, Log, Count, Capture, Close, Begin

\* ... and only a start counts as one.
LEMMA StepOutside == OutsideType /\ [Next]_vars => OutsideType'
<1> SUFFICES ASSUME OutsideType, [Next]_vars PROVE OutsideType'
    OBVIOUS
<1>1. CASE UNCHANGED vars
    BY <1>1 DEF OutsideType, vars
<1>2. CASE Restart
    <2>1. boots < MaxBoots /\ boots' = boots + 1 /\ client' = client
        BY <1>2 DEF Restart
    <2> QED
        BY <2>1, ProxyAssumption DEF OutsideType
<1>3. ASSUME NEW r \in Request, Proceed(r) \/ Outside(r)
      PROVE  OutsideType'
    <2>1. boots' = boots
        BY <1>3 DEF Proceed, Outside, Response, BrokenOff, Log, Count, Answer, Capture, Close,
                    Refuse, Begin, OpenStream, Event, Done, bootVars
    <2> QED
        BY <1>3, <2>1, StepClients DEF OutsideType
<1> QED
    BY <1>1, <1>2, <1>3 DEF Next

\* The counters and the gauge are numbers, never below zero, because of what
\* they count; the rest of the state keeps its type step by step.
THEOREM RequestTypeCorrect == Spec => []TypeOK
<1>1. Init => OutsideType
    BY ProxyAssumption DEF Init, OutsideType, ClientRecord
<1>2. StageInv /\ OutsideType /\ BooksAgree /\ GaugeCountsStreams => TypeOK
    <2> SUFFICES ASSUME StageInv, OutsideType, BooksAgree, GaugeCountsStreams PROVE TypeOK
        OBVIOUS
    <2>1. total \in Nat /\ errors \in Nat
        BY CountedFinite, FS_CardinalityType DEF BooksAgree, CountedErrors
    <2>2. active \in Nat
        BY StreamsFinite, FS_CardinalityType DEF GaugeCountsStreams
    <2> QED
        BY <2>1, <2>2 DEF StageInv, StateType, OutsideType, TypeOK, HandlerRecord, ClientRecord
<1> QED
    BY <1>1, <1>2, StepOutside, StagesHold, CountersMatchLog, GaugeIsRight, PTL DEF Spec

-----------------------------------------------------------------------------
\* How far a handler has come says what its client has of a stream.
Told(r) ==
    /\ handler[r].pc \in {"idle", "calling", "streaming"} => handler[r].reply = "none"
    /\ handler[r].pc = "streaming" => client[r].status = "ok"
    /\ client[r].done <=> handler[r].reply = "completed"
    /\ handler[r].reply \in {"completed", "broken off"} =>
          handler[r].open /\ client[r].status = "ok"

\* Records say what is known of their requests, once each.
Faithful(records) ==
    /\ \A i \in 1 .. Len(records) :
         /\ records[i].request \in Request
         /\ records[i] = RecordOf(records[i].request)
    /\ \A i, j \in 1 .. Len(records) : records[i].request = records[j].request => i = j

\* A capture is submitted near the end of its handler.
CapturesDone ==
    \A i \in 1 .. Len(captured) :
        handler[captured[i].request].pc \in {"closing", "ended", "cut off"}

TruthInv ==
    /\ \A r \in Request : Told(r)
    /\ Faithful(rows)
    /\ Faithful(captured)
    /\ CapturesDone

\* What the steps of a handler depend on.
TruthContext == StageInv /\ OutsideType /\ AnsweredIsLogged /\ TruthInv

\* Each step of a handler tells its client what it has found out itself.
LEMMA StepTold ==
    ASSUME TruthContext, NEW r \in Request, Proceed(r) \/ Outside(r)
    PROVE  Told(r)'
<1> USE DEF At, HandlerRecord, ClientRecord
<1>0. /\ handler \in [Request -> HandlerRecord] /\ handler[r] \in HandlerRecord
      /\ client \in [Request -> ClientRecord] /\ client[r] \in ClientRecord
      /\ Stage(r) /\ Told(r)
    BY DEF TruthContext, StageInv, StateType, OutsideType, TruthInv
<1>1. ASSUME NEW reply \in {"failed", "error", "whole"}, Response(r, reply)
      PROVE  Told(r)'
    <2>1. /\ handler[r].pc = "calling" /\ client' = client
          /\ handler'[r] = [[handler[r] EXCEPT !.reply = reply] EXCEPT !.pc = "logging"]
        BY <1>0, <1>1 DEF Response
    <2> QED
        BY <1>0, <2>1 DEF Told
<1>2. CASE BrokenOff(r)
    <2>1. /\ handler[r].pc = "streaming" /\ client' = client
          /\ handler'[r] = [[handler[r] EXCEPT !.reply = "broken off"] EXCEPT !.pc = "logging"]
        BY <1>0, <1>2 DEF BrokenOff
    <2> QED
        BY <1>0, <2>1 DEF Told, Stage
<1>3. CASE Log(r) \/ Count(r) \/ Capture(r) \/ Close(r)
    <2>1. PICK pc \in {"counting", "capturing", "answering", "closing", "ended"} :
                /\ client' = client
                /\ handler'[r] = [handler[r] EXCEPT !.pc = pc]
        BY <1>0, <1>3 DEF Log, Count, Capture, Close, GoTo
    <2> QED
        BY <1>0, <2>1 DEF Told
<1>4. CASE Answer(r)
    <2>1. /\ handler[r].pc = "answering"
          /\ handler'[r] \in {[handler[r] EXCEPT !.pc = "ended"], [handler[r] EXCEPT !.pc = "capturing"]}
          /\ client'[r].done = client[r].done
        BY <1>0, <1>4 DEF Answer, GoTo
    <2>2. handler[r].reply \notin {"completed", "broken off"}
        BY <1>0, <2>1 DEF Told, Stage
    <2> QED
        BY <1>0, <2>1, <2>2 DEF Told
<1>5. ASSUME NEW stream \in BOOLEAN, NEW project \in BOOLEAN, Begin(r, stream, project)
      PROVE  Told(r)'
    <2>1. /\ handler[r].pc = "idle" /\ client' = client
          /\ handler'[r].pc = "calling" /\ handler'[r].reply = "none"
        BY <1>0, <1>5 DEF Begin, Idle
    <2> QED
        BY <1>0, <2>1 DEF Told
<1>6. CASE Refuse(r)
    <2>1. /\ handler[r].pc = "idle" /\ client'[r].done = client[r].done
          /\ handler'[r] = [handler[r] EXCEPT !.pc = "refused"]
        BY <1>0, <1>6 DEF Refuse, GoTo
    <2> QED
        BY <1>0, <2>1 DEF Told
<1>7. CASE OpenStream(r)
    <2>1. /\ handler[r].pc = "calling" /\ client'[r].done = client[r].done /\ client'[r].status = "ok"
          /\ handler'[r] = [[handler[r] EXCEPT !.pc = "streaming"] EXCEPT !.open = TRUE]
        BY <1>0, <1>7 DEF OpenStream
    <2> QED
        BY <1>0, <2>1 DEF Told
<1>8. CASE Event(r)
    <2>1. handler' = handler /\ client'[r].done = client[r].done /\ client'[r].status = client[r].status
        BY <1>0, <1>8 DEF Event
    <2> QED
        BY <1>0, <2>1 DEF Told
<1>9. CASE Done(r)
    <2>1. /\ handler[r].pc = "streaming" /\ client'[r].done /\ client'[r].status = client[r].status
          /\ handler'[r] = [[handler[r] EXCEPT !.reply = "completed"] EXCEPT !.pc = "logging"]
        BY <1>0, <1>9 DEF Done
    <2> QED
        BY <1>0, <2>1 DEF Told, Stage
<1> QED
    BY <1>1, <1>2, <1>3, <1>4, <1>5, <1>6, <1>7, <1>8, <1>9 DEF Proceed, Outside

\* What is recorded of a request does not change any more.
LEMMA RecordStays ==
    ASSUME TruthContext, NEW r \in Request, Proceed(r) \/ Outside(r), NEW s \in Logged
    PROVE  /\ handler'[s].stream = handler[s].stream /\ handler'[s].reply = handler[s].reply
           /\ handler[s].pc \in {"closing", "ended", "cut off"} =>
                handler'[s].pc \in {"closing", "ended", "cut off"}
<1> USE DEF At, HandlerRecord
<1>0. /\ handler \in [Request -> HandlerRecord] /\ s \in Request /\ Stage(s) /\ StateType
    BY LoggedInRequest DEF TruthContext, StageInv, StateType
<1>1. CASE s # r
    BY <1>0, <1>1, OthersStay
<1>2. CASE s = r
    <2>1. handler[r].pc \notin {"idle", "calling", "streaming", "logging", "refused"}
        BY <1>0, <1>2 DEF Stage
    <2>2. PICK pc : /\ handler' = [handler EXCEPT ![r].pc = pc]
                    /\ handler[r].pc \in {"closing", "ended", "cut off"} => pc = "ended"
        BY <2>1 DEF Proceed, Outside, Response, BrokenOff, Log, Count, Answer, Capture, Close,
                    Refuse, Begin, OpenStream, Event, Done, GoTo
    <2> QED
        BY <1>0, <1>2, <2>2
<1> QED
    BY <1>1, <1>2

\* A record of a request that has none yet.
LEMMA FaithfulAppend ==
    ASSUME NEW records \in Seq(Record), Faithful(records), NEW r \in Request,
           \A i \in 1 .. Len(records) : records[i].request # r
    PROVE  Faithful(Append(records, RecordOf(r)))
<1> DEFINE more == Append(records, RecordOf(r))
<1>1. /\ Len(more) = Len(records) + 1 /\ Len(records) \in Nat
      /\ more[Len(records) + 1] = RecordOf(r)
      /\ \A i \in 1 .. Len(records) : more[i] = records[i]
    OBVIOUS
<1>2. RecordOf(r).request = r
    BY DEF RecordOf
<1> HIDE DEF more
<1>3. \A i \in 1 .. Len(more) : i \in 1 .. Len(records) \/ i = Len(records) + 1
    BY <1>1
<1>4. \A i \in 1 .. Len(more) :
         more[i].request \in Request /\ more[i] = RecordOf(more[i].request)
    BY <1>1, <1>2, <1>3 DEF Faithful
<1>5. \A i, j \in 1 .. Len(more) : more[i].request = more[j].request => i = j
    BY <1>1, <1>2, <1>3 DEF Faithful
<1>6. Faithful(more)
    BY <1>4, <1>5 DEF Faithful
<1> QED
    BY <1>6 DEF more

\* What is in the log and the captures belongs to requests that are logged.
LEMMA RecordsOfLogged ==
    ASSUME TruthContext
    PROVE  /\ \A i \in 1 .. Len(rows) : rows[i].request \in Logged
           /\ \A i \in 1 .. Len(captured) : captured[i].request \in Logged
BY DEF TruthContext, AnsweredIsLogged, Logged

\* A row is appended when its request has none,
LEMMA StepRows ==
    ASSUME TruthContext, NEW r \in Request, Proceed(r) \/ Outside(r)
    PROVE  Faithful(rows)'
<1>0. /\ rows \in Seq(Record) /\ Faithful(rows)
      /\ \A i \in 1 .. Len(rows) : rows[i].request \in Logged
    BY RecordsOfLogged DEF TruthContext, StageInv, StateType, TruthInv
<1>1. CASE rows' = rows
    <2>1. \A i \in 1 .. Len(rows) : LET q == rows[i].request IN
             handler'[q].stream = handler[q].stream /\ handler'[q].reply = handler[q].reply
        BY <1>0, RecordStays
    <2> QED
        BY <1>0, <1>1, <2>1 DEF Faithful, RecordOf
<1>2. CASE rows' = Append(rows, RecordOf(r)) /\ Log(r)
    <2>1. r \notin Logged
        BY <1>2 DEF Log, At, TruthContext, StageInv, Stage
    <2>2. /\ \A i \in 1 .. Len(rows') : /\ rows'[i].request \in Request
                                        /\ rows'[i] = RecordOf(rows'[i].request)
          /\ \A i, j \in 1 .. Len(rows') : rows'[i].request = rows'[j].request => i = j
        <3>1. \A i \in 1 .. Len(rows) : rows[i].request # r
            BY <1>0, <2>1
        <3>2. Faithful(Append(rows, RecordOf(r)))
            BY <1>0, <3>1, FaithfulAppend
        <3> QED
            BY <1>2, <3>2 DEF Faithful
    <2>3. \A s \in Request :
             handler'[s].stream = handler[s].stream /\ handler'[s].reply = handler[s].reply
        BY <1>2 DEF Log, GoTo, TruthContext, StageInv, StateType, HandlerRecord
    <2> QED
        BY <2>2, <2>3 DEF Faithful, RecordOf
<1> QED
    BY <1>1, <1>2 DEF Proceed, Outside, Response, BrokenOff, Log, Count, Answer, Capture, Close,
                      Refuse, Begin, OpenStream, Event, Done, logVars

\* ... and a capture when its handler has submitted none.
LEMMA StepCaptured ==
    ASSUME TruthContext, NEW r \in Request, Proceed(r) \/ Outside(r)
    PROVE  Faithful(captured)' /\ CapturesDone'
<1>0. /\ captured \in Seq(Record) /\ Faithful(captured) /\ CapturesDone
      /\ \A i \in 1 .. Len(captured) : captured[i].request \in Logged
    BY RecordsOfLogged DEF TruthContext, StageInv, StateType, TruthInv
<1>1. CASE captured' = captured
    <2>1. \A i \in 1 .. Len(captured) : LET q == captured[i].request IN
             /\ handler'[q].stream = handler[q].stream /\ handler'[q].reply = handler[q].reply
             /\ handler'[q].pc \in {"closing", "ended", "cut off"}
        BY <1>0, RecordStays DEF CapturesDone
    <2> QED
        BY <1>0, <1>1, <2>1 DEF Faithful, RecordOf, CapturesDone
<1>2. CASE captured' = Append(captured, RecordOf(r)) /\ Capture(r)
    <2>1. /\ handler[r].pc = "capturing"
          /\ handler'[r].pc \in {"closing", "ended"}
          /\ \A s \in Request : /\ handler'[s].stream = handler[s].stream
                                /\ handler'[s].reply = handler[s].reply
                                /\ s # r => handler'[s] = handler[s]
        BY <1>2 DEF Capture, At, GoTo, TruthContext, StageInv, StateType, HandlerRecord
    <2>2. \A i \in 1 .. Len(captured) : captured[i].request # r
        BY <1>0, <2>1 DEF CapturesDone
    <2>3. Faithful(Append(captured, RecordOf(r)))
        BY <1>0, <2>2, FaithfulAppend
    <2>4. Faithful(captured)'
        BY <1>2, <2>1, <2>3 DEF Faithful, RecordOf
    <2>5. CapturesDone'
        <3>1. /\ Len(captured') = Len(captured) + 1 /\ Len(captured) \in Nat
              /\ captured'[Len(captured) + 1] = RecordOf(r)
              /\ \A i \in 1 .. Len(captured) : captured'[i] = captured[i]
            BY <1>0, <1>2
        <3>2. \A i \in 1 .. Len(captured) : handler'[captured[i].request].pc \in {"closing", "ended", "cut off"}
            BY <1>0, <2>1, <2>2 DEF CapturesDone, Faithful
        <3>3. RecordOf(r).request = r
            BY DEF RecordOf
        <3>4. \A i \in 1 .. Len(captured') : i \in 1 .. Len(captured) \/ i = Len(captured) + 1
            BY <3>1
        <3>5. ASSUME NEW i \in 1 .. Len(captured')
              PROVE  handler'[captured'[i].request].pc \in {"closing", "ended", "cut off"}
            <4>1. CASE i \in 1 .. Len(captured)
                BY <3>1, <3>2, <4>1
            <4>2. CASE i = Len(captured) + 1
                BY <2>1, <3>1, <3>3, <4>2
            <4> QED
                BY <3>4, <4>1, <4>2
        <3> QED
            BY <3>5 DEF CapturesDone
    <2> QED
        BY <2>4, <2>5
<1> QED
    BY <1>1, <1>2 DEF Proceed, Outside, Response, BrokenOff, Log, Count, Answer, Capture, Close,
                      Refuse, Begin, OpenStream, Event, Done

\* A restart changes no record.
LEMMA RestartTruth == ASSUME TruthContext, Restart PROVE TruthInv'
<1>0. /\ handler \in [Request -> HandlerRecord]
      /\ Faithful(rows) /\ Faithful(captured) /\ CapturesDone
      /\ \A r \in Request : Told(r)
    BY DEF TruthContext, StageInv, StateType, TruthInv
<1>1. UNCHANGED <<client, rows, captured>>
    BY DEF Restart, logVars
<1>2. ASSUME NEW r \in Request
      PROVE  /\ handler'[r].stream = handler[r].stream /\ handler'[r].reply = handler[r].reply
             /\ handler'[r].open = handler[r].open
             /\ handler'[r].pc \in {handler[r].pc, "cut off"}
    <2>1. handler'[r] = handler[r] \/ handler'[r] = [handler[r] EXCEPT !.pc = "cut off"]
        BY DEF Restart
    <2> QED
        BY <1>0, <2>1 DEF HandlerRecord
<1>3. \A r \in Request : Told(r)'
    BY <1>0, <1>1, <1>2 DEF Told
<1>4. Faithful(rows)' /\ Faithful(captured)'
    <2>1. \A i \in 1 .. Len(rows) : LET q == rows[i].request IN
             handler'[q].stream = handler[q].stream /\ handler'[q].reply = handler[q].reply
        BY <1>0, <1>2 DEF Faithful
    <2>2. Faithful(rows)'
        BY <1>0, <1>1, <2>1 DEF Faithful, RecordOf
    <2>3. \A i \in 1 .. Len(captured) : LET q == captured[i].request IN
             handler'[q].stream = handler[q].stream /\ handler'[q].reply = handler[q].reply
        BY <1>0, <1>2 DEF Faithful
    <2>4. Faithful(captured)'
        BY <1>0, <1>1, <2>3 DEF Faithful, RecordOf
    <2> QED
        BY <2>2, <2>4
<1>5. CapturesDone'
    BY <1>0, <1>1, <1>2 DEF CapturesDone, Faithful
<1> QED
    BY <1>3, <1>4, <1>5 DEF TruthInv

\* So every step keeps the records true,
LEMMA StepTruth == TruthContext /\ [Next]_vars => TruthInv'
<1> SUFFICES ASSUME TruthContext, [Next]_vars PROVE TruthInv'
    OBVIOUS
<1>1. CASE UNCHANGED vars
    BY <1>1 DEF vars, TruthContext, TruthInv, Told, Faithful, RecordOf, CapturesDone
<1>2. CASE Restart
    BY <1>2, RestartTruth
<1>3. ASSUME NEW r \in Request, Proceed(r) \/ Outside(r)
      PROVE  TruthInv'
    <2>1. \A s \in Request \ {r} : handler'[s] = handler[s] /\ client'[s] = client[s]
        BY <1>3, OthersStay DEF TruthContext, StageInv
    <2>2. \A s \in Request : Told(s)'
        BY <1>3, <2>1, StepTold DEF TruthContext, TruthInv, Told
    <2> QED
        BY <1>3, <2>2, StepRows, StepCaptured DEF TruthInv
<1> QED
    BY <1>1, <1>2, <1>3 DEF Next

\* The log and the captures tell of each request what its client was told, once, and
\* the same: whatever breaks off, fails to be inserted or is restarted.
THEOREM RecordsAreTrue == Spec => []RecordsTellTheTruth
<1>1. Init => TruthInv /\ OutsideType
    <2> SUFFICES ASSUME Init PROVE TruthInv /\ OutsideType
        OBVIOUS
    <2>1. OutsideType
        BY ProxyAssumption DEF Init, OutsideType, ClientRecord
    <2>2. \A r \in Request : Told(r)
        BY DEF Init, Idle, Told
    <2>3. rows = <<>> /\ captured = <<>>
        BY DEF Init
    <2>4. Faithful(rows) /\ Faithful(captured) /\ CapturesDone
        BY <2>3 DEF Faithful, CapturesDone
    <2> QED
        BY <2>1, <2>2, <2>4 DEF TruthInv
<1>2. StageInv /\ OutsideType /\ AnsweredIsLogged /\ TruthInv /\ [Next]_vars => TruthInv'
    BY StepTruth DEF TruthContext
<1>3. TruthInv => RecordsTellTheTruth
    <2> SUFFICES ASSUME TruthInv PROVE RecordsTellTheTruth
        OBVIOUS
    <2>1. ASSUME NEW r \in Request
          PROVE  /\ RecordOf(r).reply = "completed" <=> client[r].done
                 /\ RecordOf(r).reply \in {"completed", "broken off"} => client[r].status = "ok"
        BY DEF TruthInv, Told, RecordOf
    <2> SUFFICES ASSUME NEW records \in {rows, captured}
                 PROVE  /\ \A i, j \in 1 .. Len(records) :
                             records[i].request = records[j].request => i = j
                        /\ \A i \in 1 .. Len(records) :
                             LET r == records[i].request IN
                             /\ records[i].reply = "completed" <=> client[r].done
                             /\ records[i].reply \in {"completed", "broken off"} =>
                                   client[r].status = "ok"
                             /\ \A j \in 1 .. Len(rows) : rows[j].request = r => rows[j] = records[i]
        BY DEF RecordsTellTheTruth
    <2>2. /\ \A i \in 1 .. Len(records) :
               records[i].request \in Request /\ records[i] = RecordOf(records[i].request)
          /\ \A i, j \in 1 .. Len(records) : records[i].request = records[j].request => i = j
        BY DEF TruthInv, Faithful
    <2>3. \A j \in 1 .. Len(rows) : rows[j] = RecordOf(rows[j].request)
        BY DEF TruthInv, Faithful
    <2> QED
        BY <2>1, <2>2, <2>3
<1>4. OutsideType /\ [Next]_vars => OutsideType'
    BY StepOutside
<1> QED
    BY <1>1, <1>2, <1>3, <1>4, StagesHold, LogComesFirst, PTL DEF Spec

(***************************************************************************)
(* SSEScanner, for any buffer and any stream.                              *)
(*                                                                         *)
(* The events of a stream are defined by where they begin, and their order *)
(* by how many begin before: the k-th is the one of rank k.  The invariant *)
(* says that carry is the stream from the last line begun to the last byte *)
(* read (CarryInv), and that the pending lines stand, one after the other, *)
(* for the parts of the stream from the first data line that has not come  *)
(* out up to there (PendingInv): a part has one data line, which it begins *)
(* with, or none.  So the next event is the first pending line that is one *)
(* (NextEvent), and with [DONE] or at the end there is none left           *)
(* (LastEvent).                                                            *)
(***************************************************************************)

(***************************************************************************)
(* The k-th of some positions.                                             *)
(***************************************************************************)

\* Cardinality is the same in the specification of the stream.
LEMMA StreamCardinality == \A S : Stream!Cardinality(S) = Cardinality(S)
  BY DEF Stream!Cardinality, Cardinality

\* The positions up to one of them.
UpTo(S, i) == {j \in S : j <= i}

\* There are more up to a later position.
LEMMA UpToGrows ==
  ASSUME NEW S \in SUBSET Nat, IsFiniteSet(S), NEW i \in S, NEW k \in S, i < k
  PROVE  Cardinality(UpTo(S, i)) + 1 <= Cardinality(UpTo(S, k))
  <1>1. UpTo(S, i) \in SUBSET S /\ UpTo(S, k) \in SUBSET S /\ k \notin UpTo(S, i)
    BY DEF UpTo
  <1>2. IsFiniteSet(UpTo(S, i)) /\ IsFiniteSet(UpTo(S, k))
    BY <1>1, FS_Subset
  <1>3. UpTo(S, i) \cup {k} \in SUBSET UpTo(S, k)
    <2>1. \A z \in S : z \in Nat
      OBVIOUS
    <2>2. \A z \in S : z <= i => z <= k
      BY <2>1
    <2>3. k <= k
      BY <2>1
    <2> QED
      BY <2>2, <2>3 DEF UpTo
  <1>4. Cardinality(UpTo(S, i) \cup {k}) = Cardinality(UpTo(S, i)) + 1
    BY <1>1, <1>2, FS_AddElement
  <1>5. Cardinality(UpTo(S, i) \cup {k}) <= Cardinality(UpTo(S, k))
    BY <1>2, <1>3, FS_Subset
  <1> QED
    BY <1>4, <1>5

\* The rank of a position is a number up to how many there are.
LEMMA RankType ==
  ASSUME NEW S \in SUBSET Nat, IsFiniteSet(S), NEW i \in S
  PROVE  Cardinality(UpTo(S, i)) \in 1 .. Cardinality(S)
  <1>1. UpTo(S, i) \in SUBSET S /\ {i} \in SUBSET UpTo(S, i)
    BY DEF UpTo
  <1>2. IsFiniteSet(UpTo(S, i)) /\ Cardinality(UpTo(S, i)) <= Cardinality(S)
    BY <1>1, FS_Subset
  <1>3. Cardinality({i}) = 1
    BY FS_Singleton
  <1>4. Cardinality({i}) <= Cardinality(UpTo(S, i))
    BY <1>1, <1>2, FS_Subset
  <1>5. Cardinality(UpTo(S, i)) \in Nat /\ Cardinality(S) \in Nat
    BY <1>2, FS_CardinalityType
  <1> QED
    BY <1>2, <1>3, <1>4, <1>5

\* Two positions do not have the same rank.
LEMMA RankIsUnique ==
  ASSUME NEW S \in SUBSET Nat, IsFiniteSet(S), NEW i \in S, NEW k \in S,
         Cardinality(UpTo(S, i)) = Cardinality(UpTo(S, k))
  PROVE  i = k
  <1>1. Cardinality(UpTo(S, i)) \in Nat
    <2>1. PICK n : n = Cardinality(UpTo(S, i))
      OBVIOUS
    <2>2. n \in 1 .. Cardinality(S) /\ Cardinality(S) \in Nat
      BY <2>1, RankType, FS_CardinalityType
    <2> QED
      BY <2>1, <2>2
  <1>2. ~(i < k)
    BY <1>1, UpToGrows
  <1>3. ~(k < i)
    BY <1>1, UpToGrows
  <1>4. i \in Nat /\ k \in Nat
    OBVIOUS
  <1> QED
    BY <1>2, <1>3, <1>4

\* Every rank is that of a position.
LEMMA RankExists ==
  ASSUME NEW S \in SUBSET Nat, IsFiniteSet(S), NEW k \in 1 .. Cardinality(S)
  PROVE  \E i \in S : Cardinality(UpTo(S, i)) = k
  <1> DEFINE n == Cardinality(S)
             rank == [i \in S |-> Cardinality(UpTo(S, i))]
  <1>1. n \in Nat
    BY FS_CardinalityType
  <1>2. \A i \in S : rank[i] \in 1 .. n
    BY RankType
  <1>3. \A i, j \in S : rank[i] = rank[j] => i = j
    BY RankIsUnique
  <1>4. rank \in Injection(S, 1 .. n)
    BY <1>2, <1>3 DEF Injection, IsInjective
  <1>5. IsFiniteSet(1 .. n) /\ Cardinality(1 .. n) = n
    <2>1. 1 \in Int /\ n \in Int /\ (IF 1 > n THEN 0 ELSE n - 1 + 1) = n
      BY <1>1
    <2> QED
      BY <2>1, FS_Interval
  <1>6. Cardinality(S) = Cardinality(1 .. n)
    BY <1>5
  <1> HIDE DEF rank
  <1>7. rank \in Surjection(S, 1 .. n)
    BY <1>4, <1>5, <1>6, FS_Injection
  <1>8. PICK i \in S : rank[i] = k
    BY <1>7 DEF Surjection
  <1> QED
    BY <1>8 DEF rank

\* The k-th position is the one of rank k.
LEMMA NthIs ==
  ASSUME NEW S \in SUBSET Nat, IsFiniteSet(S), NEW k \in 1 .. Cardinality(S)
  PROVE  Stream!Nth(S, k) \in S /\ Cardinality(UpTo(S, Stream!Nth(S, k))) = k
  <1>1. \E i \in S : Stream!Cardinality(UpTo(S, i)) = k
    BY RankExists, StreamCardinality
  <1>2. Stream!Nth(S, k) = CHOOSE i \in S : Stream!Cardinality(UpTo(S, i)) = k
    BY DEF Stream!Nth, UpTo
  <1>3. Stream!Nth(S, k) \in S /\ Stream!Cardinality(UpTo(S, Stream!Nth(S, k))) = k
    BY <1>1, <1>2
  <1> QED
    BY <1>3, StreamCardinality

\* A position is the one of its rank.
LEMMA NthOfRank ==
  ASSUME NEW S \in SUBSET Nat, IsFiniteSet(S), NEW i \in S
  PROVE  /\ Cardinality(UpTo(S, i)) \in 1 .. Cardinality(S)
         /\ Stream!Nth(S, Cardinality(UpTo(S, i))) = i
  <1>1. PICK k : k = Cardinality(UpTo(S, i))
    OBVIOUS
  <1>2. k \in 1 .. Cardinality(S)
    BY <1>1, RankType
  <1>3. Stream!Nth(S, k) \in S /\ Cardinality(UpTo(S, Stream!Nth(S, k))) = k
    BY <1>2, NthIs
  <1> QED
    BY <1>1, <1>2, <1>3, RankIsUnique

\* Higher ranks are later positions.
LEMMA NthRises ==
  ASSUME NEW S \in SUBSET Nat, IsFiniteSet(S),
         NEW k \in 1 .. Cardinality(S), NEW l \in 1 .. Cardinality(S), k < l
  PROVE  Stream!Nth(S, k) < Stream!Nth(S, l)
  <1>1. PICK i \in S, j \in S : i = Stream!Nth(S, k) /\ j = Stream!Nth(S, l)
    BY NthIs
  <1>2. Cardinality(UpTo(S, i)) = k /\ Cardinality(UpTo(S, j)) = l
    BY <1>1, NthIs
  <1>3. k \in Nat /\ l \in Nat /\ i \in Nat /\ j \in Nat
    BY FS_CardinalityType
  <1>4. i # j
    BY <1>2, <1>3
  <1>5. ~(j < i)
    BY <1>2, <1>3, UpToGrows
  <1> QED
    BY <1>1, <1>3, <1>4, <1>5

\* No position is between two neighbours, and the first is the least one.
LEMMA NthNext ==
  ASSUME NEW S \in SUBSET Nat, IsFiniteSet(S), NEW i \in S
  PROVE  /\ Cardinality(S) \in Nat
         /\ Stream!Nth(S, 1) <= i
         /\ \A k \in 1 .. Cardinality(S) : Stream!Nth(S, k) < i =>
              k + 1 \in 1 .. Cardinality(S) /\ Stream!Nth(S, k + 1) <= i
  <1>1. PICK n \in Nat : n = Cardinality(S)
    BY FS_CardinalityType
  <1>2. PICK r \in 1 .. n : r = Cardinality(UpTo(S, i)) /\ Stream!Nth(S, r) = i
    BY <1>1, NthOfRank
  <1>3. \A k \in 1 .. n : Stream!Nth(S, k) \in Nat
    BY <1>1, NthIs
  <1>4. Stream!Nth(S, 1) <= i
    <2>1. CASE r = 1
      BY <1>2, <1>3, <2>1
    <2>2. CASE r # 1
      <3>1. 1 \in 1 .. n /\ 1 < r
        BY <1>1, <2>2
      <3>2. Stream!Nth(S, 1) < i
        BY <1>1, <1>2, <3>1, NthRises
      <3> QED
        BY <1>3, <3>1, <3>2
    <2> QED
      BY <2>1, <2>2
  <1>5. ASSUME NEW k \in 1 .. n, Stream!Nth(S, k) < i
        PROVE  k + 1 \in 1 .. n /\ Stream!Nth(S, k + 1) <= i
    <2>1. ~(r <= k)
      <3>1. CASE r = k
        BY <1>2, <1>3, <1>5, <3>1
      <3>2. CASE r < k
        <4>1. i < Stream!Nth(S, k)
          BY <1>1, <1>2, <3>2, NthRises
        <4> QED
          BY <1>3, <1>5, <4>1
      <3> QED
        BY <1>1, <3>1, <3>2
    <2>2. k + 1 \in 1 .. n /\ k + 1 <= r
      BY <1>1, <2>1
    <2>3. CASE k + 1 = r
      BY <1>2, <1>3, <2>2, <2>3
    <2>4. CASE k + 1 < r
      <3>1. Stream!Nth(S, k + 1) < i
        BY <1>1, <1>2, <2>2, <2>4, NthRises
      <3> QED
        BY <1>3, <2>2, <3>1
    <2> QED
      BY <2>2, <2>3, <2>4
  <1> QED
    BY <1>1, <1>4, <1>5

(***************************************************************************)
(* Lines.                                                                  *)
(***************************************************************************)

Text == Seq(Stream!Byte)

\* What there is of a text from i to before e.
Part(s, i, e) == SubSeq(s, i, e - 1)

\* The line that begins at i ends before e.
EndsAt(s, i, e) ==
    /\ e \in Stream!Newlines(s) \cup {Len(s) + 1}
    /\ e >= i
    /\ \A j \in Stream!Newlines(s) : ~(i <= j /\ j < e)

\* Where newlines and lines are.
LEMMA StartsType ==
  ASSUME NEW s \in Text
  PROVE  /\ Len(s) \in Nat
         /\ Stream!Newlines(s) = {i \in 1 .. Len(s) : s[i] = "n"}
         /\ 1 \in Stream!Starts(s)
         /\ Stream!Starts(s) \in SUBSET (1 .. Len(s) + 1)
         /\ Stream!Starts(s) \in SUBSET Nat /\ IsFiniteSet(Stream!Starts(s))
  <1>1. PICK n \in Nat : n = Len(s) /\ DOMAIN s = 1 .. n
    BY DEF Text
  <1>2. Stream!Newlines(s) = {i \in 1 .. n : s[i] = "n"}
    BY <1>1 DEF Stream!Newlines
  <1>3. Stream!Starts(s) \in SUBSET (1 .. n + 1) /\ 1 \in Stream!Starts(s)
    BY <1>1, <1>2 DEF Stream!Starts
  <1>4. IsFiniteSet(1 .. n + 1)
    <2>1. 1 \in Int /\ n + 1 \in Int
      BY <1>1
    <2> QED
      BY <2>1, FS_Interval
  <1>5. IsFiniteSet(Stream!Starts(s))
    BY <1>3, <1>4, FS_Subset
  <1>6. Stream!Starts(s) \in SUBSET Nat
    BY <1>1, <1>3
  <1> QED
    BY <1>1, <1>2, <1>3, <1>5, <1>6

\* A line ends at one place.
LEMMA EndIsUnique ==
  ASSUME NEW s \in Text, NEW i \in Nat, NEW e, NEW f, EndsAt(s, i, e), EndsAt(s, i, f)
  PROVE  e = f
  <1>1. PICK n \in Nat : n = Len(s) /\ Stream!Newlines(s) = {j \in 1 .. n : s[j] = "n"}
    BY StartsType
  <1>2. e \in 1 .. n + 1 /\ f \in 1 .. n + 1 /\ e >= i /\ f >= i
    BY <1>1 DEF EndsAt
  <1>3. ~(e < f)
    <2> SUFFICES ASSUME e < f PROVE FALSE
      OBVIOUS
    <2>1. e \in Stream!Newlines(s)
      BY <1>1, <1>2 DEF EndsAt
    <2> QED
      BY <1>2, <2>1 DEF EndsAt
  <1>4. ~(f < e)
    <2> SUFFICES ASSUME f < e PROVE FALSE
      OBVIOUS
    <2>1. f \in Stream!Newlines(s)
      BY <1>1, <1>2 DEF EndsAt
    <2> QED
      BY <1>2, <2>1 DEF EndsAt
  <1> QED
    BY <1>2, <1>3, <1>4

\* A line goes up to its end.
LEMMA LineIs ==
  ASSUME NEW s \in Text, NEW i \in 1 .. Len(s) + 1
  PROVE  \E e \in 1 .. Len(s) + 1 :
            EndsAt(s, i, e) /\ Stream!LineAt(s, i) = Part(s, i, e)
  <1>1. PICK n \in Nat : n = Len(s) /\ Stream!Newlines(s) = {j \in 1 .. n : s[j] = "n"}
    BY StartsType
  <1>2. PICK ends : ends = {j \in Stream!Newlines(s) \cup {Len(s) + 1} : j >= i}
    OBVIOUS
  <1>3. Stream!LineAt(s, i) = Part(s, i, Stream!Nth(ends, 1))
    BY <1>2 DEF Stream!LineAt, Part
  <1>4. ends \in SUBSET (1 .. n + 1) /\ n + 1 \in ends /\ ends \in SUBSET Nat
    BY <1>1, <1>2
  <1>5. IsFiniteSet(ends)
    <2>1. 1 \in Int /\ n + 1 \in Int
      BY <1>1
    <2>2. IsFiniteSet(1 .. n + 1)
      BY <2>1, FS_Interval
    <2> QED
      BY <1>4, <2>2, FS_Subset
  <1>6. 1 \in 1 .. Cardinality(ends)
    <2>1. Cardinality(UpTo(ends, n + 1)) \in 1 .. Cardinality(ends)
      BY <1>4, <1>5, RankType
    <2>2. Cardinality(ends) \in Nat
      BY <1>5, FS_CardinalityType
    <2> QED
      BY <2>1, <2>2
  <1>7. PICK e : e = Stream!Nth(ends, 1)
    OBVIOUS
  <1>8. e \in ends /\ \A j \in ends : e <= j
    BY <1>4, <1>5, <1>6, <1>7, NthIs, NthNext
  <1>9. EndsAt(s, i, e)
    <2>1. e \in Stream!Newlines(s) \cup {Len(s) + 1} /\ e >= i
      BY <1>2, <1>8
    <2>2. \A j \in Stream!Newlines(s) : i <= j => j \in ends
      BY <1>1, <1>2
    <2>3. \A j \in Stream!Newlines(s) : ~(i <= j /\ j < e)
      BY <1>1, <1>4, <1>8, <2>2
    <2> QED
      BY <2>1, <2>3 DEF EndsAt
  <1> QED
    BY <1>1, <1>3, <1>4, <1>7, <1>8, <1>9

\* The line that ends before e.
LEMMA LineTo ==
  ASSUME NEW s \in Text, NEW i \in 1 .. Len(s) + 1, NEW e, EndsAt(s, i, e)
  PROVE  Stream!LineAt(s, i) = Part(s, i, e)
  <1>1. PICK f : EndsAt(s, i, f) /\ Stream!LineAt(s, i) = Part(s, i, f)
    BY LineIs
  <1>2. i \in Nat
    BY StartsType
  <1>3. e = f
    BY <1>1, <1>2, EndIsUnique
  <1> QED
    BY <1>1, <1>3

(***************************************************************************)
(* Chunks.                                                                 *)
(***************************************************************************)

\* chunk is what there is from b to e.
ChunkOf(chunk, s, b, e) ==
    /\ s \in Text /\ chunk \in Text
    /\ b \in 1 .. Len(s) + 1 /\ e \in 0 .. Len(s) /\ b <= e
    /\ Len(chunk) = e - b + 1
    /\ \A p \in 1 .. Len(chunk) : chunk[p] = s[b + p - 1]

\* A part of a text is a chunk of it.
LEMMA SubSeqIsChunk ==
  ASSUME NEW s \in Text, NEW b \in 1 .. Len(s) + 1, NEW e \in b .. Len(s)
  PROVE  ChunkOf(SubSeq(s, b, e), s, b, e)
  <1>1. PICK n \in Nat : n = Len(s) /\ s \in [1 .. n -> Stream!Byte]
    BY DEF Text
  <1>2. b \in 1 .. n + 1 /\ e \in b .. n
    BY <1>1
  <1>3. SubSeq(s, b, e) \in Seq(Stream!Byte) /\ Len(SubSeq(s, b, e)) = e - b + 1
    BY <1>1, <1>2 DEF Text
  <1>4. \A p \in 1 .. e - b + 1 : SubSeq(s, b, e)[p] = s[b + p - 1]
    BY <1>1, <1>2 DEF Text
  <1> QED
    BY <1>1, <1>2, <1>3, <1>4 DEF ChunkOf, Text

\* The newlines of a chunk are those of the text.
LEMMA ChunkNewlines ==
  ASSUME NEW chunk, NEW s, NEW b, NEW e, ChunkOf(chunk, s, b, e)
  PROVE  \A p \in 1 .. Len(chunk) :
           /\ b + p - 1 \in 1 .. Len(s)
           /\ p \in Stream!Newlines(chunk) <=> b + p - 1 \in Stream!Newlines(s)
  <1>1. PICK n \in Nat : n = Len(s) /\ Stream!Newlines(s) = {j \in 1 .. n : s[j] = "n"}
    BY StartsType DEF ChunkOf
  <1>2. Stream!Newlines(chunk) = {j \in 1 .. Len(chunk) : chunk[j] = "n"}
    BY StartsType DEF ChunkOf
  <1>3. PICK m : m = Len(chunk)
    OBVIOUS
  <1>4. m = e - b + 1 /\ b \in 1 .. n + 1 /\ e \in 0 .. n /\ b <= e
    BY <1>1, <1>3 DEF ChunkOf
  <1> SUFFICES ASSUME NEW p \in 1 .. m
               PROVE  /\ b + p - 1 \in 1 .. n
                      /\ p \in Stream!Newlines(chunk) <=> b + p - 1 \in Stream!Newlines(s)
    BY <1>1, <1>3
  <1>5. b + p - 1 \in 1 .. n
    BY <1>4
  <1>6. chunk[p] = s[b + p - 1]
    BY <1>3 DEF ChunkOf
  <1> QED
    BY <1>1, <1>2, <1>3, <1>5, <1>6

\* ... and so are its lines, if it begins with one.
LEMMA ChunkStarts ==
  ASSUME NEW chunk, NEW s, NEW b, NEW e, ChunkOf(chunk, s, b, e), b \in Stream!Starts(s)
  PROVE  /\ \A p \in Stream!Starts(chunk) : b + p - 1 \in Stream!Starts(s)
         /\ \A i \in Stream!Starts(s) : b <= i /\ i <= e + 1 => i - b + 1 \in Stream!Starts(chunk)
  <1>1. PICK n \in Nat : n = Len(s) /\ Stream!Newlines(s) = {j \in 1 .. n : s[j] = "n"}
    BY StartsType DEF ChunkOf
  <1>2. PICK m : m = Len(chunk)
    OBVIOUS
  <1>3. m = e - b + 1 /\ b \in 1 .. n + 1 /\ e \in 0 .. n /\ b <= e /\ m \in Nat
    BY <1>1, <1>2, StartsType DEF ChunkOf
  <1>4. Stream!Newlines(chunk) = {j \in 1 .. m : chunk[j] = "n"}
    BY <1>2, StartsType DEF ChunkOf
  <1>5. ASSUME NEW p \in Stream!Starts(chunk)
        PROVE  b + p - 1 \in Stream!Starts(s)
    <2>1. CASE p = 1
      BY <1>3, <2>1
    <2>2. ASSUME NEW j \in Stream!Newlines(chunk), p = j + 1
          PROVE  b + p - 1 \in Stream!Starts(s)
      <3>1. j \in 1 .. m
        BY <1>4
      <3>2. b + j - 1 \in Stream!Newlines(s)
        BY <1>2, <3>1, ChunkNewlines
      <3>3. b + p - 1 = (b + j - 1) + 1
        BY <1>3, <2>2, <3>1
      <3> QED
        BY <3>2, <3>3 DEF Stream!Starts
    <2> QED
      BY <2>1, <2>2 DEF Stream!Starts
  <1>6. ASSUME NEW i \in Stream!Starts(s), b <= i, i <= e + 1
        PROVE  i - b + 1 \in Stream!Starts(chunk)
    <2>1. i \in 1 .. n + 1
      BY <1>1, StartsType DEF ChunkOf
    <2>2. CASE i = b
      <3>1. i - b + 1 = 1
        BY <1>3, <2>2
      <3> QED
        BY <3>1 DEF Stream!Starts
    <2>3. CASE i # b
      <3>1. i # 1
        BY <1>3, <1>6, <2>1, <2>3
      <3>2. PICK j \in Stream!Newlines(s) : i = j + 1
        BY <3>1 DEF Stream!Starts
      <3>3. j \in 1 .. n
        BY <1>1
      <3>4. PICK p \in 1 .. m : b + p - 1 = j
        <4>1. j - b + 1 \in 1 .. m /\ b + (j - b + 1) - 1 = j
          BY <1>3, <1>6, <2>3, <3>2, <3>3
        <4> QED
          BY <4>1
      <3>5. p \in Stream!Newlines(chunk)
        BY <1>2, <3>2, <3>4, ChunkNewlines
      <3>6. i - b + 1 = p + 1
        BY <1>3, <3>2, <3>3, <3>4
      <3> QED
        BY <3>5, <3>6 DEF Stream!Starts
    <2> QED
      BY <2>2, <2>3
  <1> QED
    BY <1>5, <1>6

\* A part of a chunk is a part of the text.
LEMMA ChunkPart ==
  ASSUME NEW chunk, NEW s, NEW b, NEW e, ChunkOf(chunk, s, b, e),
         NEW p \in 1 .. Len(chunk) + 1, NEW q \in 1 .. Len(chunk) + 1
  PROVE  Part(chunk, p, q) = Part(s, b + p - 1, b + q - 1)
  <1>1. PICK n \in Nat : n = Len(s) /\ s \in [1 .. n -> Stream!Byte]
    BY DEF ChunkOf, Text
  <1>2. PICK m \in Nat : m = Len(chunk) /\ chunk \in [1 .. m -> Stream!Byte]
    BY DEF ChunkOf, Text
  <1>3. m = e - b + 1 /\ b \in 1 .. n + 1 /\ e \in 0 .. n /\ b <= e
    BY <1>1, <1>2 DEF ChunkOf
  <1>4. \A x \in 1 .. m : chunk[x] = s[b + x - 1]
    BY <1>2 DEF ChunkOf
  <1>5. p \in 1 .. m + 1 /\ q \in 1 .. m + 1
    BY <1>2
  <1>6. SubSeq(chunk, p, q - 1) = [x \in 1 .. q - p |-> chunk[p + x - 1]]
    <2>1. (q - 1) - p + 1 = q - p
      BY <1>5
    <2> QED
      BY <1>2, <1>5, <2>1
  <1>7. SubSeq(s, b + p - 1, b + q - 2) = [x \in 1 .. q - p |-> s[(b + p - 1) + x - 1]]
    <2>1. (b + q - 2) - (b + p - 1) + 1 = q - p
      BY <1>3, <1>5
    <2> QED
      BY <1>1, <1>3, <1>5, <2>1
  <1>8. \A x \in 1 .. q - p : chunk[p + x - 1] = s[(b + p - 1) + x - 1]
    <2> SUFFICES ASSUME NEW x \in 1 .. q - p
                 PROVE  chunk[p + x - 1] = s[(b + p - 1) + x - 1]
      OBVIOUS
    <2>1. p + x - 1 \in 1 .. m /\ b + (p + x - 1) - 1 = (b + p - 1) + x - 1
      BY <1>3, <1>5
    <2> QED
      BY <1>4, <2>1
  <1>9. SubSeq(chunk, p, q - 1) = SubSeq(s, b + p - 1, b + q - 2)
    BY <1>6, <1>7, <1>8
  <1>10. (b + q - 1) - 1 = b + q - 2
    BY <1>3, <1>5
  <1> QED
    BY <1>9, <1>10 DEF Part

\* A line of a chunk that does not end with the chunk, unless the text ends there
\* too, is a line of the text.
LEMMA ChunkLine ==
  ASSUME NEW chunk, NEW s, NEW b, NEW e, ChunkOf(chunk, s, b, e),
         NEW p \in 1 .. Len(chunk) + 1, NEW q, EndsAt(chunk, p, q),
         q \in Stream!Newlines(chunk) \/ e = Len(s)
  PROVE  Stream!LineAt(chunk, p) = Stream!LineAt(s, b + p - 1)
  <1>1. PICK n \in Nat : n = Len(s) /\ Stream!Newlines(s) = {j \in 1 .. n : s[j] = "n"}
    BY StartsType DEF ChunkOf
  <1>2. PICK m : m = Len(chunk)
    OBVIOUS
  <1>3. m = e - b + 1 /\ b \in 1 .. n + 1 /\ e \in 0 .. n /\ b <= e /\ m \in Nat
    BY <1>1, <1>2, StartsType DEF ChunkOf
  <1>4. Stream!Newlines(chunk) = {j \in 1 .. m : chunk[j] = "n"}
    BY <1>2, StartsType DEF ChunkOf
  <1>5. p \in 1 .. m + 1 /\ q \in 1 .. m + 1 /\ q >= p
        /\ (q \in Stream!Newlines(chunk) \/ q = m + 1)
    BY <1>2, <1>3, <1>4 DEF EndsAt
  <1>6. PICK i, f : i = b + p - 1 /\ f = b + q - 1
    OBVIOUS
  <1>7. i \in 1 .. n + 1 /\ f \in Nat /\ f >= i
    BY <1>3, <1>5, <1>6
  <1>8. f \in Stream!Newlines(s) \cup {n + 1}
    <2>1. CASE q \in Stream!Newlines(chunk)
      BY <1>2, <1>4, <1>6, <2>1, ChunkNewlines
    <2>2. CASE q = m + 1 /\ e = n
      BY <1>3, <1>6, <2>2
    <2> QED
      BY <1>1, <1>5, <2>1, <2>2
  <1>9. \A j \in Stream!Newlines(s) : ~(i <= j /\ j < f)
    <2> SUFFICES ASSUME NEW j \in Stream!Newlines(s), i <= j, j < f PROVE FALSE
      OBVIOUS
    <2>1. PICK x : x = j - b + 1
      OBVIOUS
    <2>2. j \in 1 .. n
      BY <1>1
    <2>3. x \in 1 .. m /\ b + x - 1 = j /\ p <= x /\ x < q
      BY <1>3, <1>5, <1>6, <2>1, <2>2
    <2>4. x \in Stream!Newlines(chunk)
      BY <1>2, <2>3, ChunkNewlines
    <2> QED
      BY <2>3, <2>4 DEF EndsAt
  <1>10. EndsAt(s, i, f)
    BY <1>1, <1>7, <1>8, <1>9 DEF EndsAt
  <1>11. Stream!LineAt(s, i) = Part(s, i, f)
    BY <1>1, <1>7, <1>10, LineTo DEF ChunkOf
  <1>12. Stream!LineAt(chunk, p) = Part(chunk, p, q)
    BY LineTo DEF ChunkOf
  <1>13. q \in 1 .. Len(chunk) + 1
    BY <1>2, <1>5
  <1>14. Part(chunk, p, q) = Part(s, b + p - 1, b + q - 1)
    BY <1>13, ChunkPart
  <1> QED
    BY <1>6, <1>11, <1>12, <1>14

\* The m lines of a text, which begin at c.
SplitAt(s, m, c) ==
    /\ m \in Nat \ {0}
    /\ c \in [1 .. m -> 1 .. Len(s) + 1]
    /\ \A k \in 1 .. m : c[k] \in Stream!Starts(s)
    /\ c[1] = 1
    /\ \A k \in 1 .. m : k < m => c[k] < c[k + 1]
    /\ \A k \in 1 .. m, i \in Stream!Starts(s) : k < m => i <= c[k] \/ c[k + 1] <= i
    /\ \A i \in Stream!Starts(s) : i <= c[m]
    /\ Stream!Split(s) = [k \in 1 .. m |-> Stream!LineAt(s, c[k])]

\* bytes.Split makes them.
LEMMA SplitIs ==
  ASSUME NEW s \in Text
  PROVE  \E m, c : SplitAt(s, m, c)
  <1>1. PICK S : S = Stream!Starts(s)
    OBVIOUS
  <1>2. S \in SUBSET Nat /\ IsFiniteSet(S) /\ 1 \in S /\ S \in SUBSET (1 .. Len(s) + 1)
    BY <1>1, StartsType
  <1>3. PICK m \in Nat : m = Cardinality(S)
    BY <1>2, FS_CardinalityType
  <1>4. PICK c : c = [k \in 1 .. m |-> Stream!Nth(S, k)]
    OBVIOUS
  <1>5. \A k \in 1 .. m : c[k] = Stream!Nth(S, k) /\ c[k] \in S
    BY <1>2, <1>3, <1>4, NthIs
  <1>6. m # 0
    <2>1. Cardinality(UpTo(S, 1)) \in 1 .. m
      BY <1>2, <1>3, RankType
    <2> QED
      BY <1>3, <2>1
  <1>7. c[1] = 1
    <2>1. Stream!Nth(S, 1) <= 1
      BY <1>2, NthNext
    <2>2. 1 \in 1 .. m
      BY <1>3, <1>6
    <2>3. c[1] = Stream!Nth(S, 1) /\ c[1] \in S
      BY <1>5, <2>2
    <2>4. c[1] \in 1 .. Len(s) + 1 /\ Len(s) \in Nat
      BY <1>2, <2>3, StartsType
    <2> QED
      BY <2>1, <2>3, <2>4
  <1>8. \A k \in 1 .. m : k < m => c[k] < c[k + 1]
    <2> SUFFICES ASSUME NEW k \in 1 .. m, k < m PROVE c[k] < c[k + 1]
      OBVIOUS
    <2>1. k + 1 \in 1 .. m /\ k < k + 1
      BY <1>3
    <2>2. Stream!Nth(S, k) < Stream!Nth(S, k + 1)
      BY <1>2, <1>3, <2>1, NthRises
    <2> QED
      BY <1>5, <2>1, <2>2
  <1>9. \A k \in 1 .. m, i \in S : c[k] < i => k + 1 \in 1 .. m /\ c[k + 1] <= i
    <2> SUFFICES ASSUME NEW k \in 1 .. m, NEW i \in S, c[k] < i
                 PROVE  k + 1 \in 1 .. m /\ c[k + 1] <= i
      OBVIOUS
    <2>1. Stream!Nth(S, k) < i
      BY <1>5
    <2>2. k + 1 \in 1 .. m /\ Stream!Nth(S, k + 1) <= i
      BY <1>2, <1>3, <2>1, NthNext
    <2> QED
      BY <1>5, <2>2
  <1>10. \A k \in 1 .. m, i \in S : i \in Nat /\ c[k] \in Nat
    BY <1>2, <1>5
  <1>11. \A k \in 1 .. m, i \in S : k < m => i <= c[k] \/ c[k + 1] <= i
    BY <1>9, <1>10
  <1>12. \A i \in S : i <= c[m]
    <2> SUFFICES ASSUME NEW i \in S PROVE i <= c[m]
      OBVIOUS
    <2>1. m \in 1 .. m /\ ~(m + 1 \in 1 .. m)
      BY <1>3, <1>6
    <2> QED
      BY <1>9, <1>10, <2>1
  <1>13. Stream!Split(s) = [k \in 1 .. m |-> Stream!LineAt(s, c[k])]
    <2>1. Stream!Split(s) = [k \in 1 .. m |-> Stream!LineAt(s, Stream!Nth(S, k))]
      BY <1>1, <1>3, StreamCardinality DEF Stream!Split
    <2> QED
      BY <1>5, <2>1
  <1>14. c \in [1 .. m -> 1 .. Len(s) + 1]
    BY <1>2, <1>4, <1>5
  <1>15. \A k \in 1 .. m : c[k] \in Stream!Starts(s)
    BY <1>1, <1>5
  <1>16. \A k \in 1 .. m, i \in Stream!Starts(s) : k < m => i <= c[k] \/ c[k + 1] <= i
    BY <1>1, <1>11
  <1>17. \A i \in Stream!Starts(s) : i <= c[m]
    BY <1>1, <1>12
  <1>18. SplitAt(s, m, c)
    BY <1>3, <1>6, <1>7, <1>8, <1>13, <1>14, <1>15, <1>16, <1>17 DEF SplitAt
  <1> QED
    BY <1>18

\* All lines but the last end with a newline, and the last with the text.
LEMMA SplitEnds ==
  ASSUME NEW s \in Text, NEW m, NEW c, SplitAt(s, m, c)
  PROVE  /\ \A k \in 1 .. m : k < m =>
              \E q \in Stream!Newlines(s) : EndsAt(s, c[k], q)
         /\ EndsAt(s, c[m], Len(s) + 1)
         /\ Len(s) # 0 => (c[m] = Len(s) + 1 <=> s[Len(s)] = "n")
  <1>1. PICK n \in Nat : n = Len(s) /\ Stream!Newlines(s) = {j \in 1 .. n : s[j] = "n"}
    BY StartsType
  <1>2. m \in Nat \ {0} /\ \A k \in 1 .. m : c[k] \in 1 .. n + 1 /\ c[k] \in Stream!Starts(s)
    BY <1>1 DEF SplitAt
  <1>3. ASSUME NEW k \in 1 .. m, k < m
        PROVE  \E q \in Stream!Newlines(s) : EndsAt(s, c[k], q)
    <2>1. k + 1 \in 1 .. m /\ c[k] < c[k + 1]
      BY <1>2, <1>3 DEF SplitAt
    <2>2. c[k + 1] \in Stream!Starts(s) /\ c[k + 1] \in 1 .. n + 1 /\ c[k] \in 1 .. n + 1
      BY <1>2, <2>1
    <2>3. c[k + 1] # 1
      BY <2>1, <2>2
    <2>4. PICK j \in Stream!Newlines(s) : c[k + 1] = j + 1
      BY <2>2, <2>3 DEF Stream!Starts
    <2>5. j \in 1 .. n /\ c[k] <= j
      BY <1>1, <2>1, <2>2, <2>4
    <2>6. PICK q \in 1 .. n + 1 : EndsAt(s, c[k], q)
      BY <1>1, <2>2, LineIs
    <2>7. ~(j < q)
      BY <2>5, <2>6 DEF EndsAt
    <2>8. q # n + 1
      BY <2>5, <2>6, <2>7
    <2>9. q \in Stream!Newlines(s)
      BY <1>1, <2>6, <2>8 DEF EndsAt
    <2> QED
      BY <2>6, <2>9
  <1>4. m \in 1 .. m /\ c[m] \in 1 .. n + 1
    BY <1>2
  <1>5. \A j \in Stream!Newlines(s) : j < c[m]
    <2> SUFFICES ASSUME NEW j \in Stream!Newlines(s) PROVE j < c[m]
      OBVIOUS
    <2>1. j + 1 \in Stream!Starts(s)
      BY DEF Stream!Starts
    <2>2. j + 1 <= c[m]
      BY <2>1 DEF SplitAt
    <2> QED
      BY <1>1, <1>4, <2>2
  <1>6. EndsAt(s, c[m], n + 1)
    <2>1. n + 1 >= c[m]
      BY <1>4
    <2>2. \A j \in Stream!Newlines(s) : ~(c[m] <= j /\ j < n + 1)
      BY <1>1, <1>4, <1>5
    <2> QED
      BY <1>1, <2>1, <2>2 DEF EndsAt
  <1>7. ASSUME n # 0
        PROVE  c[m] = n + 1 <=> s[n] = "n"
    <2>1. ASSUME s[n] = "n" PROVE c[m] = n + 1
      <3>1. n \in Stream!Newlines(s)
        BY <1>1, <1>7, <2>1
      <3>2. n < c[m]
        BY <1>5, <3>1
      <3> QED
        BY <1>4, <3>2
    <2>2. ASSUME c[m] = n + 1 PROVE s[n] = "n"
      <3>1. c[m] # 1 /\ c[m] \in Stream!Starts(s)
        BY <1>2, <1>4, <1>7, <2>2
      <3>2. PICK j \in Stream!Newlines(s) : c[m] = j + 1
        BY <3>1 DEF Stream!Starts
      <3>3. j = n
        BY <1>1, <2>2, <3>2
      <3> QED
        BY <1>1, <3>2, <3>3
    <2> QED
      BY <2>1, <2>2
  <1> QED
    BY <1>1, <1>3, <1>6, <1>7

(***************************************************************************)
(* The lines that are pending.                                             *)
(***************************************************************************)

\* Where the data lines of a text begin.
Data(s) == {i \in Stream!Starts(s) : Stream!IsData(Stream!LineAt(s, i))}

\* What a line that stands for the part of a text from i to before j says of it:
\* its only data line, if there is one.
Stands(line, s, i, j) ==
    /\ i <= j
    /\ Stream!IsData(line) => i < j /\ i \in Stream!Starts(s) /\ line = Stream!LineAt(s, i)
    /\ \A d \in Data(s) : i <= d /\ d < j => d = i /\ Stream!IsData(line)

\* Line k of some lines stands for the part of a text from at[k] to before at[k + 1].
Covers(at, lines, s) ==
    /\ at \in [1 .. Len(lines) + 1 -> Nat \ {0}]
    /\ \A k \in 1 .. Len(lines) : Stands(lines[k], s, at[k], at[k + 1])

\* The lines of a text are in order.
LEMMA DataType ==
  ASSUME NEW s \in Text
  PROVE  /\ Data(s) \in SUBSET (1 .. Len(s))
         /\ Data(s) \in SUBSET Nat /\ IsFiniteSet(Data(s))
  <1>1. PICK n \in Nat : n = Len(s) /\ Stream!Starts(s) \in SUBSET (1 .. n + 1)
    BY StartsType
  <1>2. ASSUME n + 1 \in Data(s) PROVE FALSE
    <2>1. PICK e \in 1 .. n + 1 :
            EndsAt(s, n + 1, e) /\ Stream!LineAt(s, n + 1) = Part(s, n + 1, e)
      <3>1. n + 1 \in 1 .. Len(s) + 1
        BY <1>1
      <3> QED
        BY <1>1, <3>1, LineIs
    <2>2. e = n + 1
      BY <1>1, <2>1 DEF EndsAt
    <2>3. Stream!LineAt(s, n + 1) = <<>>
      BY <1>1, <2>1, <2>2 DEF Text, Part
    <2> QED
      BY <1>2, <2>3 DEF Data, Stream!IsData
  <1>3. Data(s) \in SUBSET (1 .. n)
    BY <1>1, <1>2 DEF Data
  <1>4. IsFiniteSet(1 .. n)
    BY <1>1, FS_Interval
  <1> QED
    BY <1>1, <1>3, <1>4, FS_Subset

\* One more line is pending.
LEMMA CoversAppend ==
  ASSUME NEW s, NEW Line, NEW lines \in Seq(Line), NEW at, Covers(at, lines, s),
         NEW line \in Line, NEW j \in Nat \ {0}, Stands(line, s, at[Len(lines) + 1], j)
  PROVE  \E new : /\ Covers(new, Append(lines, line), s)
                  /\ new[1] = at[1] /\ new[Len(Append(lines, line)) + 1] = j
  <1>1. PICK n \in Nat : n = Len(lines)
    OBVIOUS
  <1>2. at \in [1 .. n + 1 -> Nat \ {0}] /\ \A k \in 1 .. n : Stands(lines[k], s, at[k], at[k + 1])
    BY <1>1 DEF Covers
  <1>3. PICK more : more = Append(lines, line)
    OBVIOUS
  <1>4. Len(more) = n + 1 /\ more[n + 1] = line /\ \A k \in 1 .. n : more[k] = lines[k]
    BY <1>1, <1>3
  <1>5. PICK new : new = [k \in 1 .. n + 2 |-> IF k = n + 2 THEN j ELSE at[k]]
    OBVIOUS
  <1>6. new \in [1 .. n + 2 -> Nat \ {0}] /\ new[n + 2] = j
        /\ \A k \in 1 .. n + 1 : new[k] = at[k]
    BY <1>1, <1>2, <1>5
  <1>7. \A k \in 1 .. n + 1 : Stands(more[k], s, new[k], new[k + 1])
    <2> SUFFICES ASSUME NEW k \in 1 .. n + 1
                 PROVE  Stands(more[k], s, new[k], new[k + 1])
      OBVIOUS
    <2>1. CASE k = n + 1
      <3>1. k + 1 = n + 2
        BY <2>1
      <3> QED
        BY <1>1, <1>4, <1>6, <2>1, <3>1
    <2>2. CASE k # n + 1
      <3>1. k \in 1 .. n /\ k + 1 \in 1 .. n + 1
        BY <2>2
      <3> QED
        BY <1>2, <1>4, <1>6, <3>1
    <2> QED
      BY <2>1, <2>2
  <1>8. n + 1 + 1 = n + 2 /\ 1 \in 1 .. n + 1
    BY <1>1
  <1>9. Covers(new, more, s)
    BY <1>4, <1>6, <1>7, <1>8 DEF Covers
  <1> QED
    BY <1>3, <1>4, <1>6, <1>8, <1>9

\* The first of them is taken away.
LEMMA CoversTail ==
  ASSUME NEW s, NEW Line, NEW lines \in Seq(Line), lines # <<>>, NEW at, Covers(at, lines, s)
  PROVE  /\ Stands(Head(lines), s, at[1], at[2])
         /\ at[1] \in Nat /\ at[2] \in Nat
         /\ \E new : /\ Covers(new, Tail(lines), s)
                     /\ new[1] = at[2]
                     /\ new[Len(Tail(lines)) + 1] = at[Len(lines) + 1]
  <1>1. PICK n \in Nat : n = Len(lines) /\ n # 0
    OBVIOUS
  <1>2. at \in [1 .. n + 1 -> Nat \ {0}] /\ \A k \in 1 .. n : Stands(lines[k], s, at[k], at[k + 1])
    BY <1>1 DEF Covers
  <1>3. PICK rest : rest = Tail(lines)
    OBVIOUS
  <1>4. Len(rest) = n - 1 /\ (\A k \in 1 .. n - 1 : rest[k] = lines[k + 1]) /\ Head(lines) = lines[1]
    BY <1>1, <1>3
  <1>5. PICK new : new = [k \in 1 .. n |-> at[k + 1]]
    OBVIOUS
  <1>6. new \in [1 .. n -> Nat \ {0}] /\ \A k \in 1 .. n : new[k] = at[k + 1]
    BY <1>2, <1>5
  <1>7. \A k \in 1 .. n - 1 : Stands(rest[k], s, new[k], new[k + 1])
    <2> SUFFICES ASSUME NEW k \in 1 .. n - 1
                 PROVE  Stands(rest[k], s, new[k], new[k + 1])
      OBVIOUS
    <2>1. k \in 1 .. n /\ k + 1 \in 1 .. n
      BY <1>1
    <2> QED
      BY <1>2, <1>4, <1>6, <2>1
  <1>8. n - 1 + 1 = n /\ 1 \in 1 .. n /\ n \in 1 .. n /\ 1 + 1 = 2 /\ 2 \in 1 .. n + 1 /\ 1 \in 1 .. n + 1
    BY <1>1
  <1>9. Covers(new, rest, s)
    BY <1>4, <1>6, <1>7, <1>8 DEF Covers
  <1>10. Stands(Head(lines), s, at[1], at[2])
    BY <1>2, <1>4, <1>8
  <1>11. at[1] \in Nat /\ at[2] \in Nat
    BY <1>2, <1>8
  <1>12. new[1] = at[2] /\ new[n] = at[n + 1]
    BY <1>6, <1>8
  <1> QED
    BY <1>1, <1>3, <1>4, <1>8, <1>9, <1>10, <1>11, <1>12

(***************************************************************************)
(* What a read leaves.                                                     *)
(***************************************************************************)

Line == Seq(Stream!Byte \ {"n"})

\* There is no newline in a line.
LEMMA LineType ==
  ASSUME NEW s \in Text, NEW i \in 1 .. Len(s) + 1
  PROVE  Stream!LineAt(s, i) \in Line
  <1>1. PICK n \in Nat : n = Len(s) /\ s \in [1 .. n -> Stream!Byte]
                         /\ Stream!Newlines(s) = {j \in 1 .. n : s[j] = "n"}
    BY StartsType DEF Text
  <1>2. PICK e \in 1 .. Len(s) + 1 : EndsAt(s, i, e) /\ Stream!LineAt(s, i) = Part(s, i, e)
    BY LineIs
  <1>3. i \in 1 .. n + 1 /\ e \in 1 .. n + 1 /\ e >= i
    BY <1>1, <1>2 DEF EndsAt
  <1>4. \A x \in 1 .. e - i : s[i + x - 1] \in Stream!Byte \ {"n"}
    <2> SUFFICES ASSUME NEW x \in 1 .. e - i
                 PROVE  s[i + x - 1] \in Stream!Byte \ {"n"}
      OBVIOUS
    <2>1. PICK j : j = i + x - 1
      OBVIOUS
    <2>2. j \in 1 .. n /\ i <= j /\ j < e
      BY <1>3, <2>1
    <2>3. j \notin Stream!Newlines(s)
      BY <1>2, <2>2 DEF EndsAt
    <2> QED
      BY <1>1, <2>1, <2>2, <2>3
  <1>5. PICK m \in Nat : m = e - i
    BY <1>3
  <1>6. Part(s, i, e) = [x \in 1 .. m |-> s[i + x - 1]]
    <2>1. (e - 1) - i + 1 = m
      BY <1>3, <1>5
    <2> QED
      BY <1>1, <1>3, <2>1 DEF Part
  <1>7. Part(s, i, e) \in [1 .. m -> Stream!Byte \ {"n"}]
    BY <1>4, <1>5, <1>6
  <1> QED
    BY <1>2, <1>7 DEF Line

\* n is where the last line of a chunk up to e begins: with the byte after it,
\* if that is a new line, or before.
LastLine(line, s, n, e, newline) ==
    /\ n \in Stream!Starts(s)
    /\ newline => n = e + 1 /\ line = <<>>
    /\ ~newline =>
         /\ n <= e /\ line = SubSeq(s, n, e) /\ line # <<>>
         /\ \A d \in Stream!Starts(s) : n <= d /\ d <= e => d = n
         /\ e = Len(s) => line = Stream!LineAt(s, n)

\* The lines of a chunk that begins with a line of the text stand for what they
\* are made of, but for the last.
LEMMA ReadLines ==
  ASSUME NEW s, NEW b, NEW e, NEW chunk, ChunkOf(chunk, s, b, e), b \in Stream!Starts(s),
         NEW lines, lines = Stream!Split(chunk)
  PROVE  /\ lines \in Seq(Line) /\ Len(lines) # 0
         /\ \E at : /\ Covers(at, SubSeq(lines, 1, Len(lines) - 1), s)
                    /\ at[1] = b
                    /\ LastLine(lines[Len(lines)], s, at[Len(lines)], e,
                                chunk[Len(chunk)] = "n")
  <1>1. s \in Text /\ chunk \in Text
    BY DEF ChunkOf
  <1>2. PICK n \in Nat : n = Len(s) /\ Stream!Starts(s) \in SUBSET (1 .. n + 1)
    BY <1>1, StartsType
  <1>3. PICK l : l = Len(chunk)
    OBVIOUS
  <1>4. l = e - b + 1 /\ b \in 1 .. n + 1 /\ e \in 0 .. n /\ b <= e /\ l \in Nat
    BY <1>1, <1>2, <1>3, StartsType DEF ChunkOf
  <1>5. PICK m, c : SplitAt(chunk, m, c)
    BY <1>1, SplitIs
  <1>6. /\ m \in Nat \ {0} /\ c[1] = 1
        /\ \A k \in 1 .. m : c[k] \in 1 .. l + 1 /\ c[k] \in Stream!Starts(chunk)
    BY <1>3, <1>5 DEF SplitAt
  <1>7. /\ \A k \in 1 .. m : k < m => c[k] < c[k + 1]
        /\ \A k \in 1 .. m, i \in Stream!Starts(chunk) : k < m => i <= c[k] \/ c[k + 1] <= i
        /\ \A i \in Stream!Starts(chunk) : i <= c[m]
    BY <1>5 DEF SplitAt
  <1>8. lines = [k \in 1 .. m |-> Stream!LineAt(chunk, c[k])]
    BY <1>5 DEF SplitAt
  <1>9. lines \in [1 .. m -> Line]
    <2>1. \A k \in 1 .. m : Stream!LineAt(chunk, c[k]) \in Line
      BY <1>1, <1>3, <1>6, LineType
    <2> QED
      BY <1>8, <2>1
  <1>10. lines \in Seq(Line) /\ Len(lines) = m
    BY <1>6, <1>9
  <1>11. PICK at : at = [k \in 1 .. m |-> b + c[k] - 1]
    OBVIOUS
  <1>12. at \in [1 .. m -> Nat \ {0}] /\ \A k \in 1 .. m : at[k] = b + c[k] - 1
    BY <1>4, <1>6, <1>11
  <1>13. \A k \in 1 .. m : at[k] \in Stream!Starts(s)
    BY <1>6, <1>12, ChunkStarts
  <1>14. ASSUME NEW k \in 1 .. m, k < m
         PROVE  Stands(lines[k], s, at[k], at[k + 1])
    <2>1. k + 1 \in 1 .. m /\ c[k] \in 1 .. l + 1 /\ c[k + 1] \in 1 .. l + 1
      BY <1>6, <1>14
    <2>2. at[k] = b + c[k] - 1 /\ at[k + 1] = b + c[k + 1] - 1 /\ c[k] < c[k + 1]
      BY <1>7, <1>12, <1>14, <2>1
    <2>3. lines[k] = Stream!LineAt(s, at[k])
      <3>1. PICK q \in Stream!Newlines(chunk) : EndsAt(chunk, c[k], q)
        BY <1>1, <1>5, <1>14, SplitEnds
      <3>2. Stream!LineAt(chunk, c[k]) = Stream!LineAt(s, b + c[k] - 1)
        BY <1>3, <2>1, <3>1, ChunkLine
      <3> QED
        BY <1>8, <2>2, <3>2
    <2>4. ASSUME NEW d \in Stream!Starts(s), at[k] <= d, d < at[k + 1]
          PROVE  d = at[k]
      <3>1. d \in 1 .. n + 1 /\ b <= d /\ d <= e + 1
        BY <1>2, <1>4, <2>1, <2>2, <2>4
      <3>2. d - b + 1 \in Stream!Starts(chunk)
        BY <3>1, ChunkStarts
      <3>3. d - b + 1 <= c[k] \/ c[k + 1] <= d - b + 1
        BY <1>7, <1>14, <3>2
      <3> QED
        BY <1>4, <2>1, <2>2, <2>4, <3>1, <3>3
    <2>5. at[k] <= at[k + 1] /\ at[k] < at[k + 1]
      BY <1>4, <2>1, <2>2
    <2>6. \A d \in Data(s) : at[k] <= d /\ d < at[k + 1] => d = at[k] /\ Stream!IsData(lines[k])
      BY <2>3, <2>4 DEF Data
    <2> QED
      BY <1>13, <2>3, <2>5, <2>6 DEF Stands
  <1>15. Covers(at, SubSeq(lines, 1, m - 1), s)
    <2>1. PICK whole : whole = SubSeq(lines, 1, m - 1)
      OBVIOUS
    <2>2. Len(whole) = m - 1 /\ \A k \in 1 .. m - 1 : whole[k] = lines[k]
      BY <1>6, <1>10, <2>1
    <2>3. \A k \in 1 .. m - 1 : k \in 1 .. m /\ k < m
      BY <1>6
    <2>4. (m - 1) + 1 = m
      BY <1>6
    <2> QED
      BY <1>12, <1>14, <2>1, <2>2, <2>3, <2>4 DEF Covers
  <1>16. m \in 1 .. m /\ 1 \in 1 .. m
    BY <1>6
  <1>17. at[1] = b
    BY <1>4, <1>6, <1>12, <1>16
  <1>18. at[m] = b + c[m] - 1 /\ c[m] \in 1 .. l + 1 /\ lines[m] = Stream!LineAt(chunk, c[m])
    BY <1>6, <1>8, <1>12, <1>16
  <1>19. EndsAt(chunk, c[m], l + 1) /\ (c[m] = l + 1 <=> chunk[l] = "n")
    <2>1. l # 0
      BY <1>4
    <2> QED
      BY <1>1, <1>3, <1>5, <2>1, SplitEnds
  <1>20. lines[m] = Part(chunk, c[m], l + 1)
    BY <1>1, <1>3, <1>18, <1>19, LineTo
  <1>21. ASSUME chunk[l] = "n"
         PROVE  at[m] = e + 1 /\ lines[m] = <<>>
    <2>1. c[m] = l + 1
      BY <1>19, <1>21
    <2>2. Part(chunk, l + 1, l + 1) = <<>>
      BY <1>1, <1>3, <1>4 DEF Part, Text
    <2> QED
      BY <1>4, <1>18, <1>20, <2>1, <2>2
  <1>22. ASSUME chunk[l] # "n"
         PROVE  /\ at[m] <= e /\ lines[m] = SubSeq(s, at[m], e) /\ lines[m] # <<>>
                /\ \A d \in Stream!Starts(s) : at[m] <= d /\ d <= e => d = at[m]
                /\ e = Len(s) => lines[m] = Stream!LineAt(s, at[m])
    <2>1. c[m] \in 1 .. l
      BY <1>4, <1>18, <1>19, <1>22
    <2>2. at[m] <= e
      BY <1>4, <1>18, <2>1
    <2>3. lines[m] = SubSeq(s, at[m], e)
      <3>1. c[m] \in 1 .. Len(chunk) + 1 /\ l + 1 \in 1 .. Len(chunk) + 1
        BY <1>3, <1>4, <1>18
      <3>2. Part(chunk, c[m], l + 1) = Part(s, b + c[m] - 1, b + (l + 1) - 1)
        BY <3>1, ChunkPart
      <3>3. b + (l + 1) - 1 = e + 1
        BY <1>4
      <3>4. Part(s, at[m], e + 1) = SubSeq(s, at[m], e)
        <4>1. (e + 1) - 1 = e
          BY <1>4
        <4> QED
          BY <4>1 DEF Part
      <3> QED
        BY <1>18, <1>20, <3>2, <3>3, <3>4
    <2>4. lines[m] # <<>>
      <3>1. at[m] \in 1 .. n /\ e \in at[m] .. n
        BY <1>4, <1>18, <2>1, <2>2
      <3>2. Len(SubSeq(s, at[m], e)) = e - at[m] + 1
        BY <1>1, <1>2, <3>1 DEF Text
      <3>3. Len(<<>>) = 0 /\ e - at[m] + 1 # 0
        BY <3>1
      <3> QED
        BY <2>3, <3>2, <3>3
    <2>5. ASSUME NEW d \in Stream!Starts(s), at[m] <= d, d <= e
          PROVE  d = at[m]
      <3>1. d \in 1 .. n + 1 /\ b <= d /\ d <= e + 1
        BY <1>2, <1>4, <1>18, <2>5
      <3>2. d - b + 1 <= c[m]
        BY <1>7, <3>1, ChunkStarts
      <3> QED
        BY <1>4, <1>18, <2>5, <3>1, <3>2
    <2>6. ASSUME e = Len(s) PROVE lines[m] = Stream!LineAt(s, at[m])
      <3>1. c[m] \in 1 .. Len(chunk) + 1 /\ EndsAt(chunk, c[m], l + 1)
        BY <1>3, <1>18, <1>19
      <3>2. Stream!LineAt(chunk, c[m]) = Stream!LineAt(s, b + c[m] - 1)
        BY <2>6, <3>1, ChunkLine
      <3> QED
        BY <1>18, <3>2
    <2> QED
      BY <2>2, <2>3, <2>4, <2>5, <2>6
  <1>23. LastLine(lines[m], s, at[m], e, chunk[l] = "n")
    BY <1>13, <1>16, <1>21, <1>22 DEF LastLine
  <1> QED
    BY <1>3, <1>6, <1>10, <1>15, <1>17, <1>23

(***************************************************************************)
(* The invariant.                                                          *)
(***************************************************************************)

\* Where the line begins that is unfinished, or the next one.
Base == consumed - Len(carry) + 1

\* What is in carry.
CarryInv ==
    /\ Len(carry) <= consumed
    /\ carry = SubSeq(input, Base, consumed)
    /\ Base \in Stream!Starts(input) \/ (consumed = Len(input) /\ carry = <<>>)

\* The data lines before n have come out, and none of them was [DONE].
Seen(s, n, out) ==
    /\ Len(out) = Cardinality({d \in Data(s) : d < n})
    /\ \A d \in Data(s) : d < n => ~Stream!IsDone(Stream!LineAt(s, d))

\* at says where in a text the pending lines begin, up to where they end.
Pending(at, lines, s, n, out) ==
    Covers(at, lines, s) /\ at[Len(lines) + 1] = n /\ Seen(s, at[1], out)

PendingInv == ~ended => \E at : Pending(at, pending, input, Base, delivered)

ScannerInv == ScannerTypeOK /\ CarryInv /\ PendingInv

\* The types of what the scanner has.
LEMMA ScannerTypes ==
  ASSUME ScannerTypeOK
  PROVE  /\ input \in Text /\ Len(input) \in Nat
         /\ consumed \in Nat /\ consumed <= Len(input)
         /\ carry \in Line /\ Len(carry) \in Nat
         /\ pending \in Seq(Line) /\ delivered \in Seq(Seq(Stream!Byte))
  BY DEF ScannerTypeOK, Text, Line

\* A line is made of bytes.
LEMMA LineIsText == Line \subseteq Seq(Stream!Byte)
  BY DEF Line

LEMMA ScannerInitKeeps ==
  ASSUME ScannerInit
  PROVE  ScannerInv
  <1>1. /\ consumed = 0 /\ carry = <<>> /\ pending = <<>> /\ completed = FALSE
        /\ ended = FALSE /\ delivered = <<>>
    BY DEF ScannerInit
  <1>2. PICK n \in Nat : input \in [1 .. n -> Stream!Byte]
    BY ScannerAssumption DEF ScannerInit, Streams
  <1>3. input \in Text /\ Len(input) = n
    BY <1>2 DEF Text
  <1>4. ScannerTypeOK
    <2>1. consumed \in 0 .. Len(input)
      BY <1>1, <1>3
    <2>2. /\ carry \in Seq(Stream!Byte \ {"n"})
          /\ pending \in Seq(Seq(Stream!Byte \ {"n"}))
          /\ delivered \in Seq(Seq(Stream!Byte))
      BY <1>1
    <2>3. input \in Seq(Stream!Byte)
      BY <1>3 DEF Text
    <2> QED
      BY <1>1, <2>1, <2>2, <2>3 DEF ScannerTypeOK
  <1>5. Base = 1
    BY <1>1 DEF Base
  <1>6. CarryInv
    <2>1. 1 \in Stream!Starts(input)
      BY <1>3, StartsType
    <2>2. SubSeq(input, 1, 0) = <<>>
      BY <1>3 DEF Text
    <2> QED
      BY <1>1, <1>5, <2>1, <2>2 DEF CarryInv
  <1>7. PendingInv
    <2>1. PICK at : at = [k \in 1 .. 1 |-> 1]
      OBVIOUS
    <2>2. Covers(at, pending, input) /\ at[Len(pending) + 1] = 1 /\ at[1] = 1
      <3>1. Len(pending) = 0
        BY <1>1
      <3> QED
        BY <2>1, <3>1 DEF Covers
    <2>3. {d \in Data(input) : d < 1} = {}
      BY <1>3, DataType
    <2>4. Cardinality({d \in Data(input) : d < 1}) = 0
      BY <2>3, FS_EmptySet
    <2>5. Seen(input, 1, delivered)
      BY <1>1, <2>3, <2>4 DEF Seen
    <2> QED
      BY <1>5, <2>2, <2>5 DEF PendingInv, Pending
  <1> QED
    BY <1>4, <1>6, <1>7 DEF ScannerInv

\* What has come out, with the first pending line.
LEMMA SeenNext ==
  ASSUME NEW s \in Text, NEW i \in Nat, NEW j \in Nat, NEW line, Stands(line, s, i, j),
         NEW out, Seen(s, i, out), ~Stream!IsDone(line)
  PROVE  /\ Len(out) \in Nat
         /\ ~Stream!IsData(line) => Seen(s, j, out)
         /\ Stream!IsData(line) =>
              /\ Cardinality({d \in Data(s) : d < j}) = Len(out) + 1
              /\ \A d \in Data(s) : d < j => ~Stream!IsDone(Stream!LineAt(s, d))
  <1>1. PICK D : D = Data(s)
    OBVIOUS
  <1>2. D \in SUBSET Nat /\ IsFiniteSet(D)
    BY <1>1, DataType
  <1>3. PICK earlier, then : earlier = {d \in D : d < i} /\ then = {d \in D : d < j}
    OBVIOUS
  <1>4. IsFiniteSet(earlier) /\ Cardinality(earlier) \in Nat /\ Len(out) = Cardinality(earlier)
    <2>1. earlier \in SUBSET D
      BY <1>3
    <2> QED
      BY <1>1, <1>2, <1>3, <2>1, FS_Subset, FS_CardinalityType DEF Seen
  <1>5. i <= j
    BY DEF Stands
  <1>6. ASSUME ~Stream!IsData(line)
        PROVE  Seen(s, j, out)
    <2>1. \A d \in D : ~(i <= d /\ d < j)
      BY <1>1, <1>6 DEF Stands
    <2>2. \A d \in D : d < j <=> d < i
      BY <1>2, <1>5, <2>1
    <2>3. then = earlier
      BY <1>3, <2>2
    <2> QED
      BY <1>1, <1>3, <2>2, <2>3 DEF Seen
  <1>7. ASSUME Stream!IsData(line)
        PROVE  /\ Cardinality(then) = Len(out) + 1
               /\ \A d \in D : d < j => ~Stream!IsDone(Stream!LineAt(s, d))
    <2>1. i < j /\ i \in D /\ line = Stream!LineAt(s, i)
      BY <1>1, <1>7 DEF Stands, Data
    <2>2. \A d \in D : i <= d /\ d < j => d = i
      BY <1>1 DEF Stands
    <2>3. \A d \in D : d < j <=> d < i \/ d = i
      BY <1>2, <2>1, <2>2
    <2>4. then = earlier \cup {i} /\ i \notin earlier
      <3>1. then = {d \in D : d < i \/ d = i}
        BY <1>3, <2>3
      <3>2. {d \in D : d < i \/ d = i} = earlier \cup {i}
        BY <1>3, <2>1
      <3>3. ~(i < i)
        BY <1>2, <2>1
      <3> QED
        BY <1>3, <3>1, <3>2, <3>3
    <2>5. Cardinality(then) = Cardinality(earlier) + 1
      BY <1>4, <2>4, FS_AddElement
    <2>6. \A d \in D : d < j => ~Stream!IsDone(Stream!LineAt(s, d))
      BY <1>1, <2>1, <2>3 DEF Seen
    <2> QED
      BY <1>4, <2>5, <2>6
  <1> QED
    BY <1>1, <1>3, <1>4, <1>6, <1>7

\* A line that says [DONE] is a data line.
LEMMA DoneIsData ==
  ASSUME NEW line, Stream!IsDone(line)
  PROVE  Stream!IsData(line)
  <1>1. line = <<"d", "[">>
    BY DEF Stream!IsDone
  <1>2. line # <<>> /\ Head(line) = "d"
    BY <1>1
  <1> QED
    BY <1>2 DEF Stream!IsData

\* The events before [DONE] are the data lines before it.
LEMMA EventsUpTo ==
  ASSUME NEW s \in Text
  PROVE  /\ Stream!Events(s) = {d \in Data(s) :
                \A j \in Data(s) : j <= d => ~Stream!IsDone(Stream!LineAt(s, j))}
         /\ Stream!Events(s) \in SUBSET Nat /\ IsFiniteSet(Stream!Events(s))
         /\ Stream!HasDone(s) <=> \E j \in Data(s) : Stream!IsDone(Stream!LineAt(s, j))
  <1>1. \A j \in Stream!Starts(s) :
          Stream!IsDone(Stream!LineAt(s, j)) => j \in Data(s)
    BY DoneIsData DEF Data
  <1>2. Data(s) \subseteq Stream!Starts(s)
    BY DEF Data
  <1>3. Stream!Events(s) = {d \in Data(s) :
                \A j \in Data(s) : j <= d => ~Stream!IsDone(Stream!LineAt(s, j))}
    BY <1>1, <1>2 DEF Stream!Events, Data
  <1>4. Stream!Events(s) \in SUBSET Data(s)
    BY <1>3
  <1>5. Stream!Events(s) \in SUBSET Nat /\ IsFiniteSet(Stream!Events(s))
    BY <1>4, DataType, FS_Subset
  <1>6. Stream!HasDone(s) <=> \E j \in Data(s) : Stream!IsDone(Stream!LineAt(s, j))
    BY <1>1, <1>2 DEF Stream!HasDone
  <1> QED
    BY <1>3, <1>5, <1>6

\* A data line that is not [DONE], after those that have come out, is the next event.
LEMMA NextEvent ==
  ASSUME NEW s \in Text, NEW i \in Data(s), NEW out, Seen(s, i, out),
         ~Stream!IsDone(Stream!LineAt(s, i))
  PROVE  /\ Len(out) < Stream!Cardinality(Stream!Events(s))
         /\ Stream!Nth(Stream!Events(s), Len(out) + 1) = i
  <1>1. PICK D, E : D = Data(s) /\ E = Stream!Events(s)
    OBVIOUS
  <1>2. D \in SUBSET Nat /\ IsFiniteSet(D) /\ i \in D
    BY <1>1, DataType
  <1>3. E \in SUBSET Nat /\ IsFiniteSet(E)
        /\ E = {d \in D : \A j \in D : j <= d => ~Stream!IsDone(Stream!LineAt(s, j))}
    BY <1>1, EventsUpTo
  <1>4. \A j \in D : j <= i => ~Stream!IsDone(Stream!LineAt(s, j))
    <2> SUFFICES ASSUME NEW j \in D, j <= i PROVE ~Stream!IsDone(Stream!LineAt(s, j))
      OBVIOUS
    <2>1. CASE j = i
      BY <2>1
    <2>2. CASE j < i
      BY <1>1, <2>2 DEF Seen
    <2> QED
      BY <1>2, <2>1, <2>2
  <1>5. \A d \in D : d <= i => d \in E
    BY <1>2, <1>3, <1>4
  <1>6. PICK earlier : earlier = {d \in D : d < i}
    OBVIOUS
  <1>7. UpTo(E, i) = earlier \cup {i} /\ i \notin earlier
    <2>1. \A d \in D : d <= i <=> d < i \/ d = i
      BY <1>2
    <2>2. UpTo(E, i) = {d \in D : d < i \/ d = i}
      BY <1>3, <1>5, <2>1 DEF UpTo
    <2>3. {d \in D : d < i \/ d = i} = earlier \cup {i}
      BY <1>2, <1>6
    <2>4. ~(i < i)
      BY <1>2
    <2> QED
      BY <1>6, <2>2, <2>3, <2>4
  <1>8. IsFiniteSet(earlier) /\ Cardinality(earlier) \in Nat /\ Len(out) = Cardinality(earlier)
    <2>1. earlier \in SUBSET D
      BY <1>6
    <2> QED
      BY <1>1, <1>2, <1>6, <2>1, FS_Subset, FS_CardinalityType DEF Seen
  <1>9. Cardinality(UpTo(E, i)) = Len(out) + 1
    BY <1>7, <1>8, FS_AddElement
  <1>10. i \in E
    BY <1>2, <1>5
  <1>11. PICK n \in Nat : n = Cardinality(E)
    BY <1>3, FS_CardinalityType
  <1>12. Len(out) + 1 \in 1 .. n /\ Stream!Nth(E, Len(out) + 1) = i
    BY <1>3, <1>9, <1>10, <1>11, NthOfRank
  <1>13. Len(out) < n
    BY <1>8, <1>12
  <1> QED
    BY <1>1, <1>11, <1>12, <1>13, StreamCardinality

\* With [DONE], or at the end of the stream, all events have come out.
LEMMA LastEvent ==
  ASSUME NEW s \in Text, NEW i \in Nat, NEW out, Seen(s, i, out),
         \/ i \in Data(s) /\ Stream!IsDone(Stream!LineAt(s, i))
         \/ i = Len(s) + 1
  PROVE  /\ Len(out) = Stream!Cardinality(Stream!Events(s))
         /\ Stream!HasDone(s) <=> i \in Data(s)
  <1>1. PICK D, E : D = Data(s) /\ E = Stream!Events(s)
    OBVIOUS
  <1>2. PICK n \in Nat : n = Len(s) /\ D \in SUBSET (1 .. n)
    BY <1>1, DataType, StartsType
  <1>3. E = {d \in D : \A j \in D : j <= d => ~Stream!IsDone(Stream!LineAt(s, j))}
    BY <1>1, EventsUpTo
  <1>4. \A d \in D : d < i => ~Stream!IsDone(Stream!LineAt(s, d))
    BY <1>1 DEF Seen
  <1>5. CASE i \in D /\ Stream!IsDone(Stream!LineAt(s, i))
    <2>1. \A d \in D : d \in E <=> d < i
      BY <1>2, <1>3, <1>4, <1>5
    <2>2. E = {d \in D : d < i}
      BY <1>3, <2>1
    <2>3. Len(out) = Cardinality(E)
      BY <1>1, <2>2 DEF Seen
    <2>4. Stream!HasDone(s)
      BY <1>1, <1>5, EventsUpTo
    <2> QED
      BY <1>1, <1>5, <2>3, <2>4, StreamCardinality
  <1>6. CASE i = n + 1
    <2>1. \A d \in D : d < i
      BY <1>2, <1>6
    <2>2. E = {d \in D : d < i}
      BY <1>3, <1>4, <2>1
    <2>3. Len(out) = Cardinality(E)
      BY <1>1, <2>2 DEF Seen
    <2>4. ~Stream!HasDone(s) /\ i \notin D
      BY <1>1, <1>2, <1>4, <1>6, <2>1, EventsUpTo
    <2> QED
      BY <1>1, <2>3, <2>4, StreamCardinality
  <1> QED
    BY <1>1, <1>2, <1>5, <1>6

(***************************************************************************)
(* The steps.                                                              *)
(***************************************************************************)

\* What Scan finds when a line is pending.
LEMMA FirstPending ==
  ASSUME ScannerInv, ~ended, pending # <<>>
  PROVE  /\ Head(pending) \in Line /\ Tail(pending) \in Seq(Line)
         /\ \E i, j, at :
              /\ i \in Nat /\ j \in Nat
              /\ Stands(Head(pending), input, i, j)
              /\ Seen(input, i, delivered)
              /\ Covers(at, Tail(pending), input)
              /\ at[1] = j
              /\ at[Len(Tail(pending)) + 1] = Base
  <1>1. pending \in Seq(Line)
    BY ScannerTypes DEF ScannerInv
  <1>2. PICK at : Pending(at, pending, input, Base, delivered)
    BY DEF ScannerInv, PendingInv
  <1>3. Covers(at, pending, input) /\ at[Len(pending) + 1] = Base /\ Seen(input, at[1], delivered)
    BY <1>2 DEF Pending
  <1>4. PICK new : /\ Covers(new, Tail(pending), input)
                   /\ new[1] = at[2]
                   /\ new[Len(Tail(pending)) + 1] = at[Len(pending) + 1]
    BY <1>1, <1>3, CoversTail
  <1>5. Stands(Head(pending), input, at[1], at[2]) /\ at[1] \in Nat /\ at[2] \in Nat
    BY <1>1, <1>3, CoversTail
  <1>6. Head(pending) \in Line /\ Tail(pending) \in Seq(Line)
    BY <1>1
  <1> QED
    BY <1>3, <1>4, <1>5, <1>6

\* A data line stands for where it begins.
LEMMA DataStands ==
  ASSUME NEW line, NEW s, NEW i, NEW j, Stands(line, s, i, j), Stream!IsData(line)
  PROVE  i \in Data(s) /\ line = Stream!LineAt(s, i)
  BY DEF Stands, Data

\* When neither what was read nor what is unfinished changes.
LEMMA CarryStays ==
  ASSUME CarryInv, UNCHANGED <<input, consumed, carry>>
  PROVE  CarryInv' /\ Base' = Base
  BY DEF CarryInv, Base

\* An event comes out.
LEMMA ScanEventStep ==
  ASSUME ScannerInv, ScanEvent
  PROVE  ScannerInv' /\ Stream!Deliver
  <1>1. /\ ~ended /\ pending # <<>>
        /\ Stream!IsData(Head(pending)) /\ ~Stream!IsDone(Head(pending))
        /\ delivered' = Append(delivered, Head(pending))
        /\ pending' = Tail(pending)
        /\ input' = input /\ consumed' = consumed /\ carry' = carry
        /\ completed' = completed /\ ended' = ended
    BY DEF ScanEvent
  <1>2. PICK i, j, at :
          /\ i \in Nat /\ j \in Nat
          /\ Stands(Head(pending), input, i, j)
          /\ Seen(input, i, delivered)
          /\ Covers(at, Tail(pending), input)
          /\ at[1] = j
          /\ at[Len(Tail(pending)) + 1] = Base
    BY <1>1, FirstPending
  <1>3. Head(pending) \in Line /\ Tail(pending) \in Seq(Line)
    BY <1>1, FirstPending
  <1>4. input \in Text /\ delivered \in Seq(Seq(Stream!Byte))
    BY ScannerTypes DEF ScannerInv
  <1>5. PICK line : line = Head(pending)
    OBVIOUS
  <1>6. line \in Seq(Stream!Byte)
    BY <1>3, <1>5, LineIsText
  <1>7. PICK out : out = Append(delivered, line)
    OBVIOUS
  <1>8. out \in Seq(Seq(Stream!Byte)) /\ Len(out) = Len(delivered) + 1
    BY <1>4, <1>6, <1>7
  <1>9. i \in Data(input) /\ line = Stream!LineAt(input, i)
    BY <1>1, <1>2, <1>5, DataStands
  <1>10. Seen(input, j, out)
    <2>1. /\ Cardinality({d \in Data(input) : d < j}) = Len(delivered) + 1
          /\ \A d \in Data(input) : d < j => ~Stream!IsDone(Stream!LineAt(input, d))
      BY <1>1, <1>2, <1>4, <1>5, SeenNext
    <2> QED
      BY <1>8, <2>1 DEF Seen
  <1>11. ScannerTypeOK'
    <2>1. pending' \in Seq(Seq(Stream!Byte \ {"n"}))
      BY <1>1, <1>3 DEF Line
    <2>2. delivered' \in Seq(Seq(Stream!Byte))
      BY <1>1, <1>5, <1>7, <1>8
    <2> QED
      BY <1>1, <2>1, <2>2 DEF ScannerTypeOK, ScannerInv
  <1>12. CarryInv' /\ Base' = Base
    BY <1>1, CarryStays DEF ScannerInv
  <1>13. PendingInv'
    <2>1. Pending(at, pending', input', Base', delivered')
      BY <1>1, <1>2, <1>5, <1>7, <1>10, <1>12 DEF Pending
    <2> QED
      BY <2>1 DEF PendingInv
  <1>14. Stream!Deliver
    <2>1. /\ Len(delivered) < Stream!Cardinality(Stream!Events(input))
          /\ Stream!Nth(Stream!Events(input), Len(delivered) + 1) = i
      BY <1>1, <1>2, <1>4, <1>5, <1>9, NextEvent
    <2>2. delivered' = Append(delivered,
            Stream!LineAt(input, Stream!Nth(Stream!Events(input), Len(delivered) + 1)))
      BY <1>1, <1>5, <1>9, <2>1
    <2> QED
      BY <1>1, <2>1, <2>2 DEF Stream!Deliver
  <1> QED
    BY <1>11, <1>12, <1>13, <1>14 DEF ScannerInv

\* [DONE] ends the stream, and all events before it have come out.
LEMMA ScanDoneStep ==
  ASSUME ScannerInv, ScanDone
  PROVE  ScannerInv' /\ Stream!Finish
  <1>1. /\ ~ended /\ pending # <<>> /\ Stream!IsDone(Head(pending))
        /\ completed' = TRUE /\ ended' = TRUE
        /\ pending' = Tail(pending)
        /\ input' = input /\ consumed' = consumed /\ carry' = carry /\ delivered' = delivered
    BY DEF ScanDone
  <1>2. PICK i \in Nat, j \in Nat :
          Stands(Head(pending), input, i, j) /\ Seen(input, i, delivered)
    BY <1>1, FirstPending
  <1>3. Tail(pending) \in Seq(Line) /\ input \in Text
    BY <1>1, FirstPending, ScannerTypes DEF ScannerInv
  <1>4. i \in Data(input) /\ Head(pending) = Stream!LineAt(input, i)
    BY <1>1, <1>2, DoneIsData, DataStands
  <1>5. Len(delivered) = Stream!Cardinality(Stream!Events(input)) /\ Stream!HasDone(input)
    BY <1>1, <1>2, <1>3, <1>4, LastEvent
  <1>6. ScannerTypeOK'
    <2>1. pending' \in Seq(Seq(Stream!Byte \ {"n"}))
      BY <1>1, <1>3 DEF Line
    <2> QED
      BY <1>1, <2>1 DEF ScannerTypeOK, ScannerInv
  <1>7. CarryInv' /\ PendingInv'
    BY <1>1, CarryStays DEF ScannerInv, PendingInv
  <1>8. Stream!Finish
    BY <1>1, <1>5 DEF Stream!Finish
  <1> QED
    BY <1>6, <1>7, <1>8 DEF ScannerInv

\* Any other line is passed over.
LEMMA ScanOtherStep ==
  ASSUME ScannerInv, ScanOther
  PROVE  ScannerInv' /\ UNCHANGED Stream!vars
  <1>1. /\ ~ended /\ pending # <<>> /\ ~Stream!IsData(Head(pending))
        /\ pending' = Tail(pending)
        /\ input' = input /\ consumed' = consumed /\ carry' = carry
        /\ completed' = completed /\ ended' = ended /\ delivered' = delivered
    BY DEF ScanOther
  <1>2. PICK i, j, at :
          /\ i \in Nat /\ j \in Nat
          /\ Stands(Head(pending), input, i, j)
          /\ Seen(input, i, delivered)
          /\ Covers(at, Tail(pending), input)
          /\ at[1] = j
          /\ at[Len(Tail(pending)) + 1] = Base
    BY <1>1, FirstPending
  <1>3. Tail(pending) \in Seq(Line) /\ input \in Text
    BY <1>1, FirstPending, ScannerTypes DEF ScannerInv
  <1>4. Seen(input, j, delivered)
    <2>1. ~Stream!IsDone(Head(pending))
      BY <1>1, DoneIsData
    <2> QED
      BY <1>1, <1>2, <1>3, <2>1, SeenNext
  <1>5. ScannerTypeOK'
    <2>1. pending' \in Seq(Seq(Stream!Byte \ {"n"}))
      BY <1>1, <1>3 DEF Line
    <2> QED
      BY <1>1, <2>1 DEF ScannerTypeOK, ScannerInv
  <1>6. CarryInv' /\ Base' = Base
    BY <1>1, CarryStays DEF ScannerInv
  <1>7. PendingInv'
    <2>1. Pending(at, pending', input', Base', delivered')
      BY <1>1, <1>2, <1>4, <1>6 DEF Pending
    <2> QED
      BY <2>1 DEF PendingInv
  <1>8. UNCHANGED Stream!vars
    BY <1>1 DEF Stream!vars
  <1> QED
    BY <1>5, <1>6, <1>7, <1>8 DEF ScannerInv

\* Where nothing is left, the whole stream was read.
LEMMA NothingLeft ==
  ASSUME ScannerTypeOK, Left = <<>>
  PROVE  consumed = Len(input)
  <1>1. input \in Text /\ Len(input) \in Nat /\ consumed \in Nat /\ consumed <= Len(input)
    BY ScannerTypes
  <1>2. PICK left : left = SubSeq(input, consumed + 1, Len(input))
    OBVIOUS
  <1>3. consumed # Len(input) => Len(left) = Len(input) - consumed
    BY <1>1, <1>2 DEF Text
  <1>4. left = <<>>
    BY <1>2 DEF Left
  <1>5. Len(left) = 0
    BY <1>4
  <1> QED
    BY <1>1, <1>3, <1>5

\* When no line is pending all data lines before Base have come out.
LEMMA NonePending ==
  ASSUME ScannerInv, ~ended, pending = <<>>
  PROVE  /\ Base \in Nat \ {0}
         /\ Seen(input, Base, delivered)
         /\ Covers([k \in 1 .. 1 |-> Base], <<>>, input)
  <1>1. PICK at : Pending(at, pending, input, Base, delivered)
    BY DEF ScannerInv, PendingInv
  <1>2. Len(pending) = 0
    OBVIOUS
  <1>3. at[1] = Base /\ Seen(input, Base, delivered) /\ at \in [1 .. 1 -> Nat \ {0}]
    BY <1>1, <1>2 DEF Pending, Covers
  <1>4. Base \in Nat \ {0}
    BY <1>3
  <1>5. PICK b : b = Base
    OBVIOUS
  <1>6. Covers([k \in 1 .. 1 |-> b], <<>>, input)
    <2>1. Len(<<>>) = 0
      OBVIOUS
    <2> QED
      BY <1>4, <1>5, <2>1 DEF Covers
  <1> QED
    BY <1>3, <1>4, <1>5, <1>6

\* The stream breaks off, and all events have come out.
LEMMA ReadEndStep ==
  ASSUME ScannerInv, ReadEnd
  PROVE  ScannerInv' /\ Stream!Finish
  <1>1. /\ ~ended /\ pending = <<>> /\ Left = <<>> /\ carry = <<>> /\ ended' = TRUE
        /\ input' = input /\ consumed' = consumed /\ carry' = carry /\ pending' = pending
        /\ completed' = completed /\ delivered' = delivered
    BY DEF ReadEnd
  <1>2. input \in Text /\ consumed \in Nat /\ completed = FALSE
    BY <1>1, ScannerTypes DEF ScannerInv, ScannerTypeOK
  <1>3. consumed = Len(input) /\ Seen(input, Base, delivered)
    BY <1>1, NothingLeft, NonePending DEF ScannerInv
  <1>4. Base = Len(input) + 1
    <2>1. Len(carry) = 0
      BY <1>1
    <2> QED
      BY <1>2, <1>3, <2>1 DEF Base
  <1>5. PICK n \in Nat : n = Len(input) /\ Base = n + 1
    BY <1>2, <1>3, <1>4
  <1>6. Base \in Nat /\ Base \notin Data(input)
    BY <1>2, <1>5, DataType
  <1>7. Len(delivered) = Stream!Cardinality(Stream!Events(input)) /\ ~Stream!HasDone(input)
    BY <1>2, <1>3, <1>4, <1>6, LastEvent
  <1>8. ScannerTypeOK'
    BY <1>1, <1>2 DEF ScannerTypeOK, ScannerInv
  <1>9. CarryInv' /\ PendingInv'
    BY <1>1, CarryStays DEF ScannerInv, PendingInv
  <1>10. Stream!Finish
    BY <1>1, <1>2, <1>7 DEF Stream!Finish
  <1> QED
    BY <1>8, <1>9, <1>10 DEF ScannerInv

\* What is unfinished when nothing is left is the last line of the stream.
LEMMA CarryIsLast ==
  ASSUME ScannerTypeOK, CarryInv, consumed = Len(input), carry # <<>>
  PROVE  Stands(carry, input, Base, Len(input) + 1)
  <1>1. PICK s, n, b, line : s = input /\ n = Len(input) /\ b = Base /\ line = carry
    OBVIOUS
  <1>2. s \in Text /\ n \in Nat /\ s \in [1 .. n -> Stream!Byte] /\ line \in Line /\ Len(line) \in Nat
    BY <1>1, ScannerTypes DEF Text
  <1>3. Len(line) # 0
    BY <1>1, <1>2 DEF Line
  <1>4. b = n - Len(line) + 1 /\ Len(line) <= n
    BY <1>1 DEF Base, CarryInv
  <1>5. b \in 1 .. n
    BY <1>2, <1>3, <1>4
  <1>6. line = SubSeq(s, b, n) /\ b \in Stream!Starts(s)
    BY <1>1 DEF CarryInv
  <1>7. Stream!Newlines(s) = {j \in 1 .. n : s[j] = "n"}
    BY <1>1, <1>2, StartsType
  <1>8. \A j \in Stream!Newlines(s) : ~(b <= j /\ j < n + 1)
    <2> SUFFICES ASSUME NEW j \in Stream!Newlines(s), b <= j PROVE FALSE
      OBVIOUS
    <2>1. j \in 1 .. n /\ s[j] = "n"
      BY <1>7
    <2>2. PICK x : x = j - b + 1
      OBVIOUS
    <2>3. x \in 1 .. Len(line) /\ b + x - 1 = j /\ x \in 1 .. n - b + 1
      BY <1>2, <1>4, <1>5, <2>1, <2>2
    <2>4. SubSeq(s, b, n)[x] = s[b + x - 1]
      BY <1>2, <1>5, <2>3 DEF Text
    <2>5. line[x] = "n"
      BY <1>6, <2>1, <2>3, <2>4
    <2>6. line[x] \in Stream!Byte \ {"n"}
      BY <1>2, <2>3 DEF Line
    <2> QED
      BY <2>5, <2>6
  <1>9. EndsAt(s, b, n + 1)
    <2>1. n + 1 >= b
      BY <1>2, <1>5
    <2> QED
      BY <1>1, <1>8, <2>1 DEF EndsAt
  <1>10. Stream!LineAt(s, b) = line
    <2>1. b \in 1 .. Len(s) + 1 /\ EndsAt(s, b, n + 1)
      BY <1>1, <1>5, <1>9
    <2>2. Stream!LineAt(s, b) = Part(s, b, n + 1)
      BY <1>2, <2>1, LineTo
    <2>3. (n + 1) - 1 = n
      BY <1>2
    <2> QED
      BY <1>6, <2>2, <2>3 DEF Part
  <1>11. ASSUME NEW d \in Stream!Starts(s), b <= d, d < n + 1
         PROVE  d = b
    <2>1. CASE d = 1
      BY <1>5, <1>11, <2>1
    <2>2. ASSUME NEW j \in Stream!Newlines(s), d = j + 1
          PROVE  d = b
      <3>1. j \in 1 .. n
        BY <1>7
      <3>2. ~(b <= j)
        BY <1>2, <1>8, <3>1
      <3> QED
        BY <1>5, <1>11, <2>2, <3>1, <3>2
    <2> QED
      BY <2>1, <2>2 DEF Stream!Starts
  <1>12. \A d \in Data(s) : b <= d /\ d < n + 1 => d = b /\ Stream!IsData(line)
    BY <1>10, <1>11 DEF Data
  <1>13. b <= n + 1 /\ b < n + 1
    BY <1>2, <1>5
  <1>14. Stands(line, s, b, n + 1)
    BY <1>6, <1>10, <1>12, <1>13 DEF Stands
  <1> QED
    BY <1>1, <1>14

\* The unfinished line becomes the last pending one.
LEMMA ReadNothingStep ==
  ASSUME ScannerInv, ReadNothing
  PROVE  ScannerInv' /\ UNCHANGED Stream!vars
  <1>1. /\ ~ended /\ pending = <<>> /\ Left = <<>> /\ carry # <<>>
        /\ pending' = <<carry>> /\ carry' = <<>>
        /\ input' = input /\ consumed' = consumed
        /\ completed' = completed /\ ended' = ended /\ delivered' = delivered
    BY DEF ReadNothing
  <1>2. input \in Text /\ consumed \in Nat /\ carry \in Line
    BY ScannerTypes DEF ScannerInv
  <1>3. consumed = Len(input)
    BY <1>1, NothingLeft DEF ScannerInv
  <1>4. /\ Base \in Nat \ {0} /\ Seen(input, Base, delivered)
        /\ Covers([k \in 1 .. 1 |-> Base], <<>>, input)
    BY <1>1, NonePending
  <1>5. Stands(carry, input, Base, Len(input) + 1)
    BY <1>1, <1>3, CarryIsLast DEF ScannerInv
  <1>6. Base' = Len(input) + 1
    <2>1. Len(carry') = 0
      BY <1>1
    <2>2. consumed' - 0 + 1 = Len(input) + 1
      BY <1>1, <1>2, <1>3
    <2> QED
      BY <2>1, <2>2 DEF Base
  <1>7. \E at : Covers(at, <<carry>>, input) /\ at[1] = Base
                /\ at[Len(<<carry>>) + 1] = Len(input) + 1
    <2>1. PICK first : first = [k \in 1 .. 1 |-> Base]
      OBVIOUS
    <2>2. first[1] = Base /\ Covers(first, <<>>, input)
      BY <1>4, <2>1
    <2>3. Len(<<>>) + 1 = 1 /\ Append(<<>>, carry) = <<carry>> /\ <<>> \in Seq(Line)
      OBVIOUS
    <2>4. Len(input) + 1 \in Nat \ {0}
      BY <1>2, <1>3
    <2>5. PICK empty : empty = <<>>
      OBVIOUS
    <2>6. \E new : /\ Covers(new, Append(empty, carry), input)
                   /\ new[1] = first[1]
                   /\ new[Len(Append(empty, carry)) + 1] = Len(input) + 1
      <3>1. empty \in Seq(Line) /\ Covers(first, empty, input)
        BY <2>2, <2>3, <2>5
      <3>2. Stands(carry, input, first[Len(empty) + 1], Len(input) + 1)
        BY <1>5, <2>2, <2>3, <2>5
      <3> QED
        BY <1>2, <2>4, <3>1, <3>2, CoversAppend
    <2>7. Append(empty, carry) = <<carry>>
      BY <2>3, <2>5
    <2> QED
      BY <2>2, <2>6, <2>7
  <1>8. ScannerTypeOK'
    <2>1. pending' \in Seq(Seq(Stream!Byte \ {"n"})) /\ carry' \in Seq(Stream!Byte \ {"n"})
      BY <1>1, <1>2 DEF Line
    <2> QED
      BY <1>1, <2>1 DEF ScannerTypeOK, ScannerInv
  <1>9. CarryInv'
    <2>1. PICK n \in Nat : n = Len(input) /\ consumed' = n /\ Base' = n + 1
      BY <1>1, <1>2, <1>3, <1>6
    <2>2. SubSeq(input, n + 1, n) = <<>>
      BY <1>2, <2>1 DEF Text
    <2>3. Len(carry') = 0 /\ 0 <= n
      BY <1>1
    <2> QED
      BY <1>1, <2>1, <2>2, <2>3 DEF CarryInv
  <1>10. PendingInv'
    <2>1. PICK at : Covers(at, <<carry>>, input) /\ at[1] = Base
                    /\ at[Len(<<carry>>) + 1] = Len(input) + 1
      BY <1>7
    <2>2. Pending(at, pending', input', Base', delivered')
      BY <1>1, <1>4, <1>6, <2>1 DEF Pending
    <2> QED
      BY <2>2 DEF PendingInv
  <1>11. UNCHANGED Stream!vars
    BY <1>1 DEF Stream!vars
  <1> QED
    BY <1>8, <1>9, <1>10, <1>11 DEF ScannerInv

\* What is left of a text after k bytes, and the first n bytes of it.
Rest(s, k) == SubSeq(s, k + 1, Len(s))
First(s, n) == SubSeq(s, 1, n)

\* The first bytes of what is left are the next bytes of the text.
LEMMA FirstOfRest ==
  ASSUME NEW s \in Text, NEW k \in Nat, k <= Len(s), NEW left, left = Rest(s, k),
         NEW n \in 1 .. Len(left), NEW new, new = First(left, n)
  PROVE  /\ n \in Nat \ {0} /\ k + n <= Len(s)
         /\ new \in Text /\ Len(new) = n
         /\ \A x \in 1 .. n : new[x] = s[k + x]
  <1>1. PICK l \in Nat : l = Len(s)
    BY StartsType
  <1>2. k # l
    <2> SUFFICES ASSUME k = l PROVE FALSE
      OBVIOUS
    <2>1. SubSeq(s, l + 1, l) = <<>>
      BY <1>1 DEF Text
    <2>2. Len(left) = 0
      BY <1>1, <2>1 DEF Rest
    <2> QED
      BY <2>2
  <1>3. ChunkOf(left, s, k + 1, l)
    <2>1. k + 1 \in 1 .. Len(s) + 1 /\ l \in k + 1 .. Len(s)
      BY <1>1, <1>2
    <2> QED
      BY <1>1, <2>1, SubSeqIsChunk DEF Rest
  <1>4. left \in Text /\ Len(left) = l - k /\ \A x \in 1 .. l - k : left[x] = s[(k + 1) + x - 1]
    <2>1. l - (k + 1) + 1 = l - k
      BY <1>1
    <2> QED
      BY <1>3, <2>1 DEF ChunkOf
  <1>5. n \in Nat \ {0} /\ n <= l - k
    BY <1>1, <1>4
  <1>6. ChunkOf(new, left, 1, n)
    <2>1. 1 \in 1 .. Len(left) + 1 /\ n \in 1 .. Len(left)
      BY <1>1, <1>4, <1>5
    <2> QED
      BY <1>4, <2>1, SubSeqIsChunk DEF First
  <1>7. new \in Text /\ Len(new) = n /\ \A x \in 1 .. n : new[x] = left[1 + x - 1]
    <2>1. n - 1 + 1 = n
      BY <1>5
    <2> QED
      BY <1>6, <2>1 DEF ChunkOf
  <1>8. ASSUME NEW x \in 1 .. n
        PROVE  new[x] = s[k + x]
    <2>1. x \in 1 .. l - k /\ (k + 1) + x - 1 = k + x /\ 1 + x - 1 = x
      BY <1>1, <1>5
    <2> QED
      BY <1>4, <1>7, <2>1
  <1>9. k + n <= l
    BY <1>1, <1>5
  <1> QED
    BY <1>1, <1>5, <1>7, <1>8, <1>9

\* A part of a text and the bytes after it are a part of the text.
LEMMA JoinedChunk ==
  ASSUME NEW s \in Text, NEW line \in Text, NEW new \in Text, NEW k \in Nat,
         Len(line) <= k, k + Len(new) <= Len(s), Len(new) # 0,
         \A p \in 1 .. Len(line) : line[p] = s[k - Len(line) + p],
         \A x \in 1 .. Len(new) : new[x] = s[k + x]
  PROVE  ChunkOf(line \o new, s, k - Len(line) + 1, k + Len(new))
  <1>1. PICK l \in Nat, c \in Nat, n \in Nat : l = Len(s) /\ c = Len(line) /\ n = Len(new)
    BY StartsType
  <1>2. c <= k /\ k + n <= l /\ n # 0
    BY <1>1
  <1>3. PICK chunk : chunk = line \o new
    OBVIOUS
  <1>4. /\ chunk \in Seq(Stream!Byte) /\ Len(chunk) = c + n
        /\ \A p \in 1 .. c + n : chunk[p] = IF p <= c THEN line[p] ELSE new[p - c]
    BY <1>1, <1>3 DEF Text
  <1>5. ASSUME NEW p \in 1 .. c + n
        PROVE  chunk[p] = s[(k - c + 1) + p - 1]
    <2>1. CASE p <= c
      <3>1. p \in 1 .. c /\ (k - c + 1) + p - 1 = k - c + p
        BY <1>1, <2>1
      <3>2. line[p] = s[k - c + p]
        BY <1>1, <3>1
      <3> QED
        BY <1>4, <2>1, <3>1, <3>2
    <2>2. CASE ~(p <= c)
      <3>1. p - c \in 1 .. n /\ (k - c + 1) + p - 1 = k + (p - c)
        BY <1>1, <2>2
      <3>2. new[p - c] = s[k + (p - c)]
        BY <1>1, <3>1
      <3> QED
        BY <1>4, <2>2, <3>1, <3>2
    <2> QED
      BY <2>1, <2>2
  <1>6. /\ k - c + 1 \in 1 .. l + 1 /\ k + n \in 0 .. l /\ k - c + 1 <= k + n
        /\ c + n = (k + n) - (k - c + 1) + 1
    BY <1>1, <1>2
  <1>7. ChunkOf(chunk, s, k - c + 1, k + n)
    BY <1>1, <1>4, <1>5, <1>6 DEF ChunkOf, Text
  <1> QED
    BY <1>1, <1>3, <1>7

\* A read adds a chunk to what is unfinished, which is a part of the stream again.
LEMMA ReadChunk ==
  ASSUME ScannerTypeOK, CarryInv, NEW n \in 1 .. Len(Left)
  PROVE  /\ n \in Nat \ {0} /\ consumed + n <= Len(input)
         /\ Base \in Nat /\ Base \in Stream!Starts(input)
         /\ ChunkOf(carry \o SubSeq(Left, 1, n), input, Base, consumed + n)
  <1>1. PICK left, new : left = Rest(input, consumed) /\ new = First(left, n)
    OBVIOUS
  <1>2. Left = left /\ SubSeq(Left, 1, n) = new
    BY <1>1 DEF Left, Rest, First
  <1>3. input \in Text /\ consumed \in Nat /\ consumed <= Len(input) /\ Len(input) \in Nat
    BY ScannerTypes
  <1>4. /\ n \in Nat \ {0} /\ consumed + n <= Len(input)
        /\ new \in Text /\ Len(new) = n
        /\ \A x \in 1 .. n : new[x] = input[consumed + x]
    <2>1. n \in 1 .. Len(left)
      BY <1>2
    <2> QED
      BY <1>1, <1>3, <2>1, FirstOfRest
  <1>5. carry \in Text /\ Len(carry) \in Nat /\ Len(carry) <= consumed
    BY ScannerTypes, LineIsText DEF CarryInv, Text
  <1>6. ASSUME NEW p \in 1 .. Len(carry)
        PROVE  carry[p] = input[consumed - Len(carry) + p]
    <2>1. PICK b : b = Base
      OBVIOUS
    <2>2. b = consumed - Len(carry) + 1
      BY <2>1 DEF Base
    <2>3. b \in 1 .. Len(input) + 1 /\ consumed \in b .. Len(input)
      BY <1>3, <1>5, <2>2
    <2>4. ChunkOf(SubSeq(input, b, consumed), input, b, consumed)
      BY <1>3, <2>3, SubSeqIsChunk
    <2>5. ChunkOf(carry, input, b, consumed)
      BY <2>1, <2>4 DEF CarryInv
    <2>6. carry[p] = input[b + p - 1]
      BY <2>5 DEF ChunkOf
    <2>7. b + p - 1 = consumed - Len(carry) + p
      BY <1>3, <1>5, <2>2
    <2> QED
      BY <2>6, <2>7
  <1>7. ChunkOf(carry \o new, input, consumed - Len(carry) + 1, consumed + n)
    <2>1. Len(new) # 0 /\ consumed + Len(new) <= Len(input)
      BY <1>4
    <2>2. \A x \in 1 .. Len(new) : new[x] = input[consumed + x]
      BY <1>4
    <2>3. ChunkOf(carry \o new, input, consumed - Len(carry) + 1, consumed + Len(new))
      BY <1>3, <1>4, <1>5, <1>6, <2>1, <2>2, JoinedChunk
    <2> QED
      BY <1>4, <2>3
  <1>8. Base \in Nat
    BY <1>3, <1>5 DEF Base
  <1>9. Base \in Stream!Starts(input)
    <2>1. consumed # Len(input)
      BY <1>3, <1>4
    <2> QED
      BY <2>1 DEF CarryInv
  <1> QED
    BY <1>2, <1>4, <1>7, <1>8, <1>9 DEF Base

\* All lines but the last.
ButLast(lines) == SubSeq(lines, 1, Len(lines) - 1)

LEMMA ButLastIs ==
  ASSUME NEW L, NEW lines \in Seq(L), Len(lines) # 0
  PROVE  /\ ButLast(lines) \in Seq(L) /\ Len(ButLast(lines)) + 1 = Len(lines)
         /\ Append(ButLast(lines), lines[Len(lines)]) = lines
         /\ lines[Len(lines)] \in L
  <1>1. PICK m \in Nat : m = Len(lines) /\ lines \in [1 .. m -> L]
    OBVIOUS
  <1>2. m # 0 /\ m - 1 \in Nat
    BY <1>1
  <1>3. SubSeq(lines, 1, m - 1) = [k \in 1 .. m - 1 |-> lines[k]]
    BY <1>1, <1>2
  <1>4. PICK rest : rest = [k \in 1 .. m - 1 |-> lines[k]]
    OBVIOUS
  <1>5. rest \in [1 .. m - 1 -> L]
    BY <1>1, <1>4
  <1>6. rest \in Seq(L) /\ Len(rest) = m - 1
    BY <1>2, <1>4, <1>5
  <1>7. lines[m] \in L
    BY <1>1, <1>2
  <1>8. Append(rest, lines[m]) = lines
    <2>1. Append(rest, lines[m]) = [k \in 1 .. m |-> IF k = m THEN lines[m] ELSE rest[k]]
      BY <1>2, <1>6, <1>7
    <2>2. \A k \in 1 .. m : k # m => rest[k] = lines[k]
      BY <1>2, <1>4
    <2>3. [k \in 1 .. m |-> IF k = m THEN lines[m] ELSE rest[k]] = [k \in 1 .. m |-> lines[k]]
      BY <2>2
    <2>4. lines = [k \in 1 .. m |-> lines[k]]
      BY <1>1
    <2> QED
      BY <2>1, <2>3, <2>4
  <1>9. ButLast(lines) = rest
    BY <1>1, <1>3, <1>4 DEF ButLast
  <1>10. Len(rest) + 1 = m
    BY <1>2, <1>6
  <1> QED
    BY <1>1, <1>6, <1>7, <1>8, <1>9, <1>10

\* What Read makes of the lines of a chunk: what is pending, and what is unfinished.
MadeOf(lines, newline, last, p, c) ==
    \/ newline /\ p = lines /\ c = <<>>
    \/ ~newline /\ ~last /\ p = ButLast(lines) /\ c = lines[Len(lines)]
    \/ ~newline /\ last /\ p = lines /\ c = <<>>

\* c is what is unfinished of a text when e bytes of it were read.
Unfinished(c, s, e) ==
    /\ Len(c) \in Nat /\ Len(c) <= e
    /\ c = SubSeq(s, e - Len(c) + 1, e)
    /\ e - Len(c) + 1 \in Stream!Starts(s) \/ (e = Len(s) /\ c = <<>>)

\* Nothing is unfinished after a newline, or at the end.
LEMMA NothingUnfinished ==
  ASSUME NEW s \in Text, NEW e \in 0 .. Len(s), e + 1 \in Stream!Starts(s) \/ e = Len(s)
  PROVE  Unfinished(<<>>, s, e) /\ e - Len(<<>>) + 1 = e + 1
  <1>1. PICK n \in Nat : n = Len(s)
    BY StartsType
  <1>2. e \in 0 .. n /\ Len(<<>>) = 0
    BY <1>1
  <1>3. e - Len(<<>>) + 1 = e + 1
    BY <1>2
  <1>4. SubSeq(s, e + 1, e) = <<>>
    BY <1>1, <1>2 DEF Text
  <1> QED
    BY <1>1, <1>2, <1>3, <1>4 DEF Unfinished

\* A read makes p pending and leaves c unfinished, of a chunk from b to e of a text.
ReadOf(s, b, e, chunk, last, p, c) ==
    /\ ChunkOf(chunk, s, b, e) /\ b \in Stream!Starts(s)
    /\ last => e = Len(s)
    /\ MadeOf(Stream!Split(chunk), chunk[Len(chunk)] = "n", last, p, c)

\* Then p stands for the text from b up to where c begins.
ReadLeaves(s, b, e, p, c) ==
    /\ p \in Seq(Line) /\ c \in Line
    /\ Unfinished(c, s, e)
    /\ \E at : Covers(at, p, s) /\ at[1] = b /\ at[Len(p) + 1] = e - Len(c) + 1

\* What a read makes pending stands for the text up to what it leaves unfinished.
LEMMA ReadPending ==
  ASSUME NEW s, NEW b, NEW e, NEW chunk, NEW last, NEW p, NEW c,
         ReadOf(s, b, e, chunk, last, p, c)
  PROVE  ReadLeaves(s, b, e, p, c)
  <1>a. PICK lines : lines = Stream!Split(chunk)
    OBVIOUS
  <1>b. /\ ChunkOf(chunk, s, b, e) /\ b \in Stream!Starts(s)
        /\ last => e = Len(s)
        /\ MadeOf(lines, chunk[Len(chunk)] = "n", last, p, c)
    BY <1>a DEF ReadOf
  <1>1. PICK n \in Nat : n = Len(s) /\ s \in [1 .. n -> Stream!Byte]
    BY <1>b DEF ChunkOf, Text
  <1>2. s \in Text /\ e \in 0 .. n
    BY <1>1, <1>b DEF ChunkOf
  <1>3. lines \in Seq(Line) /\ Len(lines) # 0
    BY <1>a, <1>b, ReadLines
  <1>4. PICK at : /\ Covers(at, ButLast(lines), s)
                  /\ at[1] = b
                  /\ LastLine(lines[Len(lines)], s, at[Len(lines)], e, chunk[Len(chunk)] = "n")
    BY <1>a, <1>b, ReadLines DEF ButLast
  <1>5. PICK rest, line, i : rest = ButLast(lines) /\ line = lines[Len(lines)] /\ i = at[Len(lines)]
    OBVIOUS
  <1>6. /\ rest \in Seq(Line) /\ line \in Line /\ Append(rest, line) = lines
        /\ Len(rest) + 1 = Len(lines)
    BY <1>3, <1>5, ButLastIs
  <1>7. Covers(at, rest, s) /\ at[1] = b /\ at[Len(rest) + 1] = i
        /\ LastLine(line, s, i, e, chunk[Len(chunk)] = "n")
    BY <1>4, <1>5, <1>6
  <1>8. i \in Stream!Starts(s) /\ i \in 1 .. n + 1
    BY <1>1, <1>2, <1>7, StartsType DEF LastLine
  <1>9. e + 1 \in Nat \ {0}
    BY <1>2
  <1>10. <<>> \in Line
    BY DEF Line
  <1>11. ASSUME chunk[Len(chunk)] = "n"
        PROVE  /\ p \in Seq(Line) /\ c \in Line /\ Unfinished(c, s, e)
               /\ \E new : Covers(new, p, s) /\ new[1] = b
                            /\ new[Len(p) + 1] = e - Len(c) + 1
    <2>1. i = e + 1 /\ line = <<>> /\ p = lines /\ c = <<>>
      BY <1>7, <1>11, <1>b DEF LastLine, MadeOf
    <2>2. Stands(line, s, i, e + 1)
      <3>1. ~Stream!IsData(line)
        BY <2>1 DEF Stream!IsData
      <3>2. Data(s) \in SUBSET Nat
        BY <1>2, DataType
      <3>3. \A d \in Data(s) : ~(i <= d /\ d < e + 1)
        BY <1>2, <2>1, <3>2
      <3>4. i <= e + 1
        BY <1>9, <2>1
      <3> QED
        BY <3>1, <3>3, <3>4 DEF Stands
    <2>3. \E new : Covers(new, Append(rest, line), s)
                   /\ new[1] = at[1] /\ new[Len(Append(rest, line)) + 1] = e + 1
      <3>1. Stands(line, s, at[Len(rest) + 1], e + 1)
        BY <1>7, <2>2
      <3>2. Covers(at, rest, s) /\ rest \in Seq(Line) /\ line \in Line
        BY <1>6, <1>7
      <3> QED
        BY <1>9, <3>1, <3>2, CoversAppend
    <2>4. Unfinished(<<>>, s, e) /\ e - Len(<<>>) + 1 = e + 1
      BY <1>1, <1>2, <1>8, <2>1, NothingUnfinished
    <2> QED
      BY <1>3, <1>6, <1>7, <1>10, <2>1, <2>3, <2>4
  <1>12. ASSUME chunk[Len(chunk)] # "n" /\ ~last
        PROVE  /\ p \in Seq(Line) /\ c \in Line /\ Unfinished(c, s, e)
               /\ \E new : Covers(new, p, s) /\ new[1] = b
                            /\ new[Len(p) + 1] = e - Len(c) + 1
    <2>1. p = rest /\ c = line
      BY <1>5, <1>12, <1>b DEF MadeOf
    <2>2. i <= e /\ line = SubSeq(s, i, e)
      BY <1>7, <1>12 DEF LastLine
    <2>3. PICK l : l = Len(line)
      OBVIOUS
    <2>4. l = e - i + 1
      <3>1. i \in 1 .. n + 1 /\ e \in i .. n
        BY <1>2, <1>8, <2>2
      <3>2. ChunkOf(SubSeq(s, i, e), s, i, e)
        BY <1>1, <1>2, <3>1, SubSeqIsChunk
      <3> QED
        BY <2>2, <2>3, <3>2 DEF ChunkOf
    <2>5. l \in Nat /\ l <= e /\ e - l + 1 = i
      <3>1. i \in Int /\ e \in Int /\ 1 <= i /\ i <= e
        BY <1>2, <1>8, <2>2
      <3> QED
        BY <2>4, <3>1
    <2>6. Unfinished(line, s, e)
      BY <1>8, <2>2, <2>3, <2>5 DEF Unfinished
    <2> QED
      BY <1>6, <1>7, <2>1, <2>3, <2>5, <2>6
  <1>13. ASSUME chunk[Len(chunk)] # "n" /\ last
        PROVE  /\ p \in Seq(Line) /\ c \in Line /\ Unfinished(c, s, e)
               /\ \E new : Covers(new, p, s) /\ new[1] = b
                            /\ new[Len(p) + 1] = e - Len(c) + 1
    <2>1. p = lines /\ c = <<>> /\ e = n
      BY <1>1, <1>13, <1>b DEF MadeOf
    <2>2. /\ i <= e /\ line = Stream!LineAt(s, i)
          /\ \A d \in Stream!Starts(s) : i <= d /\ d <= e => d = i
      BY <1>1, <1>7, <1>13, <2>1 DEF LastLine
    <2>3. Stands(line, s, i, e + 1)
      <3>1. \A d \in Data(s) : d \in Stream!Starts(s) /\ d \in Nat /\ Stream!IsData(Stream!LineAt(s, d))
        BY <1>2, DataType DEF Data
      <3>2. \A d \in Data(s) : i <= d /\ d < e + 1 => d = i /\ Stream!IsData(line)
        BY <1>2, <2>2, <3>1
      <3>3. i <= e + 1 /\ i < e + 1
        BY <1>2, <1>8, <2>2
      <3> QED
        BY <1>8, <2>2, <3>2, <3>3 DEF Stands
    <2>4. \E new : Covers(new, Append(rest, line), s)
                   /\ new[1] = at[1] /\ new[Len(Append(rest, line)) + 1] = e + 1
      <3>1. Stands(line, s, at[Len(rest) + 1], e + 1)
        BY <1>7, <2>3
      <3>2. Covers(at, rest, s) /\ rest \in Seq(Line) /\ line \in Line
        BY <1>6, <1>7
      <3> QED
        BY <1>9, <3>1, <3>2, CoversAppend
    <2>5. Unfinished(<<>>, s, e) /\ e - Len(<<>>) + 1 = e + 1
      BY <1>1, <1>2, <2>1, NothingUnfinished
    <2> QED
      BY <1>3, <1>6, <1>7, <1>10, <2>1, <2>4, <2>5
  <1>14. p \in Seq(Line) /\ c \in Line /\ Unfinished(c, s, e)
         /\ \E new : Covers(new, p, s) /\ new[1] = b /\ new[Len(p) + 1] = e - Len(c) + 1
    BY <1>11, <1>12, <1>13
  <1> QED
    BY <1>14 DEF ReadLeaves

\* Read makes that of the lines it splits a chunk into.
LEMMA ReadMakes ==
  ASSUME ScannerInv, NEW n, NEW last \in BOOLEAN, Read(n, last),
         NEW chunk, chunk = carry \o SubSeq(Left, 1, n),
         NEW lines, lines = Stream!Split(chunk),
         chunk[Len(chunk)] # "n" => lines[Len(lines)] # <<>>,
         lines = Append(ButLast(lines), lines[Len(lines)])
  PROVE  MadeOf(lines, chunk[Len(chunk)] = "n", last, pending', carry')
  <1>1. PICK newline \in BOOLEAN : newline <=> chunk[Len(chunk)] = "n"
    OBVIOUS
  <1>2. LET whole == IF newline THEN lines ELSE ButLast(lines)
            rest  == IF newline THEN <<>> ELSE lines[Len(lines)]
        IN  IF last /\ rest # <<>>
            THEN pending' = Append(whole, rest) /\ carry' = <<>>
            ELSE pending' = whole /\ carry' = rest
    BY <1>1 DEF Read, ButLast
  <1>3. CASE newline
    BY <1>1, <1>2, <1>3 DEF MadeOf
  <1>4. CASE ~newline /\ ~last
    BY <1>1, <1>2, <1>4 DEF MadeOf
  <1>5. CASE ~newline /\ last
    BY <1>1, <1>2, <1>5 DEF MadeOf
  <1> QED
    BY <1>3, <1>4, <1>5

\* The lines of what was read become pending.
LEMMA ReadStep ==
  ASSUME ScannerInv, NEW n \in 1 .. BufSize, NEW last \in BOOLEAN, Read(n, last)
  PROVE  ScannerInv' /\ UNCHANGED Stream!vars
  <1>1. /\ ~ended /\ pending = <<>> /\ n \in 1 .. Len(Left) /\ (last => n = Len(Left))
        /\ consumed' = consumed + n
        /\ input' = input /\ completed' = completed /\ ended' = ended /\ delivered' = delivered
    BY DEF Read
  <1>2. PICK chunk : chunk = carry \o SubSeq(Left, 1, n)
    OBVIOUS
  <1>3. PICK lines : lines = Stream!Split(chunk)
    OBVIOUS
  <1>4. /\ n \in Nat \ {0} /\ consumed + n <= Len(input)
        /\ Base \in Nat /\ Base \in Stream!Starts(input)
        /\ ChunkOf(carry \o SubSeq(Left, 1, n), input, Base, consumed + n)
    BY <1>1, ReadChunk DEF ScannerInv
  <1>5. ChunkOf(chunk, input, Base, consumed + n)
    BY <1>2, <1>4
  <1>6. input \in Text /\ Len(input) \in Nat /\ consumed \in Nat
    BY ScannerTypes DEF ScannerInv
  <1>7. lines \in Seq(Line) /\ Len(lines) # 0
        /\ \E i : LastLine(lines[Len(lines)], input, i, consumed + n, chunk[Len(chunk)] = "n")
    BY <1>3, <1>4, <1>5, ReadLines
  <1>8. chunk[Len(chunk)] # "n" => lines[Len(lines)] # <<>>
    BY <1>7 DEF LastLine
  <1>9. lines = Append(ButLast(lines), lines[Len(lines)])
    BY <1>7, ButLastIs
  <1>10. MadeOf(lines, chunk[Len(chunk)] = "n", last, pending', carry')
    BY <1>2, <1>3, <1>8, <1>9, ReadMakes
  <1>11. last => consumed + n = Len(input)
    <2> SUFFICES ASSUME last PROVE consumed + n = Len(input)
      OBVIOUS
    <2>1. PICK left : left = SubSeq(input, consumed + 1, Len(input))
      OBVIOUS
    <2>2. n = Len(left)
      BY <1>1, <2>1 DEF Left
    <2>3. ChunkOf(SubSeq(input, consumed + 1, Len(input)), input, consumed + 1, Len(input))
      <3>1. consumed + 1 \in 1 .. Len(input) + 1 /\ Len(input) \in consumed + 1 .. Len(input)
        BY <1>4, <1>6
      <3> QED
        BY <1>6, <3>1, SubSeqIsChunk
    <2>4. Len(left) = Len(input) - (consumed + 1) + 1
      BY <2>1, <2>3 DEF ChunkOf
    <2> QED
      BY <1>6, <2>2, <2>4
  <1>12. PICK p, c, e : p = pending' /\ c = carry' /\ e = consumed + n
    OBVIOUS
  <1>13. /\ p \in Seq(Line) /\ c \in Line
         /\ Unfinished(c, input, e)
         /\ \E at : Covers(at, p, input) /\ at[1] = Base /\ at[Len(p) + 1] = e - Len(c) + 1
    <2>1. MadeOf(lines, chunk[Len(chunk)] = "n", last, p, c)
      BY <1>10, <1>12
    <2>2. ChunkOf(chunk, input, Base, e) /\ (last => e = Len(input))
      BY <1>5, <1>11, <1>12
    <2>3. ReadOf(input, Base, e, chunk, last, p, c)
      BY <1>3, <1>4, <2>1, <2>2 DEF ReadOf
    <2>4. ReadLeaves(input, Base, e, p, c)
      BY <2>3, ReadPending
    <2> QED
      BY <2>4 DEF ReadLeaves
  <1>14. Base' = e - Len(c) + 1
    BY <1>1, <1>12 DEF Base
  <1>15. ScannerTypeOK'
    <2>1. pending' \in Seq(Seq(Stream!Byte \ {"n"})) /\ carry' \in Seq(Stream!Byte \ {"n"})
      BY <1>12, <1>13 DEF Line
    <2>2. consumed' \in 0 .. Len(input)
      BY <1>1, <1>4, <1>6
    <2> QED
      BY <1>1, <2>1, <2>2 DEF ScannerTypeOK, ScannerInv
  <1>16. CarryInv'
    <2>1. Len(carry') <= consumed'
      BY <1>1, <1>12, <1>13 DEF Unfinished
    <2>2. carry' = SubSeq(input', Base', consumed')
      BY <1>1, <1>12, <1>13, <1>14 DEF Unfinished
    <2>3. Base' \in Stream!Starts(input') \/ (consumed' = Len(input') /\ carry' = <<>>)
      BY <1>1, <1>12, <1>13, <1>14 DEF Unfinished
    <2> QED
      BY <2>1, <2>2, <2>3 DEF CarryInv
  <1>17. PendingInv'
    <2>1. PICK at : Covers(at, p, input) /\ at[1] = Base /\ at[Len(p) + 1] = e - Len(c) + 1
      BY <1>13
    <2>2. Seen(input, Base, delivered)
      BY <1>1, NonePending
    <2>3. Pending(at, pending', input', Base', delivered')
      BY <1>1, <1>12, <1>14, <2>1, <2>2 DEF Pending
    <2> QED
      BY <2>3 DEF PendingInv
  <1>18. UNCHANGED Stream!vars
    BY <1>1 DEF Stream!vars
  <1> QED
    BY <1>15, <1>16, <1>17, <1>18 DEF ScannerInv

\* Every step keeps the invariant, and is one of the event stream or none.
LEMMA ScannerStep ==
  ASSUME ScannerInv, [Scan]_scannerVars
  PROVE  ScannerInv' /\ [Stream!Next]_(Stream!vars)
  <1>1. CASE ScanEvent
    BY <1>1, ScanEventStep DEF Stream!Next
  <1>2. CASE ScanDone
    BY <1>2, ScanDoneStep DEF Stream!Next
  <1>3. CASE ScanOther
    BY <1>3, ScanOtherStep
  <1>4. ASSUME NEW n \in 1 .. BufSize, NEW last \in BOOLEAN, Read(n, last)
        PROVE  ScannerInv' /\ [Stream!Next]_(Stream!vars)
    BY <1>4, ReadStep
  <1>5. CASE ReadNothing
    BY <1>5, ReadNothingStep
  <1>6. CASE ReadEnd
    BY <1>6, ReadEndStep DEF Stream!Next
  <1>7. CASE UNCHANGED scannerVars
    <2>1. /\ input' = input /\ consumed' = consumed /\ carry' = carry /\ pending' = pending
          /\ completed' = completed /\ ended' = ended /\ delivered' = delivered
      BY <1>7 DEF scannerVars
    <2>2. ScannerTypeOK'
      BY <2>1 DEF ScannerInv, ScannerTypeOK
    <2>3. CarryInv' /\ Base' = Base
      BY <2>1, CarryStays DEF ScannerInv
    <2>4. PendingInv'
      BY <2>1, <2>3 DEF ScannerInv, PendingInv
    <2>5. UNCHANGED Stream!vars
      BY <2>1 DEF Stream!vars
    <2> QED
      BY <2>2, <2>3, <2>4, <2>5 DEF ScannerInv
  <1> QED
    BY <1>1, <1>2, <1>3, <1>4, <1>5, <1>6, <1>7 DEF Scan

\* However the stream is cut into chunks, the scanner keeps its unfinished line,
\* its pending lines and what it handed out in step with the stream.
THEOREM ScannerInvariant == ScannerSpec => []ScannerInv
  BY ScannerInitKeeps, ScannerStep, PTL DEF ScannerSpec

\* What the scanner has is of its types: no pending line has a newline in it, and
\* a stream that is completed has ended.
THEOREM ScannerTypeCorrect == ScannerSpec => []ScannerTypeOK
  <1>1. ScannerInv => ScannerTypeOK
    BY DEF ScannerInv
  <1> QED
    BY <1>1, ScannerInvariant, PTL

\* For any length of the buffer and any stream, in whatever chunks it arrives: the
\* events come out one by one, in order, none twice, in pieces or not at all, up to
\* [DONE] or the end, and the scanner knows which of the two it was.
THEOREM ScannerImplementsEventStream == ScannerSpec => ImplementsEventStream
  <1>1. ScannerInit => Stream!Init
    <2> SUFFICES ASSUME ScannerInit PROVE Stream!Init
      OBVIOUS
    <2>1. input \in Text /\ delivered = <<>> /\ ended = FALSE
      BY ScannerInitKeeps, ScannerTypes DEF ScannerInit, ScannerInv
    <2> QED
      BY <2>1 DEF Stream!Init, Text
  <1>2. ScannerInv /\ [Scan]_scannerVars => [Stream!Next]_(Stream!vars)
    BY ScannerStep
  <1> QED
    BY <1>1, <1>2, ScannerInvariant, PTL DEF ScannerSpec, ImplementsEventStream, Stream!Spec

=============================================================================
