----------------------------- MODULE SSEScanner -----------------------------
(***************************************************************************)
(* SSEScanner of internal/proxy/stream.go: it reads an upstream's stream   *)
(* in chunks that end anywhere, keeps an unfinished line in carry and the  *)
(* lines of a chunk in pending, and hands out one event per Scan.          *)
(*                                                                         *)
(* The stream may end at any byte: after [DONE], because the upstream has  *)
(* no more, because the connection broke or because the client timed out.  *)
(* The time to the first chunk and the metadata of an event are left out.  *)
(***************************************************************************)
EXTENDS Naturals, Sequences

CONSTANTS
    BufSize,  \* len(buf), what one Read returns at most
    MaxLen    \* bound: how long a stream is

ASSUME ScannerAssumption == BufSize \in Nat \ {0} /\ MaxLen \in Nat

VARIABLES
    input,     \* the bytes of the stream
    consumed,  \* how many of them were read
    carry,     \* the unfinished line
    pending,   \* the lines that were read and not looked at
    completed, \* [DONE] was seen
    ended,     \* Scan has returned false
    delivered  \* the lines Scan has returned true for

scannerVars == <<input, consumed, carry, pending, completed, ended, delivered>>

Stream == INSTANCE EventStream WITH
    result <- IF ~ended THEN "open" ELSE IF completed THEN "completed" ELSE "broken off"

Streams == UNION {[1 .. n -> Stream!Byte] : n \in 0 .. MaxLen}

ScannerTypeOK ==
    /\ input \in Seq(Stream!Byte)
    /\ consumed \in 0 .. Len(input)
    /\ carry \in Seq(Stream!Byte \ {"n"})
    /\ pending \in Seq(Seq(Stream!Byte \ {"n"}))
    /\ completed \in BOOLEAN /\ ended \in BOOLEAN
    /\ delivered \in Seq(Seq(Stream!Byte))
    /\ completed => ended

ScannerInit ==
    /\ input \in Streams
    /\ consumed = 0
    /\ carry = <<>>
    /\ pending = <<>>
    /\ completed = FALSE
    /\ ended = FALSE
    /\ delivered = <<>>

\* The next pending line is an event: Scan returns true.
ScanEvent ==
    /\ ~ended /\ pending # <<>>
    /\ Stream!IsData(Head(pending)) /\ ~Stream!IsDone(Head(pending))
    /\ delivered' = Append(delivered, Head(pending))
    /\ pending' = Tail(pending)
    /\ UNCHANGED <<input, consumed, carry, completed, ended>>

\* FAULT: Scan goes on after [DONE].
ScanDoneGoesOn ==
    /\ ~ended /\ pending # <<>>
    /\ Stream!IsDone(Head(pending))
    /\ completed' = TRUE
    /\ pending' = Tail(pending)
    /\ UNCHANGED <<input, consumed, carry, ended, delivered>>

\* ... or [DONE]: Scan returns false, what is pending is not looked at any more.
ScanDone ==
    /\ ~ended /\ pending # <<>>
    /\ Stream!IsDone(Head(pending))
    /\ completed' = TRUE
    /\ ended' = TRUE
    /\ pending' = Tail(pending)
    /\ UNCHANGED <<input, consumed, carry, delivered>>

\* ... or a comment, an empty line, another field.
ScanOther ==
    /\ ~ended /\ pending # <<>>
    /\ ~Stream!IsData(Head(pending))
    /\ pending' = Tail(pending)
    /\ UNCHANGED <<input, consumed, carry, completed, ended, delivered>>

Left == SubSeq(input, consumed + 1, Len(input))

\* FAULT: a chunk that ends in a line is not put together with the carry.
ReadWithoutCarry(n, last) ==
    /\ ~ended /\ pending = <<>>
    /\ n \in 1 .. Len(Left)
    /\ last => n = Len(Left)
    /\ consumed' = consumed + n
    /\ LET chunk == SubSeq(Left, 1, n)
           lines == Stream!Split(chunk)
       IN  IF chunk[n] = "n" \/ last
           THEN pending' = <<carry>> \o lines /\ carry' = <<>>
           ELSE pending' = SubSeq(lines, 1, Len(lines) - 1) /\ carry' = lines[Len(lines)]
    /\ UNCHANGED <<input, completed, ended, delivered>>

\* A Read of n bytes, which may say with the last of them that there are no more.
Read(n, last) ==
    /\ ~ended /\ pending = <<>>
    /\ n \in 1 .. Len(Left)
    /\ last => n = Len(Left)
    /\ consumed' = consumed + n
    /\ LET chunk == carry \o SubSeq(Left, 1, n)
           lines == Stream!Split(chunk)
           whole == IF chunk[Len(chunk)] = "n" THEN lines ELSE SubSeq(lines, 1, Len(lines) - 1)
           rest  == IF chunk[Len(chunk)] = "n" THEN <<>> ELSE lines[Len(lines)]
       IN  IF last /\ rest # <<>>
           THEN pending' = Append(whole, rest) /\ carry' = <<>>
           ELSE pending' = whole /\ carry' = rest
    /\ UNCHANGED <<input, completed, ended, delivered>>

\* A Read that returns nothing: an unfinished line is the last one,
ReadNothing ==
    /\ ~ended /\ pending = <<>>
    /\ Left = <<>>
    /\ carry # <<>>
    /\ pending' = <<carry>>
    /\ carry' = <<>>
    /\ UNCHANGED <<input, consumed, completed, ended, delivered>>

\* ... and without one Scan returns false.
ReadEnd ==
    /\ ~ended /\ pending = <<>>
    /\ Left = <<>>
    /\ carry = <<>>
    /\ ended' = TRUE
    /\ UNCHANGED <<input, consumed, carry, pending, completed, delivered>>

Scan ==
    \/ ScanEvent
    \/ ScanDone
    \/ ScanOther
    \/ \E n \in 1 .. BufSize, last \in BOOLEAN : Read(n, last)
    \/ ReadNothing
    \/ ReadEnd

ScannerSpec == ScannerInit /\ [][Scan]_scannerVars

\* A Read returns: the client that made the request has a timeout.
FairScannerSpec == ScannerSpec /\ WF_scannerVars(Scan)

(***************************************************************************)
(* Properties.                                                             *)
(***************************************************************************)

\* However the stream is cut into chunks, its events come out one by one, in
\* order, none of them twice, in pieces or not at all, and the scanner ends up
\* knowing whether there was a [DONE].
ImplementsEventStream == Stream!Spec

\* ... and every event comes out, and the end is reported, if every Read returns.
ImplementsFairEventStream == Stream!FairSpec

=============================================================================
