----------------------------- MODULE EventStream -----------------------------
(***************************************************************************)
(* What the reader of an upstream's stream promises, without reads and     *)
(* buffers: the events of the stream come out one by one, each once and in *)
(* order, up to [DONE] or to where the stream breaks off, and the reader   *)
(* knows which of the two it was.                                          *)
(*                                                                         *)
(* A stream is a sequence of bytes, here of four letters:                  *)
(*   "n"  a newline                                                        *)
(*   "d"  the text `data: ' that begins an event                           *)
(*   "["  the text `[DONE]'                                                *)
(*   "x"  any other text                                                   *)
(* A text is one letter because the reader looks for nothing but newlines  *)
(* before it has the whole line.                                           *)
(***************************************************************************)
EXTENDS Naturals, Sequences, FiniteSets

VARIABLES
    input,     \* all that the upstream sends before it ends, or breaks off
    delivered, \* the events that came out
    result     \* "open", and then "completed" or "broken off"

vars == <<input, delivered, result>>

Byte == {"n", "d", "[", "x"}

\* The k-th of some positions.
Nth(S, k) == CHOOSE i \in S : Cardinality({j \in S : j <= i}) = k

\* Where the lines of a text begin, and the line that begins somewhere.
Newlines(s) == {i \in DOMAIN s : s[i] = "n"}
Starts(s) == {1} \cup {i + 1 : i \in Newlines(s)}
LineAt(s, i) ==
    LET ends == {j \in Newlines(s) \cup {Len(s) + 1} : j >= i}
    IN  SubSeq(s, i, Nth(ends, 1) - 1)

\* bytes.Split(s, "\n")
Split(s) == [k \in 1 .. Cardinality(Starts(s)) |-> LineAt(s, Nth(Starts(s), k))]

\* A line that begins with `data: ', and the one that says [DONE] and no more.
IsData(line) == line # <<>> /\ Head(line) = "d"
IsDone(line) == line = <<"d", "[">>

HasDone(s) == \E i \in Starts(s) : IsDone(LineAt(s, i))

\* Where the events of a stream begin: its data lines up to the first [DONE].
Events(s) ==
    {i \in Starts(s) :
        /\ IsData(LineAt(s, i))
        /\ \A j \in Starts(s) : j <= i => ~IsDone(LineAt(s, j))}

Init ==
    /\ input \in Seq(Byte)
    /\ delivered = <<>>
    /\ result = "open"

\* The next event.
Deliver ==
    /\ result = "open"
    /\ Len(delivered) < Cardinality(Events(input))
    /\ delivered' =
         Append(delivered, LineAt(input, Nth(Events(input), Len(delivered) + 1)))
    /\ UNCHANGED <<input, result>>

\* All events are there.
Finish ==
    /\ result = "open"
    /\ Len(delivered) = Cardinality(Events(input))
    /\ result' = IF HasDone(input) THEN "completed" ELSE "broken off"
    /\ UNCHANGED <<input, delivered>>

Next == Deliver \/ Finish

Spec == Init /\ [][Next]_vars
FairSpec == Spec /\ WF_vars(Next)

=============================================================================
