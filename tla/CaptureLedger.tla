----------------------------- MODULE CaptureLedger -----------------------------
(***************************************************************************)
(* What the capture pipeline promises, without channel, worker, files or  *)
(* retries: entries are accepted into a queue in some order; from there   *)
(* an entry is either committed to the index, in the order of acceptance, *)
(* or lost for good.  An entry is accepted at most once, committed at     *)
(* most once, and once it left the queue its fate never changes.          *)
(***************************************************************************)
EXTENDS Naturals, Sequences

CONSTANT Entry

VARIABLES
    queue,  \* accepted, fate open
    index,  \* committed, in commit order
    lost    \* accepted, and never to be committed

vars == <<queue, index, lost>>

Elements(s) == {s[i] : i \in 1..Len(s)}

Init == queue = <<>> /\ index = <<>> /\ lost = {}

Accept(e) ==
    /\ e \notin Elements(queue) \cup Elements(index) \cup lost
    /\ queue' = Append(queue, e)
    /\ UNCHANGED <<index, lost>>

\* The n oldest entries are committed together.
Commit(n) ==
    /\ index' = index \o SubSeq(queue, 1, n)
    /\ queue' = SubSeq(queue, n + 1, Len(queue))
    /\ UNCHANGED lost

\* The entries queued from position m to n are lost.
Lose(m, n) ==
    /\ queue' = SubSeq(queue, 1, m - 1) \o SubSeq(queue, n + 1, Len(queue))
    /\ lost' = lost \cup {queue[i] : i \in m..n}
    /\ UNCHANGED index

Settle ==
    \/ \E n \in 1..Len(queue) : Commit(n)
    \/ \E m \in 1..Len(queue) : \E n \in m..Len(queue) : Lose(m, n)

Next == (\E e \in Entry : Accept(e)) \/ Settle

Spec == Init /\ [][Next]_vars

\* The queue never stands still for ever.
FairSpec == Spec /\ WF_vars(Settle)

=============================================================================
