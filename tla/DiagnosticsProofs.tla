-------------------------- MODULE DiagnosticsProofs --------------------------
(***************************************************************************)
(* Proofs about Diagnostics, for any number of rows, targets, latencies,   *)
(* windows and limits, any two percentiles and any retention.              *)
(*                                                                         *)
(* First what computePercentile returns, whatever it is called with.  Then *)
(* the rows: they are only added, stay until they are older than the       *)
(* retention (Stays), and never come back (Grows).  Then the statements of *)
(* an answer (StillSeen): if its end is undisturbed, so was every moment   *)
(* since the rows were counted, hence every statement saw those rows and   *)
(* the figures that have been read are functions of them (Told).           *)
(***************************************************************************)
EXTENDS Diagnostics, FiniteSetTheorems, WellFoundedInduction, TLAPS

(***************************************************************************)
(* Percentiles.                                                            *)
(***************************************************************************)

\* A set of numbers that is not empty has a least one.
LEMMA LeastNumber ==
    ASSUME NEW S \in SUBSET Nat, S # {}
    PROVE  \E v \in S : \A w \in S : v <= w
<1>1. PICK v \in S : \A w \in S : <<w, v>> \notin OpToRel(<, Nat)
    BY NatLessThanWellFounded, WFMin
<1>2. \A w \in S : ~(w < v)
    BY <1>1 DEF OpToRel
<1> QED
    BY <1>2

\* Rows are finitely many, and their latencies are bounded.
LEMMA RowsFinite ==
    ASSUME LogsTypeOK, NEW S \in SUBSET DOMAIN log
    PROVE  /\ IsFiniteSet(S) /\ Cardinality(S) \in 0 .. MaxRows /\ S \subseteq RowId
           /\ \A i \in S : log[i] \in Row
           /\ \A i \in S : log[i].latency \in 0 .. MaxLatency
<1>1. log \in Seq(Row) /\ Len(log) \in 0 .. MaxRows /\ MaxRows \in Nat
    BY RequestLogsAssumption DEF LogsTypeOK
<1>2. DOMAIN log = 1 .. Len(log)
    BY <1>1
<1>3. /\ IsFiniteSet(1 .. Len(log)) /\ Cardinality(1 .. Len(log)) = Len(log)
    <2>1. 1 \in Int /\ Len(log) \in Int /\ Len(log) >= 0 /\ Len(log) - 1 + 1 = Len(log)
        BY <1>1
    <2>2. /\ IsFiniteSet(1 .. Len(log))
          /\ Cardinality(1 .. Len(log)) = IF 1 > Len(log) THEN 0 ELSE Len(log) - 1 + 1
        BY <2>1, FS_Interval
    <2> QED
        BY <2>1, <2>2
<1>4. IsFiniteSet(S) /\ Cardinality(S) <= Len(log)
    BY <1>2, <1>3, FS_Subset
<1>5. Cardinality(S) \in Nat
    BY <1>4, FS_CardinalityType
<1>6. S \subseteq RowId
    BY <1>1, <1>2 DEF RowId
<1>7. \A i \in S : log[i] \in Row
    BY <1>1, <1>2
<1>8. \A i \in S : log[i].latency \in 0 .. MaxLatency
    BY <1>7 DEF Row
<1> QED
    BY <1>1, <1>4, <1>5, <1>6, <1>7, <1>8

\* The index of a percentile is one of n, with pct of a hundred parts before it.
LEMMA IndexBounds ==
    ASSUME NEW n \in Nat \ {0}, NEW pct \in 0 .. 100
    PROVE  /\ Index(n, pct) \in 0 .. n - 1
           /\ 100 * Index(n, pct) <= n * pct
           /\ n * pct <= 100 * (Index(n, pct) + 1)
<1>1. n * pct \in Nat /\ n * pct <= n * 100
    OBVIOUS
<1> DEFINE p == n * pct
<1>2. p \in Nat /\ p <= n * 100
    BY <1>1
<1> HIDE DEF p
<1>3. p \div 100 \in Nat /\ 100 * (p \div 100) <= p /\ p < 100 * ((p \div 100) + 1)
    BY <1>2
<1>4. Index(n, pct) = IF p \div 100 <= n - 1 THEN p \div 100 ELSE n - 1
    BY DEF Index, Smaller, p
<1>5. /\ Index(n, pct) \in 0 .. n - 1
      /\ 100 * Index(n, pct) <= p
      /\ p <= 100 * (Index(n, pct) + 1)
    BY <1>2, <1>3, <1>4
<1> QED
    BY <1>5 DEF p

\* A higher percentile has no lower index.
LEMMA IndexMonotone ==
    ASSUME NEW n \in Nat \ {0}, NEW low \in 0 .. 100, NEW high \in 0 .. 100, low <= high
    PROVE  Index(n, low) <= Index(n, high)
<1> DEFINE p == n * low
           q == n * high
<1>1. p \in Nat /\ q \in Nat /\ p <= q
    OBVIOUS
<1>2. Index(n, low) = Smaller(p \div 100, n - 1) /\ Index(n, high) = Smaller(q \div 100, n - 1)
    BY DEF Index
<1> HIDE DEF p, q
<1>3. p \div 100 \in Nat /\ q \div 100 \in Nat /\ p \div 100 <= q \div 100
    BY <1>1
<1> QED
    BY <1>2, <1>3 DEF Smaller

\* How many latencies are sorted.
Sorted(S) == Smaller(Cardinality(Timed(S)), Cap)

\* The latencies at most v are the more the larger v is.
LEMMA AtMostFinite ==
    ASSUME LogsTypeOK, NEW S \in SUBSET DOMAIN log, NEW v
    PROVE  /\ IsFiniteSet(Timed(S)) /\ Cardinality(Timed(S)) \in Nat
           /\ IsFiniteSet(AtMost(S, v)) /\ Cardinality(AtMost(S, v)) \in Nat
           /\ Cardinality(AtMost(S, v)) <= Cardinality(Timed(S))
<1>1. Timed(S) \subseteq S /\ AtMost(S, v) \subseteq Timed(S)
    BY DEF Timed, AtMost
<1> QED
    BY <1>1, RowsFinite, FS_Subset, FS_CardinalityType

\* computePercentile returns a latency, the least that more of the latencies than the
\* index are at most.
LEMMA PercentileIs ==
    ASSUME LogsTypeOK, NEW S \in SUBSET DOMAIN log, Timed(S) # {}, NEW pct \in 0 .. 100
    PROVE  LET v == Percentile(S, pct) IN
           /\ Sorted(S) \in Nat \ {0}
           /\ v \in 1 .. MaxLatency
           /\ Cardinality(AtMost(S, v)) > Index(Sorted(S), pct)
           /\ Cardinality(AtMost(S, v - 1)) <= Index(Sorted(S), pct)
           /\ \A w \in 1 .. MaxLatency :
                Cardinality(AtMost(S, w)) > Index(Sorted(S), pct) => v <= w
<1> DEFINE n == Sorted(S)
           index == Index(n, pct)
           reached == {w \in 1 .. MaxLatency : Cardinality(AtMost(S, w)) > index}
           v == Percentile(S, pct)
<1>1. n \in Nat \ {0} /\ n <= Cardinality(Timed(S))
    <2>1. Cardinality(Timed(S)) \in Nat \ {0}
        BY AtMostFinite, FS_EmptySet
    <2> QED
        BY <2>1, DiagnosticsAssumption DEF Sorted, Smaller
<1>2. index \in 0 .. n - 1
    BY <1>1, IndexBounds
<1>3. PICK i \in S : log[i].latency \in 1 .. MaxLatency
    BY RowsFinite, RequestLogsAssumption DEF Timed
<1>4. AtMost(S, MaxLatency) = Timed(S)
    BY RowsFinite DEF AtMost, Timed
<1>5. MaxLatency \in 1 .. MaxLatency
    BY <1>3, RequestLogsAssumption
<1>6. MaxLatency \in reached
    BY <1>1, <1>2, <1>4, <1>5, AtMostFinite
<1>7. \E w \in reached : \A u \in reached : w <= u
    <2>1. reached \in SUBSET Nat
        OBVIOUS
    <2> QED
        BY <1>6, <2>1, LeastNumber
<1>8. v = CHOOSE w \in reached : \A u \in reached : w <= u
    <2>1. v = Sets!Min(reached)
        BY <1>1 DEF Percentile, Sorted
    <2> QED
        BY <2>1 DEF Sets!Min
<1> HIDE DEF v
<1>9. v \in reached /\ \A u \in reached : v <= u
    BY <1>7, <1>8
<1>10. v \in 1 .. MaxLatency /\ Cardinality(AtMost(S, v)) > index
    BY <1>9
<1>11. \A w \in 1 .. MaxLatency : Cardinality(AtMost(S, w)) > index => v <= w
    BY <1>9
<1>12. Cardinality(AtMost(S, v - 1)) <= index
    <2>1. CASE v = 1
        <3>1. \A k \in S : log[k].latency \in Int
            BY RowsFinite, RequestLogsAssumption
        <3>2. AtMost(S, v - 1) = {}
            BY <2>1, <3>1 DEF AtMost, Timed
        <3>3. Cardinality(AtMost(S, v - 1)) = 0
            BY <3>2, FS_EmptySet
        <3> QED
            BY <1>1, <1>2, <3>3
    <2>2. CASE v # 1
        <3>1. v - 1 \in 1 .. MaxLatency /\ ~(v <= v - 1)
            <4>1. v \in 1 .. MaxLatency /\ v # 1 /\ MaxLatency \in Nat
                BY <1>10, <2>2, RequestLogsAssumption
            <4> QED
                BY <4>1
        <3>2. ~(Cardinality(AtMost(S, v - 1)) > index)
            BY <1>11, <3>1
        <3>3. Cardinality(AtMost(S, v - 1)) \in Nat
            BY AtMostFinite
        <3> QED
            BY <1>1, <1>2, <3>2, <3>3
    <2> QED
        BY <2>1, <2>2
<1> QED
    BY <1>1, <1>10, <1>11, <1>12 DEF v

\* computePercentile: of the same rows p99 is never below p95, whatever the latencies
\* are and wherever LIMIT cuts them off.
THEOREM PercentilesInOrder ==
    ASSUME LogsTypeOK, NEW S \in SUBSET DOMAIN log
    PROVE  Percentile(S, Low) <= Percentile(S, High)
<1>1. CASE Timed(S) = {}
    <2>1. Percentile(S, Low) = 0 /\ Percentile(S, High) = 0
        BY <1>1, FS_EmptySet, DiagnosticsAssumption DEF Percentile, Smaller
    <2> QED
        BY <2>1
<1>2. CASE Timed(S) # {}
    <2>1. Index(Sorted(S), Low) <= Index(Sorted(S), High)
        BY <1>2, PercentileIs, IndexMonotone, DiagnosticsAssumption
    <2>2. /\ Sorted(S) \in Nat \ {0}
          /\ Percentile(S, High) \in 1 .. MaxLatency
          /\ Cardinality(AtMost(S, Percentile(S, High))) > Index(Sorted(S), High)
        BY <1>2, PercentileIs, DiagnosticsAssumption
    <2>4. Index(Sorted(S), Low) \in Int /\ Index(Sorted(S), High) \in Int
        <3>1. Low \in 0 .. 100 /\ High \in 0 .. 100
            BY DiagnosticsAssumption
        <3>2. /\ Index(Sorted(S), Low) \in 0 .. Sorted(S) - 1
              /\ Index(Sorted(S), High) \in 0 .. Sorted(S) - 1
            BY <2>2, <3>1, IndexBounds
        <3> QED
            BY <3>2
    <2>5. Cardinality(AtMost(S, Percentile(S, High))) \in Nat
        BY AtMostFinite
    <2>3. Cardinality(AtMost(S, Percentile(S, High))) > Index(Sorted(S), Low)
        BY <2>1, <2>2, <2>4, <2>5
    <2> QED
        BY <1>2, <2>2, <2>3, PercentileIs, DiagnosticsAssumption
<1> QED
    BY <1>1, <1>2

\* A percentile stands for its share of the latencies, unless some were cut off, and
\* is not too high in any case.
LEMMA PercentileStands ==
    ASSUME LogsTypeOK, NEW S \in SUBSET DOMAIN log, Timed(S) # {}, NEW pct \in 0 .. 100
    PROVE  LET v == Percentile(S, pct) IN
           /\ Cardinality(Timed(S)) <= Cap => StandsFor(S, pct, v)
           /\ 100 * Cardinality(AtMost(S, v - 1)) <= pct * Cardinality(Timed(S))
<1> DEFINE v == Percentile(S, pct)
           below == Cardinality(AtMost(S, v - 1))
           upto == Cardinality(AtMost(S, v))
           all == Cardinality(Timed(S))
           n == Sorted(S)
           index == Index(n, pct)
<1>1. below \in Nat /\ upto \in Nat /\ all \in Nat
    BY AtMostFinite
<1>2. n \in Nat \ {0} /\ below <= index /\ upto > index
    BY PercentileIs
<1>3. index \in 0 .. n - 1 /\ 100 * index <= n * pct /\ n * pct <= 100 * (index + 1)
    BY <1>2, IndexBounds
<1>4. n <= all /\ (all <= Cap => n = all)
    BY <1>1, DiagnosticsAssumption DEF Sorted, Smaller
<1> HIDE DEF v, below, upto, all, n, index
<1>5. n * pct <= pct * all /\ pct * all \in Nat
    BY <1>1, <1>2, <1>4
<1>6. 100 * below <= pct * all
    BY <1>1, <1>2, <1>3, <1>5
<1>7. ASSUME all <= Cap PROVE 100 * upto >= pct * all
    <2>1. n * pct = pct * all
        BY <1>1, <1>2, <1>4, <1>7
    <2> QED
        BY <1>1, <1>2, <1>3, <2>1
<1> QED
    BY <1>6, <1>7 DEF v, below, upto, all, StandsFor

(***************************************************************************)
(* Rows.                                                                   *)
(***************************************************************************)

\* Rows are only added, under new ids; the table gets those and loses others.
Grows ==
    /\ DOMAIN log \subseteq DOMAIN log'
    /\ \A i \in DOMAIN log : log'[i] = log[i]
    /\ table' \cap DOMAIN log \subseteq table

\* A row that is younger than the retention is there.
Stays == \A i \in DOMAIN log : log[i].created > now - Kept => i \in table

\* What the rows do and what they never do.
LEMMA LogsStep ==
    ASSUME LogsTypeOK, Stays, LogsNext \/ RestartLogs \/ UNCHANGED logVars
    PROVE  LogsTypeOK' /\ Stays' /\ Grows
<1> USE RequestLogsAssumption
<1>0. DOMAIN log = 1 .. Len(log) /\ Len(log) \in Nat /\ now \in Int /\ zone \in Int
    BY DEF LogsTypeOK
<1>a. Kept \in Int /\ \A i \in DOMAIN log : log[i].created \in Int
    <2>1. \A i \in DOMAIN log : log[i] \in Row
        BY <1>0 DEF LogsTypeOK
    <2>2. \A i \in DOMAIN log : log[i].created \in 0 .. MaxTime
        BY <2>1 DEF Row
    <2> QED
        BY <1>0, <2>2 DEF Kept
<1>1. ASSUME NEW r \in Requests, Write(r) PROVE LogsTypeOK' /\ Stays' /\ Grows
    <2> DEFINE new == [target |-> r.target, names |-> r.names, latency |-> r.latency,
                       failed |-> r.failed, created |-> now]
    <2>1. new \in Row
        BY DEF Request, Row, LogsTypeOK
    <2>2. log' = Append(log, new) /\ Len(log) < MaxRows
        BY <1>1 DEF Write
    <2> HIDE DEF new
    <2>3. log \in Seq(Row)
        BY DEF LogsTypeOK
    <2>4. /\ log' \in Seq(Row) /\ Len(log') = Len(log) + 1
          /\ \A i \in 1 .. Len(log) : log'[i] = log[i]
        BY <2>1, <2>2, <2>3
    <2>5. DOMAIN log' = 1 .. (Len(log) + 1) /\ Len(log') <= MaxRows
        BY <1>0, <2>2, <2>4
    <2>6. table' = table \cup {Len(log) + 1} /\ UNCHANGED <<now, zone, cleaner>>
        BY <1>1 DEF Write
    <2>7. LogsTypeOK'
        BY <1>0, <2>4, <2>5, <2>6 DEF LogsTypeOK
    <2>8. Grows
        BY <1>0, <2>4, <2>5, <2>6 DEF Grows
    <2>9. ASSUME NEW i \in DOMAIN log', log'[i].created > now' - Kept'
          PROVE  i \in table'
        <3>1. Kept' = Kept /\ now' = now
            BY <2>6 DEF Kept
        <3>2. CASE i = Len(log) + 1
            BY <2>6, <3>2
        <3>3. CASE i \in DOMAIN log
            BY <1>0, <2>4, <2>6, <2>9, <3>1, <3>3 DEF Stays
        <3> QED
            BY <1>0, <2>5, <3>2, <3>3
    <2>10. Stays'
        BY <2>9 DEF Stays
    <2> QED
        BY <2>7, <2>8, <2>10
<1>2. CASE Hour
    BY <1>2 DEF Hour, LogsTypeOK, Stays, Grows, Kept
<1>3. CASE Cleanup
    <2>1. table' = {i \in table : ~(log[i].created <= now - Kept)} /\ cleaner' = "waiting"
        BY <1>3 DEF Cleanup, Expired
    <2>2. UNCHANGED <<log, now, zone>> /\ Kept' = Kept
        BY <1>3 DEF Cleanup, Kept
    <2>3. ASSUME NEW i \in DOMAIN log, log[i].created > now - Kept PROVE i \in table'
        BY <1>0, <1>a, <2>1, <2>3 DEF Stays
    <2>4. Stays'
        BY <2>2, <2>3 DEF Stays
    <2> QED
        BY <2>1, <2>2, <2>4 DEF LogsTypeOK, Grows
<1>4. CASE CleanupFails
    BY <1>4 DEF CleanupFails, LogsTypeOK, Stays, Grows, Kept
<1>5. CASE Tick
    <2>1. now' = now + 1 /\ now' \in 0 .. MaxTime /\ UNCHANGED <<log, table, zone, cleaner>>
        BY <1>0, <1>5 DEF Tick, LogsTypeOK
    <2>2. now' - Kept' > now - Kept
        BY <1>0, <2>1 DEF Kept
    <2>4. now' - Kept' \in Int /\ now - Kept \in Int
        BY <1>0, <1>a, <2>1 DEF Kept
    <2>3. ASSUME NEW i \in DOMAIN log, log[i].created > now' - Kept' PROVE i \in table
        BY <1>a, <2>2, <2>3, <2>4 DEF Stays
    <2>5. Stays'
        BY <2>1, <2>3 DEF Stays
    <2> QED
        BY <2>1, <2>5 DEF LogsTypeOK, Grows
<1>6. CASE RestartLogs
    BY <1>6 DEF RestartLogs, LogsTypeOK, Stays, Grows, Kept
<1>7. CASE UNCHANGED logVars
    BY <1>7 DEF logVars, LogsTypeOK, Stays, Grows, Kept
<1> QED
    BY <1>1, <1>2, <1>3, <1>4, <1>5, <1>6, <1>7 DEF LogsNext

\* Percentiles are latencies.
LEMMA PercentileType ==
    ASSUME LogsTypeOK, NEW S \in SUBSET DOMAIN log, NEW pct \in 0 .. 100
    PROVE  Percentile(S, pct) \in 0 .. MaxLatency
<1>1. CASE Timed(S) = {}
    <2>1. Percentile(S, pct) = 0
        BY <1>1, FS_EmptySet, DiagnosticsAssumption DEF Percentile, Smaller
    <2> QED
        BY <2>1, RequestLogsAssumption
<1>2. CASE Timed(S) # {}
    <2>1. Percentile(S, pct) \in 1 .. MaxLatency
        BY <1>2, PercentileIs
    <2> QED
        BY <2>1
<1> QED
    BY <1>1, <1>2

\* The rows of a scope are rows, and counting them stays within the bound.
LEMMA ScopeType ==
    ASSUME LogsTypeOK, NEW t, NEW since
    PROVE  /\ Scope(t, since) \in SUBSET DOMAIN log
           /\ Scope(t, since) \subseteq RowId
           /\ \A S \in SUBSET Scope(t, since) :
                /\ S \subseteq DOMAIN log /\ IsFiniteSet(S)
                /\ Cardinality(S) \in 0 .. MaxRows
                /\ Failed(S) \subseteq S /\ Cardinality(Failed(S)) \in 0 .. MaxRows
<1>1. Scope(t, since) \subseteq DOMAIN log
    BY DEF Scope, LogsTypeOK
<1>2. Scope(t, since) \subseteq RowId
    BY <1>1, RowsFinite
<1>3. ASSUME NEW S \in SUBSET Scope(t, since)
      PROVE  /\ S \subseteq DOMAIN log /\ IsFiniteSet(S)
             /\ Cardinality(S) \in 0 .. MaxRows
             /\ Failed(S) \subseteq S /\ Cardinality(Failed(S)) \in 0 .. MaxRows
    <2>1. S \subseteq DOMAIN log /\ Failed(S) \subseteq S
        BY <1>1 DEF Failed
    <2>2. Failed(S) \subseteq DOMAIN log
        BY <2>1
    <2> QED
        BY <2>1, <2>2, RowsFinite
<1> QED
    BY <1>1, <1>2, <1>3

(***************************************************************************)
(* The invariant of an answer.                                             *)
(***************************************************************************)

\* What the statement that counts leaves in a row, whatever happens later.
Started(row) ==
    /\ row.seen \cup row.failures \cup row.slow \subseteq DOMAIN log
    /\ reader.kind = "overview" =>
         row.count > 0 /\ (row.errors > 0 => Failed(row.seen) # {})
    /\ (reader.kind = "diagnosis" /\ ~reader.lost) =>
         row.count = Cardinality(row.seen) /\ row.errors = Cardinality(Failed(row.seen))

LastTold(row) ==
    IF Failed(row.seen) = {}
    THEN row.last = NoRow
    ELSE /\ row.last \in Failed(row.seen)
         /\ \A i \in Failed(row.seen) : log[row.last].created >= log[i].created

FailuresTold(row) ==
    /\ row.failures \subseteq Failed(row.seen)
    /\ Cardinality(row.failures) = Smaller(Cardinality(Failed(row.seen)), BriefLimit)

SlowTold(row) ==
    /\ row.slow \subseteq row.seen
    /\ Cardinality(row.slow) = Smaller(Cardinality(row.seen), BriefLimit)
    /\ \A i \in row.slow, j \in row.seen \ row.slow : log[i].latency >= log[j].latency

\* The figures that have been read are those of the rows that were counted.
Told ==
    /\ reader.at # "low" => reader.row.low = Percentile(reader.row.seen, Low)
    /\ reader.at \notin {"low", "high"} =>
         reader.row.high = Percentile(reader.row.seen, High)
    /\ reader.at \notin {"low", "high", "last"} => LastTold(reader.row)
    /\ reader.kind = "diagnosis" =>
         /\ reader.at \in {"slow", "complete"} => FailuresTold(reader.row)
         /\ reader.at = "complete" => SlowTold(reader.row)

StillSeen ==
    /\ reader.at \in {"shown", "opened"} => reader.id \in DOMAIN log
    /\ reader.at \in Place =>
         /\ \A row \in reader.todo \cup {reader.row} : Started(row)
         /\ reader.kind = "diagnosis" => reader.todo = {}
         /\ Undisturbed => Told

Inv == TypeOK /\ Stays /\ StillSeen

\* What reader is made of.
LEMMA ReaderIs ==
    ASSUME TypeOK
    PROVE  /\ reader.at = "overview" => reader.since \in Int
           /\ reader.at = "diagnosis" => reader.since \in Int /\ reader.target \in Target
           /\ reader.at \in Place => reader \in Answering
           /\ reader.at \in {"shown", "opened"} => reader.id \in RowId
<1>1. CASE reader = Idle
    BY <1>1 DEF Idle, Place
<1>2. CASE reader \in Asked
    BY <1>2 DEF Asked, Place
<1>3. CASE reader \in Answering
    BY <1>3 DEF Answering, Place
<1>4. CASE reader \in Shown
    BY <1>4 DEF Shown, Place
<1>5. CASE reader \in Opened
    BY <1>5 DEF Opened, Place
<1> QED
    BY <1>1, <1>2, <1>3, <1>4, <1>5 DEF TypeOK

\* A percentile depends on nothing but the rows it is of.
LEMMA PercentileKept ==
    ASSUME NEW S, \A i \in S : log'[i] = log[i], NEW pct
    PROVE  Percentile(S, pct)' = Percentile(S, pct)
<1>1. Timed(S)' = Timed(S) /\ \A v : AtMost(S, v)' = AtMost(S, v)
    BY DEF Timed, AtMost
<1> DEFINE reached ==
        {v \in 1 .. MaxLatency :
            Cardinality(AtMost(S, v)) > Index(Smaller(Cardinality(Timed(S)), Cap), pct)}
<1>2. reached' = reached
    BY <1>1 DEF Index, Smaller
<1> QED
    BY <1>1, <1>2 DEF Percentile, Smaller

\* If nothing was lost at the end, nothing was lost before: rows that are gone do not
\* come back, and rows that came and went again were logged.
LEMMA UndisturbedBefore ==
    ASSUME Grows, reader' = reader, reader.row.seen \subseteq DOMAIN log,
           table \subseteq DOMAIN log, Undisturbed'
    PROVE  Undisturbed
<1>1. /\ ~reader.lost
      /\ {i \in table' : /\ log'[i].target = reader.row.target
                         /\ log'[i].created >= reader.since} = reader.row.seen
      /\ {i \in DOMAIN log' : /\ log'[i].target = reader.row.target
                              /\ log'[i].created >= reader.since} = reader.row.seen
    BY DEF Undisturbed, InScope, Scope, Logged
<1>2. Logged(reader.row.target, reader.since) = reader.row.seen
    BY <1>1 DEF Logged, Grows
<1>3. InScope = reader.row.seen
    BY <1>1, <1>2 DEF InScope, Scope, Logged, Grows
<1> QED
    BY <1>1, <1>2, <1>3 DEF Undisturbed

\* What the rows do leaves an answer as it is.
LEMMA AnswerKept ==
    ASSUME Inv, LogsTypeOK', Grows, reader' = reader
    PROVE  StillSeen'
<1>1. table \subseteq DOMAIN log
    BY DEF Inv, TypeOK, LogsTypeOK
<1>2. ASSUME reader.at \in {"shown", "opened"} PROVE reader.id \in DOMAIN log'
    BY <1>2 DEF Inv, StillSeen, Grows
<1>3. ASSUME reader.at \in Place, NEW row \in reader.todo \cup {reader.row}
      PROVE  Started(row)'
    <2>1. Started(row)
        BY <1>3 DEF Inv, StillSeen
    <2>2. row.seen \cup row.failures \cup row.slow \subseteq DOMAIN log
        BY <2>1 DEF Started
    <2>3. /\ Failed(row.seen)' = Failed(row.seen)
          /\ row.seen \cup row.failures \cup row.slow \subseteq DOMAIN log'
        BY <2>2 DEF Failed, Grows
    <2> QED
        BY <2>1, <2>3 DEF Started
<1>4. ASSUME reader.at \in Place, Undisturbed' PROVE Told'
    <2>1. reader.row.seen \subseteq DOMAIN log
        BY <1>4 DEF Inv, StillSeen, Started
    <2>2. Told
        BY <1>1, <1>4, <2>1, UndisturbedBefore DEF Inv, StillSeen
    <2>3. \A i \in reader.row.seen : log'[i] = log[i]
        BY <2>1 DEF Grows
    <2>4. /\ Percentile(reader.row.seen, Low)' = Percentile(reader.row.seen, Low)
          /\ Percentile(reader.row.seen, High)' = Percentile(reader.row.seen, High)
        BY <2>3, PercentileKept
    <2>5. Failed(reader.row.seen)' = Failed(reader.row.seen)
        BY <2>3 DEF Failed
    <2>6. Failed(reader.row.seen) \subseteq reader.row.seen
        BY DEF Failed
    <2>7. LastTold(reader.row) => LastTold(reader.row)'
        BY <2>3, <2>5, <2>6 DEF LastTold
    <2>8. FailuresTold(reader.row) => FailuresTold(reader.row)'
        BY <2>5 DEF FailuresTold, Smaller
    <2>9. SlowTold(reader.row) => SlowTold(reader.row)'
        BY <2>3 DEF SlowTold, Smaller
    <2> QED
        BY <2>2, <2>4, <2>7, <2>8, <2>9 DEF Told
<1>5. reader.at \in Place => (reader.kind = "diagnosis" => reader.todo = {})
    BY DEF Inv, StillSeen
<1> QED
    BY <1>2, <1>3, <1>4, <1>5 DEF StillSeen

(***************************************************************************)
(* The steps of an answer keep it.                                         *)
(***************************************************************************)

\* Some of the rows with the highest keys, up to the limit.
LEMMA TopIs ==
    ASSUME NEW S, NEW key, NEW limit, NEW T \in Top(S, key, limit)
    PROVE  /\ T \subseteq S /\ Cardinality(T) = Smaller(Cardinality(S), limit)
           /\ \A i \in T, j \in S \ T : key[i] >= key[j]
BY DEF Top

\* One of them, if there is one.
LEMMA TopOne ==
    ASSUME NEW S, IsFiniteSet(S), NEW key, \A i \in S : key[i] \in Int,
           NEW T \in Top(S, key, 1)
    PROVE  IF S = {} THEN T = {}
           ELSE T # {} /\ \A i \in T : i \in S /\ \A j \in S : key[i] >= key[j]
<1>1. /\ T \subseteq S /\ Cardinality(T) = Smaller(Cardinality(S), 1)
      /\ \A i \in T, j \in S \ T : key[i] >= key[j]
    BY TopIs
<1>2. CASE S = {}
    BY <1>1, <1>2
<1>3. CASE S # {}
    <2>1. Cardinality(S) \in Nat \ {0}
        BY <1>3, FS_EmptySet, FS_CardinalityType
    <2>2. IsFiniteSet(T) /\ Cardinality(T) = 1
        BY <1>1, <2>1, FS_Subset DEF Smaller
    <2>3. PICK x : T = {x}
        BY <2>2, FS_Singleton
    <2> QED
        BY <1>1, <1>3, <2>3
<1> QED
    BY <1>2, <1>3

\* A statement changes one figure of the row, and goes on to the next place.
LEMMA Advance ==
    ASSUME Inv, reader.at \in Place, NEW row \in Figures, NEW place \in Place,
           row.target = reader.row.target, row.seen = reader.row.seen,
           row.count = reader.row.count, row.errors = reader.row.errors,
           row.failures \cup row.slow \subseteq DOMAIN log,
           NEW lost \in BOOLEAN, lost \/ ~reader.lost,
           reader' = [reader EXCEPT !.row = row, !.at = place, !.lost = lost],
           UNCHANGED logVars
    PROVE  /\ TypeOK'
           /\ reader'.row = row /\ reader'.at = place /\ reader'.kind = reader.kind
           /\ (Undisturbed' => Told') => StillSeen'
           /\ Undisturbed' => Undisturbed
<1>1. reader \in Answering
    BY ReaderIs DEF Inv
<1>2. /\ reader' \in Answering
      /\ reader'.row = row /\ reader'.at = place /\ reader'.kind = reader.kind
      /\ reader'.since = reader.since /\ reader'.todo = reader.todo /\ reader'.lost = lost
    BY <1>1 DEF Answering
<1>3. /\ LogsTypeOK' = LogsTypeOK /\ UNCHANGED <<log, table>>
    BY DEF logVars, LogsTypeOK
<1>4. TypeOK'
    BY <1>2, <1>3 DEF TypeOK, Inv
<1>5. ASSUME NEW other \in reader'.todo \cup {reader'.row} PROVE Started(other)'
    <2>1. other.seen \cup other.failures \cup other.slow \subseteq DOMAIN log'
        BY <1>2, <1>3, <1>5 DEF Inv, StillSeen, Started
    <2>2. Failed(other.seen)' = Failed(other.seen)
        BY <1>3 DEF Failed
    <2>3. CASE other \in reader.todo
        BY <1>2, <2>1, <2>2, <2>3 DEF Inv, StillSeen, Started
    <2>4. CASE other = row
        <3>1. Started(reader.row)
            BY DEF Inv, StillSeen
        <3>2. Failed(reader.row.seen) = Failed(other.seen)
            BY <2>4
        <3> QED
            BY <1>2, <2>1, <2>2, <2>4, <3>1, <3>2 DEF Started
    <2> QED
        BY <1>2, <1>5, <2>3, <2>4
<1>6. Undisturbed' => Undisturbed
    <2>1. reader'.row.target = reader.row.target /\ reader'.row.seen = reader.row.seen
        BY <1>2
    <2> QED
        BY <1>2, <1>3, <2>1 DEF Undisturbed, InScope, Scope, Logged
<1>7. reader'.at \notin {"shown", "opened"}
    BY <1>2 DEF Place
<1>8. reader'.kind = "diagnosis" => reader'.todo = {}
    BY <1>2 DEF Inv, StillSeen
<1> QED
    BY <1>2, <1>4, <1>5, <1>6, <1>7, <1>8 DEF StillSeen

\* The rows of a figure are rows.
LEMMA InScopeType ==
    ASSUME Inv, reader.at \in Place
    PROVE  /\ InScope \in SUBSET DOMAIN log /\ InScope \subseteq RowId /\ IsFiniteSet(InScope)
           /\ Failed(InScope) \subseteq InScope /\ IsFiniteSet(Failed(InScope))
           /\ reader.row \in Figures
<1>1. LogsTypeOK
    BY DEF Inv, TypeOK
<1>2. InScope \in SUBSET DOMAIN log /\ InScope \subseteq RowId /\ Failed(InScope) \subseteq InScope
    BY <1>1, ScopeType DEF InScope
<1>3. IsFiniteSet(InScope) /\ IsFiniteSet(Failed(InScope))
    BY <1>1, <1>2, RowsFinite, FS_Subset
<1> QED
    BY <1>2, <1>3, ReaderIs DEF Inv, Answering

\* The figures of the rows that were counted do not change while the rows stay.
LEMMA SeenKept ==
    ASSUME log' = log, reader'.row.seen = reader.row.seen
    PROVE  /\ \A pct : Percentile(reader.row.seen, pct)' = Percentile(reader.row.seen, pct)
           /\ Failed(reader.row.seen)' = Failed(reader.row.seen)
<1>1. PICK S : S = reader.row.seen
    OBVIOUS
<1>2. \A pct : Percentile(S, pct)' = Percentile(S, pct)
    BY PercentileKept
<1>3. Failed(S)' = Failed(S)
    BY DEF Failed
<1> QED
    BY <1>1, <1>2, <1>3

LEMMA ReadLowKeeps ==
    ASSUME Inv, ReadLow
    PROVE  TypeOK' /\ StillSeen'
<1>1. reader.at = "low" /\ reader.at \in Place /\ UNCHANGED logVars
    BY DEF ReadLow, At, Place
<1> DEFINE row == [reader.row EXCEPT !.low = Percentile(InScope, Low)]
<1>2. reader.row \in Figures /\ Percentile(InScope, Low) \in 0 .. MaxLatency
    BY <1>1, InScopeType, PercentileType, DiagnosticsAssumption DEF Inv, TypeOK
<1>3. /\ row \in Figures /\ row.target = reader.row.target /\ row.seen = reader.row.seen
      /\ row.count = reader.row.count /\ row.errors = reader.row.errors
      /\ row.low = Percentile(InScope, Low)
    BY <1>2 DEF Figures
<1>4. reader \in Answering
    BY <1>1, ReaderIs DEF Inv
<1>5. /\ reader' = [reader EXCEPT !.row = row, !.at = "high", !.lost = reader.lost]
      /\ reader.lost \in BOOLEAN /\ "high" \in Place
    BY <1>4 DEF ReadLow, Answering, Place
<1>8. row.failures \cup row.slow \subseteq DOMAIN log
    <2>1. reader.row.failures \cup reader.row.slow \subseteq DOMAIN log
        BY <1>1 DEF Inv, StillSeen, Started
    <2> QED
        BY <1>1, <1>2, <2>1 DEF Figures
<1> HIDE DEF row
<1>6. /\ TypeOK' /\ reader'.row = row /\ reader'.at = "high" /\ reader'.kind = reader.kind
      /\ (Undisturbed' => Told') => StillSeen'
      /\ Undisturbed' => Undisturbed
    BY <1>1, <1>3, <1>5, <1>8, Advance
<1>7. ASSUME Undisturbed' PROVE Told'
    <2>1. InScope = reader.row.seen /\ Told
        BY <1>1, <1>6, <1>7 DEF Undisturbed, Inv, StillSeen
    <2>2. /\ \A pct : Percentile(reader.row.seen, pct)' = Percentile(reader.row.seen, pct)
          /\ Failed(reader.row.seen)' = Failed(reader.row.seen)
          /\ reader'.row.seen = reader.row.seen /\ log' = log
        BY <1>1, <1>3, <1>6, SeenKept DEF logVars
    <2> QED
        BY <1>3, <1>6, <2>1, <2>2 DEF Told
<1> QED
    BY <1>6, <1>7

LEMMA ReadHighKeeps ==
    ASSUME Inv, ReadHigh
    PROVE  TypeOK' /\ StillSeen'
<1>1. reader.at = "high" /\ reader.at \in Place /\ UNCHANGED logVars
    BY DEF ReadHigh, At, Place
<1> DEFINE row == [reader.row EXCEPT !.high = Percentile(InScope, High)]
<1>2. reader.row \in Figures /\ Percentile(InScope, High) \in 0 .. MaxLatency
    BY <1>1, InScopeType, PercentileType, DiagnosticsAssumption DEF Inv, TypeOK
<1>3. /\ row \in Figures /\ row.target = reader.row.target /\ row.seen = reader.row.seen
      /\ row.count = reader.row.count /\ row.errors = reader.row.errors
      /\ row.high = Percentile(InScope, High)
      /\ row.low = reader.row.low
    BY <1>2 DEF Figures
<1>4. reader \in Answering
    BY <1>1, ReaderIs DEF Inv
<1>5. /\ reader' = [reader EXCEPT !.row = row, !.at = "last", !.lost = reader.lost]
      /\ reader.lost \in BOOLEAN /\ "last" \in Place
    BY <1>4 DEF ReadHigh, Answering, Place
<1>8. row.failures \cup row.slow \subseteq DOMAIN log
    <2>1. reader.row.failures \cup reader.row.slow \subseteq DOMAIN log
        BY <1>1 DEF Inv, StillSeen, Started
    <2> QED
        BY <1>1, <1>2, <2>1 DEF Figures
<1> HIDE DEF row
<1>6. /\ TypeOK' /\ reader'.row = row /\ reader'.at = "last" /\ reader'.kind = reader.kind
      /\ (Undisturbed' => Told') => StillSeen'
      /\ Undisturbed' => Undisturbed
    BY <1>1, <1>3, <1>5, <1>8, Advance
<1>7. ASSUME Undisturbed' PROVE Told'
    <2>1. InScope = reader.row.seen /\ Told
        BY <1>1, <1>6, <1>7 DEF Undisturbed, Inv, StillSeen
    <2>2. /\ \A pct : Percentile(reader.row.seen, pct)' = Percentile(reader.row.seen, pct)
          /\ Failed(reader.row.seen)' = Failed(reader.row.seen)
          /\ reader'.row.seen = reader.row.seen /\ log' = log
        BY <1>1, <1>3, <1>6, SeenKept DEF logVars
    <2>3. reader.row.low = Percentile(reader.row.seen, Low)
        BY <1>1, <2>1 DEF Told
    <2> QED
        BY <1>3, <1>6, <2>1, <2>2, <2>3 DEF Told
<1> QED
    BY <1>6, <1>7

\* Timestamps and latencies are numbers.
LEMMA KeysAreNumbers ==
    ASSUME LogsTypeOK
    PROVE  \A i \in DOMAIN log :
             /\ Created[i] = log[i].created /\ Latency[i] = log[i].latency
             /\ Created[i] \in Int /\ Latency[i] \in Int
<1>1. \A i \in DOMAIN log : log[i] \in Row
    BY DEF LogsTypeOK
<1> QED
    BY <1>1, RequestLogsAssumption DEF Row, Created, Latency

LEMMA ReadLastKeeps ==
    ASSUME Inv, ReadLast
    PROVE  TypeOK' /\ StillSeen'
<1>1. reader.at = "last" /\ reader.at \in Place /\ UNCHANGED logVars
    BY DEF ReadLast, At, Place
<1>a. PICK newest \in LastErrors(reader.row.target, reader.since) :
        \E id \in (IF newest = {} THEN {NoRow} ELSE newest) :
            reader' = [reader EXCEPT !.row.last = id, !.at = AfterLast]
    BY DEF ReadLast
<1>c. PICK id \in (IF newest = {} THEN {NoRow} ELSE newest) :
        reader' = [reader EXCEPT !.row.last = id, !.at = AfterLast]
    BY <1>a
<1>b. IF Failed(InScope) = {} THEN id = NoRow
      ELSE /\ id \in Failed(InScope)
           /\ \A i \in Failed(InScope) : log[id].created >= log[i].created
    <2>1. newest \in Top(Failed(InScope), Created, 1)
        BY DEF LastErrors, InScope
    <2>2. /\ \A i \in Failed(InScope) : Created[i] \in Int /\ Created[i] = log[i].created
          /\ IsFiniteSet(Failed(InScope))
        BY <1>1, InScopeType, KeysAreNumbers DEF Inv, TypeOK
    <2>3. IF Failed(InScope) = {} THEN newest = {}
          ELSE newest # {} /\ \A i \in newest :
                 i \in Failed(InScope) /\ \A j \in Failed(InScope) : Created[i] >= Created[j]
        BY <2>1, <2>2, TopOne
    <2> QED
        BY <2>2, <2>3
<1> DEFINE row == [reader.row EXCEPT !.last = id]
<1>2. reader.row \in Figures /\ id \in 0 .. MaxRows
    BY <1>1, <1>b, InScopeType, RequestLogsAssumption DEF NoRow, RowId
<1>3. /\ row \in Figures /\ row.target = reader.row.target /\ row.seen = reader.row.seen
      /\ row.count = reader.row.count /\ row.errors = reader.row.errors
      /\ row.last = id
      /\ row.low = reader.row.low /\ row.high = reader.row.high
    BY <1>2 DEF Figures
<1>4. reader \in Answering
    BY <1>1, ReaderIs DEF Inv
<1>5. /\ reader' = [reader EXCEPT !.row = row, !.at = AfterLast, !.lost = reader.lost]
      /\ reader.lost \in BOOLEAN /\ AfterLast \in Place
    BY <1>c, <1>4 DEF ReadLast, Answering, Place, AfterLast
<1>8. row.failures \cup row.slow \subseteq DOMAIN log
    <2>1. reader.row.failures \cup reader.row.slow \subseteq DOMAIN log
        BY <1>1 DEF Inv, StillSeen, Started
    <2> QED
        BY <1>1, <1>2, <2>1 DEF Figures
<1> HIDE DEF row
<1>6. /\ TypeOK' /\ reader'.row = row /\ reader'.at = AfterLast /\ reader'.kind = reader.kind
      /\ (Undisturbed' => Told') => StillSeen'
      /\ Undisturbed' => Undisturbed
    BY <1>1, <1>3, <1>5, <1>8, Advance
<1>7. ASSUME Undisturbed' PROVE Told'
    <2>1. InScope = reader.row.seen /\ Told
        BY <1>1, <1>6, <1>7 DEF Undisturbed, Inv, StillSeen
    <2>2. /\ \A pct : Percentile(reader.row.seen, pct)' = Percentile(reader.row.seen, pct)
          /\ Failed(reader.row.seen)' = Failed(reader.row.seen)
          /\ reader'.row.seen = reader.row.seen /\ log' = log
        BY <1>1, <1>3, <1>6, SeenKept DEF logVars
    <2>3. /\ reader.row.low = Percentile(reader.row.seen, Low)
          /\ reader.row.high = Percentile(reader.row.seen, High)
        BY <1>1, <2>1 DEF Told
    <2>4. LastTold(reader.row)'
        BY <1>3, <1>6, <1>b, <2>1, <2>2 DEF LastTold
    <2>5. reader'.at \notin {"slow"} /\ (reader'.kind = "diagnosis" => reader'.at = "failures")
        BY <1>6 DEF AfterLast
    <2> QED
        BY <1>3, <1>6, <2>2, <2>3, <2>4, <2>5 DEF Told
<1> QED
    BY <1>6, <1>7

LEMMA ReadFailuresKeeps ==
    ASSUME Inv, ReadFailures
    PROVE  TypeOK' /\ StillSeen'
<1>1. reader.at = "failures" /\ reader.at \in Place /\ UNCHANGED logVars
    BY DEF ReadFailures, At, Place
<1>a. PICK newest \in Top(Failed(InScope), Created, BriefLimit) :
        reader' = [reader EXCEPT !.row.failures = newest, !.at = "slow"]
    BY DEF ReadFailures
<1>b. /\ newest \subseteq Failed(InScope)
      /\ Cardinality(newest) = Smaller(Cardinality(Failed(InScope)), BriefLimit)
    BY TopIs
<1> DEFINE row == [reader.row EXCEPT !.failures = newest]
<1>2. reader.row \in Figures /\ newest \in SUBSET RowId
    BY <1>1, <1>b, InScopeType
<1>3. /\ row \in Figures /\ row.target = reader.row.target /\ row.seen = reader.row.seen
      /\ row.count = reader.row.count /\ row.errors = reader.row.errors
      /\ row.failures = newest
      /\ row.low = reader.row.low /\ row.high = reader.row.high /\ row.last = reader.row.last
    BY <1>2 DEF Figures
<1>4. reader \in Answering
    BY <1>1, ReaderIs DEF Inv
<1>5. /\ reader' = [reader EXCEPT !.row = row, !.at = "slow", !.lost = reader.lost]
      /\ reader.lost \in BOOLEAN /\ "slow" \in Place
    BY <1>a, <1>4 DEF ReadFailures, Answering, Place
<1>8. row.failures \cup row.slow \subseteq DOMAIN log
    <2>1. reader.row.failures \cup reader.row.slow \subseteq DOMAIN log
        BY <1>1 DEF Inv, StillSeen, Started
    <2> QED
        BY <1>b, InScopeType, <1>1, <1>2, <2>1 DEF Figures
<1> HIDE DEF row
<1>6. /\ TypeOK' /\ reader'.row = row /\ reader'.at = "slow" /\ reader'.kind = reader.kind
      /\ (Undisturbed' => Told') => StillSeen'
      /\ Undisturbed' => Undisturbed
    BY <1>1, <1>3, <1>5, <1>8, Advance
<1>7. ASSUME Undisturbed' PROVE Told'
    <2>1. InScope = reader.row.seen /\ Told
        BY <1>1, <1>6, <1>7 DEF Undisturbed, Inv, StillSeen
    <2>2. /\ \A pct : Percentile(reader.row.seen, pct)' = Percentile(reader.row.seen, pct)
          /\ Failed(reader.row.seen)' = Failed(reader.row.seen)
          /\ reader'.row.seen = reader.row.seen /\ log' = log
        BY <1>1, <1>3, <1>6, SeenKept DEF logVars
    <2>3. /\ reader.row.low = Percentile(reader.row.seen, Low)
          /\ reader.row.high = Percentile(reader.row.seen, High)
          /\ LastTold(reader.row)
        BY <1>1, <2>1 DEF Told
    <2>4. LastTold(reader.row)'
        BY <1>3, <1>6, <2>2, <2>3 DEF LastTold
    <2>5. FailuresTold(reader.row)'
        BY <1>3, <1>6, <1>b, <2>1, <2>2 DEF FailuresTold, Smaller
    <2> QED
        BY <1>3, <1>6, <2>2, <2>3, <2>4, <2>5 DEF Told
<1> QED
    BY <1>6, <1>7

LEMMA ReadSlowKeeps ==
    ASSUME Inv, ReadSlow
    PROVE  TypeOK' /\ StillSeen'
<1>1. reader.at = "slow" /\ reader.at \in Place /\ UNCHANGED logVars
    BY DEF ReadSlow, At, Place
<1>a. PICK slowest \in Top(InScope, Latency, BriefLimit) :
        reader' = [reader EXCEPT !.row.slow = slowest, !.at = "complete"]
    BY DEF ReadSlow
<1>b. /\ slowest \subseteq InScope
      /\ Cardinality(slowest) = Smaller(Cardinality(InScope), BriefLimit)
      /\ \A i \in slowest, j \in InScope \ slowest : log[i].latency >= log[j].latency
    <2>1. /\ slowest \subseteq InScope
          /\ Cardinality(slowest) = Smaller(Cardinality(InScope), BriefLimit)
          /\ \A i \in slowest, j \in InScope \ slowest : Latency[i] >= Latency[j]
        BY TopIs
    <2>2. \A i \in InScope : Latency[i] = log[i].latency
        BY <1>1, InScopeType, KeysAreNumbers DEF Inv, TypeOK
    <2> QED
        BY <2>1, <2>2
<1> DEFINE row == [reader.row EXCEPT !.slow = slowest]
<1>2. reader.row \in Figures /\ slowest \in SUBSET RowId
    BY <1>1, <1>b, InScopeType
<1>3. /\ row \in Figures /\ row.target = reader.row.target /\ row.seen = reader.row.seen
      /\ row.count = reader.row.count /\ row.errors = reader.row.errors
      /\ row.slow = slowest
      /\ row.low = reader.row.low /\ row.high = reader.row.high /\ row.last = reader.row.last
      /\ row.failures = reader.row.failures
    BY <1>2 DEF Figures
<1>4. reader \in Answering
    BY <1>1, ReaderIs DEF Inv
<1>5. /\ reader' = [reader EXCEPT !.row = row, !.at = "complete", !.lost = reader.lost]
      /\ reader.lost \in BOOLEAN /\ "complete" \in Place
    BY <1>a, <1>4 DEF ReadSlow, Answering, Place
<1>8. row.failures \cup row.slow \subseteq DOMAIN log
    <2>1. reader.row.failures \cup reader.row.slow \subseteq DOMAIN log
        BY <1>1 DEF Inv, StillSeen, Started
    <2> QED
        BY <1>b, InScopeType, <1>1, <1>2, <2>1 DEF Figures
<1> HIDE DEF row
<1>6. /\ TypeOK' /\ reader'.row = row /\ reader'.at = "complete" /\ reader'.kind = reader.kind
      /\ (Undisturbed' => Told') => StillSeen'
      /\ Undisturbed' => Undisturbed
    BY <1>1, <1>3, <1>5, <1>8, Advance
<1>7. ASSUME Undisturbed' PROVE Told'
    <2>1. InScope = reader.row.seen /\ Told
        BY <1>1, <1>6, <1>7 DEF Undisturbed, Inv, StillSeen
    <2>2. /\ \A pct : Percentile(reader.row.seen, pct)' = Percentile(reader.row.seen, pct)
          /\ Failed(reader.row.seen)' = Failed(reader.row.seen)
          /\ reader'.row.seen = reader.row.seen /\ log' = log
        BY <1>1, <1>3, <1>6, SeenKept DEF logVars
    <2>3. /\ reader.row.low = Percentile(reader.row.seen, Low)
          /\ reader.row.high = Percentile(reader.row.seen, High)
          /\ LastTold(reader.row)
          /\ reader.kind = "diagnosis" => FailuresTold(reader.row)
        BY <1>1, <2>1 DEF Told
    <2>4. LastTold(reader.row)'
        BY <1>3, <1>6, <2>2, <2>3 DEF LastTold
    <2>5. reader.kind = "diagnosis" => FailuresTold(reader.row)'
        BY <1>3, <1>6, <2>2, <2>3 DEF FailuresTold, Smaller
    <2>6. SlowTold(reader.row)'
        BY <1>3, <1>6, <1>b, <2>1, <2>2 DEF SlowTold, Smaller
    <2> QED
        BY <1>3, <1>6, <2>2, <2>3, <2>4, <2>5, <2>6 DEF Told
<1> QED
    BY <1>6, <1>7

\* A statement fails: what the answer says from then on is not claimed.
LEMMA ReadFailsKeeps ==
    ASSUME Inv, ReadFails
    PROVE  TypeOK' /\ StillSeen'
<1>1. /\ reader.at \in Place \ {"complete"} /\ ~reader.lost /\ UNCHANGED logVars
      /\ reader' = [reader EXCEPT !.lost = TRUE, !.at = After(reader.at)]
    BY DEF ReadFails
<1>2. reader \in Answering
    BY <1>1, ReaderIs DEF Inv
<1>3. reader.row \in Figures /\ After(reader.at) \in Place
    BY <1>1, <1>2 DEF Answering, After, AfterLast, Place
<1>4. reader' = [reader EXCEPT !.row = reader.row, !.at = After(reader.at), !.lost = TRUE]
    BY <1>1, <1>2 DEF Answering
<1>5. TypeOK' /\ ((Undisturbed' => Told') => StillSeen')
    <2>1. reader.row.failures \cup reader.row.slow \subseteq DOMAIN log
        BY <1>1 DEF Inv, StillSeen, Started
    <2> QED
        BY <1>1, <1>3, <1>4, <2>1, Advance
<1>6. ~Undisturbed'
    <2>1. reader'.lost
        BY <1>1, <1>2 DEF Answering
    <2> QED
        BY <2>1 DEF Undisturbed
<1> QED
    BY <1>5, <1>6

\* A row is begun: nothing of it has been read.
LEMMA Begin ==
    ASSUME Inv, UNCHANGED logVars, NEW since \in Int, NEW kind \in {"overview", "diagnosis"},
           NEW todo \in SUBSET Figures, NEW row \in Figures, NEW place \in Place,
           NEW lost \in BOOLEAN, kind = "diagnosis" => todo = {},
           \/ lost
           \/ place = "low"
           \/ /\ place = "failures" /\ row.seen = {}
              /\ row.low = 0 /\ row.high = 0 /\ row.last = NoRow,
           reader' = [at |-> place, kind |-> kind, since |-> since, lost |-> lost,
                      todo |-> todo, row |-> row],
           \A other \in todo \cup {row} : Started(other)'
    PROVE  TypeOK' /\ StillSeen'
<1>1. reader' \in Answering
    BY DEF Answering
<1>2. LogsTypeOK'
    BY DEF Inv, TypeOK, LogsTypeOK, logVars
<1>3. TypeOK'
    BY <1>1, <1>2 DEF TypeOK
<1>4. /\ reader'.at = place /\ reader'.lost = lost /\ reader'.todo = todo /\ reader'.row = row
      /\ reader'.kind = kind
    OBVIOUS
<1>5. Undisturbed' => Told'
    <2>1. CASE lost
        BY <1>4, <2>1 DEF Undisturbed
    <2>2. CASE place = "low"
        BY <1>4, <2>2 DEF Told
    <2>3. CASE /\ place = "failures" /\ row.seen = {}
               /\ row.low = 0 /\ row.high = 0 /\ row.last = NoRow
        <3>1. \A pct : Percentile({}, pct)' = 0
            <4>1. \A pct : Percentile({}, pct)' = Percentile({}, pct)
                BY PercentileKept
            <4>2. \A pct : Percentile({}, pct) = 0
                <5>1. Timed({}) = {}
                    BY DEF Timed
                <5> QED
                    BY <5>1, FS_EmptySet, DiagnosticsAssumption DEF Percentile, Smaller
            <4> QED
                BY <4>1, <4>2
        <3>2. \A pct : Percentile(reader.row.seen, pct)' = 0
            BY <1>4, <2>3, <3>1
        <3>3. LastTold(reader.row)'
            BY <1>4, <2>3 DEF LastTold, Failed
        <3> QED
            BY <1>4, <2>3, <3>2, <3>3 DEF Told
    <2> QED
        BY <2>1, <2>2, <2>3
<1>6. reader'.at \notin {"shown", "opened"}
    BY <1>4 DEF Place
<1> QED
    BY <1>3, <1>4, <1>5, <1>6 DEF StillSeen

\* What the statement that counts makes of rows of the scope of a target.
LEMMA CountedIs ==
    ASSUME LogsTypeOK, NEW t \in Target, NEW since, NEW S \in SUBSET Scope(t, since),
           NEW seen \in SUBSET Scope(t, since)
    PROVE  /\ Counted(t, S, seen) \in Figures
           /\ Counted(t, S, seen).target = t /\ Counted(t, S, seen).seen = seen
           /\ Counted(t, S, seen).count = Cardinality(S)
           /\ Counted(t, S, seen).errors = Cardinality(Failed(S))
           /\ Counted(t, S, seen).failures = {} /\ Counted(t, S, seen).slow = {}
           /\ seen \subseteq DOMAIN log
<1>1. /\ Cardinality(S) \in 0 .. MaxRows /\ Cardinality(Failed(S)) \in 0 .. MaxRows
      /\ seen \subseteq RowId /\ seen \subseteq DOMAIN log
    BY ScopeType
<1>2. 0 \in 0 .. MaxLatency /\ NoRow \in 0 .. MaxRows
    BY RequestLogsAssumption DEF NoRow
<1> QED
    BY <1>1, <1>2 DEF Counted, Figures

LEMMA CountTargetKeeps ==
    ASSUME Inv, CountTarget
    PROVE  TypeOK' /\ StillSeen'
<1> DEFINE S == Scope(reader.target, reader.since)
           row == Counted(reader.target, S, S)
<1>1. /\ reader.since \in Int /\ reader.target \in Target /\ UNCHANGED logVars
      /\ reader' = [at |-> IF S = {} THEN "failures" ELSE "low",
                    kind |-> "diagnosis", since |-> reader.since, lost |-> FALSE,
                    todo |-> {}, row |-> row]
    BY ReaderIs DEF CountTarget, At, Inv
<1>2. /\ row \in Figures /\ row.seen = S /\ S \subseteq DOMAIN log
      /\ row.failures = {} /\ row.slow = {}
      /\ row.low = 0 /\ row.high = 0 /\ row.last = NoRow
      /\ row.count = Cardinality(S) /\ row.errors = Cardinality(Failed(S))
    BY <1>1, CountedIs DEF Inv, TypeOK, Counted
<1>3. PICK rows, first, since, place :
        /\ rows = S /\ first = row /\ since = reader.since
        /\ place = IF S = {} THEN "failures" ELSE "low"
    OBVIOUS
<1>4. Failed(rows)' = Failed(rows)
    BY <1>1 DEF Failed, logVars
<1>5. Started(first)'
    BY <1>1, <1>2, <1>3, <1>4 DEF Started, logVars
<1>6. /\ first \in Figures /\ place \in Place /\ {} \in SUBSET Figures
      /\ \/ place = "low"
         \/ /\ place = "failures" /\ first.seen = {}
            /\ first.low = 0 /\ first.high = 0 /\ first.last = NoRow
    BY <1>2, <1>3 DEF Place
<1> HIDE DEF row, S
<1>7. since \in Int /\ \A other \in {} \cup {first} : Started(other)'
    BY <1>1, <1>3, <1>5
<1> QED
    BY <1>1, <1>3, <1>6, <1>7, Begin

LEMMA CountFailsKeeps ==
    ASSUME Inv, CountFails
    PROVE  TypeOK' /\ StillSeen'
<1>1. UNCHANGED logVars
    BY DEF CountFails
<1>2. CASE reader' = Idle
    BY <1>1, <1>2 DEF Inv, TypeOK, LogsTypeOK, logVars, StillSeen, Idle, Place
<1>3. CASE At("diagnosis") /\ reader' # Idle
    <2> DEFINE row == Counted(reader.target, {}, {})
    <2>1. /\ reader.since \in Int /\ reader.target \in Target
          /\ reader' = [at |-> "failures", kind |-> "diagnosis", since |-> reader.since,
                        lost |-> TRUE, todo |-> {}, row |-> row]
        BY <1>3, ReaderIs DEF CountFails, At, Inv
    <2>2. row \in Figures /\ row.seen = {} /\ row.failures = {} /\ row.slow = {}
        <3>1. {} \in SUBSET Scope(reader.target, reader.since) /\ LogsTypeOK
            BY DEF Inv, TypeOK
        <3> QED
            BY <2>1, <3>1, CountedIs
    <2>3. PICK first, since : first = row /\ since = reader.since
        OBVIOUS
    <2>4. Started(first)'
        BY <2>1, <2>2, <2>3 DEF Started
    <2> HIDE DEF row
    <2>5. first \in Figures /\ "failures" \in Place /\ {} \in SUBSET Figures
        BY <2>2, <2>3 DEF Place
    <2>6. since \in Int /\ \A other \in {} \cup {first} : Started(other)'
        BY <2>1, <2>3, <2>4
    <2> QED
        BY <1>1, <2>1, <2>3, <2>5, <2>6, Begin
<1> QED
    BY <1>2, <1>3 DEF CountFails, At

\* Rows of an overview that are all begun: one of them is next.
LEMMA GoOnKeeps ==
    ASSUME Inv, UNCHANGED logVars, NEW since \in Int, NEW left \in SUBSET Figures,
           GoOn(since, left),
           \A row \in left :
             /\ row.seen \cup row.failures \cup row.slow \subseteq DOMAIN log
             /\ row.count > 0 /\ (row.errors > 0 => Failed(row.seen) # {})
    PROVE  TypeOK' /\ StillSeen'
<1>1. PICK row \in left :
        reader' = [at |-> "low", kind |-> "overview", since |-> since, lost |-> FALSE,
                   todo |-> left \ {row}, row |-> row]
    BY DEF GoOn
<1>2. ASSUME NEW other \in (left \ {row}) \cup {row} PROVE Started(other)'
    <2>1. other \in left /\ reader'.kind = "overview" /\ log' = log
        BY <1>1 DEF logVars
    <2>2. Failed(other.seen)' = Failed(other.seen)
        BY <2>1 DEF Failed
    <2> QED
        BY <2>1, <2>2 DEF Started
<1>3. left \ {row} \in SUBSET Figures /\ row \in Figures /\ "low" \in Place
    BY DEF Place
<1> QED
    BY <1>1, <1>2, <1>3, Begin

LEMMA CountGroupsKeeps ==
    ASSUME Inv, CountGroups
    PROVE  TypeOK' /\ StillSeen'
<1> DEFINE groups == Groups(reader.since)
<1>1. /\ reader.since \in Int /\ UNCHANGED logVars
      /\ IF groups = {} THEN reader' = Idle ELSE GoOn(reader.since, groups)
    BY ReaderIs DEF CountGroups, At, Inv
<1>2. CASE groups = {}
    BY <1>1, <1>2 DEF Inv, TypeOK, LogsTypeOK, logVars, StillSeen, Idle, Place
<1>3. CASE groups # {}
    <2>1. ASSUME NEW row \in groups
          PROVE  /\ row \in Figures
                 /\ row.seen \cup row.failures \cup row.slow \subseteq DOMAIN log
                 /\ row.count > 0 /\ (row.errors > 0 => Failed(row.seen) # {})
        <3> DEFINE S(g) == Group(g[1], g[2], reader.since)
        <3>1. PICK g \in Target \X Names :
                S(g) # {} /\ row = Counted(g[1], S(g), Scope(g[1], reader.since))
            BY DEF Groups
        <3>2. g[1] \in Target /\ S(g) \subseteq Scope(g[1], reader.since)
            BY DEF Group
        <3>3. /\ row \in Figures /\ row.seen = Scope(g[1], reader.since)
              /\ row.count = Cardinality(S(g)) /\ row.errors = Cardinality(Failed(S(g)))
              /\ row.seen \subseteq DOMAIN log /\ row.failures = {} /\ row.slow = {}
            <4>1. /\ LogsTypeOK /\ S(g) \in SUBSET Scope(g[1], reader.since)
                  /\ Scope(g[1], reader.since) \in SUBSET Scope(g[1], reader.since)
                BY <3>2 DEF Inv, TypeOK
            <4>2. PICK t, since : t = g[1] /\ since = reader.since
                OBVIOUS
            <4>3. PICK rows, scope : rows = S(g) /\ scope = Scope(t, since)
                OBVIOUS
            <4>4. /\ t \in Target /\ rows \in SUBSET Scope(t, since)
                  /\ scope \in SUBSET Scope(t, since) /\ row = Counted(t, rows, scope)
                BY <3>1, <3>2, <4>1, <4>2, <4>3
            <4>5. /\ row \in Figures /\ row.seen = scope
                  /\ row.count = Cardinality(rows) /\ row.errors = Cardinality(Failed(rows))
                  /\ row.failures = {} /\ row.slow = {} /\ scope \subseteq DOMAIN log
                <5> DEFINE counted == Counted(t, rows, scope)
                <5>1. /\ counted \in Figures /\ counted.seen = scope
                      /\ counted.count = Cardinality(rows)
                      /\ counted.errors = Cardinality(Failed(rows))
                      /\ counted.failures = {} /\ counted.slow = {}
                      /\ scope \subseteq DOMAIN log
                    <6>1. LogsTypeOK /\ t \in Target /\ rows \in SUBSET Scope(t, since)
                          /\ scope \in SUBSET Scope(t, since)
                        BY <4>1, <4>4
                    <6> HIDE DEF groups
                    <6> QED
                        BY <6>1, CountedIs
                <5>2. row = counted
                    BY <4>4
                <5> HIDE DEF counted
                <5> QED
                    BY <5>1, <5>2
            <4> QED
                BY <4>2, <4>3, <4>5
        <3>4. IsFiniteSet(S(g)) /\ Cardinality(S(g)) \in Nat
            BY <3>2, ScopeType, FS_CardinalityType DEF Inv, TypeOK
        <3>5. Cardinality(S(g)) > 0
            BY <3>1, <3>4, FS_EmptySet
        <3>6. Failed(row.seen) = {} => Cardinality(Failed(S(g))) = 0
            <4>1. Failed(S(g)) \subseteq Failed(row.seen)
                BY <3>2, <3>3 DEF Failed
            <4> QED
                BY <4>1, FS_EmptySet
        <3> QED
            BY <3>3, <3>5, <3>6
    <2>2. PICK left, since : left = groups /\ since = reader.since
        OBVIOUS
    <2> HIDE DEF groups
    <2> QED
        BY <1>1, <1>3, <2>1, <2>2, GoOnKeeps
<1> QED
    BY <1>2, <1>3

LEMMA NextRowKeeps ==
    ASSUME Inv, NextRow
    PROVE  TypeOK' /\ StillSeen'
<1>1. reader \in Answering /\ reader.at = "complete" /\ reader.at \in Place /\ UNCHANGED logVars
    BY ReaderIs DEF NextRow, At, Inv, Place
<1>2. reader.since \in Int /\ reader.todo \in SUBSET Figures /\ reader.row \in Figures
    BY <1>1 DEF Answering
<1>3. CASE reader.todo # {} /\ GoOn(reader.since, reader.todo)
    <2>1. reader.kind = "overview"
        BY <1>1, <1>3 DEF Inv, StillSeen, Answering
    <2>2. ASSUME NEW row \in reader.todo
          PROVE  /\ row.seen \cup row.failures \cup row.slow \subseteq DOMAIN log
                 /\ row.count > 0 /\ (row.errors > 0 => Failed(row.seen) # {})
        BY <1>1, <2>1 DEF Inv, StillSeen, Started
    <2>3. PICK since, left : since = reader.since /\ left = reader.todo
        OBVIOUS
    <2> QED
        BY <1>1, <1>2, <1>3, <2>2, <2>3, GoOnKeeps
<1>4. CASE reader' = Idle
    BY <1>1, <1>4 DEF Inv, TypeOK, LogsTypeOK, logVars, StillSeen, Idle, Place
<1>5. ASSUME NEW id \in reader.row.failures \cup reader.row.slow,
             reader' = [at |-> "shown", id |-> id]
      PROVE  TypeOK' /\ StillSeen'
    <2>1. id \in RowId /\ id \in DOMAIN log
        BY <1>1, <1>2 DEF Figures, Inv, StillSeen, Started
    <2> QED
        BY <1>1, <1>5, <2>1 DEF Inv, TypeOK, LogsTypeOK, logVars, StillSeen, Shown, Place
<1> QED
    BY <1>3, <1>4, <1>5 DEF NextRow

\* Every step of the admin.
LEMMA ReadKeeps ==
    ASSUME Inv, Read
    PROVE  TypeOK' /\ StillSeen' /\ UNCHANGED logVars
<1>1. ASSUME UNCHANGED logVars PROVE LogsTypeOK' /\ UNCHANGED <<log, table>>
    BY <1>1 DEF Inv, TypeOK, LogsTypeOK, logVars
<1>2. ASSUME NEW window \in Windows, AskOverview(window) PROVE TypeOK' /\ StillSeen' /\ UNCHANGED logVars
    <2>1. Since(window) \in Int
        BY DiagnosticsAssumption DEF Inv, TypeOK, LogsTypeOK, Since
    <2> QED
        BY <1>1, <1>2, <2>1 DEF AskOverview, TypeOK, StillSeen, Asked, Place
<1>3. ASSUME NEW window \in Windows, NEW t \in Target, AskDiagnosis(t, window)
      PROVE  TypeOK' /\ StillSeen' /\ UNCHANGED logVars
    <2>1. Since(window) \in Int
        BY DiagnosticsAssumption DEF Inv, TypeOK, LogsTypeOK, Since
    <2> QED
        BY <1>1, <1>3, <2>1 DEF AskDiagnosis, TypeOK, StillSeen, Asked, Place
<1>4. ASSUME NEW names \in SUBSET Names, NEW errorsOnly \in BOOLEAN, ListLogs(names, errorsOnly)
      PROVE  TypeOK' /\ StillSeen' /\ UNCHANGED logVars
    <2>1. PICK newest \in List(names, errorsOnly) :
            \E id \in newest : reader' = [at |-> "shown", id |-> id]
        BY <1>4 DEF ListLogs
    <2>2. newest \subseteq table
        BY DEF List, Top
    <2>3. PICK id \in newest : reader' = [at |-> "shown", id |-> id]
        BY <2>1
    <2>4. LogsTypeOK /\ UNCHANGED logVars
        BY <1>4 DEF ListLogs, Inv, TypeOK
    <2>5. id \in DOMAIN log
        BY <2>2, <2>4 DEF LogsTypeOK
    <2>6. DOMAIN log \subseteq RowId
        BY <2>4, RowsFinite
    <2> QED
        BY <1>1, <2>3, <2>4, <2>5, <2>6 DEF TypeOK, StillSeen, Shown, Place
<1>5. CASE GetLog
    <2>1. reader.at = "shown" /\ reader.id \in RowId /\ reader.id \in DOMAIN log
        BY <1>5, ReaderIs DEF GetLog, At, Inv, StillSeen
    <2> QED
        BY <1>1, <1>5, <2>1 DEF GetLog, TypeOK, StillSeen, Opened, Place
<1>10. CASE GetLogFails
    <2>1. reader.at = "shown" /\ reader.id \in RowId /\ reader.id \in DOMAIN log
        BY <1>10, ReaderIs DEF GetLogFails, At, Inv, StillSeen
    <2> QED
        BY <1>1, <1>10, <2>1 DEF GetLogFails, TypeOK, StillSeen, Opened, Place
<1>6. CASE Leave
    BY <1>1, <1>6 DEF Leave, TypeOK, StillSeen, Idle, Place
<1>7. CASE ReadLow \/ ReadHigh \/ ReadLast
    BY <1>7, ReadLowKeeps, ReadHighKeeps, ReadLastKeeps DEF ReadLow, ReadHigh, ReadLast
<1>8. CASE ReadFailures \/ ReadSlow \/ ReadFails
    BY <1>8, ReadFailuresKeeps, ReadSlowKeeps, ReadFailsKeeps DEF ReadFailures, ReadSlow, ReadFails
<1>9. CASE CountGroups \/ CountTarget \/ CountFails \/ NextRow
    BY <1>9, CountGroupsKeeps, CountTargetKeeps, CountFailsKeeps, NextRowKeeps
       DEF CountGroups, CountTarget, CountFails, NextRow
<1> QED
    BY <1>2, <1>3, <1>4, <1>5, <1>6, <1>7, <1>8, <1>9, <1>10 DEF Read

LEMMA InvInit == Init => Inv
<1> SUFFICES ASSUME Init PROVE Inv
    OBVIOUS
<1>1. log = <<>> /\ table = {} /\ now = 0 /\ zone \in Zones /\ cleaner = "waiting" /\ reader = Idle
    BY DEF Init, LogsInit
<1>2. log \in Seq(Row) /\ Len(log) = 0 /\ DOMAIN log = {}
    BY <1>1
<1>3. Len(log) <= MaxRows /\ now \in 0 .. MaxTime
    BY <1>1, <1>2, RequestLogsAssumption
<1> QED
    BY <1>1, <1>2, <1>3 DEF Inv, TypeOK, LogsTypeOK, Stays, StillSeen, Idle, Place

LEMMA InvNext == Inv /\ [Next]_vars => Inv'
<1> SUFFICES ASSUME Inv, [Next]_vars PROVE Inv'
    OBVIOUS
<1>1. LogsTypeOK /\ Stays
    BY DEF Inv, TypeOK
<1>2. CASE (LogsNext \/ UNCHANGED logVars) /\ reader' = reader
    <2>1. LogsTypeOK' /\ Stays' /\ Grows
        BY <1>1, <1>2, LogsStep
    <2>2. StillSeen'
        BY <1>2, <2>1, AnswerKept
    <2>3. reader' \in {Idle} \cup Asked \cup Answering \cup Shown \cup Opened
        BY <1>2 DEF Inv, TypeOK
    <2> QED
        BY <2>1, <2>2, <2>3 DEF Inv, TypeOK
<1>3. CASE Read
    <2>1. TypeOK' /\ StillSeen' /\ UNCHANGED logVars
        BY <1>3, ReadKeeps
    <2>2. Stays'
        BY <1>1, <2>1, LogsStep
    <2> QED
        BY <2>1, <2>2 DEF Inv
<1>4. CASE Restart
    <2>1. LogsTypeOK' /\ Stays' /\ reader' = Idle
        BY <1>1, <1>4, LogsStep DEF Restart
    <2> QED
        BY <2>1 DEF Inv, TypeOK, StillSeen, Idle, Place
<1> QED
    BY <1>2, <1>3, <1>4 DEF Next, vars

\* TypeOK: the rows of request_logs, and what GetModelOverview, GetTargetDiagnosis and
\* the handlers of logs keep between their statements.
THEOREM DiagnosticsTypeCorrect == Spec => []TypeOK
<1>1. Inv => TypeOK
    BY DEF Inv
<1> QED
    BY <1>1, InvInit, InvNext, PTL DEF Spec

\* FiguresAgree: the figures that GetModelOverview and GetTargetDiagnosis show in one row
\* tell one story, though each is read by a statement of its own.
THEOREM FiguresTellOneStory == Spec => []FiguresAgree
<1>1. ASSUME Inv PROVE FiguresAgree
    <2> SUFFICES ASSUME reader.at = "complete", Undisturbed
                 PROVE  FiguresAgree
        BY DEF FiguresAgree
    <2> DEFINE S == reader.row.seen
               timed == Timed(S)
    <2>1. LogsTypeOK /\ reader.at \in Place /\ Started(reader.row) /\ Told
        BY <1>1 DEF Inv, TypeOK, StillSeen, Place
    <2>2. S \in SUBSET DOMAIN log
        BY <2>1 DEF Started
    <2>3. /\ reader.row.low = Percentile(S, Low) /\ reader.row.high = Percentile(S, High)
          /\ LastTold(reader.row)
        BY <2>1 DEF Told
    <2>4. reader \in Answering /\ reader.row \in Figures /\ reader.kind \in {"overview", "diagnosis"}
        BY <1>1, <2>1, ReaderIs DEF Inv, Answering
    <2>5. reader.row.count > 0 \/ reader.kind = "diagnosis"
        BY <2>1, <2>4 DEF Started
    <2>6. reader.row.errors > 0 => Failed(S) # {}
        <3>1. ~reader.lost
            BY DEF Undisturbed
        <3>2. Failed(S) = {} => Cardinality(Failed(S)) = 0
            BY FS_EmptySet
        <3> QED
            BY <2>1, <2>4, <3>1, <3>2 DEF Started
    <2>7. reader.row.errors > 0 => reader.row.last # NoRow
        <3>1. NoRow \notin Failed(S)
            BY <2>1, <2>2, RowsFinite DEF Failed, NoRow, RowId
        <3> QED
            BY <2>3, <2>6, <3>1 DEF LastTold
    <2>8. reader.row.last # NoRow => reader.row.last \in Failed(S)
        BY <2>3 DEF LastTold
    <2>9. reader.row.low <= reader.row.high
        BY <2>1, <2>2, <2>3, PercentilesInOrder
    <2>10. reader.row.low = 0 <=> timed = {}
        <3>1. timed = {} => Percentile(S, Low) = 0
            BY FS_EmptySet, DiagnosticsAssumption DEF Percentile, Smaller
        <3>2. timed # {} => Percentile(S, Low) \in 1 .. MaxLatency
            BY <2>1, <2>2, PercentileIs, DiagnosticsAssumption
        <3> QED
            BY <2>3, <3>1, <3>2
    <2>11. ASSUME timed # {}, NEW pct \in {Low, High}, NEW v, v = Percentile(S, pct)
           PROVE  /\ Cardinality(timed) <= Cap => StandsFor(S, pct, v)
                  /\ 100 * Cardinality(AtMost(S, v - 1)) <= pct * Cardinality(timed)
        BY <2>1, <2>2, <2>11, PercentileStands, DiagnosticsAssumption
    <2>12. timed # {} =>
             \A p \in {<<Low, reader.row.low>>, <<High, reader.row.high>>} :
                /\ Cardinality(timed) <= Cap => StandsFor(S, p[1], p[2])
                /\ 100 * Cardinality(AtMost(S, p[2] - 1)) <= p[1] * Cardinality(timed)
        BY <2>3, <2>11
    <2> HIDE DEF S, timed
    <2> QED
        BY <2>5, <2>7, <2>8, <2>9, <2>10, <2>12 DEF FiguresAgree, S, timed
<1> QED
    BY <1>1, InvInit, InvNext, PTL DEF Spec

\* ListsAgree: the recent failures and the slow requests of GetTargetDiagnosis belong
\* to the figures that it shows above them.
THEOREM ListsBelongToFigures == Spec => []ListsAgree
<1>1. ASSUME Inv PROVE ListsAgree
    <2> SUFFICES ASSUME reader.at = "complete", Undisturbed, reader.kind = "diagnosis"
                 PROVE  ListsAgree
        BY DEF ListsAgree
    <2> DEFINE row == reader.row
               S == reader.row.seen
    <2>1. LogsTypeOK /\ reader.at \in Place /\ Started(row) /\ Told /\ ~reader.lost
        BY <1>1 DEF Inv, TypeOK, StillSeen, Place, Undisturbed
    <2>2. S \in SUBSET DOMAIN log
        BY <2>1 DEF Started
    <2>3. /\ row.high = Percentile(S, High) /\ LastTold(row) /\ FailuresTold(row) /\ SlowTold(row)
          /\ row.count = Cardinality(S) /\ row.errors = Cardinality(Failed(S))
        BY <2>1 DEF Told, Started
    <2>4. \A i \in row.failures : log[row.last].created >= log[i].created
        BY <2>3 DEF FailuresTold, LastTold
    <2>5. ASSUME row.high > 0 PROVE \E i \in row.slow : log[i].latency >= row.high
        <3>1. Timed(S) # {}
            BY <2>3, <2>5, FS_EmptySet, DiagnosticsAssumption DEF Percentile, Smaller
        <3>2. /\ row.high \in 1 .. MaxLatency
              /\ Cardinality(AtMost(S, row.high - 1)) <= Index(Sorted(S), High)
              /\ Sorted(S) \in Nat \ {0}
            BY <2>1, <2>2, <2>3, <3>1, PercentileIs, DiagnosticsAssumption
        <3>3. Index(Sorted(S), High) \in 0 .. Sorted(S) - 1
            BY <3>2, IndexBounds, DiagnosticsAssumption
        <3>4. Cardinality(Timed(S)) \in Nat /\ Sorted(S) <= Cardinality(Timed(S))
            BY <2>1, <2>2, AtMostFinite, DiagnosticsAssumption DEF Sorted, Smaller
        <3>5. Cardinality(AtMost(S, row.high - 1)) \in Nat
            BY <2>1, <2>2, AtMostFinite
        <3>6. AtMost(S, row.high - 1) # Timed(S)
            BY <3>2, <3>3, <3>4, <3>5
        <3>7. PICK j \in Timed(S) : ~(log[j].latency <= row.high - 1)
            BY <3>6 DEF AtMost
        <3>8. /\ j \in S /\ log[j].latency \in Int /\ row.high \in Int
              /\ \A i \in S : log[i].latency \in Int
            BY <2>1, <2>2, <3>2, <3>7, RowsFinite DEF Timed
        <3>9. log[j].latency >= row.high
            BY <3>7, <3>8
        <3>10. row.slow # {}
            <4>1. Cardinality(S) \in Nat \ {0}
                BY <2>1, <2>2, <3>8, RowsFinite, FS_EmptySet
            <4>2. Cardinality(row.slow) # 0
                BY <2>3, <4>1, DiagnosticsAssumption DEF SlowTold, Smaller
            <4> QED
                BY <4>2, FS_EmptySet
        <3>11. CASE j \in row.slow
            BY <3>9, <3>11
        <3>12. CASE j \notin row.slow
            <4>1. PICK i \in row.slow : TRUE
                BY <3>10
            <4>2. log[i].latency >= log[j].latency /\ log[i].latency \in Int
                BY <2>3, <3>8, <3>12 DEF SlowTold
            <4> QED
                BY <3>8, <3>9, <4>1, <4>2
        <3> QED
            BY <3>11, <3>12
    <2> QED
        BY <2>3, <2>4, <2>5 DEF ListsAgree, FailuresTold, SlowTold
<1> QED
    BY <1>1, InvInit, InvNext, PTL DEF Spec

\* KeptWhileNeeded: the cleanup never takes a row that an answer counts, nor one that
\* was shown, as long as it is younger than the retention.
THEOREM NothingIsMissed == Spec => KeptWhileNeeded
<1> DEFINE Step ==
      /\ (reader.at \in {"overview", "diagnosis"} /\ InTime(reader.since)) =>
           /\ reader'.at = "low" =>
                reader'.row.seen = Logged(reader'.row.target, reader.since)
           /\ CountTarget /\ Logged(reader.target, reader.since) # {} => reader'.at = "low"
           /\ CountGroups => \A t \in Target :
                Logged(t, reader.since) # {} => reader'.at = "low"
      /\ (GetLog /\ InTime(log[reader.id].created)) => reader'.found
<1>1. ASSUME Inv, [Next]_vars PROVE [Step]_vars
    <2>1. /\ LogsTypeOK /\ now \in Int /\ Kept \in Int
          /\ \A i \in DOMAIN log : log[i].names \in Names /\ log[i].created \in Int
        <3>1. LogsTypeOK /\ now \in Int /\ Kept \in Int /\ \A i \in DOMAIN log : log[i] \in Row
            BY <1>1, RequestLogsAssumption DEF Inv, TypeOK, LogsTypeOK, Kept
        <3> QED
            BY <3>1, RequestLogsAssumption DEF Row
    <2>2. ASSUME NEW since \in Int, since > now - Kept, NEW t
          PROVE  Scope(t, since) = Logged(t, since)
        <3>1. table \subseteq DOMAIN log
            BY <2>1 DEF LogsTypeOK
        <3>2. \A i \in DOMAIN log : log[i].created >= since => i \in table
            BY <1>1, <2>1, <2>2 DEF Inv, Stays
        <3> QED
            BY <3>1, <3>2 DEF Scope, Logged
    <2>3. ASSUME GetLog, InTime(log[reader.id].created) PROVE reader'.found
        <3>1. reader.id \in DOMAIN log
            BY <1>1, <2>3 DEF GetLog, At, Inv, StillSeen
        <3>2. reader.id \in table
            BY <1>1, <2>3, <3>1 DEF Inv, Stays, InTime
        <3> QED
            BY <2>3, <3>2 DEF GetLog
    <2>4. ASSUME reader.at \in {"overview", "diagnosis"}, InTime(reader.since), Next
          PROVE  /\ reader'.at = "low" =>
                      reader'.row.seen = Logged(reader'.row.target, reader.since)
                 /\ CountTarget /\ Logged(reader.target, reader.since) # {}
                      => reader'.at = "low"
                 /\ CountGroups => \A t \in Target :
                      Logged(t, reader.since) # {} => reader'.at = "low"
        <3>1. reader.since \in Int /\ reader.since > now - Kept
            BY <1>1, <2>4, ReaderIs DEF Inv, InTime
        <3>2. \A t : Scope(t, reader.since) = Logged(t, reader.since)
            BY <2>2, <3>1
        <3>3. CASE CountGroups
            <4>1. IF Groups(reader.since) = {} THEN reader' = Idle
                  ELSE GoOn(reader.since, Groups(reader.since))
                BY <3>3 DEF CountGroups
            <4>2. ASSUME GoOn(reader.since, Groups(reader.since))
                  PROVE  reader'.row.seen = Logged(reader'.row.target, reader.since)
                <5>1. PICK row \in Groups(reader.since) : reader'.row = row
                    BY <4>2 DEF GoOn
                <5>2. PICK g \in Target \X Names :
                        row = Counted(g[1], Group(g[1], g[2], reader.since),
                                      Scope(g[1], reader.since))
                    BY DEF Groups
                <5> QED
                    BY <3>2, <5>1, <5>2 DEF Counted
            <4>3. ASSUME NEW t \in Target, Logged(t, reader.since) # {}
                  PROVE  Groups(reader.since) # {}
                <5>1. PICK i \in Scope(t, reader.since) : TRUE
                    BY <3>2, <4>3
                <5>2. i \in DOMAIN log /\ log[i].names \in Names
                    BY <2>1, <5>1 DEF Scope, LogsTypeOK
                <5>3. i \in Group(t, log[i].names, reader.since)
                    BY <5>1 DEF Group
                <5>4. <<t, log[i].names>> \in
                        {g \in Target \X Names : Group(g[1], g[2], reader.since) # {}}
                    BY <5>2, <5>3
                <5> QED
                    BY <5>4 DEF Groups
            <4>4. GoOn(reader.since, Groups(reader.since)) => reader'.at = "low"
                BY DEF GoOn
            <4>5. reader' = Idle => reader'.at # "low"
                BY DEF Idle
            <4>6. ~CountTarget
                BY <3>3 DEF CountTarget, CountGroups, At
            <4> QED
                BY <4>1, <4>2, <4>3, <4>4, <4>5, <4>6
        <3>4. CASE CountTarget
            <4>1. /\ reader'.row.seen = Scope(reader.target, reader.since)
                  /\ reader'.row.target = reader.target
                  /\ Scope(reader.target, reader.since) # {} => reader'.at = "low"
                BY <3>4 DEF CountTarget, Counted
            <4>2. ~CountGroups
                BY <3>4 DEF CountTarget, CountGroups, At
            <4> QED
                BY <3>2, <4>1, <4>2
        <3>5. CASE ~CountGroups /\ ~CountTarget
            <4>1. Read => CountFails
                BY <2>4, <3>5
                   DEF Read, At, Place, AskOverview, AskDiagnosis, ReadLow, ReadHigh,
                       ReadLast, ReadFailures, ReadSlow, ReadFails, NextRow, ListLogs,
                       GetLog, GetLogFails, Leave
            <4>2. reader' = reader \/ CountFails \/ Restart
                BY <2>4, <4>1 DEF Next
            <4>3. reader'.at # "low"
                BY <2>4, <4>2 DEF Idle, CountFails, Restart
            <4> QED
                BY <3>5, <4>3
        <3> QED
            BY <3>3, <3>4, <3>5
    <2> QED
        BY <1>1, <2>3, <2>4
<1> QED
    BY <1>1, InvInit, InvNext, PTL DEF Spec, KeptWhileNeeded

=============================================================================
