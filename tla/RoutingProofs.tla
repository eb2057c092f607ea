---------------------------- MODULE RoutingProofs ----------------------------
(***************************************************************************)
(* Proofs about ProviderHealth and Routing, for any number of providers,   *)
(* routes, targets, requests and checks, and all weights.                  *)
(***************************************************************************)
EXTENDS Routing, FiniteSetTheorems, NaturalsInduction, SequenceTheorems,
    WellFoundedInduction, TLAPS

(***************************************************************************)
(* Numbers.                                                                *)
(***************************************************************************)

\* A set of numbers that is not empty has a least one.
LEMMA LeastNumber ==
  ASSUME NEW S \in SUBSET Nat, S # {}
  PROVE  \E v \in S : \A w \in S : v <= w
  <1>1. PICK v \in S : \A w \in S : <<w, v>> \notin OpToRel(<, Nat)
    BY NatLessThanWellFounded, WFMin
  <1>2. \A w \in S : ~(w < v)
    BY <1>1 DEF OpToRel
  <1> QED
    BY <1>2

\* The least of some rows is one of them.
LEMMA FirstIsLeast ==
  ASSUME NEW S \in SUBSET Nat, S # {}
  PROVE  First(S) \in S /\ \A w \in S : First(S) <= w
  <1>1. \E v \in S : \A w \in S : v <= w
    BY LeastNumber
  <1> QED
    BY <1>1 DEF First

\* sum is the sequence of the sums of w, from nothing on.
SumsOf(sum, w, n) ==
    /\ sum \in [0 .. n -> Int]
    /\ sum[0] = 0
    /\ \A k \in 1 .. n : sum[k] = sum[k - 1] + w[k]

\* Numbers can be summed up.
LEMMA SumsExist ==
  ASSUME NEW n \in Nat, NEW w \in [1 .. n -> Int]
  PROVE  \E sum : SumsOf(sum, w, n)
  <1> DEFINE S == {k \in 0 .. n : ~\E sum : SumsOf(sum, w, k)}
  <1> SUFFICES ASSUME S # {} PROVE FALSE
    <2>1. n \in 0 .. n
      OBVIOUS
    <2> QED
      BY <2>1
  <1>1. PICK k \in S : \A j \in S : k <= j
    <2>1. S \in SUBSET Nat
      OBVIOUS
    <2> HIDE DEF S
    <2> QED
      BY <2>1, LeastNumber
  <1>2. k \in 0 .. n
    OBVIOUS
  <1>3. CASE k = 0
    <2>1. SumsOf([j \in 0 .. 0 |-> 0], w, 0)
      BY DEF SumsOf
    <2> QED
      BY <1>3, <2>1
  <1>4. CASE k # 0
    <2>1. k - 1 \in 0 .. n /\ k - 1 \notin S
      BY <1>1, <1>2, <1>4
    <2>2. PICK sum : SumsOf(sum, w, k - 1)
      BY <2>1
    <2> DEFINE more == [j \in 0 .. k |-> IF j = k THEN sum[k - 1] + w[k] ELSE sum[j]]
    <2>3. more \in [0 .. k -> Int]
      BY <1>2, <1>4, <2>2 DEF SumsOf
    <2>4. more[0] = 0
      BY <1>2, <1>4, <2>2 DEF SumsOf
    <2>5. ASSUME NEW j \in 1 .. k
          PROVE  more[j] = more[j - 1] + w[j]
      <3>1. CASE j = k
        BY <1>2, <1>4, <3>1
      <3>2. CASE j # k
        <4>1. j \in 1 .. k - 1 /\ j \in 0 .. k /\ j - 1 \in 0 .. k /\ j - 1 # k
          BY <1>2, <3>2
        <4> QED
          BY <2>2, <3>2, <4>1 DEF SumsOf
      <3> QED
        BY <3>1, <3>2
    <2> HIDE DEF more
    <2>6. SumsOf(more, w, k)
      BY <2>3, <2>4, <2>5 DEF SumsOf
    <2> QED
      BY <2>6
  <1> QED
    BY <1>3, <1>4

\* The weight that a target adds to a sum.
Added(ids, id) == IF id \in ids THEN targets[id].weight ELSE 0

\* Sums is what it says.
LEMMA SumsAre ==
  ASSUME targets \in Seq(Target), NEW ids
  PROVE  SumsOf(Sums(ids), [id \in 1 .. Len(targets) |-> Added(ids, id)], Len(targets))
  <1> DEFINE w == [id \in 1 .. Len(targets) |-> Added(ids, id)]
             Fun(sum) == [id \in 0 .. Len(targets) |->
                            IF id = 0 THEN 0
                            ELSE sum[id - 1] + (IF id \in ids THEN targets[id].weight ELSE 0)]
  <1>1. Len(targets) \in Nat
    OBVIOUS
  <1>2. w \in [1 .. Len(targets) -> Int]
    <2>1. \A id \in 1 .. Len(targets) : targets[id] \in Target
      OBVIOUS
    <2>2. \A id \in 1 .. Len(targets) : targets[id].weight \in Int
      BY <2>1, RoutingAssumption DEF Target
    <2> QED
      BY <2>2 DEF Added
  <1>3. PICK sum : SumsOf(sum, w, Len(targets))
    <2> HIDE DEF w
    <2> QED
      BY <1>1, <1>2, SumsExist
  <1>4. sum = Fun(sum)
    <2>1. sum \in [0 .. Len(targets) -> Int]
      BY <1>3 DEF SumsOf
    <2>2. ASSUME NEW id \in 0 .. Len(targets)
          PROVE  sum[id] = IF id = 0 THEN 0
                           ELSE sum[id - 1] + (IF id \in ids THEN targets[id].weight ELSE 0)
      <3>1. CASE id = 0
        BY <1>3, <3>1 DEF SumsOf
      <3>2. CASE id # 0
        <4>1. id \in 1 .. Len(targets)
          BY <1>1, <3>2
        <4> QED
          BY <1>3, <3>2, <4>1 DEF SumsOf, Added
      <3> QED
        BY <3>1, <3>2
    <2> QED
      BY <2>1, <2>2
  <1>5. Sums(ids) = Fun(Sums(ids))
    BY <1>4 DEF Sums
  <1>6. PICK sums : sums = Sums(ids)
    OBVIOUS
  <1>7. /\ DOMAIN sums = 0 .. Len(targets)
        /\ \A id \in 0 .. Len(targets) : sums[id] =
              IF id = 0 THEN 0 ELSE sums[id - 1] + Added(ids, id)
    <2>1. sums = Fun(sums)
      BY <1>5, <1>6
    <2> QED
      BY <2>1 DEF Added
  <1>8. /\ DOMAIN sum = 0 .. Len(targets)
        /\ \A id \in 0 .. Len(targets) : sum[id] =
              IF id = 0 THEN 0 ELSE sum[id - 1] + Added(ids, id)
    BY <1>4 DEF Added
  <1>9. \A id \in 0 .. Len(targets) : sums[id] = sum[id]
    <2> DEFINE S == {id \in 0 .. Len(targets) : sums[id] # sum[id]}
    <2> SUFFICES ASSUME S # {} PROVE FALSE
      OBVIOUS
    <2>1. S \in SUBSET Nat
      OBVIOUS
    <2>2. PICK k \in S : \A j \in S : k <= j
      <3> HIDE DEF S
      <3> QED
        BY <2>1, LeastNumber
    <2>3. k \in 0 .. Len(targets) /\ sums[k] # sum[k]
      OBVIOUS
    <2>4. k # 0
      BY <1>1, <1>7, <1>8, <2>3
    <2>5. k - 1 \in 0 .. Len(targets) /\ k - 1 \notin S
      BY <1>1, <2>2, <2>3, <2>4
    <2>6. sums[k - 1] = sum[k - 1]
      BY <2>5
    <2> QED
      BY <1>7, <1>8, <2>3, <2>4, <2>6
  <1>10. sums = sum
    BY <1>3, <1>7, <1>9 DEF SumsOf
  <1> QED
    BY <1>3, <1>6, <1>10

(***************************************************************************)
(* The draw.                                                               *)
(***************************************************************************)

\* The sums g of the weights of the targets ids among n, none of them negative.
Draws(g, ids, n) ==
    /\ n \in Nat /\ ids \in SUBSET (1 .. n)
    /\ g \in [0 .. n -> Int] /\ g[0] = 0
    /\ \A id \in ids : g[id] = g[id - 1] + targets[id].weight
    /\ \A id \in (1 .. n) \ ids : g[id] = g[id - 1]
    /\ \A id \in ids : targets[id].weight \in Nat

\* The sums do not fall.
LEMMA SumsRise ==
  ASSUME NEW g, NEW ids, NEW n, Draws(g, ids, n), NEW i \in 0 .. n, NEW j \in 0 .. n, i <= j
  PROVE  g[i] <= g[j]
  <1> n \in Nat /\ g \in [0 .. n -> Int]
    BY DEF Draws
  <1> DEFINE S == {k \in 0 .. n : i <= k /\ ~(g[i] <= g[k])}
  <1> SUFFICES ASSUME S # {} PROVE FALSE
    OBVIOUS
  <1>1. S \in SUBSET Nat
    OBVIOUS
  <1>2. PICK k \in S : \A l \in S : k <= l
    <2> HIDE DEF S
    <2> QED
      BY <1>1, LeastNumber
  <1>3. k \in 0 .. n /\ i <= k /\ ~(g[i] <= g[k])
    OBVIOUS
  <1>4. k # i
    <2>1. g[i] \in Int
      OBVIOUS
    <2> QED
      BY <1>3, <2>1
  <1>5. k - 1 \in 0 .. n /\ i <= k - 1 /\ k \in 1 .. n
    BY <1>3, <1>4
  <1>6. k - 1 \notin S
    BY <1>2, <1>5
  <1>7. g[i] <= g[k - 1]
    BY <1>5, <1>6
  <1>8. g[k - 1] <= g[k]
    <2>1. CASE k \in ids
      <3>1. g[k] = g[k - 1] + targets[k].weight /\ targets[k].weight \in Nat
        BY <2>1 DEF Draws
      <3>2. g[k - 1] \in Int
        BY <1>5
      <3> QED
        BY <3>1, <3>2
    <2>2. CASE k \notin ids
      <3>1. g[k] = g[k - 1] /\ g[k - 1] \in Int
        BY <1>5, <2>2 DEF Draws
      <3> QED
        BY <3>1
    <2> QED
      BY <2>1, <2>2
  <1>9. g[i] \in Int /\ g[k] \in Int /\ g[k - 1] \in Int
    BY <1>5
  <1> QED
    BY <1>3, <1>7, <1>8, <1>9

\* A pick that no target up to b exceeds is not exceeded by the sum at b.
LEMMA NotExceeded ==
  ASSUME NEW g, NEW ids, NEW n, Draws(g, ids, n), NEW b \in 0 .. n, NEW pick \in Nat,
         \A id \in ids : id <= b => g[id] <= pick
  PROVE  g[b] <= pick
  <1> n \in Nat /\ g \in [0 .. n -> Int] /\ g[0] = 0
    BY DEF Draws
  <1> DEFINE S == {k \in 0 .. n : k <= b /\ ~(g[k] <= pick)}
  <1> SUFFICES ASSUME S # {} PROVE FALSE
    OBVIOUS
  <1>1. S \in SUBSET Nat
    OBVIOUS
  <1>2. PICK k \in S : \A l \in S : k <= l
    <2> HIDE DEF S
    <2> QED
      BY <1>1, LeastNumber
  <1>3. k \in 0 .. n /\ k <= b /\ ~(g[k] <= pick)
    OBVIOUS
  <1>4. k # 0
    BY <1>3
  <1>5. k - 1 \in 0 .. n /\ k - 1 <= b /\ k \in 1 .. n
    BY <1>3, <1>4
  <1>6. k - 1 \notin S
    BY <1>2, <1>5
  <1>7. g[k - 1] <= pick
    BY <1>5, <1>6
  <1>8. k \notin ids
    BY <1>3
  <1>9. g[k] = g[k - 1]
    BY <1>5, <1>8 DEF Draws
  <1> QED
    BY <1>3, <1>7, <1>9

\* A pick is a target's if it is between the sums before and behind it.
LEMMA PickedIs ==
  ASSUME NEW g, NEW ids, NEW n, Draws(g, ids, n), NEW t \in ids, NEW pick \in 0 .. g[n] - 1
  PROVE  First({id \in ids : pick < g[id]}) = t <=> g[t - 1] <= pick /\ pick < g[t]
  <1> n \in Nat /\ g \in [0 .. n -> Int] /\ g[0] = 0 /\ ids \in SUBSET (1 .. n)
    BY DEF Draws
  <1> DEFINE beyond == {id \in ids : pick < g[id]}
  <1>0. n \in 0 .. n /\ g[n] \in Int
    OBVIOUS
  <1>1. pick \in Nat /\ pick < g[n]
    BY <1>0
  <1>2. \A id \in ids : id \in 0 .. n /\ g[id] \in Int /\ id - 1 \in 0 .. n /\ g[id - 1] \in Int
    OBVIOUS
  <1>3. \A id \in ids : id \notin beyond => g[id] <= pick
    BY <1>1, <1>2
  <1>4. beyond # {}
    <2> SUFFICES ASSUME beyond = {} PROVE FALSE
      OBVIOUS
    <2>1. \A id \in ids : id <= n => g[id] <= pick
      BY <1>3
    <2>2. g[n] <= pick
      BY <1>0, <1>1, <2>1, NotExceeded
    <2> QED
      BY <1>0, <1>1, <2>2
  <1>5. First(beyond) \in beyond /\ \A w \in beyond : First(beyond) <= w
    <2>1. \A id \in ids : id \in Nat
      OBVIOUS
    <2>2. beyond \in SUBSET ids
      OBVIOUS
    <2> HIDE DEF beyond
    <2>3. beyond \in SUBSET Nat
      BY <2>1, <2>2
    <2> QED
      BY <1>4, <2>3, FirstIsLeast
  <1>6. ASSUME First(beyond) = t
        PROVE  g[t - 1] <= pick /\ pick < g[t]
    <2>1. t \in beyond /\ \A w \in beyond : t <= w
      BY <1>5, <1>6
    <2>2. ASSUME NEW id \in ids, id <= t - 1
          PROVE  g[id] <= pick
      <3>1. ~(t <= id)
        BY <2>2
      <3>2. id \notin beyond
        BY <2>1, <3>1
      <3> QED
        BY <1>3, <3>2
    <2>3. g[t - 1] <= pick
      <3>1. t - 1 \in 0 .. n
        OBVIOUS
      <3> QED
        BY <1>1, <2>2, <3>1, NotExceeded
    <2> QED
      BY <2>1, <2>3
  <1>7. ASSUME g[t - 1] <= pick, pick < g[t]
        PROVE  First(beyond) = t
    <2>1. t \in beyond
      BY <1>7
    <2>2. PICK m \in beyond : m = First(beyond) /\ m <= t
      BY <1>5, <2>1
    <2>3. CASE m # t
      <3>1. m \in 0 .. n /\ t - 1 \in 0 .. n /\ m <= t - 1
        BY <2>2, <2>3
      <3>2. g[m] <= g[t - 1]
        BY <3>1, SumsRise
      <3>3. pick < g[m]
        BY <2>2
      <3>4. g[m] \in Int /\ g[t - 1] \in Int
        BY <3>1
      <3> QED
        BY <1>1, <1>7, <3>2, <3>3, <3>4
    <2> QED
      BY <2>2, <2>3
  <1> QED
    BY <1>6, <1>7

\* The picks of a target.
PicksOf(g, ids, n, t) ==
    {pick \in 0 .. g[n] - 1 : First({id \in ids : pick < g[id]}) = t}

\* As many picks are a target's as its weight says.
LEMMA PickShare ==
  ASSUME NEW g, NEW ids, NEW n, Draws(g, ids, n), NEW t \in ids
  PROVE  Cardinality(PicksOf(g, ids, n, t)) = targets[t].weight
  <1> n \in Nat /\ g \in [0 .. n -> Int] /\ g[0] = 0 /\ ids \in SUBSET (1 .. n)
    BY DEF Draws
  <1>1. t \in 0 .. n /\ t - 1 \in 0 .. n /\ 0 \in 0 .. n /\ n \in 0 .. n
    OBVIOUS
  <1>2. g[t] = g[t - 1] + targets[t].weight /\ targets[t].weight \in Nat
    BY DEF Draws
  <1>3. 0 <= g[t - 1] /\ g[t] <= g[n]
    <2>1. 0 <= t - 1 /\ t <= n
      BY <1>1
    <2>2. g[0] <= g[t - 1]
      BY <1>1, <2>1, SumsRise
    <2>3. g[t] <= g[n]
      BY <1>1, <2>1, SumsRise
    <2> QED
      BY <2>2, <2>3
  <1>4. PICK a \in Int, b \in Int, c \in Int, w \in Nat :
           a = g[t - 1] /\ b = g[t] /\ c = g[n] /\ w = targets[t].weight
    BY <1>1, <1>2
  <1>5. PicksOf(g, ids, n, t) = a .. b - 1
    <2>1. ASSUME NEW pick \in 0 .. g[n] - 1
          PROVE  First({id \in ids : pick < g[id]}) = t <=> a <= pick /\ pick < b
      <3>1. First({id \in ids : pick < g[id]}) = t <=> g[t - 1] <= pick /\ pick < g[t]
        BY PickedIs
      <3> QED
        BY <1>4, <3>1
    <2>2. a .. b - 1 \subseteq 0 .. g[n] - 1
      BY <1>3, <1>4
    <2>3. \A pick \in 0 .. g[n] - 1 : pick \in Int
      OBVIOUS
    <2>4. \A pick \in Int : pick \in a .. b - 1 <=> a <= pick /\ pick < b
      BY <1>4
    <2>5. a .. b - 1 \subseteq Int
      OBVIOUS
    <2> QED
      BY <2>1, <2>2, <2>3, <2>4, <2>5 DEF PicksOf
  <1>6. Cardinality(a .. b - 1) = w
    <2>1. Cardinality(a .. b - 1) = IF a > b - 1 THEN 0 ELSE (b - 1) - a + 1
      BY FS_Interval
    <2>2. b = a + w
      BY <1>2, <1>4
    <2> QED
      BY <2>1, <2>2
  <1> QED
    BY <1>4, <1>5, <1>6

\* The property of the draw holds in every state of the right type.
LEMMA DrawIsFair == TypeOK => PickedByWeight
  <1> SUFFICES ASSUME TypeOK, NEW route,
                      \A t \in ReadyTargets(route) : targets[t].weight >= 0,
                      NEW t \in ReadyTargets(route)
               PROVE  Cardinality({pick \in 0 .. Weight(ReadyTargets(route)) - 1 :
                                     Picked(ReadyTargets(route), pick) = t})
                        = targets[t].weight
    BY DEF PickedByWeight
  <1>1. PICK ids, n, g : ids = ReadyTargets(route) /\ n = Len(targets) /\ g = Sums(ids)
    OBVIOUS
  <1>2. targets \in Seq(Target) /\ n \in Nat /\ DOMAIN targets = 1 .. n
    BY <1>1 DEF TypeOK
  <1>3. ids \in SUBSET (1 .. n)
    BY <1>1, <1>2 DEF ReadyTargets
  <1>4. \A id \in ids : targets[id].weight \in Nat
    <2> SUFFICES ASSUME NEW id \in ids PROVE targets[id].weight \in Nat
      OBVIOUS
    <2>1. targets[id] \in Target
      BY <1>1, <1>2, <1>3
    <2>2. targets[id].weight \in Weights
      BY <2>1 DEF Target
    <2>3. targets[id].weight \in Int /\ targets[id].weight >= 0
      BY <1>1, <2>2, RoutingAssumption
    <2> QED
      BY <2>3
  <1>5. SumsOf(g, [id \in 1 .. n |-> Added(ids, id)], n)
    BY <1>1, <1>2, SumsAre
  <1>6. Draws(g, ids, n)
    <2>1. g \in [0 .. n -> Int] /\ g[0] = 0
      BY <1>5 DEF SumsOf
    <2>2. \A id \in 1 .. n : g[id] = g[id - 1] + Added(ids, id)
      BY <1>5 DEF SumsOf
    <2>3. \A id \in ids : g[id] = g[id - 1] + targets[id].weight
      BY <1>3, <2>2 DEF Added
    <2>4. ASSUME NEW id \in (1 .. n) \ ids
          PROVE  g[id] = g[id - 1]
      <3>1. g[id] = g[id - 1] + 0
        BY <2>2 DEF Added
      <3>2. id - 1 \in 0 .. n
        BY <1>2
      <3>3. g[id - 1] \in Int
        BY <2>1, <3>2
      <3> QED
        BY <3>1, <3>3
    <2> QED
      BY <1>2, <1>3, <1>4, <2>1, <2>3, <2>4 DEF Draws
  <1>7. Weight(ids) = g[n]
    BY <1>1 DEF Weight
  <1>8. ASSUME NEW pick \in 0 .. g[n] - 1
        PROVE  Picked(ids, pick) = First({id \in ids : pick < g[id]})
    <2>1. {id \in ids : pick < Running(ids, id)} = {id \in ids : pick < g[id]}
      BY <1>1 DEF Running
    <2>2. {id \in ids : pick < g[id]} # {}
      <3> SUFFICES ASSUME {id \in ids : pick < g[id]} = {} PROVE FALSE
        OBVIOUS
      <3>1. n \in 0 .. n /\ g \in [0 .. n -> Int]
        BY <1>2, <1>6 DEF Draws
      <3>2. pick \in Nat /\ pick < g[n]
        BY <3>1
      <3>3. \A id \in ids : id <= n => g[id] <= pick
        <4>1. \A id \in ids : g[id] \in Int /\ ~(pick < g[id])
          BY <1>3, <3>1
        <4> QED
          BY <3>2, <4>1
      <3>4. g[n] <= pick
        BY <1>6, <3>1, <3>2, <3>3, NotExceeded
      <3> QED
        BY <3>1, <3>2, <3>4
    <2> QED
      BY <2>1, <2>2 DEF Picked
  <1>9. {pick \in 0 .. g[n] - 1 : Picked(ids, pick) = t} = PicksOf(g, ids, n, t)
    BY <1>8 DEF PicksOf
  <1>10. t \in ids
    BY <1>1
  <1>11. Cardinality(PicksOf(g, ids, n, t)) = targets[t].weight
    BY <1>6, <1>10, PickShare
  <1>12. Cardinality({pick \in 0 .. g[n] - 1 : Picked(ids, pick) = t}) = targets[t].weight
    BY <1>9, <1>11
  <1> QED
    BY <1>1, <1>7, <1>12

(***************************************************************************)
(* The types.  A sweep counts each provider once: those it has listed and  *)
(* not counted are told apart by their ids.                                *)
(***************************************************************************)

CheckState ==
    {NoCheck} \cup [at : {"probing"}, of : Snapshot] \cup [at : {"writing"}, found : Finding]

SweepInv ==
    /\ \A s, t \in todo : s.id = t.id => s = t
    /\ pc = "writing" => \A s \in todo : s.id # current.id

HealthInv == HealthTypeOK /\ SweepInv

\* A list is made of routes there are, and is over when none is left.
ListInv ==
    \A r \in Request : request[r].at = "listing" =>
        request[r].left # {} /\ request[r].left \subseteq DOMAIN routes

RoutingInv == TypeOK /\ SweepInv /\ ListInv

\* The bounds are numbers.
LEMMA Bounds == MaxProviders \in Nat /\ MaxChanges \in Nat /\ MaxRoutes \in Nat /\ MaxTargets \in Nat
  BY HealthAssumption, RoutingAssumption

\* A row of a table is replaced.
Replaced(table, id, row) == [table EXCEPT ![id] = row]

\* The table has as many rows as before, all of the type.
LEMMA RowUpdate ==
  ASSUME NEW Row, NEW table \in Seq(Row), NEW id, NEW row, id \in DOMAIN table => row \in Row
  PROVE  /\ Replaced(table, id, row) \in Seq(Row)
         /\ Len(Replaced(table, id, row)) = Len(table)
  <1>1. PICK n \in Nat : n = Len(table) /\ table \in [1 .. n -> Row]
    OBVIOUS
  <1>2. PICK new : new = Replaced(table, id, row)
    OBVIOUS
  <1>3. new \in [1 .. n -> Row]
    BY <1>1, <1>2 DEF Replaced
  <1>4. new \in Seq(Row) /\ Len(new) = n
    BY <1>3
  <1> QED
    BY <1>1, <1>2, <1>4

\* A row is added to a table.
LEMMA RowInsert ==
  ASSUME NEW Row, NEW table \in Seq(Row), NEW row \in Row
  PROVE  /\ Append(table, row) \in Seq(Row)
         /\ Len(Append(table, row)) = Len(table) + 1
         /\ \A id \in 1 .. Len(table) : Append(table, row)[id] = table[id]
  OBVIOUS

\* What a probe finds.
LEMMA FindsType ==
  ASSUME NEW s \in Snapshot
  PROVE  Finds(s) \in Finding /\ Finds(s).id = s.id
  BY DEF Snapshot, Finds, Finding, Status

\* What is read of a provider.
LEMMA SnapshotType ==
  ASSUME HealthTypeOK, NEW id \in DOMAIN providers
  PROVE  SnapshotOf(id) \in Snapshot /\ SnapshotOf(id).id = id
  <1>1. PICK n \in Nat : n = Len(providers) /\ DOMAIN providers = 1 .. n /\ n <= MaxProviders
    BY DEF HealthTypeOK
  <1>2. id \in ProviderId
    BY <1>1, Bounds DEF ProviderId
  <1>3. providers[id] \in Provider
    BY DEF HealthTypeOK
  <1>4. providers[id].url \in Url
    BY <1>3 DEF Provider
  <1> QED
    BY <1>2, <1>4 DEF SnapshotOf, Snapshot

\* A finding that is written leaves the table of its type.
LEMMA UpdateHealthType ==
  ASSUME HealthTypeOK, NEW found \in Finding, UpdateHealth(found)
  PROVE  providers' \in Seq(Provider) /\ Len(providers') = Len(providers)
  <1>1. providers \in Seq(Provider)
    BY DEF HealthTypeOK
  <1>2. CASE providers' = [providers EXCEPT ![found.id].status = found.status]
    <2> DEFINE row == [providers[found.id] EXCEPT !.status = found.status]
    <2>1. providers' = Replaced(providers, found.id, row)
      BY <1>2 DEF Replaced
    <2>2. found.id \in DOMAIN providers => row \in Provider
      <3> SUFFICES ASSUME found.id \in DOMAIN providers PROVE row \in Provider
        OBVIOUS
      <3>1. providers[found.id] \in Provider
        BY <1>1
      <3>2. found.status \in Status
        BY DEF Finding
      <3> QED
        BY <3>1, <3>2 DEF Provider
    <2> HIDE DEF row
    <2> QED
      BY <1>1, <2>1, <2>2, RowUpdate
  <1> QED
    BY <1>1, <1>2 DEF UpdateHealth

\* The state of a sweep is of the providers there are.
LEMMA UncountedFinite ==
  ASSUME HealthTypeOK
  PROVE  /\ Uncounted \in SUBSET ProviderId /\ IsFiniteSet(Uncounted)
         /\ {s.id : s \in todo} \in SUBSET ProviderId /\ IsFiniteSet({s.id : s \in todo})
         /\ tally.healthy \in Nat /\ tally.unhealthy \in Nat
  <1>1. \A s \in todo : s.id \in ProviderId
    BY DEF HealthTypeOK, Snapshot
  <1>2. pc = "writing" => current.id \in ProviderId
    BY DEF HealthTypeOK, Finding
  <1>3. Uncounted \in SUBSET ProviderId /\ {s.id : s \in todo} \in SUBSET ProviderId
    BY <1>1, <1>2 DEF Uncounted
  <1>4. IsFiniteSet(ProviderId)
    BY Bounds, FS_Interval DEF ProviderId
  <1>5. IsFiniteSet(Uncounted) /\ IsFiniteSet({s.id : s \in todo})
    BY <1>3, <1>4, FS_Subset
  <1>6. tally.healthy \in Nat /\ tally.unhealthy \in Nat
    <2>1. tally.healthy \in 0 .. MaxProviders /\ tally.unhealthy \in 0 .. MaxProviders
      BY DEF HealthTypeOK, Tally
    <2> QED
      BY <2>1, Bounds
  <1> QED
    BY <1>3, <1>5, <1>6

\* A step that leaves the sweep alone.
LEMMA SweepUntouched ==
  ASSUME HealthInv, UNCHANGED sweepVars,
         providers' \in Seq(Provider), Len(providers') >= Len(providers),
         Len(providers') <= MaxProviders,
         up' \subseteq Url, changes' \in 0 .. MaxChanges, UNCHANGED gauges,
         checks' \in [Checks -> CheckState]
  PROVE  HealthInv'
  <1>1. UNCHANGED <<pc, todo, current, tally>>
    BY DEF sweepVars
  <1>2. Uncounted' = Uncounted
    BY <1>1 DEF Uncounted
  <1>3. SweepInv'
    BY <1>1 DEF HealthInv, SweepInv
  <1>4. tally.healthy + tally.unhealthy + Cardinality(Uncounted) <= Len(providers')
    <2>1. HealthTypeOK
      BY DEF HealthInv
    <2>2. Cardinality(Uncounted) \in Nat
      BY <2>1, UncountedFinite, FS_CardinalityType
    <2>3. tally.healthy \in Nat /\ tally.unhealthy \in Nat
      BY <2>1, UncountedFinite
    <2>4. tally.healthy + tally.unhealthy + Cardinality(Uncounted) <= Len(providers)
      BY DEF HealthInv, HealthTypeOK
    <2>5. Len(providers) \in Nat /\ Len(providers') \in Nat
      BY DEF HealthInv, HealthTypeOK
    <2> QED
      BY <2>2, <2>3, <2>4, <2>5
  <1>5. HealthTypeOK'
    BY <1>1, <1>2, <1>4 DEF HealthInv, HealthTypeOK, CheckState
  <1> QED
    BY <1>3, <1>5 DEF HealthInv

\* A change is counted.
LEMMA ChangeType ==
  ASSUME HealthTypeOK, Change
  PROVE  changes' \in 0 .. MaxChanges
  BY Bounds DEF HealthTypeOK, Change

\* What an admin does to the table of providers.
LEMMA AdminKeeps ==
  ASSUME HealthInv, Admin
  PROVE  HealthInv'
  <1> HealthTypeOK
    BY DEF HealthInv
  <1>0. PICK n \in Nat : n = Len(providers) /\ n <= MaxProviders /\ DOMAIN providers = 1 .. n
    BY DEF HealthTypeOK
  <1>1. ASSUME NEW url \in Url, NEW enabled \in BOOLEAN, CreateProvider(url, enabled)
        PROVE  HealthInv'
    <2>1. PICK row : row = [url |-> url, enabled |-> enabled, deleted |-> FALSE, status |-> "unknown"]
      OBVIOUS
    <2>2. row \in Provider
      BY <2>1 DEF Provider, Status
    <2>3. providers' = Append(providers, row) /\ Len(providers) < MaxProviders /\ Change
          /\ UNCHANGED <<up, sweepVars, gauges, checks>>
      BY <1>1, <2>1 DEF CreateProvider, Inserted
    <2>4. providers' \in Seq(Provider) /\ Len(providers') = n + 1 /\ n + 1 <= MaxProviders
      BY <1>0, <2>2, <2>3, Bounds, RowInsert DEF HealthTypeOK
    <2> QED
      BY <1>0, <2>3, <2>4, ChangeType, SweepUntouched DEF HealthTypeOK, CheckState
  <1>2. ASSUME NEW url \in Url, NEW enabled \in BOOLEAN, NEW id \in DOMAIN providers,
               UpdateProvider(id, url, enabled)
        PROVE  HealthInv'
    <2>1. PICK row : row = [providers[id] EXCEPT !.url = url, !.enabled = enabled]
      OBVIOUS
    <2>2. row \in Provider
      <3>1. providers[id] \in Provider
        BY DEF HealthTypeOK
      <3> QED
        BY <2>1, <3>1 DEF Provider
    <2>3. providers' = Replaced(providers, id, row) /\ Change
          /\ UNCHANGED <<up, sweepVars, gauges, checks>>
      BY <1>2, <2>1 DEF UpdateProvider, Updated, Replaced
    <2>4. providers' \in Seq(Provider) /\ Len(providers') = n
      BY <1>0, <2>2, <2>3, RowUpdate DEF HealthTypeOK
    <2> QED
      BY <1>0, <2>3, <2>4, ChangeType, SweepUntouched DEF HealthTypeOK, CheckState
  <1>3. ASSUME NEW id \in DOMAIN providers, DeleteProvider(id)
        PROVE  HealthInv'
    <2>1. PICK row : row = [providers[id] EXCEPT !.deleted = TRUE]
      OBVIOUS
    <2>2. row \in Provider
      <3>1. providers[id] \in Provider
        BY DEF HealthTypeOK
      <3> QED
        BY <2>1, <3>1 DEF Provider
    <2>3. providers' = Replaced(providers, id, row) /\ Change
          /\ UNCHANGED <<up, sweepVars, gauges, checks>>
      BY <1>3, <2>1 DEF DeleteProvider, Deleted, Replaced
    <2>4. providers' \in Seq(Provider) /\ Len(providers') = n
      BY <1>0, <2>2, <2>3, RowUpdate DEF HealthTypeOK
    <2> QED
      BY <1>0, <2>3, <2>4, ChangeType, SweepUntouched DEF HealthTypeOK, CheckState
  <1> QED
    BY <1>1, <1>2, <1>3 DEF Admin

\* What CheckProvider does.
LEMMA CheckKeeps ==
  ASSUME HealthInv, NEW c \in Checks, Check(c)
  PROVE  HealthInv'
  <1> HealthTypeOK
    BY DEF HealthInv
  <1>0. checks \in [Checks -> CheckState] /\ Len(providers) \in Nat
        /\ up \subseteq Url /\ changes \in 0 .. MaxChanges /\ Len(providers) <= MaxProviders
        /\ providers \in Seq(Provider)
    BY DEF HealthTypeOK, CheckState
  <1>1. ASSUME NEW id \in DOMAIN providers, CheckGet(c, id)
        PROVE  HealthInv'
    <2>1. PICK new : new = [at |-> "probing", of |-> SnapshotOf(id)]
      OBVIOUS
    <2>2. new \in CheckState
      BY <2>1, SnapshotType DEF CheckState
    <2>3. checks' = [checks EXCEPT ![c] = new] /\ UNCHANGED <<providers, up, changes, sweepVars, gauges>>
      BY <1>1, <2>1 DEF CheckGet
    <2>4. checks' \in [Checks -> CheckState]
      BY <1>0, <2>2, <2>3
    <2> QED
      BY <1>0, <2>3, <2>4, SweepUntouched
  <1>2. CASE CheckProbe(c)
    <2>1. PICK new : new = [at |-> "writing", found |-> Finds(checks[c].of)]
      OBVIOUS
    <2>2. new \in CheckState
      <3>1. checks[c] \in CheckState /\ checks[c].at = "probing"
        BY <1>0, <1>2 DEF CheckProbe
      <3>2. checks[c].of \in Snapshot
        BY <3>1 DEF CheckState, NoCheck
      <3> QED
        BY <2>1, <3>2, FindsType DEF CheckState
    <2>3. checks' = [checks EXCEPT ![c] = new] /\ UNCHANGED <<providers, up, changes, sweepVars, gauges>>
      BY <1>2, <2>1 DEF CheckProbe
    <2>4. checks' \in [Checks -> CheckState]
      BY <1>0, <2>2, <2>3
    <2> QED
      BY <1>0, <2>3, <2>4, SweepUntouched
  <1>3. CASE CheckWrite(c)
    <2>1. checks[c] \in CheckState /\ checks[c].at = "writing" /\ UpdateHealth(checks[c].found)
      BY <1>0, <1>3 DEF CheckWrite
    <2>2. checks[c].found \in Finding
      BY <2>1 DEF CheckState, NoCheck
    <2>3. providers' \in Seq(Provider) /\ Len(providers') = Len(providers)
      BY <2>1, <2>2, UpdateHealthType
    <2>4. checks' = [checks EXCEPT ![c] = NoCheck] /\ UNCHANGED <<up, changes, sweepVars, gauges>>
      BY <1>3 DEF CheckWrite
    <2>5. checks' \in [Checks -> CheckState]
      BY <1>0, <2>4 DEF CheckState
    <2> QED
      BY <1>0, <2>3, <2>4, <2>5, SweepUntouched
  <1> QED
    BY <1>1, <1>2, <1>3 DEF Check

\* What the sweep does.
LEMMA SweepKeeps ==
  ASSUME HealthInv, Sweep
  PROVE  HealthInv'
  <1> HealthTypeOK /\ SweepInv
    BY DEF HealthInv
  <1>0. PICK n \in Nat : n = Len(providers) /\ n <= MaxProviders /\ DOMAIN providers = 1 .. n
    BY DEF HealthTypeOK
  <1>1. CASE SweepList
    <2>1. PICK S : S = {i \in DOMAIN providers : Live(i) /\ providers[i].enabled}
      OBVIOUS
    <2>2. todo' = {SnapshotOf(id) : id \in S} /\ pc' = "probing" /\ pc = "waiting"
          /\ UNCHANGED <<providers, up, changes, current, tally, gauges, checks>>
      BY <1>1, <2>1 DEF SweepList
    <2>3. S \in SUBSET (1 .. n)
      BY <1>0, <2>1
    <2>4. ASSUME NEW id \in S
          PROVE  SnapshotOf(id) \in Snapshot /\ SnapshotOf(id).id = id
      BY <1>0, <2>3, SnapshotType
    <2>5. Uncounted' = S
      <3>1. {s.id : s \in todo'} = S
        BY <2>2, <2>4
      <3> QED
        BY <2>2, <3>1 DEF Uncounted
    <2>6. Cardinality(S) \in Nat /\ Cardinality(S) <= n
      <3>1. IsFiniteSet(1 .. n) /\ Cardinality(1 .. n) = n
        <4>1. 1 \in Int /\ n \in Int
          OBVIOUS
        <4>2. IsFiniteSet(1 .. n) /\ Cardinality(1 .. n) = IF 1 > n THEN 0 ELSE n - 1 + 1
          BY <4>1, FS_Interval
        <4> QED
          BY <4>2
      <3>2. IsFiniteSet(S) /\ Cardinality(S) <= n
        BY <2>3, <3>1, FS_Subset
      <3> QED
        BY <3>2, FS_CardinalityType
    <2>7. tally = NoTally /\ current = NoCheck
      BY <2>2 DEF HealthTypeOK
    <2>8. tally.healthy + tally.unhealthy + Cardinality(Uncounted') <= Len(providers)
      <3>1. tally.healthy = 0 /\ tally.unhealthy = 0
        BY <2>7 DEF NoTally
      <3> QED
        BY <1>0, <2>5, <2>6, <3>1
    <2>9. SweepInv'
      BY <2>2, <2>4 DEF SweepInv
    <2>10. todo' \subseteq Snapshot
      BY <2>2, <2>4
    <2>11. HealthTypeOK'
      BY <2>2, <2>7, <2>8, <2>10 DEF HealthTypeOK
    <2> QED
      BY <2>9, <2>11 DEF HealthInv
  <1>2. ASSUME NEW s \in todo, SweepProbe(s)
        PROVE  HealthInv'
    <2>1. pc = "probing" /\ pc' = "writing" /\ todo' = todo \ {s} /\ current' = Finds(s)
          /\ UNCHANGED <<providers, up, changes, tally, gauges, checks>>
      BY <1>2 DEF SweepProbe
    <2>2. s \in Snapshot
      BY DEF HealthTypeOK
    <2>3. current' \in Finding /\ current'.id = s.id
      BY <2>1, <2>2, FindsType
    <2>4. Uncounted' = Uncounted
      <3>1. Uncounted = {t.id : t \in todo}
        BY <2>1 DEF Uncounted
      <3>2. Uncounted' = {t.id : t \in todo \ {s}} \cup {s.id}
        BY <2>1, <2>3 DEF Uncounted
      <3> QED
        BY <3>1, <3>2
    <2>5. SweepInv'
      BY <2>1, <2>3 DEF SweepInv
    <2>6. HealthTypeOK'
      BY <2>1, <2>3, <2>4 DEF HealthTypeOK
    <2> QED
      BY <2>5, <2>6 DEF HealthInv
  <1>3. CASE SweepWrite
    <2>1. pc = "writing" /\ pc' = "probing" /\ current' = NoCheck /\ UpdateHealth(current)
          /\ tally' = [tally EXCEPT ![current.status] = @ + 1]
          /\ UNCHANGED <<up, changes, todo, gauges, checks>>
      BY <1>3 DEF SweepWrite
    <2>2. current \in Finding
      BY <2>1 DEF HealthTypeOK
    <2>3. providers' \in Seq(Provider) /\ Len(providers') = n
      BY <1>0, <2>1, <2>2, UpdateHealthType
    <2>4. PICK ids : ids = {s.id : s \in todo}
      OBVIOUS
    <2>5. Uncounted = ids \cup {current.id} /\ Uncounted' = ids /\ current.id \notin ids
      <3>1. Uncounted = ids \cup {current.id}
        BY <2>1, <2>4 DEF Uncounted
      <3>2. Uncounted' = ids
        BY <2>1, <2>4 DEF Uncounted
      <3>3. current.id \notin ids
        BY <2>1, <2>4 DEF SweepInv
      <3> QED
        BY <3>1, <3>2, <3>3
    <2>6. Cardinality(ids) \in Nat /\ Cardinality(Uncounted) = Cardinality(ids) + 1
      <3>1. IsFiniteSet(ids)
        BY <2>4, UncountedFinite
      <3> QED
        BY <2>5, <3>1, FS_AddElement, FS_CardinalityType
    <2>7. PICK h \in Nat, u \in Nat, c \in Nat :
            h = tally.healthy /\ u = tally.unhealthy /\ c = Cardinality(ids)
      BY <2>6, UncountedFinite
    <2>8. h + u + (c + 1) <= n
      <3>1. tally.healthy + tally.unhealthy + Cardinality(Uncounted) <= Len(providers)
        BY DEF HealthTypeOK
      <3> QED
        BY <1>0, <2>6, <2>7, <3>1
    <2>9. current.status \in {"healthy", "unhealthy"}
      BY <2>2 DEF Finding, Status
    <2>10. tally \in Tally
      BY DEF HealthTypeOK
    <2>11. \/ tally' = [healthy |-> h + 1, unhealthy |-> u]
           \/ tally' = [healthy |-> h, unhealthy |-> u + 1]
      <3>1. tally = [healthy |-> h, unhealthy |-> u]
        BY <2>7, <2>10 DEF Tally
      <3>2. CASE current.status = "healthy"
        <4>1. tally' = [tally EXCEPT !.healthy = h + 1]
          BY <2>1, <2>7, <3>2
        <4> QED
          BY <3>1, <4>1
      <3>3. CASE current.status = "unhealthy"
        <4>1. tally' = [tally EXCEPT !.unhealthy = u + 1]
          BY <2>1, <2>7, <3>3
        <4> QED
          BY <3>1, <4>1
      <3> QED
        BY <2>9, <3>2, <3>3
    <2>12. tally'.healthy + tally'.unhealthy + c <= n /\ tally' \in Tally
      <3>2. h + 1 + u + c <= n /\ h + 1 <= MaxProviders /\ u + 1 <= MaxProviders
        BY <1>0, <2>8, Bounds
      <3>3. h \in 0 .. MaxProviders /\ u \in 0 .. MaxProviders
            /\ h + 1 \in 0 .. MaxProviders /\ u + 1 \in 0 .. MaxProviders
        BY <3>2, Bounds
      <3>4. CASE tally' = [healthy |-> h + 1, unhealthy |-> u]
        BY <3>2, <3>3, <3>4 DEF Tally
      <3>5. CASE tally' = [healthy |-> h, unhealthy |-> u + 1]
        BY <3>2, <3>3, <3>5 DEF Tally
      <3> QED
        BY <2>11, <3>4, <3>5
    <2>13. SweepInv'
      BY <2>1 DEF SweepInv
    <2>14. tally'.healthy + tally'.unhealthy + Cardinality(Uncounted') <= Len(providers')
      BY <2>3, <2>5, <2>7, <2>12
    <2>15. HealthTypeOK'
      BY <1>0, <2>1, <2>3, <2>12, <2>14 DEF HealthTypeOK
    <2> QED
      BY <2>13, <2>15 DEF HealthInv
  <1>4. CASE SweepGauges
    <2>1. pc = "probing" /\ pc' = "waiting" /\ todo = {} /\ gauges' = tally /\ tally' = NoTally
          /\ UNCHANGED <<providers, up, changes, todo, current, checks>>
      BY <1>4 DEF SweepGauges
    <2>2. Uncounted' = {}
      BY <2>1 DEF Uncounted
    <2>3. tally' \in Tally /\ tally'.healthy = 0 /\ tally'.unhealthy = 0
      BY <2>1, Bounds DEF Tally, NoTally
    <2>4. tally'.healthy + tally'.unhealthy + Cardinality(Uncounted') <= Len(providers')
      BY <1>0, <2>1, <2>2, <2>3, FS_EmptySet
    <2>5. HealthTypeOK'
      BY <2>1, <2>3, <2>4 DEF HealthTypeOK
    <2>6. SweepInv'
      BY <2>1 DEF SweepInv
    <2> QED
      BY <2>5, <2>6 DEF HealthInv
  <1> QED
    BY <1>1, <1>2, <1>3, <1>4 DEF Sweep

\* What a restart leaves.
LEMMA RestartKeeps ==
  ASSUME HealthInv, Restart
  PROVE  HealthInv'
  <1> HealthTypeOK
    BY DEF HealthInv
  <1>1. /\ pc' = "waiting" /\ todo' = {} /\ current' = NoCheck /\ tally' = NoTally
        /\ gauges' = NoTally /\ checks' = [c \in Checks |-> NoCheck]
        /\ UNCHANGED <<providers, up>> /\ Change
    BY DEF Restart
  <1>2. NoTally \in Tally /\ NoTally.healthy = 0 /\ NoTally.unhealthy = 0
    BY Bounds DEF Tally, NoTally
  <1>3. Uncounted' = {}
    BY <1>1 DEF Uncounted
  <1>4. Len(providers') \in Nat
    BY <1>1 DEF HealthTypeOK
  <1>5. tally'.healthy + tally'.unhealthy + Cardinality(Uncounted') <= Len(providers')
    BY <1>1, <1>2, <1>3, <1>4, FS_EmptySet
  <1>6. HealthTypeOK'
    BY <1>1, <1>2, <1>5, ChangeType DEF HealthTypeOK
  <1>7. SweepInv'
    BY <1>1 DEF SweepInv
  <1> QED
    BY <1>6, <1>7 DEF HealthInv

\* The types hold of whatever an earlier process left.
LEMMA HealthInitType ==
  ASSUME HealthInit
  PROVE  HealthInv
  <1>1. PICK n \in 0 .. MaxProviders : providers \in [1 .. n -> Provider]
    BY DEF HealthInit
  <1>2. providers \in Seq(Provider) /\ Len(providers) = n /\ n \in Nat /\ n <= MaxProviders
    BY <1>1, Bounds
  <1>3. /\ pc = "waiting" /\ todo = {} /\ current = NoCheck /\ tally = NoTally
        /\ gauges = NoTally /\ checks = [c \in Checks |-> NoCheck]
        /\ up \subseteq Url /\ changes = 0
    BY DEF HealthInit
  <1>4. NoTally \in Tally /\ NoTally.healthy = 0 /\ NoTally.unhealthy = 0
    BY Bounds DEF Tally, NoTally
  <1>5. Uncounted = {}
    BY <1>3 DEF Uncounted
  <1>6. tally.healthy + tally.unhealthy + Cardinality(Uncounted) <= Len(providers)
    BY <1>2, <1>3, <1>4, <1>5, FS_EmptySet
  <1>7. HealthTypeOK
    BY <1>2, <1>3, <1>4, <1>6, Bounds DEF HealthTypeOK
  <1>8. SweepInv
    BY <1>3 DEF SweepInv
  <1> QED
    BY <1>7, <1>8 DEF HealthInv

(***************************************************************************)
(* Routes, targets and requests.                                           *)
(***************************************************************************)

\* The tables of the routes and of the targets.
TablesOK ==
    /\ routes \in Seq(Route) /\ Len(routes) <= MaxRoutes /\ ModelsUnique(routes)
    /\ targets \in Seq(Target) /\ Len(targets) <= MaxTargets

\* The models stay unique if none is renamed or comes back.
LEMMA StaysUnique ==
  ASSUME NEW table, NEW new, ModelsUnique(table), DOMAIN new = DOMAIN table,
         \A i \in DOMAIN table :
            new[i].model = table[i].model /\ (~new[i].deleted => ~table[i].deleted)
  PROVE  ModelsUnique(new)
  BY DEF ModelsUnique

\* What an admin does to the routes and the targets.
LEMMA RouteAdminKeeps ==
  ASSUME TablesOK, RouteAdmin
  PROVE  TablesOK' /\ Len(routes') >= Len(routes)
  <1>0. PICK n, k : n = Len(routes) /\ k = Len(targets)
    OBVIOUS
  <1>a. n \in Nat /\ k \in Nat /\ DOMAIN routes = 1 .. n /\ DOMAIN targets = 1 .. k
        /\ n <= MaxRoutes /\ k <= MaxTargets
        /\ routes \in Seq(Route) /\ targets \in Seq(Target) /\ ModelsUnique(routes)
    BY <1>0 DEF TablesOK
  <1>b. \A id \in DOMAIN routes : routes[id] \in Route
    BY <1>a
  <1>1. ASSUME NEW m \in Model, NEW enabled \in BOOLEAN, CreateRoute(m, enabled)
        PROVE  TablesOK' /\ Len(routes') >= Len(routes)
    <2>1. PICK row : row = [model |-> m, enabled |-> enabled, deleted |-> FALSE]
      OBVIOUS
    <2>2. row \in Route
      BY <2>1 DEF Route
    <2>3. routes' = Append(routes, row) /\ Len(routes) < MaxRoutes /\ ModelsUnique(routes')
          /\ UNCHANGED targets
      BY <1>1, <2>1 DEF CreateRoute, RouteInserted
    <2>4. routes' \in Seq(Route) /\ Len(routes') = n + 1 /\ n + 1 <= MaxRoutes
      BY <1>0, <1>a, <2>2, <2>3, Bounds, RowInsert
    <2> QED
      BY <1>0, <1>a, <2>3, <2>4 DEF TablesOK
  <1>2. ASSUME NEW id \in DOMAIN routes, NEW row \in Route, routes' = Replaced(routes, id, row),
               row.model = routes[id].model, ~row.deleted => ~routes[id].deleted,
               UNCHANGED targets
        PROVE  TablesOK' /\ Len(routes') >= Len(routes)
    <2>1. routes' \in Seq(Route) /\ Len(routes') = n
      BY <1>0, <1>a, <1>2, RowUpdate
    <2>2. \A i \in DOMAIN routes :
            routes'[i].model = routes[i].model /\ (~routes'[i].deleted => ~routes[i].deleted)
      BY <1>2 DEF Replaced
    <2>3. DOMAIN routes' = DOMAIN routes
      BY <1>2 DEF Replaced
    <2>4. PICK new : new = routes'
      OBVIOUS
    <2>5. ModelsUnique(new)
      BY <1>a, <2>2, <2>3, <2>4, StaysUnique
    <2> QED
      BY <1>0, <1>a, <1>2, <2>1, <2>4, <2>5 DEF TablesOK
  <1>3. ASSUME NEW id \in DOMAIN routes, NEW enabled \in BOOLEAN, UpdateRoute(id, enabled)
        PROVE  TablesOK' /\ Len(routes') >= Len(routes)
    <2>1. PICK row : row = [routes[id] EXCEPT !.enabled = enabled]
      OBVIOUS
    <2>2. row \in Route /\ row.model = routes[id].model /\ row.deleted = routes[id].deleted
      BY <1>b, <2>1 DEF Route
    <2>3. routes' = Replaced(routes, id, row) /\ UNCHANGED targets
      BY <1>3, <2>1 DEF UpdateRoute, RouteUpdated, Replaced
    <2> QED
      BY <1>2, <2>2, <2>3
  <1>4. ASSUME NEW id \in DOMAIN routes, DeleteRoute(id)
        PROVE  TablesOK' /\ Len(routes') >= Len(routes)
    <2>1. PICK row : row = [routes[id] EXCEPT !.deleted = TRUE]
      OBVIOUS
    <2>2. row \in Route /\ row.model = routes[id].model /\ row.deleted
      BY <1>b, <2>1 DEF Route
    <2>3. routes' = Replaced(routes, id, row) /\ UNCHANGED targets
      BY <1>4, <2>1 DEF DeleteRoute, RouteDeleted, Replaced
    <2> QED
      BY <1>2, <2>2, <2>3
  <1>5. ASSUME NEW t \in Target, CreateTarget(t)
        PROVE  TablesOK' /\ Len(routes') >= Len(routes)
    <2>1. targets' = Append(targets, t) /\ Len(targets) < MaxTargets /\ UNCHANGED routes
      BY <1>5 DEF CreateTarget, TargetInserted
    <2>2. targets' \in Seq(Target) /\ Len(targets') = k + 1 /\ k + 1 <= MaxTargets
      BY <1>0, <1>a, <2>1, Bounds, RowInsert
    <2> QED
      BY <1>0, <1>a, <2>1, <2>2 DEF TablesOK
  <1>6. ASSUME NEW id \in DOMAIN targets, NEW row \in Target, targets' = Replaced(targets, id, row),
               UNCHANGED routes
        PROVE  TablesOK' /\ Len(routes') >= Len(routes)
    <2>1. targets' \in Seq(Target) /\ Len(targets') = k
      BY <1>0, <1>a, <1>6, RowUpdate
    <2> QED
      BY <1>0, <1>a, <1>6, <2>1 DEF TablesOK
  <1>7. ASSUME NEW t \in Target, NEW id \in DOMAIN targets, UpdateTarget(id, t)
        PROVE  TablesOK' /\ Len(routes') >= Len(routes)
    <2>1. PICK row : row = [t EXCEPT !.route = targets[id].route]
      OBVIOUS
    <2>2. targets[id] \in Target
      BY <1>a
    <2>3. row \in Target
      BY <2>1, <2>2 DEF Target
    <2>4. targets' = Replaced(targets, id, row) /\ UNCHANGED routes
      BY <1>7, <2>1 DEF UpdateTarget, TargetUpdated, Replaced
    <2> QED
      BY <1>6, <2>3, <2>4
  <1>8. ASSUME NEW id \in DOMAIN targets, DeleteTarget(id)
        PROVE  TablesOK' /\ Len(routes') >= Len(routes)
    <2>1. PICK row : row = [targets[id] EXCEPT !.deleted = TRUE]
      OBVIOUS
    <2>2. targets[id] \in Target
      BY <1>a
    <2>3. row \in Target
      BY <2>1, <2>2 DEF Target
    <2>4. targets' = Replaced(targets, id, row) /\ UNCHANGED routes
      BY <1>8, <2>1 DEF DeleteTarget, TargetDeleted, Replaced
    <2> QED
      BY <1>6, <2>3, <2>4
  <1> QED
    BY <1>1, <1>3, <1>4, <1>5, <1>7, <1>8 DEF RouteAdmin

\* It does nothing else than to count a change.
LEMMA RouteAdminLeaves ==
  ASSUME RouteAdmin
  PROVE  Change /\ UNCHANGED <<providers, up, sweepVars, gauges, checks, request>>
  BY DEF RouteAdmin, CreateRoute, UpdateRoute, DeleteRoute, CreateTarget, UpdateTarget, DeleteTarget

\* What a request that is under way has.
LEMMA AskingIs ==
  ASSUME NEW q \in {Idle} \cup Asking
  PROVE  /\ q.at \in {"finding", "selecting", "calling"} => q.model \in Model
         /\ q.at = "selecting" => q.route \in 1 .. MaxRoutes
         /\ q.at = "listing" => q.models \subseteq Model
  BY DEF Idle, Asking

\* A request goes on to something else.
LEMMA RequestMoves ==
  ASSUME RoutingInv, NEW r \in Request, NEW next, next \in {Idle} \cup Asking,
         next.at = "listing" => next.left # {} /\ next.left \subseteq DOMAIN routes,
         request' = [request EXCEPT ![r] = next], UNCHANGED requestOnly
  PROVE  RoutingInv'
  <1>1. UNCHANGED <<providers, up, changes, pc, todo, current, tally, gauges, checks, routes, targets>>
    BY DEF requestOnly, healthVars, sweepVars
  <1>2. HealthTypeOK' /\ SweepInv' /\ Uncounted' = Uncounted
    BY <1>1 DEF RoutingInv, TypeOK, HealthTypeOK, SweepInv, Uncounted
  <1>3. request' \in [Request -> {Idle} \cup Asking]
    BY DEF RoutingInv, TypeOK
  <1>4. TypeOK'
    BY <1>1, <1>2, <1>3 DEF RoutingInv, TypeOK
  <1>5. ListInv'
    <2> SUFFICES ASSUME NEW q \in Request, request'[q].at = "listing"
                 PROVE  request'[q].left # {} /\ request'[q].left \subseteq DOMAIN routes
      BY <1>1 DEF ListInv
    <2>1. CASE q = r
      BY <2>1 DEF RoutingInv, TypeOK
    <2>2. CASE q # r
      BY <2>2 DEF RoutingInv, TypeOK, ListInv
    <2> QED
      BY <2>1, <2>2
  <1> QED
    BY <1>2, <1>4, <1>5 DEF RoutingInv

\* What a request is answered.
LEMMA AnswerMoves ==
  ASSUME RoutingInv, NEW r \in Request, NEW outcome \in Outcome,
         request[r].at \in {"finding", "selecting", "calling"},
         request' = [request EXCEPT ![r] = Answered(r, outcome)], UNCHANGED requestOnly
  PROVE  RoutingInv'
  <1>1. PICK next : next = Answered(r, outcome)
    OBVIOUS
  <1>2. request[r] \in {Idle} \cup Asking
    BY DEF RoutingInv, TypeOK
  <1>3. request[r].model \in Model
    BY <1>2, AskingIs
  <1>4. next \in Asking /\ next.at = "done"
    BY <1>1, <1>3 DEF Answered, Asking
  <1> QED
    BY <1>1, <1>4, RequestMoves

\* The least row is one of the rows.
LEMMA FirstIsRow ==
  ASSUME NEW n \in Nat, NEW S \in SUBSET (1 .. n), S # {}
  PROVE  First(S) \in S
  <1>1. S \in SUBSET Nat
    OBVIOUS
  <1> QED
    BY <1>1, FirstIsLeast

\* A target is picked from the targets that are ready.
LEMMA PickedIsReady ==
  ASSUME NEW n \in Nat, NEW S \in SUBSET (1 .. n), S # {}, NEW pick
  PROVE  Picked(S, pick) \in S
  <1>1. PICK beyond : beyond = {id \in S : pick < Running(S, id)}
    OBVIOUS
  <1>2. beyond \in SUBSET (1 .. n) /\ beyond \subseteq S
    BY <1>1
  <1>3. Picked(S, pick) = IF beyond = {} THEN First(S) ELSE First(beyond)
    BY <1>1 DEF Picked
  <1>4. First(S) \in S
    BY FirstIsRow
  <1>5. beyond # {} => First(beyond) \in beyond
    BY <1>2, FirstIsRow
  <1> QED
    BY <1>2, <1>3, <1>4, <1>5

\* The state of a request that lists models.
LEMMA ListingIs ==
  ASSUME NEW left \in SUBSET (1 .. MaxRoutes), NEW models \in SUBSET Model
  PROVE  /\ Listing(left, models) \in Asking
         /\ Listing(left, models).at = "listing" =>
              left # {} /\ Listing(left, models).left = left
  <1>1. CASE left = {}
    BY <1>1 DEF Listing, Asking
  <1>2. CASE left # {}
    BY <1>2 DEF Listing, Asking
  <1> QED
    BY <1>1, <1>2

\* A request goes on listing the models of some routes.
LEMMA ListingMoves ==
  ASSUME RoutingInv, NEW r \in Request, NEW left, left \subseteq DOMAIN routes,
         NEW models \in SUBSET Model,
         request' = [request EXCEPT ![r] = Listing(left, models)], UNCHANGED requestOnly
  PROVE  RoutingInv'
  <1>1. left \in SUBSET (1 .. MaxRoutes)
    <2>1. PICK n \in Nat : DOMAIN routes = 1 .. n /\ n <= MaxRoutes
      BY DEF RoutingInv, TypeOK
    <2> QED
      BY <2>1, Bounds
  <1>2. PICK next : next = Listing(left, models)
    OBVIOUS
  <1>3. next \in Asking /\ (next.at = "listing" => left # {} /\ next.left = left)
    BY <1>1, <1>2, ListingIs
  <1> QED
    BY <1>2, <1>3, RequestMoves

LEMMA AskKeeps ==
  ASSUME RoutingInv, NEW r \in Request, NEW m \in Model, Ask(r, m)
  PROVE  RoutingInv'
  <1>1. PICK next : next = [at |-> "finding", model |-> m]
    OBVIOUS
  <1>2. next \in Asking /\ next.at = "finding"
    BY <1>1 DEF Asking
  <1>3. request' = [request EXCEPT ![r] = next] /\ UNCHANGED requestOnly
    BY <1>1 DEF Ask
  <1> QED
    BY <1>2, <1>3, RequestMoves

LEMMA FindKeeps ==
  ASSUME RoutingInv, NEW r \in Request, Find(r)
  PROVE  RoutingInv'
  <1>1. PICK n \in Nat : DOMAIN routes = 1 .. n /\ n <= MaxRoutes
    BY DEF RoutingInv, TypeOK
  <1>2. PICK found : found = {id \in DOMAIN routes : ~routes[id].deleted /\ routes[id].model = request[r].model}
    OBVIOUS
  <1>3. request' = [request EXCEPT ![r] =
             IF found = {} THEN Answered(r, "404")
             ELSE [at |-> "selecting", model |-> request[r].model, route |-> First(found)]]
        /\ request[r].at = "finding" /\ UNCHANGED requestOnly
    BY <1>2 DEF Find
  <1>4. CASE found = {}
    <2>1. request' = [request EXCEPT ![r] = Answered(r, "404")] /\ "404" \in Outcome
      BY <1>3, <1>4 DEF Outcome
    <2> QED
      BY <1>3, <2>1, AnswerMoves
  <1>5. CASE found # {}
    <2>1. PICK next : next = [at |-> "selecting", model |-> request[r].model, route |-> First(found)]
      OBVIOUS
    <2>2. First(found) \in found
      BY <1>1, <1>2, <1>5, FirstIsRow
    <2>3. First(found) \in 1 .. MaxRoutes
      BY <1>1, <1>2, <2>2, Bounds
    <2>4. request[r] \in {Idle} \cup Asking
      BY DEF RoutingInv, TypeOK
    <2>5. request[r].model \in Model
      BY <1>3, <2>4, AskingIs
    <2>6. next \in Asking /\ next.at = "selecting"
      BY <2>1, <2>3, <2>5 DEF Asking
    <2>7. request' = [request EXCEPT ![r] = next]
      BY <1>3, <1>5, <2>1
    <2> QED
      BY <1>3, <2>6, <2>7, RequestMoves
  <1> QED
    BY <1>4, <1>5

LEMMA SelectKeeps ==
  ASSUME RoutingInv, NEW r \in Request, Select(r)
  PROVE  RoutingInv'
  <1>1. PICK n \in Nat : DOMAIN targets = 1 .. n
    BY DEF RoutingInv, TypeOK
  <1>2. PICK ready : ready = ReadyTargets(request[r].route)
    OBVIOUS
  <1>3. ready \in SUBSET (1 .. n)
    BY <1>1, <1>2 DEF ReadyTargets
  <1>4. request[r].at = "selecting" /\ UNCHANGED requestOnly
    BY DEF Select
  <1>5. ASSUME NEW id \in ready,
               request' = [request EXCEPT ![r] = [at |-> "calling", model |-> request[r].model,
                                                  url |-> providers[targets[id].provider].url]]
        PROVE  RoutingInv'
    <2>1. PICK next : next = [at |-> "calling", model |-> request[r].model,
                              url |-> providers[targets[id].provider].url]
      OBVIOUS
    <2>2. PICK p : p = targets[id].provider
      OBVIOUS
    <2>3. p \in DOMAIN providers
      BY <1>2, <2>2 DEF ReadyTargets, Live
    <2>4. providers[p] \in Provider
      BY <2>3 DEF RoutingInv, TypeOK, HealthTypeOK
    <2>5. providers[p].url \in Url
      BY <2>4 DEF Provider
    <2>6. request[r] \in {Idle} \cup Asking
      BY DEF RoutingInv, TypeOK
    <2>7. request[r].model \in Model
      BY <1>4, <2>6, AskingIs
    <2>8. next \in Asking /\ next.at = "calling"
      BY <2>1, <2>2, <2>5, <2>7 DEF Asking
    <2>9. request' = [request EXCEPT ![r] = next]
      BY <1>5, <2>1
    <2> QED
      BY <1>4, <2>8, <2>9, RequestMoves
  <1>6. CASE ready = {} /\ request' = [request EXCEPT ![r] = Answered(r, "503")]
    <2>1. "503" \in Outcome
      BY DEF Outcome
    <2> QED
      BY <1>4, <1>6, <2>1, AnswerMoves
  <1>7. CASE request' = [request EXCEPT ![r] = Answered(r, "panic")]
    <2>1. "panic" \in Outcome
      BY DEF Outcome
    <2> QED
      BY <1>4, <1>7, <2>1, AnswerMoves
  <1>8. ready # {} => First(ready) \in ready
    BY <1>3, FirstIsRow
  <1>9. ready # {} => \A pick : Picked(ready, pick) \in ready
    BY <1>3, PickedIsReady
  <1>10. Cardinality({}) = 0
    BY FS_EmptySet
  <1>11. ready = ReadyTargets(request[r].route)
         /\ (\/ ready = {} /\ request' = [request EXCEPT ![r] = Answered(r, "503")]
             \/ request' = [request EXCEPT ![r] = Answered(r, "panic")]
             \/ Cardinality(ready) = 1
                /\ request' = [request EXCEPT ![r] =
                     [at |-> "calling", model |-> request[r].model,
                      url |-> providers[targets[First(ready)].provider].url]]
             \/ Cardinality(ready) > 1
                /\ \E pick \in 0 .. Weight(ready) - 1 : request' = [request EXCEPT ![r] =
                     [at |-> "calling", model |-> request[r].model,
                      url |-> providers[targets[Picked(ready, pick)].provider].url]])
    BY <1>2 DEF Select
  <1>12. CASE Cardinality(ready) = 1
              /\ request' = [request EXCEPT ![r] =
                   [at |-> "calling", model |-> request[r].model,
                    url |-> providers[targets[First(ready)].provider].url]]
    <2>1. ready # {}
      BY <1>10, <1>12
    <2>2. PICK id \in ready : id = First(ready)
      BY <1>8, <2>1
    <2> QED
      BY <1>5, <1>12, <2>2
  <1>13. ASSUME NEW pick \in 0 .. Weight(ready) - 1, Cardinality(ready) > 1,
                request' = [request EXCEPT ![r] =
                   [at |-> "calling", model |-> request[r].model,
                    url |-> providers[targets[Picked(ready, pick)].provider].url]]
         PROVE  RoutingInv'
    <2>1. ready # {}
      BY <1>10, <1>13
    <2>2. PICK id \in ready : id = Picked(ready, pick)
      BY <1>9, <2>1
    <2> QED
      BY <1>5, <1>13, <2>2
  <1> QED
    BY <1>6, <1>7, <1>11, <1>12, <1>13

LEMMA CallKeeps ==
  ASSUME RoutingInv, NEW r \in Request, Call(r)
  PROVE  RoutingInv'
  <1>1. PICK outcome : outcome = IF request[r].url \in up THEN "ok" ELSE "502"
    OBVIOUS
  <1>2. outcome \in Outcome
    BY <1>1 DEF Outcome
  <1>3. request[r].at = "calling" /\ UNCHANGED requestOnly
        /\ request' = [request EXCEPT ![r] = Answered(r, outcome)]
    BY <1>1 DEF Call
  <1> QED
    BY <1>2, <1>3, AnswerMoves

LEMMA ListModelsKeeps ==
  ASSUME RoutingInv, NEW r \in Request, ListModels(r)
  PROVE  RoutingInv'
  <1>1. PICK enabled : enabled = {id \in DOMAIN routes : ~routes[id].deleted /\ routes[id].enabled}
    OBVIOUS
  <1>2. request' = [request EXCEPT ![r] = Listing(enabled, {})] /\ UNCHANGED requestOnly
    BY <1>1 DEF ListModels
  <1> QED
    BY <1>1, <1>2, ListingMoves

LEMMA ListReadyKeeps ==
  ASSUME RoutingInv, NEW r \in Request, ListReady(r)
  PROVE  RoutingInv'
  <1>1. PICK n \in Nat : DOMAIN routes = 1 .. n
    BY DEF RoutingInv, TypeOK
  <1>2. PICK left, models, id :
          left = request[r].left /\ models = request[r].models /\ id = First(left)
    OBVIOUS
  <1>3. PICK ready : ready = IF ReadyTargets(id) = {} THEN {} ELSE {routes[id].model}
    OBVIOUS
  <1>4. request[r].at = "listing" /\ UNCHANGED requestOnly
    BY DEF ListReady
  <1>5. request' = [request EXCEPT ![r] = Listing(left \ {id}, models \cup ready)]
    <2>1. r \in DOMAIN request
      BY DEF RoutingInv, TypeOK
    <2> QED
      BY <1>2, <1>3, <2>1 DEF ListReady
  <1>6. left # {} /\ left \subseteq DOMAIN routes
    BY <1>2, <1>4 DEF RoutingInv, ListInv
  <1>7. id \in DOMAIN routes
    BY <1>1, <1>2, <1>6, FirstIsRow
  <1>8. routes[id] \in Route
    BY <1>7 DEF RoutingInv, TypeOK
  <1>9. request[r] \in {Idle} \cup Asking
    BY DEF RoutingInv, TypeOK
  <1>10. models \cup ready \in SUBSET Model
    BY <1>2, <1>3, <1>4, <1>8, <1>9, AskingIs DEF Route
  <1>11. left \ {id} \subseteq DOMAIN routes
    BY <1>6
  <1> QED
    BY <1>4, <1>5, <1>10, <1>11, ListingMoves

LEMMA InitKeeps ==
  ASSUME Init
  PROVE  RoutingInv
  <1>1. HealthInv
    BY HealthInitType DEF Init
  <1>2. routes \in Seq(Route) /\ Len(routes) <= MaxRoutes /\ ModelsUnique(routes)
    <2>1. PICK n \in 0 .. MaxRoutes : routes \in [1 .. n -> Route]
      BY DEF Init
    <2>2. ModelsUnique(routes)
      BY DEF Init
    <2> QED
      BY <2>1, <2>2, Bounds
  <1>3. targets \in Seq(Target) /\ Len(targets) <= MaxTargets
    <2>1. PICK n \in 0 .. MaxTargets : targets \in [1 .. n -> Target]
      BY DEF Init
    <2> QED
      BY <2>1, Bounds
  <1>4. request = [r \in Request |-> Idle]
    BY DEF Init
  <1>5. TypeOK
    BY <1>1, <1>2, <1>3, <1>4 DEF TypeOK, HealthInv
  <1>6. ListInv
    BY <1>4 DEF ListInv, Idle
  <1> QED
    BY <1>1, <1>5, <1>6 DEF RoutingInv, HealthInv

\* A step of the health checker, of CheckProvider, of an admin of the providers
\* or of an upstream.
LEMMA HealthStepKeeps ==
  ASSUME RoutingInv, HealthInv', UNCHANGED routing
  PROVE  RoutingInv'
  <1>1. UNCHANGED <<routes, targets, request>>
    BY DEF routing
  <1>2. TypeOK'
    BY <1>1 DEF RoutingInv, TypeOK, HealthInv
  <1>3. ListInv'
    BY <1>1 DEF RoutingInv, ListInv
  <1> QED
    BY <1>2, <1>3 DEF RoutingInv, HealthInv

\* An upstream goes up or down.
LEMMA FlipKeeps ==
  ASSUME HealthInv, NEW url \in Url, Flip(url)
  PROVE  HealthInv'
  <1> HealthTypeOK
    BY DEF HealthInv
  <1>1. Change /\ UNCHANGED <<providers, sweepVars, gauges, checks>>
    BY DEF Flip
  <1>2. up' \subseteq Url
    BY DEF Flip, HealthTypeOK
  <1>3. providers \in Seq(Provider) /\ Len(providers) \in Nat /\ Len(providers) <= MaxProviders
        /\ checks \in [Checks -> CheckState]
    BY DEF HealthTypeOK, CheckState
  <1> QED
    BY <1>1, <1>2, <1>3, ChangeType, SweepUntouched

\* What an admin does to the routes and the targets keeps the rest.
LEMMA RouteAdminStep ==
  ASSUME RoutingInv, RouteAdmin
  PROVE  RoutingInv'
  <1> HealthTypeOK
    BY DEF RoutingInv, TypeOK
  <1>1. Change /\ UNCHANGED <<providers, up, sweepVars, gauges, checks, request>>
    BY RouteAdminLeaves
  <1>2. TablesOK' /\ Len(routes') >= Len(routes)
    BY RouteAdminKeeps DEF RoutingInv, TypeOK, TablesOK
  <1>3. HealthInv'
    <2>1. HealthInv
      BY DEF RoutingInv, HealthInv
    <2>2. providers \in Seq(Provider) /\ Len(providers) \in Nat /\ Len(providers) <= MaxProviders
          /\ checks \in [Checks -> CheckState] /\ up \subseteq Url
      BY DEF HealthTypeOK, CheckState
    <2> QED
      BY <1>1, <2>1, <2>2, ChangeType, SweepUntouched
  <1>4. ListInv'
    <2>1. PICK n \in Nat : n = Len(routes) /\ DOMAIN routes = 1 .. n
      BY DEF RoutingInv, TypeOK
    <2>2. PICK k \in Nat : k = Len(routes') /\ DOMAIN routes' = 1 .. k
      BY <1>2 DEF TablesOK
    <2>3. DOMAIN routes \subseteq DOMAIN routes'
      BY <1>2, <2>1, <2>2
    <2> QED
      BY <1>1, <2>3 DEF RoutingInv, ListInv
  <1>5. TypeOK'
    BY <1>1, <1>2, <1>3 DEF RoutingInv, TypeOK, TablesOK, HealthInv
  <1> QED
    BY <1>3, <1>4, <1>5 DEF RoutingInv, HealthInv

\* Every step keeps the invariant.
LEMMA RoutingStep ==
  ASSUME RoutingInv, [Next]_vars
  PROVE  RoutingInv'
  <1> HealthInv
    BY DEF RoutingInv, TypeOK, HealthInv
  <1>1. CASE Sweep /\ UNCHANGED routing
    BY <1>1, SweepKeeps, HealthStepKeeps
  <1>2. CASE (\E c \in Checks : Check(c)) /\ UNCHANGED routing
    BY <1>2, CheckKeeps, HealthStepKeeps
  <1>3. CASE Admin /\ UNCHANGED routing
    BY <1>3, AdminKeeps, HealthStepKeeps
  <1>4. CASE (\E url \in Url : Flip(url)) /\ UNCHANGED routing
    BY <1>4, FlipKeeps, HealthStepKeeps
  <1>5. CASE Restart /\ request' = [r \in Request |-> Idle] /\ UNCHANGED <<routes, targets>>
    <2>1. HealthInv'
      BY <1>5, RestartKeeps
    <2>2. TypeOK'
      BY <1>5, <2>1 DEF RoutingInv, TypeOK, HealthInv
    <2>3. ListInv'
      BY <1>5 DEF ListInv, Idle
    <2> QED
      BY <2>1, <2>2, <2>3 DEF RoutingInv, HealthInv
  <1>6. CASE RouteAdmin
    BY <1>6, RouteAdminStep
  <1>7. ASSUME NEW r \in Request, Handle(r) \/ ListModels(r) \/ \E m \in Model : Ask(r, m)
        PROVE  RoutingInv'
    BY <1>7, FindKeeps, SelectKeeps, CallKeeps, ListReadyKeeps, ListModelsKeeps, AskKeeps DEF Handle
  <1>8. CASE UNCHANGED vars
    <2>1. UNCHANGED <<providers, up, changes, pc, todo, current, tally, gauges, checks,
                      routes, targets, request>>
      BY <1>8 DEF vars, healthVars, sweepVars
    <2>2. HealthInv'
      BY <2>1 DEF HealthInv, HealthTypeOK, SweepInv, Uncounted
    <2> QED
      BY <2>1, <2>2, HealthStepKeeps DEF routing
  <1> QED
    BY <1>1, <1>2, <1>3, <1>4, <1>5, <1>6, <1>7, <1>8 DEF Next

(***************************************************************************)
(* The theorems.                                                           *)
(***************************************************************************)

\* A sweep has no provider twice, whatever admins and CheckProvider do to the
\* table in the meantime, and a list of models is made of routes that are in the
\* table, and ends when none of them is left.
THEOREM RoutingInvariant == Spec => []RoutingInv
  <1>1. Init => RoutingInv
    BY InitKeeps
  <1>2. RoutingInv /\ [Next]_vars => RoutingInv'
    BY RoutingStep
  <1> QED
    BY <1>1, <1>2, PTL DEF Spec

\* Every state is of the types; two routes that are not deleted never have the
\* same model; and what a sweep has counted and what it still has to count are
\* together no more than the rows of the table of providers.
THEOREM RoutingTypes == Spec => []TypeOK
  <1>1. RoutingInv => TypeOK
    BY DEF RoutingInv
  <1> QED
    BY <1>1, RoutingInvariant, PTL

\* SelectTarget draws the targets of a route in proportion to their weights,
\* whatever the weights, as long as none is negative: of the numbers rand.Intn
\* may return, as many pick a target as its weight says.
THEOREM TargetsAreDrawnByWeight == Spec => []PickedByWeight
  <1>1. TypeOK => PickedByWeight
    BY DrawIsFair
  <1> QED
    BY <1>1, RoutingTypes, PTL

=============================================================================
