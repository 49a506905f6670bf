------------------------ MODULE MetricPipelineProofs ------------------------
(***************************************************************************)
(* Proofs about the metric pipeline, for every set of timeframes, every    *)
(* number of clients and every length of its queue.                        *)
(***************************************************************************)
EXTENDS MetricPipeline, FunctionTheorems, FiniteSetTheorems, TLAPS

-----------------------------------------------------------------------------
(* Scopes and sequences of them *)

(* There are finitely many scopes. *)
LEMMA ScopesAreFinite == IsFiniteSet(Scopes)
<1> DEFINE D == [timeframe : Timeframes, window : {"default"}]
           Day == [timeframe : {DayTimeframe} \cap Timeframes, window : {"24h"}]
<1>1. IsFiniteSet(D)
  <2> DEFINE f == [t \in Timeframes |-> [timeframe |-> t, window |-> "default"]]
  <2>1. f \in [Timeframes -> D]
    OBVIOUS
  <2>2. \A d \in D : \E t \in Timeframes : f[t] = d
    <3> SUFFICES ASSUME NEW d \in D PROVE f[d.timeframe] = d /\ d.timeframe \in Timeframes
      OBVIOUS
    <3> QED OBVIOUS
  <2>3. f \in Surjection(Timeframes, D)
    BY <2>1, <2>2 DEF Surjection
  <2> QED BY <2>3, FS_Surjection, PipelineAssumption
<1>2. IsFiniteSet(Day)
  <2> DEFINE T == {DayTimeframe} \cap Timeframes
             g == [t \in T |-> [timeframe |-> t, window |-> "24h"]]
  <2>1. g \in [T -> Day]
    OBVIOUS
  <2>2. \A d \in Day : \E t \in T : g[t] = d
    <3> SUFFICES ASSUME NEW d \in Day PROVE g[d.timeframe] = d /\ d.timeframe \in T
      OBVIOUS
    <3> QED OBVIOUS
  <2>3. g \in Surjection(T, Day)
    BY <2>1, <2>2 DEF Surjection
  <2>4. IsFiniteSet(T)
    BY FS_Singleton, FS_Subset, T \subseteq {DayTimeframe}
  <2> QED BY <2>3, <2>4, FS_Surjection
<1>3. Scopes = D \cup Day
  BY DEF Scopes
<1> QED BY <1>1, <1>2, <1>3, FS_Union

(* No scope comes before itself. *)
LEMMA BeforeIsIrreflexive ==
    ASSUME NEW s \in Scopes PROVE ~ Before(s, s)
<1>1. s.timeframe \in Nat
  BY PipelineAssumption DEF Scopes
<1> QED BY <1>1 DEF Before

(* Elements of a concatenation, and when they stay distinct. *)
LEMMA ConcatDistinct ==
    ASSUME NEW S, NEW s \in Seq(S), NEW t \in Seq(S),
           \A i, j \in DOMAIN s : s[i] = s[j] => i = j,
           \A i, j \in DOMAIN t : t[i] = t[j] => i = j,
           ToSet(s) \cap ToSet(t) = {}
    PROVE  /\ s \o t \in Seq(S) /\ Len(s \o t) = Len(s) + Len(t)
           /\ \A i, j \in DOMAIN (s \o t) : (s \o t)[i] = (s \o t)[j] => i = j
           /\ ToSet(s \o t) = ToSet(s) \cup ToSet(t)
<1> DEFINE u == s \o t
<1>1. u \in Seq(S) /\ Len(u) = Len(s) + Len(t) /\ DOMAIN u = 1..Len(s) + Len(t)
  OBVIOUS
<1>2. /\ \A i \in 1..Len(s) : u[i] = s[i]
      /\ \A i \in 1..Len(t) : u[Len(s) + i] = t[i]
  OBVIOUS
<1>3. \A k \in 1..Len(s) + Len(t) :
         \/ k \in 1..Len(s)
         \/ k - Len(s) \in 1..Len(t) /\ u[k] = t[k - Len(s)]
  OBVIOUS
<1> HIDE DEF u
<1>4. DOMAIN s = 1..Len(s) /\ DOMAIN t = 1..Len(t) /\ Len(s) \in Nat /\ Len(t) \in Nat
  OBVIOUS
<1>5. /\ \A i \in 1..Len(s) : s[i] \in ToSet(s)
      /\ \A i \in 1..Len(t) : t[i] \in ToSet(t)
  BY <1>4 DEF ToSet
<1>6. ASSUME NEW i \in DOMAIN u, NEW j \in DOMAIN u, u[i] = u[j] PROVE i = j
  <2>1. CASE i \in 1..Len(s) /\ j \in 1..Len(s)
    BY <1>2, <1>4, <1>6, <2>1
  <2>2. CASE i \in 1..Len(s) /\ j \notin 1..Len(s)
    <3>1. u[i] \in ToSet(s) /\ u[j] \in ToSet(t)
      BY <1>1, <1>2, <1>3, <1>5, <2>2
    <3> QED BY <1>6, <3>1
  <2>3. CASE i \notin 1..Len(s) /\ j \in 1..Len(s)
    <3>1. u[i] \in ToSet(t) /\ u[j] \in ToSet(s)
      BY <1>1, <1>2, <1>3, <1>5, <2>3
    <3> QED BY <1>6, <3>1
  <2>4. CASE i \notin 1..Len(s) /\ j \notin 1..Len(s)
    <3>1. /\ i - Len(s) \in 1..Len(t) /\ j - Len(s) \in 1..Len(t)
          /\ t[i - Len(s)] = t[j - Len(s)]
      BY <1>1, <1>3, <1>6, <2>4
    <3>2. i - Len(s) = j - Len(s)
      BY <1>4, <3>1
    <3> QED BY <1>1, <1>4, <3>2
  <2> QED BY <2>1, <2>2, <2>3, <2>4
<1>7. ToSet(u) \subseteq ToSet(s) \cup ToSet(t)
  <2> SUFFICES ASSUME NEW k \in DOMAIN u PROVE u[k] \in ToSet(s) \cup ToSet(t)
    BY DEF ToSet
  <2> QED BY <1>1, <1>2, <1>3, <1>5
<1>8. ToSet(s) \subseteq ToSet(u)
  <2> SUFFICES ASSUME NEW k \in 1..Len(s) PROVE s[k] \in ToSet(u)
    BY <1>4 DEF ToSet
  <2>1. k \in DOMAIN u /\ u[k] = s[k]
    BY <1>1, <1>2, <1>4
  <2> QED BY <2>1 DEF ToSet
<1>9. ToSet(t) \subseteq ToSet(u)
  <2> SUFFICES ASSUME NEW k \in 1..Len(t) PROVE t[k] \in ToSet(u)
    BY <1>4 DEF ToSet
  <2>1. Len(s) + k \in DOMAIN u /\ u[Len(s) + k] = t[k]
    BY <1>1, <1>2, <1>4
  <2> QED BY <2>1 DEF ToSet
<1> QED BY <1>1, <1>6, <1>7, <1>8, <1>9 DEF u

(* A sequence without duplicates is as long as the set of its elements. *)
LEMMA DistinctLength ==
    ASSUME NEW S, NEW s \in Seq(S), \A i, j \in DOMAIN s : s[i] = s[j] => i = j
    PROVE  IsFiniteSet(ToSet(s)) /\ Cardinality(ToSet(s)) = Len(s)
<1>1. DOMAIN s = 1..Len(s) /\ Len(s) \in Nat
  OBVIOUS
<1>2. s \in [1..Len(s) -> ToSet(s)]
  <2>1. s = [i \in 1..Len(s) |-> s[i]]
    OBVIOUS
  <2> QED BY <1>1, <2>1 DEF ToSet
<1>3. s \in Bijection(1..Len(s), ToSet(s))
  BY <1>1, <1>2 DEF Bijection, Injection, Surjection, IsInjective, ToSet
<1>4. IsFiniteSet(1..Len(s)) /\ Cardinality(1..Len(s)) = Len(s)
  BY <1>1, FS_Interval
<1> QED BY <1>3, <1>4, FS_Bijection DEF ExistsBijection

(***************************************************************************)
(* The order in which a set of scopes is asked for holds each of them once.*)
(***************************************************************************)
LEMMA OrderedIsBijective ==
    ASSUME NEW S \in SUBSET Scopes, NEW order \in Ordered(S)
    PROVE  /\ order \in Seq(Scopes) /\ Len(order) = Cardinality(S)
           /\ \A i, j \in DOMAIN order : order[i] = order[j] => i = j
           /\ ToSet(order) = S
<1> DEFINE n == Cardinality(S)
<1>1. IsFiniteSet(S) /\ n \in Nat
  BY ScopesAreFinite, FS_Subset, FS_CardinalityType
<1>2. order \in [1..n -> S] /\ \A i, j \in 1..n : i < j => Before(order[i], order[j])
  BY DEF Ordered
<1>3. /\ order \in Seq(Scopes) /\ Len(order) = n /\ DOMAIN order = 1..n
  BY <1>1, <1>2
<1>4. \A i, j \in 1..n : order[i] = order[j] => i = j
  <2> SUFFICES ASSUME NEW i \in 1..n, NEW j \in 1..n, order[i] = order[j], i # j
               PROVE  FALSE
    OBVIOUS
  <2>1. order[i] \in Scopes
    BY <1>2
  <2>2. Before(order[i], order[j]) \/ Before(order[j], order[i])
    BY <1>1, <1>2
  <2> QED BY <2>1, <2>2, BeforeIsIrreflexive
<1>5. order \in Injection(1..n, S)
  BY <1>2, <1>4 DEF Injection, IsInjective
<1>6. order \in Surjection(1..n, S)
  <2>1. Cardinality(1..n) = n
    BY <1>1, FS_Interval
  <2> QED BY <1>1, <1>5, <2>1, FS_Injection
<1>7. ToSet(order) = S
  BY <1>2, <1>3, <1>6 DEF ToSet, Surjection
<1> QED BY <1>3, <1>4, <1>7

-----------------------------------------------------------------------------
(* Asking for scopes *)

(* What asking for a set of scopes does to the queue. *)
LEMMA EnqueueKeeps ==
    ASSUME NEW S \in SUBSET Scopes, EnqueueScopes(S), PendingIsQueued,
           metricQueue \in Seq(Scopes), Len(metricQueue) <= QueueSize
    PROVE  /\ metricQueue' \in Seq(Scopes) /\ Len(metricQueue') <= QueueSize
           /\ PendingIsQueued'
           /\ \E values \in SUBSET Scopes : pendingScopes' = pendingScopes \cup values
           /\ Cardinality(Scopes) <= QueueSize => S \subseteq pendingScopes'
<1>0. PICK order \in Ordered(Wanted(S)) :
         LET room == QueueSize - Len(metricQueue)
             fits == SubSeq(order, 1, IF Len(order) < room THEN Len(order) ELSE room)
         IN  /\ metricQueue' = metricQueue \o fits
             /\ pendingScopes' = pendingScopes \cup ToSet(fits)
  BY DEF EnqueueScopes
<1> DEFINE room == QueueSize - Len(metricQueue)
           n    == IF Len(order) < room THEN Len(order) ELSE room
           fits == SubSeq(order, 1, n)
<1>1. Wanted(S) \in SUBSET Scopes /\ Wanted(S) \cap pendingScopes = {}
  BY DEF Wanted
<1>2. /\ order \in Seq(Scopes) /\ Len(order) = Cardinality(Wanted(S))
      /\ \A i, j \in DOMAIN order : order[i] = order[j] => i = j
      /\ ToSet(order) = Wanted(S)
  BY <1>1, OrderedIsBijective
<1>3. room \in Nat /\ n \in Nat /\ n <= Len(order) /\ n <= room
  BY <1>2, PipelineAssumption
<1>4. /\ fits \in Seq(Scopes) /\ Len(fits) = n
      /\ \A i \in 1..n : fits[i] = order[i]
      /\ DOMAIN fits = 1..n /\ DOMAIN order = 1..Len(order)
  BY <1>2, <1>3
<1>5. metricQueue' = metricQueue \o fits /\ pendingScopes' = pendingScopes \cup ToSet(fits)
  BY <1>0
<1>6. Len(order) \in Nat
  BY <1>2
<1> HIDE DEF fits, n, room
<1>7. \A i, j \in DOMAIN fits : fits[i] = fits[j] => i = j
  BY <1>2, <1>3, <1>4, <1>6
<1>8. ToSet(fits) \subseteq Wanted(S)
  <2> SUFFICES ASSUME NEW i \in 1..n PROVE fits[i] \in Wanted(S)
    BY <1>4 DEF ToSet
  <2>1. i \in DOMAIN order
    BY <1>3, <1>4, <1>6
  <2> QED BY <1>2, <1>4, <2>1 DEF ToSet
<1>9. /\ ToSet(metricQueue) = pendingScopes
      /\ \A i, j \in DOMAIN metricQueue : metricQueue[i] = metricQueue[j] => i = j
  BY DEF PendingIsQueued
<1>10. ToSet(metricQueue) \cap ToSet(fits) = {}
  BY <1>1, <1>8, <1>9
<1>11. /\ metricQueue' \in Seq(Scopes)
       /\ Len(metricQueue') = Len(metricQueue) + Len(fits)
       /\ \A i, j \in DOMAIN metricQueue' : metricQueue'[i] = metricQueue'[j] => i = j
       /\ ToSet(metricQueue') = ToSet(metricQueue) \cup ToSet(fits)
  <2> DEFINE u == metricQueue \o fits
  <2>1. /\ u \in Seq(Scopes) /\ Len(u) = Len(metricQueue) + Len(fits)
        /\ \A i, j \in DOMAIN u : u[i] = u[j] => i = j
        /\ ToSet(u) = ToSet(metricQueue) \cup ToSet(fits)
    <3>1. metricQueue \in Seq(Scopes) /\ fits \in Seq(Scopes)
      BY <1>4
    <3> HIDE DEF u
    <3> QED BY <3>1, <1>7, <1>9, <1>10, ConcatDistinct, Zenon DEF u
  <2>2. metricQueue' = u
    BY <1>5
  <2> HIDE DEF u
  <2> QED BY <2>1, <2>2
<1>12. Len(metricQueue') <= QueueSize
  BY <1>3, <1>4, <1>11, PipelineAssumption DEF room
<1>13. PendingIsQueued'
  BY <1>5, <1>9, <1>11 DEF PendingIsQueued
<1>14. ASSUME Cardinality(Scopes) <= QueueSize PROVE S \subseteq pendingScopes'
  <2>1. IsFiniteSet(pendingScopes) /\ Cardinality(pendingScopes) = Len(metricQueue)
    BY <1>9, DistinctLength
  <2>2. IsFiniteSet(Wanted(S)) /\ IsFiniteSet(Scopes)
    BY <1>1, ScopesAreFinite, FS_Subset
  <2>3. Cardinality(pendingScopes \cup Wanted(S)) =
           Cardinality(pendingScopes) + Cardinality(Wanted(S))
    <3>1. pendingScopes \cap Wanted(S) = {}
      BY <1>1
    <3>2. /\ Cardinality(pendingScopes) \in Nat /\ Cardinality(Wanted(S)) \in Nat
          /\ Cardinality({}) = 0
      BY <2>1, <2>2, FS_CardinalityType, FS_EmptySet
    <3>3. Cardinality(pendingScopes \cup Wanted(S)) =
             Cardinality(pendingScopes) + Cardinality(Wanted(S))
                 - Cardinality(pendingScopes \cap Wanted(S))
      BY <2>1, <2>2, FS_Union
    <3>4. Cardinality(pendingScopes \cap Wanted(S)) = 0
      BY <3>1, <3>2
    <3> QED BY <3>2, <3>3, <3>4
  <2>4. pendingScopes \cup Wanted(S) \in SUBSET Scopes
    <3>1. ToSet(metricQueue) \subseteq Scopes
      BY DEF ToSet
    <3> QED BY <1>1, <1>9, <3>1
  <2>5. Cardinality(pendingScopes \cup Wanted(S)) <= Cardinality(Scopes)
    BY <2>2, <2>4, FS_Subset
  <2>6. Cardinality(Scopes) \in Nat
    BY <2>2, FS_CardinalityType
  <2>7. Len(order) <= room
    BY <1>2, <1>6, <1>14, <2>1, <2>3, <2>5, <2>6, PipelineAssumption DEF room
  <2>8. n = Len(order)
    BY <1>3, <1>6, <2>7 DEF n
  <2>9. Wanted(S) \subseteq ToSet(fits)
    BY <1>2, <1>4, <2>8 DEF ToSet
  <2> QED BY <1>5, <2>9 DEF Wanted
<1>15. ToSet(fits) \in SUBSET Scopes
  BY <1>1, <1>8
<1> QED BY <1>5, <1>11, <1>12, <1>13, <1>14, <1>15

-----------------------------------------------------------------------------
(* The inductive invariant *)

(***************************************************************************)
(* A second is revised by late trades only.                                *)
(***************************************************************************)
LateIsCounted == \A close \in 1..LastClose : latest[close] <= spent.late + 1

PipelineInv == TypeOK /\ PendingIsQueued /\ LateIsCounted

(* Nothing is asked for, built or cached initially. *)
LEMMA InitInv == Init => PipelineInv
<1> SUFFICES ASSUME Init PROVE PipelineInv
  OBVIOUS
<1> USE PipelineAssumption DEF Init
<1>1. CandlesTypeOK
  BY DEF CandlesTypeOK, Producers
<1>2. ScopesTypeOK
  BY DEF ScopesTypeOK
<1>3. PendingIsQueued
  BY DEF PendingIsQueued, ToSet
<1>4. LateIsCounted
  BY DEF LateIsCounted
<1> QED BY <1>1, <1>2, <1>3, <1>4 DEF PipelineInv, TypeOK

(* A bounded input is counted. *)
LEMMA SpendType ==
    ASSUME spent \in [{"late", "requests", "failures"} -> Nat],
           NEW what \in {"late", "requests", "failures"}, NEW limit \in Nat,
           Spend(what, limit)
    PROVE  /\ spent' \in [{"late", "requests", "failures"} -> Nat]
           /\ spent[what] < limit
           /\ spent'.late = IF what = "late" THEN spent.late + 1 ELSE spent.late
    BY DEF Spend

(***************************************************************************)
(* A late trade makes the next revision of a closed second.                *)
(***************************************************************************)
LEMMA LateTradeKeeps ==
    ASSUME PipelineInv, NEW close \in 1..LastClose, ConsumeLateTrade(close)
    PROVE  PipelineInv'
<1> USE PipelineAssumption DEF PipelineInv, TypeOK
<1> DEFINE candle == [close |-> close, revision |-> latest[close] + 1]
<1>1. /\ latest \in [1..LastClose -> 0..MaxLate + 1]
      /\ spent \in [{"late", "requests", "failures"} -> Nat]
      /\ latest[close] > 0 /\ latest[close] <= spent.late + 1
  BY DEF CandlesTypeOK, ScopesTypeOK, LateIsCounted, ConsumeLateTrade
<1>2. /\ spent' \in [{"late", "requests", "failures"} -> Nat]
      /\ spent["late"] < MaxLate /\ spent'.late = spent.late + 1
  BY <1>1, SpendType DEF ConsumeLateTrade
<1>3. candle \in Candle
  BY <1>1, <1>2 DEF Candle
<1>4. latest' = [latest EXCEPT ![close] = @ + 1]
  BY DEF ConsumeLateTrade
<1>5. /\ latest' \in [1..LastClose -> 0..MaxLate + 1]
  BY <1>1, <1>2, <1>4
<1>6. LateIsCounted'
  BY <1>1, <1>2, <1>4 DEF LateIsCounted
<1>7. putting' \in [Producers -> Seq(Candle)]
  BY <1>3 DEF ConsumeLateTrade, CandlesTypeOK, Producers
<1>8. CandlesTypeOK'
  BY <1>3, <1>5, <1>7 DEF ConsumeLateTrade, CandlesTypeOK
<1>9. ScopesTypeOK' /\ PendingIsQueued'
  BY <1>2 DEF ConsumeLateTrade, ScopesTypeOK, PendingIsQueued, queueing
<1> QED BY <1>6, <1>8, <1>9

(* A pass closes seconds that are open, and no others. *)
LEMMA FinalizeKeeps ==
    ASSUME PipelineInv, NEW n \in 1..LastClose, FinalizeDue(n)
    PROVE  PipelineInv'
<1> USE PipelineAssumption DEF PipelineInv, TypeOK
<1> DEFINE open  == {close \in 1..LastClose : latest[close] = 0}
           first == LastClose - Cardinality(open) + 1
<1>1. Cardinality(open) \in Nat /\ Cardinality(open) <= LastClose
  <2>1. IsFiniteSet(1..LastClose) /\ Cardinality(1..LastClose) = LastClose
    BY FS_Interval
  <2>2. open \in SUBSET (1..LastClose)
    OBVIOUS
  <2> HIDE DEF open
  <2>3. IsFiniteSet(open) /\ Cardinality(open) <= Cardinality(1..LastClose)
    BY <2>1, <2>2, FS_Subset
  <2>4. Cardinality(open) \in Nat
    BY <2>3, FS_CardinalityType
  <2> QED BY <2>1, <2>3, <2>4
<1>2. /\ n <= Cardinality(open)
      /\ latest' = [close \in 1..LastClose |->
                      IF close \in first..first + n - 1 THEN 1 ELSE latest[close]]
      /\ live' = live \cup {Closed(first)}
      /\ putting' = [putting EXCEPT !["finalizer"] =
                       [i \in 1..n |-> Closed(first + i - 1)]]
  BY DEF FinalizeDue
<1> HIDE DEF open
<1>3. \A i \in 1..n : Closed(first + i - 1) \in Candle
  BY <1>1, <1>2 DEF Closed, Candle
<1>4. first + 1 - 1 = first /\ 1 \in 1..n
  BY <1>1
<1>5. Closed(first) \in Candle
  BY <1>3, <1>4
<1>6. [i \in 1..n |-> Closed(first + i - 1)] \in Seq(Candle)
  BY <1>3
<1>7. spent.late \in Nat /\ spent' = spent
  BY DEF FinalizeDue, ScopesTypeOK
<1>8. latest' \in [1..LastClose -> 0..MaxLate + 1] /\ LateIsCounted'
  BY <1>2, <1>7 DEF CandlesTypeOK, LateIsCounted
<1>9. putting' \in [Producers -> Seq(Candle)]
  BY <1>2, <1>6 DEF CandlesTypeOK
<1>10. CandlesTypeOK'
  BY <1>2, <1>5, <1>8, <1>9 DEF CandlesTypeOK, FinalizeDue
<1>11. ScopesTypeOK' /\ PendingIsQueued'
  BY DEF FinalizeDue, ScopesTypeOK, PendingIsQueued, queueing
<1> QED BY <1>8, <1>10, <1>11

(* A candle that is put asks for scopes. *)
LEMMA PutKeeps ==
    ASSUME PipelineInv, NEW p \in Producers, PutFirst(p), live' \subseteq Candle,
           UNCHANGED <<latest, stored, building, metricCache, spent>>
    PROVE  PipelineInv'
<1> USE DEF PipelineInv, TypeOK
<1>1. /\ putting[p] \in Seq(Candle) /\ putting[p] # <<>>
      /\ Head(putting[p]) \in Candle /\ Tail(putting[p]) \in Seq(Candle)
  BY DEF PutFirst, CandlesTypeOK
<1>2. ScopesOf(Head(putting[p])) \in SUBSET Scopes
  BY DEF ScopesOf
<1>3. /\ metricQueue' \in Seq(Scopes) /\ Len(metricQueue') <= QueueSize
      /\ PendingIsQueued'
      /\ \E values \in SUBSET Scopes : pendingScopes' = pendingScopes \cup values
  BY <1>2, EnqueueKeeps DEF PutFirst, ScopesTypeOK
<1>4. CandlesTypeOK'
  BY <1>1 DEF CandlesTypeOK, PutFirst
<1>5. ScopesTypeOK'
  BY <1>3 DEF ScopesTypeOK
<1> QED BY <1>3, <1>4, <1>5 DEF LateIsCounted

(* The worker takes the first scope of the queue, and no other is removed. *)
LEMMA TakeKeeps ==
    ASSUME PipelineInv, Take
    PROVE  /\ PipelineInv'
           /\ Head(metricQueue) \in pendingScopes
           /\ pendingScopes' = pendingScopes \ {Head(metricQueue)}
<1> USE DEF PipelineInv, TypeOK
<1> DEFINE q == metricQueue
<1>1. /\ q \in Seq(Scopes) /\ q # <<>> /\ Len(q) \in Nat \ {0} /\ Head(q) = q[1]
      /\ q' \in Seq(Scopes) /\ Len(q') = Len(q) - 1 /\ DOMAIN q = 1..Len(q)
      /\ DOMAIN q' = 1..Len(q) - 1
      /\ \A i \in 1..Len(q) - 1 : q'[i] = q[i + 1]
      /\ Head(q) \in Scopes
  BY DEF Take, ScopesTypeOK
<1>2. /\ pendingScopes = ToSet(q)
      /\ \A i, j \in 1..Len(q) : q[i] = q[j] => i = j
  BY <1>1 DEF PendingIsQueued
<1>3. pendingScopes' = pendingScopes \ {Head(q)}
  BY DEF Take, PendingAfterTake
<1>4. Head(q) \in pendingScopes
  BY <1>1, <1>2 DEF ToSet
<1> HIDE DEF q
<1>5. \A i, j \in DOMAIN q' : q'[i] = q'[j] => i = j
  <2> SUFFICES ASSUME NEW i \in 1..Len(q) - 1, NEW j \in 1..Len(q) - 1, q'[i] = q'[j]
               PROVE  i = j
    BY <1>1
  <2>1. i + 1 \in 1..Len(q) /\ j + 1 \in 1..Len(q) /\ q[i + 1] = q[j + 1]
    BY <1>1
  <2>2. i + 1 = j + 1
    BY <1>2, <2>1
  <2> QED BY <2>2
<1>6. ToSet(q') = ToSet(q) \ {q[1]}
  <2>1. ASSUME NEW i \in 1..Len(q) - 1 PROVE q'[i] \in ToSet(q) /\ q'[i] # q[1]
    <3>1. i + 1 \in 1..Len(q) /\ 1 \in 1..Len(q) /\ i + 1 # 1 /\ q'[i] = q[i + 1]
      BY <1>1
    <3> QED BY <1>1, <1>2, <3>1 DEF ToSet
  <2>2. ASSUME NEW j \in 1..Len(q), q[j] # q[1] PROVE q[j] \in ToSet(q')
    <3>1. j - 1 \in 1..Len(q) - 1 /\ q'[j - 1] = q[(j - 1) + 1] /\ (j - 1) + 1 = j
      BY <1>1, <2>2
    <3> QED BY <1>1, <3>1 DEF ToSet
  <2> QED BY <1>1, <2>1, <2>2 DEF ToSet
<1>7. PendingIsQueued'
  BY <1>1, <1>2, <1>3, <1>5, <1>6 DEF PendingIsQueued, q
<1>8. ScopesTypeOK'
  <2>1. building' = With(building, "worker", Build(Head(metricQueue)))
    BY DEF Take
  <2>2. Build(Head(metricQueue)) \in [stage : {"reading", "publishing"},
                                      scope : Requests, summary : SUBSET Candle]
    BY <1>1 DEF Build, Requests, q
  <2>3. /\ DOMAIN building' \subseteq Builders
        /\ building' \in [DOMAIN building' -> [stage : {"reading", "publishing"},
                             scope : Requests, summary : SUBSET Candle]]
    BY <2>1, <2>2 DEF With, ScopesTypeOK, Builders
  <2>4. UNCHANGED <<metricCache, spent>>
    BY DEF Take
  <2>5. Len(metricQueue') <= QueueSize
    BY <1>1, PipelineAssumption DEF ScopesTypeOK, q
  <2> QED BY <1>1, <1>3, <2>3, <2>4, <2>5 DEF ScopesTypeOK, q
<1>9. CandlesTypeOK' /\ LateIsCounted'
  BY DEF Take, candles, CandlesTypeOK, LateIsCounted
<1> QED BY <1>3, <1>4, <1>7, <1>8, <1>9 DEF q

(* What is built: a scope, where the build is, and its summary once it is read. *)
BuildType == [stage : {"reading", "publishing"}, scope : Requests, summary : SUBSET Candle]

(* A builder that begins or goes on has a builder's type. *)
LEMMA BuildersKeep ==
    ASSUME PipelineInv, UNCHANGED <<candles, stored, queueing>>,
           DOMAIN building' \subseteq Builders,
           building' \in [DOMAIN building' -> BuildType],
           DOMAIN metricCache' \subseteq Scopes,
           metricCache' \in [DOMAIN metricCache' -> SUBSET Candle],
           spent' \in [{"late", "requests", "failures"} -> Nat],
           spent'.late = spent.late
    PROVE  PipelineInv'
<1> USE DEF PipelineInv, TypeOK
<1>1. UNCHANGED <<latest, putting, live, sent, stored, metricQueue, pendingScopes>>
  BY DEF candles, queueing
<1>2. CandlesTypeOK' /\ LateIsCounted'
  BY <1>1 DEF CandlesTypeOK, LateIsCounted
<1>3. ScopesTypeOK'
  BY <1>1 DEF ScopesTypeOK, BuildType
<1>4. PendingIsQueued'
  BY <1>1 DEF PendingIsQueued
<1> QED BY <1>2, <1>3, <1>4

(* A request starts a build for its client. *)
LEMMA RequestKeeps ==
    ASSUME PipelineInv, NEW client \in Clients, NEW scope \in Requests,
           Request(client, scope)
    PROVE  PipelineInv'
<1> USE PipelineAssumption DEF PipelineInv, TypeOK
<1>1. building' = With(building, client, Build(scope))
  BY DEF Request
<1>2. Build(scope) \in BuildType
  BY DEF Build, BuildType
<1>3. DOMAIN building' \subseteq Builders /\ building' \in [DOMAIN building' -> BuildType]
  BY <1>1, <1>2 DEF With, ScopesTypeOK, BuildType, Builders
<1>4. spent' \in [{"late", "requests", "failures"} -> Nat] /\ spent'.late = spent.late
  BY DEF Request, Spend, ScopesTypeOK
<1>5. UNCHANGED <<candles, stored, queueing>> /\ metricCache' = metricCache
  BY DEF Request
<1> QED BY <1>3, <1>4, <1>5, BuildersKeep DEF ScopesTypeOK, BuildType

(* A build reads candles that exist. *)
LEMMA ReadKeeps ==
    ASSUME PipelineInv, NEW b \in Builders, Read(b)
    PROVE  PipelineInv'
<1> USE DEF PipelineInv, TypeOK
<1>1. PICK history \in {stored, live} :
         building' = [building EXCEPT ![b].stage = "publishing", ![b].summary = history]
  BY DEF Read
<1>2. history \subseteq Candle
  BY DEF CandlesTypeOK
<1>3. building \in [DOMAIN building -> BuildType] /\ b \in DOMAIN building
  BY DEF Read, ScopesTypeOK, BuildType
<1>4. DOMAIN building' \subseteq Builders /\ building' \in [DOMAIN building' -> BuildType]
  BY <1>1, <1>2, <1>3 DEF ScopesTypeOK, BuildType
<1>5. UNCHANGED <<candles, stored, queueing, metricCache, spent>>
  BY DEF Read
<1> QED BY <1>4, <1>5, BuildersKeep DEF ScopesTypeOK, BuildType

(* A build that ends, with or without a summary, leaves the others. *)
LEMMA RemovalKeeps ==
    ASSUME PipelineInv, NEW b, building' = Without(building, b)
    PROVE  DOMAIN building' \subseteq Builders /\ building' \in [DOMAIN building' -> BuildType]
  BY DEF PipelineInv, TypeOK, ScopesTypeOK, BuildType, Without, Restrict

(* A summary that is published is one of a scope, or for its client only. *)
LEMMA PublishKeeps ==
    ASSUME PipelineInv, NEW b \in Builders, Publish(b)
    PROVE  PipelineInv'
<1> USE DEF PipelineInv, TypeOK
<1>1. DOMAIN building' \subseteq Builders /\ building' \in [DOMAIN building' -> BuildType]
  BY RemovalKeeps DEF Publish
<1>2. building[b] \in BuildType
  BY DEF Publish, ScopesTypeOK, BuildType
<1>3. DOMAIN metricCache' \subseteq Scopes /\ metricCache' \in [DOMAIN metricCache' -> SUBSET Candle]
  <2>1. CASE IsCached(building[b].scope)
    <3>1. building[b].scope \in Scopes /\ building[b].summary \in SUBSET Candle
      BY <1>2, <2>1 DEF IsCached, BuildType, Requests
    <3>2. metricCache' = With(metricCache, building[b].scope, building[b].summary)
      BY <2>1 DEF Publish
    <3> QED BY <3>1, <3>2 DEF With, ScopesTypeOK
  <2>2. CASE ~IsCached(building[b].scope)
    BY <2>2 DEF Publish, ScopesTypeOK
  <2> QED BY <2>1, <2>2
<1>4. UNCHANGED <<candles, stored, queueing>> /\ spent' = spent
  BY DEF Publish
<1> QED BY <1>1, <1>3, <1>4, BuildersKeep DEF ScopesTypeOK, BuildType

(* A build that fails leaves the queue and the cache. *)
LEMMA FailKeeps ==
    ASSUME PipelineInv, NEW b \in Builders, FailBuild(b)
    PROVE  PipelineInv'
<1> USE PipelineAssumption DEF PipelineInv, TypeOK
<1>1. DOMAIN building' \subseteq Builders /\ building' \in [DOMAIN building' -> BuildType]
  BY RemovalKeeps DEF FailBuild
<1>2. spent' \in [{"late", "requests", "failures"} -> Nat] /\ spent'.late = spent.late
  BY DEF FailBuild, Spend, ScopesTypeOK
<1>3. UNCHANGED <<candles, stored, queueing>> /\ metricCache' = metricCache
  BY DEF FailBuild
<1> QED BY <1>1, <1>2, <1>3, BuildersKeep DEF ScopesTypeOK, BuildType

(* A candle that is committed changes the database only. *)
LEMMA StoreKeeps ==
    ASSUME PipelineInv, NEW candle \in sent, Store(candle)
    PROVE  PipelineInv'
  BY DEF PipelineInv, TypeOK, CandlesTypeOK, ScopesTypeOK, LateIsCounted, PendingIsQueued,
         Store, candles, queueing

(* A put of either producer keeps the invariant. *)
LEMMA PutsKeep ==
    ASSUME PipelineInv, PutRecovered \/ PutAndApplyNext \/ EndPass
    PROVE  PipelineInv'
<1> USE DEF Producers
<1>1. live \subseteq Candle /\ putting \in [Producers -> Seq(Candle)]
  BY DEF PipelineInv, TypeOK, CandlesTypeOK
<1>2. CASE PutRecovered
  BY <1>1, <1>2, PutKeeps DEF PutRecovered
<1>3. CASE PutAndApplyNext
  <2>1. /\ putting["finalizer"] \in Seq(Candle) /\ putting["finalizer"] # <<>>
        /\ Tail(putting["finalizer"]) # <<>>
    BY <1>1, <1>3 DEF PutAndApplyNext, PutFirst
  <2>2. putting["finalizer"][2] \in Candle
    BY <2>1
  <2>3. live' \subseteq Candle
    BY <1>1, <1>3, <2>2 DEF PutAndApplyNext
  <2> QED BY <1>3, <2>3, PutKeeps DEF PutAndApplyNext
<1>4. CASE EndPass
  BY <1>1, <1>4, PutKeeps DEF EndPass
<1> QED BY <1>2, <1>3, <1>4

(* Every step keeps the invariant. *)
LEMMA NextKeeps == PipelineInv /\ [Next]_vars => PipelineInv'
<1> SUFFICES ASSUME PipelineInv, [Next]_vars PROVE PipelineInv'
  OBVIOUS
<1>1. ASSUME NEW close \in 1..LastClose, ConsumeLateTrade(close) PROVE PipelineInv'
  BY <1>1, LateTradeKeeps
<1>2. ASSUME NEW n \in 1..LastClose, FinalizeDue(n) PROVE PipelineInv'
  BY <1>2, FinalizeKeeps
<1>3. CASE PutRecovered \/ PutAndApplyNext \/ EndPass
  BY <1>3, PutsKeep
<1>4. ASSUME NEW candle \in sent, Store(candle) PROVE PipelineInv'
  BY <1>4, StoreKeeps
<1>5. CASE Take
  BY <1>5, TakeKeeps
<1>6. ASSUME NEW client \in Clients, NEW scope \in Requests, Request(client, scope)
      PROVE  PipelineInv'
  BY <1>6, RequestKeeps
<1>7. ASSUME NEW b \in Builders, Read(b) \/ Publish(b) \/ FailBuild(b)
      PROVE  PipelineInv'
  BY <1>7, ReadKeeps, PublishKeeps, FailKeeps
<1>8. CASE UNCHANGED vars
  BY <1>8 DEF vars, candles, queueing, PipelineInv, TypeOK, CandlesTypeOK, ScopesTypeOK,
              LateIsCounted, PendingIsQueued
<1> QED BY <1>1, <1>2, <1>3, <1>4, <1>5, <1>6, <1>7, <1>8 DEF Next, Produce, BuilderStep

(***************************************************************************)
(* Types, the queue and its set, and the revisions.                        *)
(***************************************************************************)
THEOREM PipelineInvariant == Spec => []PipelineInv
<1> QED BY InitInv, NextKeeps, PTL DEF Spec

(* Every variable keeps its type. *)
THEOREM TypeCorrect == Spec => []TypeOK
<1>1. PipelineInv => TypeOK
  BY DEF PipelineInv
<1> QED BY <1>1, PipelineInvariant, PTL

(***************************************************************************)
(* _pending_metric_scopes is the set of the scopes in metric_queue, each   *)
(* of which is there once.                                                 *)
(***************************************************************************)
THEOREM PendingIsAlwaysQueued == Spec => []PendingIsQueued
<1>1. PipelineInv => PendingIsQueued
  BY DEF PipelineInv
<1> QED BY <1>1, PipelineInvariant, PTL

-----------------------------------------------------------------------------
(* No candle goes by unnoticed *)

(***************************************************************************)
(* With room for every scope, the candle that is put finds its scopes      *)
(* pending afterwards.                                                     *)
(***************************************************************************)
LEMMA PutAsks ==
    ASSUME PipelineInv, Cardinality(Scopes) <= QueueSize, NEW p \in Producers, PutFirst(p)
    PROVE  \A candle \in sent' \ sent : ScopesOf(candle) \subseteq pendingScopes'
<1>1. ScopesOf(Head(putting[p])) \in SUBSET Scopes
  BY DEF ScopesOf
<1>2. ScopesOf(Head(putting[p])) \subseteq pendingScopes'
  BY <1>1, EnqueueKeeps DEF PutFirst, PipelineInv, TypeOK, ScopesTypeOK
<1>3. sent' \ sent \subseteq {Head(putting[p])}
  BY DEF PutFirst
<1> QED BY <1>2, <1>3

(***************************************************************************)
(* If metric_queue has room for every scope (it holds 10000, each scope at  *)
(* most once), no candle goes by unnoticed.                                *)
(***************************************************************************)
THEOREM CandlesAlwaysAskForTheirScopes ==
    Cardinality(Scopes) <= QueueSize => (Spec => CandlesAskForTheirScopes)
<1> SUFFICES ASSUME Cardinality(Scopes) <= QueueSize
             PROVE  Spec => CandlesAskForTheirScopes
  OBVIOUS
<1> DEFINE Asked == \A candle \in sent' \ sent : ScopesOf(candle) \subseteq pendingScopes'
<1>1. PipelineInv /\ [Next]_vars => Asked
  <2> SUFFICES ASSUME PipelineInv, [Next]_vars PROVE Asked
    OBVIOUS
  <2>1. CASE PutRecovered \/ PutAndApplyNext \/ EndPass
    <3>1. PICK p \in Producers : PutFirst(p)
      BY <2>1 DEF PutRecovered, PutAndApplyNext, EndPass, Producers
    <3> QED BY <3>1, PutAsks
  <2>2. CASE ~(PutRecovered \/ PutAndApplyNext \/ EndPass)
    <3>1. sent' = sent
      BY <2>2 DEF Next, Produce, BuilderStep, ConsumeLateTrade, FinalizeDue, Store, Take,
                  Request, Read, Publish, FailBuild, vars, candles
    <3> QED BY <3>1
  <2> QED BY <2>1, <2>2
<1>2. Spec => [][Asked]_vars
  BY <1>1, PipelineInvariant, PTL DEF Spec
<1> QED BY <1>2 DEF CandlesAskForTheirScopes

-----------------------------------------------------------------------------
(* The worker recomputes on demand *)

(* A client is not the worker. *)
LEMMA ClientsAreNotTheWorker == \A client \in Clients : client # "worker"
  BY PipelineAssumption

(* A builder other than the worker may come and go unnoticed by Demand. *)
LEMMA OthersStutter ==
    ASSUME NEW b, b # "worker", UNCHANGED queueing,
           \/ \E build : building' = With(building, b, build)
           \/ building' = Without(building, b)
    PROVE  UNCHANGED <<pendingScopes, InWork>>
<1>1. "worker" \in DOMAIN building' <=> "worker" \in DOMAIN building
  BY DEF With, Without, Restrict
<1>2. "worker" \in DOMAIN building => building'["worker"] = building["worker"]
  BY DEF With, Without, Restrict
<1>3. InWork' = InWork
  BY <1>1, <1>2 DEF InWork
<1> QED BY <1>3 DEF queueing

(***************************************************************************)
(* Candles ask, a Take starts, the end of the worker's build finishes; all *)
(* else is invisible.                                                      *)
(***************************************************************************)
LEMMA StepsRefine == PipelineInv /\ [Next]_vars => [Demand!Work]_<<pendingScopes, InWork>>
<1> SUFFICES ASSUME PipelineInv, [Next]_vars
             PROVE  [Demand!Work]_<<pendingScopes, InWork>>
  OBVIOUS
<1>1. ASSUME UNCHANGED <<pendingScopes, building>>
      PROVE  [Demand!Work]_<<pendingScopes, InWork>>
  BY <1>1 DEF InWork
<1>2. CASE PutRecovered \/ PutAndApplyNext \/ EndPass
  <2>1. PICK p \in Producers : PutFirst(p)
    BY <1>2 DEF PutRecovered, PutAndApplyNext, EndPass, Producers
  <2>2. \E values \in SUBSET Scopes : pendingScopes' = pendingScopes \cup values
    <3>1. ScopesOf(Head(putting[p])) \in SUBSET Scopes
      BY DEF ScopesOf
    <3> QED BY <2>1, <3>1, EnqueueKeeps DEF PutFirst, PipelineInv, TypeOK, ScopesTypeOK
  <2>3. building' = building
    BY <1>2 DEF PutRecovered, PutAndApplyNext, EndPass
  <2>4. Demand!Ask
    BY <2>2, <2>3 DEF Demand!Ask, InWork
  <2> QED BY <2>4 DEF Demand!Work
<1>3. CASE Take
  <2>1. /\ Head(metricQueue) \in pendingScopes
        /\ pendingScopes' = pendingScopes \ {Head(metricQueue)}
    BY <1>3, TakeKeeps
  <2>2. InWork = {} /\ InWork' = {Head(metricQueue)}
    BY <1>3 DEF Take, InWork, With, Build
  <2>3. Head(metricQueue) \in Scopes
    BY <2>1 DEF PipelineInv, TypeOK, ScopesTypeOK
  <2>4. Demand!Start(Head(metricQueue))
    BY <2>1, <2>2 DEF Demand!Start
  <2> QED BY <2>3, <2>4 DEF Demand!Work
<1>4. ASSUME NEW client \in Clients, NEW scope \in Requests, Request(client, scope)
      PROVE  [Demand!Work]_<<pendingScopes, InWork>>
  <2>1. client # "worker" /\ UNCHANGED queueing
    BY <1>4, ClientsAreNotTheWorker DEF Request
  <2>2. building' = With(building, client, Build(scope))
    BY <1>4 DEF Request
  <2>3. UNCHANGED <<pendingScopes, InWork>>
    BY <2>1, <2>2, OthersStutter
  <2> QED BY <2>3
<1>5. ASSUME NEW b \in Builders, Read(b) PROVE [Demand!Work]_<<pendingScopes, InWork>>
  <2>1. PICK history \in {stored, live} :
           building' = [building EXCEPT ![b].stage = "publishing", ![b].summary = history]
    BY <1>5 DEF Read
  <2>2. /\ building \in [DOMAIN building -> BuildType]
        /\ building' \in [DOMAIN building -> BuildType]
        /\ \A c \in DOMAIN building : building'[c].scope = building[c].scope
    BY <2>1, <1>5 DEF PipelineInv, TypeOK, ScopesTypeOK, CandlesTypeOK, BuildType
  <2>3. InWork' = InWork
    BY <2>2 DEF InWork
  <2>4. pendingScopes' = pendingScopes
    BY <1>5 DEF Read, queueing
  <2> QED BY <2>3, <2>4
<1>6. ASSUME NEW b \in Builders, Publish(b) \/ FailBuild(b)
      PROVE  [Demand!Work]_<<pendingScopes, InWork>>
  <2>1. /\ b \in DOMAIN building /\ building' = Without(building, b)
        /\ UNCHANGED queueing
    BY <1>6 DEF Publish, FailBuild
  <2>2. CASE b # "worker"
    <3>1. UNCHANGED <<pendingScopes, InWork>>
      BY <2>1, <2>2, OthersStutter
    <3> QED BY <3>1
  <2>3. CASE b = "worker"
    <3>1. InWork # {} /\ InWork' = {}
      BY <2>1, <2>3 DEF InWork, Without, Restrict
    <3>2. Demand!Finish
      BY <2>1, <3>1 DEF Demand!Finish, queueing
    <3> QED BY <3>2 DEF Demand!Work
  <2> QED BY <2>2, <2>3
<1>7. CASE \/ \E close \in 1..LastClose : ConsumeLateTrade(close) \/ FinalizeDue(close)
           \/ \E candle \in sent : Store(candle)
           \/ UNCHANGED vars
  <2>1. UNCHANGED <<pendingScopes, building>>
    BY <1>7 DEF ConsumeLateTrade, FinalizeDue, Store, vars, queueing
  <2> QED BY <1>1, <2>1
<1> QED BY <1>2, <1>3, <1>4, <1>5, <1>6, <1>7 DEF Next, Produce, BuilderStep

(***************************************************************************)
(* The pipeline implements the safety part of RecomputeOnDemand: a scope   *)
(* that is asked for stays so until its build begins, and nothing is built *)
(* that was not asked for.                                                 *)
(***************************************************************************)
THEOREM RecomputesSafely == Spec => Demand!SafeRecompute
<1>1. Init => Demand!InitIdle
  BY DEF Init, Demand!InitIdle, InWork
<1>2. Spec => [][Demand!Work]_<<pendingScopes, InWork>>
  BY StepsRefine, PipelineInvariant, PTL DEF Spec
<1> QED BY <1>1, <1>2, PTL DEF Spec, Demand!SafeRecompute, Demand!recompute
=============================================================================
