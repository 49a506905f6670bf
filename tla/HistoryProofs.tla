---------------------------- MODULE HistoryProofs ----------------------------
(***************************************************************************)
(* Proofs about the candle history, for any timeframes, page sizes, limits *)
(* and tables, and any changes of the tables between and inside the        *)
(* requests.                                                               *)
(*                                                                         *)
(* A page is right when it is made: the newest candles are an upper part   *)
(* of those in the range, the rows that are cut off are older than all     *)
(* that are read, and there are then too many to fit the page.  What it    *)
(* says is not looked up again, so that the tables may change.             *)
(*                                                                         *)
(* Pages go back in time because whatever source answers, the candles open *)
(* before the `to` of the request, and that is the open time of the first  *)
(* candle of the page before.                                              *)
(***************************************************************************)
EXTENDS History, FiniteSetTheorems, FunctionTheorems, SequenceTheorems, TLAPS

-----------------------------------------------------------------------------
(* ORDER BY and LIMIT *)

\* The members of S with a greater key than a, and the n members with the
\* greatest keys (ORDER BY key DESC LIMIT n, with ties).
Above(S, key, a) == {b \in S : key[b] > key[a]}
Greatest(S, key, n) == {a \in S : Cardinality(Above(S, key, a)) < n}

\* Who has a greater key than one of the greatest is one of them.
LEMMA GreatestIsUpward ==
    ASSUME NEW S, IsFiniteSet(S), NEW key \in [S -> Int], NEW n \in Nat,
           NEW a \in Greatest(S, key, n), NEW b \in S, key[a] <= key[b]
    PROVE  b \in Greatest(S, key, n)
<1>1. a \in S /\ Cardinality(Above(S, key, a)) < n
  BY DEF Greatest
<1>2. Above(S, key, b) \in SUBSET Above(S, key, a)
  BY <1>1 DEF Above
<1>3. IsFiniteSet(Above(S, key, a))
  BY FS_Subset, <1>1 DEF Above
<1>4. /\ Cardinality(Above(S, key, b)) \in Nat /\ Cardinality(Above(S, key, a)) \in Nat
      /\ Cardinality(Above(S, key, b)) <= Cardinality(Above(S, key, a))
  BY <1>2, <1>3, FS_Subset, FS_CardinalityType
<1> QED BY <1>1, <1>4 DEF Greatest

\* The key ranks the members of S from 0 on, if no two of them share one.
LEMMA RankIsBijection ==
    ASSUME NEW S, IsFiniteSet(S), NEW key \in [S -> Int],
           \A a, b \in S : key[a] = key[b] => a = b
    PROVE  [a \in S |-> Cardinality(Above(S, key, a))] \in Bijection(S, 0 .. Cardinality(S) - 1)
<1> DEFINE rank == [a \in S |-> Cardinality(Above(S, key, a))]
           T == 0 .. Cardinality(S) - 1
<1>1. Cardinality(S) \in Nat
  BY FS_CardinalityType
<1>2. IsFiniteSet(T) /\ Cardinality(T) = Cardinality(S)
  BY <1>1, FS_Interval
<1>3. ASSUME NEW a \in S
      PROVE  /\ IsFiniteSet(Above(S, key, a)) /\ Cardinality(Above(S, key, a)) \in Nat
             /\ Cardinality(Above(S, key, a)) < Cardinality(S)
  <2>1. Above(S, key, a) \in SUBSET S /\ a \notin Above(S, key, a)
    BY DEF Above
  <2>2. /\ IsFiniteSet(Above(S, key, a)) /\ Cardinality(Above(S, key, a)) <= Cardinality(S)
        /\ Cardinality(S) # Cardinality(Above(S, key, a))
    BY <2>1, FS_Subset
  <2> QED BY <1>1, <2>2, FS_CardinalityType
<1>4. rank \in [S -> T]
  BY <1>1, <1>3
<1>5. ASSUME NEW a \in S, NEW b \in S, key[a] < key[b]
      PROVE  Cardinality(Above(S, key, b)) < Cardinality(Above(S, key, a))
  <2>1. /\ Above(S, key, b) \in SUBSET Above(S, key, a)
        /\ b \in Above(S, key, a) /\ b \notin Above(S, key, b)
    BY <1>5 DEF Above
  <2>2. /\ Cardinality(Above(S, key, b)) <= Cardinality(Above(S, key, a))
        /\ Cardinality(Above(S, key, b)) # Cardinality(Above(S, key, a))
    BY <1>3, <2>1, FS_Subset
  <2> QED BY <1>3, <2>2
<1>6. ASSUME NEW a \in S, NEW b \in S, rank[a] = rank[b] PROVE a = b
  <2>1. key[a] = key[b] \/ key[a] < key[b] \/ key[b] < key[a]
    OBVIOUS
  <2> QED BY <1>3, <1>5, <1>6, <2>1
<1>7. rank \in Injection(S, T)
  BY <1>4, <1>6 DEF Injection, IsInjective
<1>8. rank \in Surjection(S, T)
  <2> HIDE DEF rank, T
  <2> QED BY <1>2, <1>7, FS_Injection
<1> QED BY <1>7, <1>8 DEF Bijection

\* LIMIT n leaves n of them, or all there are.
LEMMA GreatestCount ==
    ASSUME NEW S, IsFiniteSet(S), NEW key \in [S -> Int], NEW n \in Nat,
           \A a, b \in S : key[a] = key[b] => a = b
    PROVE  /\ IsFiniteSet(Greatest(S, key, n))
           /\ Cardinality(Greatest(S, key, n)) = IF n <= Cardinality(S) THEN n ELSE Cardinality(S)
<1> DEFINE G == Greatest(S, key, n)
           T == 0 .. Cardinality(S) - 1
           m == IF n <= Cardinality(S) THEN n ELSE Cardinality(S)
           rank == [a \in S |-> Cardinality(Above(S, key, a))]
           ranked == [a \in G |-> rank[a]]
<1>1. G \in SUBSET S /\ IsFiniteSet(G)
  BY FS_Subset DEF Greatest
<1>2. Cardinality(S) \in Nat /\ m \in Nat /\ m <= Cardinality(S)
  BY FS_CardinalityType
<1>3. rank \in Bijection(S, T)
  BY RankIsBijection
<1>4. /\ rank \in [S -> T]
      /\ \A a, b \in S : rank[a] = rank[b] => a = b
      /\ \A t \in T : \E a \in S : rank[a] = t
  <2> HIDE DEF rank, T
  <2> QED BY <1>3 DEF Bijection, Injection, IsInjective, Surjection
<1>5. \A a \in S : a \in G <=> rank[a] < n
  BY DEF Greatest
<1>6. \A a \in S : rank[a] \in Int /\ rank[a] >= 0 /\ rank[a] < Cardinality(S)
  <2> HIDE DEF rank
  <2> QED BY <1>2, <1>4
<1>7. \A a \in S : a \in G <=> rank[a] \in 0 .. m - 1
  BY <1>2, <1>5, <1>6
<1> HIDE DEF G, rank
<1>8. ranked \in Bijection(G, 0 .. m - 1)
  <2>1. ranked \in [G -> 0 .. m - 1]
    BY <1>1, <1>7
  <2>2. \A a, b \in G : ranked[a] = ranked[b] => a = b
    BY <1>1, <1>4
  <2>3. ASSUME NEW t \in 0 .. m - 1 PROVE \E a \in G : ranked[a] = t
    <3>1. t \in T
      BY <1>2
    <3>2. PICK a \in S : rank[a] = t
      BY <1>4, <3>1
    <3> QED BY <1>7, <3>2
  <2> QED BY <2>1, <2>2, <2>3 DEF Bijection, Injection, IsInjective, Surjection
<1>9. IsFiniteSet(0 .. m - 1) /\ Cardinality(0 .. m - 1) = m
  <2>1. 0 \in Int /\ m - 1 \in Int /\ m \in Nat
    BY <1>2
  <2> HIDE DEF m
  <2> QED BY <2>1, FS_Interval
<1>10. ExistsBijection(G, 0 .. m - 1)
  BY <1>8 DEF ExistsBijection
<1>11. Cardinality(G) = m
  BY <1>1, <1>9, <1>10, FS_Bijection
<1> QED BY <1>1, <1>11 DEF G
-----------------------------------------------------------------------------
(* Buckets *)

\* A bucket has a positive number of seconds.
LEMMA SecondsType == ASSUME timeframe \in Timeframes PROVE Seconds(timeframe) \in Nat \ {0}
BY HistoryAssumption DEF Seconds

\* A time lies in the bucket that it is floored to, and nowhere else.
LEMMA Buckets ==
    ASSUME NEW s \in Nat \ {0}, NEW t \in Int, NEW u \in Int
    PROVE  /\ (t \div s) * s \in Int
           /\ (t \div s) * s <= t /\ t < (t \div s) * s + s
           /\ t <= u => (t \div s) * s <= (u \div s) * s
           /\ (((t \div s) * s) \div s) * s = (t \div s) * s
<1>1. ASSUME NEW x \in Int
      PROVE  x \div s \in Int /\ (x \div s) * s <= x /\ x < (x \div s) * s + s
  OBVIOUS
<1>2. ASSUME NEW a \in Int, NEW b \in Int, a <= b PROVE a * s <= b * s
  <2>1. (b - a) * s >= 0
    BY <1>2
  <2>2. (b - a) * s = b * s - a * s
    OBVIOUS
  <2>3. a * s \in Int /\ b * s \in Int
    OBVIOUS
  <2> QED BY <2>1, <2>2, <2>3
<1>3. ASSUME NEW a \in Int, NEW b \in Int, a * s < b * s + s PROVE a <= b
  <2> SUFFICES ASSUME b + 1 <= a PROVE FALSE
    OBVIOUS
  <2>1. (b + 1) * s <= a * s
    BY <1>2
  <2>2. (b + 1) * s = b * s + s /\ b * s \in Int /\ a * s \in Int
    OBVIOUS
  <2> QED BY <1>3, <2>1, <2>2
<1> DEFINE p == t \div s
           q == u \div s
           r == (p * s) \div s
<1>4. p \in Int /\ q \in Int /\ p * s \in Int /\ q * s \in Int
  BY <1>1
<1>5. p * s <= t /\ t < p * s + s /\ q * s <= u /\ u < q * s + s
  BY <1>1
<1>6. r \in Int /\ r * s \in Int /\ r * s <= p * s /\ p * s < r * s + s
  BY <1>1, <1>4
<1> HIDE DEF p, q, r
<1>7. t <= u => p * s <= q * s
  <2> SUFFICES ASSUME t <= u PROVE p * s <= q * s
    OBVIOUS
  <2>1. p * s < q * s + s
    BY <1>4, <1>5
  <2>2. p <= q
    BY <1>3, <1>4, <2>1
  <2> QED BY <1>2, <1>4, <2>2
<1>8. r * s = p * s
  <2>1. p <= r
    BY <1>3, <1>4, <1>6
  <2>2. p * s <= r * s
    BY <1>2, <1>4, <1>6, <2>1
  <2> QED BY <1>4, <1>6, <2>2
<1> QED BY <1>4, <1>5, <1>7, <1>8 DEF p, q, r

\* Flooring a time to its bucket keeps the order, and what is floored already.
LEMMA FlooredProperties ==
    ASSUME timeframe \in Timeframes, NEW t \in Int
    PROVE  /\ Floored(t) \in Int /\ Floored(t) <= t /\ t < Floored(t) + Seconds(timeframe)
           /\ Floored(Floored(t)) = Floored(t)
           /\ \A u \in Int : t <= u => Floored(t) <= Floored(u)
<1>1. Seconds(timeframe) \in Nat \ {0}
  BY SecondsType
<1> QED BY <1>1, Buckets DEF Floored

\* A floored time is not after the time, nor before the epoch.
LEMMA FlooredIsBefore ==
    ASSUME timeframe \in Timeframes, NEW t \in Int
    PROVE  Floored(t) \in Int /\ Floored(t) <= t
BY FlooredProperties

\* Flooring stays on this side of the epoch.
LEMMA FlooredOfNat ==
    ASSUME timeframe \in Timeframes
    PROVE  Floored(0) = 0 /\ \A t \in Nat : Floored(t) \in Nat
<1>1. Seconds(timeframe) \in Nat \ {0}
  BY SecondsType
<1>2. Floored(0) = 0
  <2>1. 0 \div Seconds(timeframe) = 0
    BY <1>1
  <2> QED BY <1>1, <2>1 DEF Floored
<1>3. \A t \in Nat : Floored(t) \in Nat
  <2> TAKE t \in Nat
  <2>1. Floored(0) <= Floored(t) /\ Floored(t) \in Int
    BY FlooredProperties
  <2> QED BY <1>2, <2>1
<1> QED BY <1>2, <1>3

\* A second from the start of a bucket on is in that bucket or a newer one, and
\* one of an older bucket is before it.
LEMMA BucketsAreOrdered ==
    ASSUME timeframe \in Timeframes, NEW t \in Int, NEW open \in Int, Floored(open) = open
    PROVE  (open <= t => open <= Floored(t)) /\ (Floored(t) < open => t < open)
<1>1. open <= t => open <= Floored(t)
  BY FlooredProperties
<1>2. Floored(t) \in Int
  BY FlooredProperties
<1> QED BY <1>1, <1>2
-----------------------------------------------------------------------------
(* Candles made of rows *)

\* Candles of a chart: each bucket once, made of stored rows, and whole where
\* they are not called incomplete.
IsWholeCandle(c) ==
    c.status # "incomplete" =>
        /\ c.open .. c.open + Seconds(timeframe) - 1 \subseteq SecondsOf(c.rows)
        /\ \A row \in c.rows : row.status # "incomplete"
IsCandle(c) ==
    /\ c.open \in Nat /\ Floored(c.open) = c.open
    /\ c.rows \subseteq Rows /\ c.status \in Statuses
IsChart(candles) ==
    /\ IsFiniteSet(candles)
    /\ \A c \in candles : IsCandle(c)
    /\ \A c, d \in candles : c.open = d.open => c = d

\* No row sticks out of its bucket, and one that fills it is alone there.
Fits(rows) ==
    \A row \in rows :
        /\ row.time + row.span <= Floored(row.time) + Seconds(timeframe)
        /\ row.span = Seconds(timeframe) =>
               \A other \in rows : Floored(other.time) = Floored(row.time) => other = row

\* The columns of a row.
LEMMA RowTypes ==
    \A row \in Rows :
        /\ row.time \in Nat /\ row.span \in Nat \ {0} /\ row.span \in {1, Minute}
        /\ row.source \in Sources /\ row.status \in Statuses /\ row.traded \in BOOLEAN
BY HistoryAssumption DEF Rows

\* A bucket with rows has one of the four statuses.
LEMMA StatusType ==
    ASSUME NEW rows \in SUBSET Rows, rows # {}, NEW expected
    PROVE  Status(rows, expected) \in Statuses
<1>1. (CHOOSE row \in rows : TRUE) \in rows
  OBVIOUS
<1>2. (CHOOSE row \in rows : TRUE).status \in Statuses
  BY <1>1, RowTypes
<1>3. RollupStatus(rows, expected) \in Statuses
  BY DEF RollupStatus, Statuses
<1> QED BY <1>2, <1>3 DEF Status

\* What the candles of a rollup are, and that every row takes part in one.
LEMMA RollupCandles ==
    ASSUME timeframe \in Timeframes, NEW rows \in SUBSET Rows
    PROVE  /\ \A c \in Rollup(rows) :
                  /\ c.rows = {row \in rows : Floored(row.time) = c.open} /\ c.rows # {}
                  /\ c.status = Status(c.rows, Seconds(timeframe))
                  /\ IsCandle(c)
           /\ \A c, d \in Rollup(rows) : c.open = d.open => c = d
           /\ \A row \in rows : \E c \in Rollup(rows) : c.open = Floored(row.time) /\ row \in c.rows
<1> DEFINE part(open) == {row \in rows : Floored(row.time) = open}
<1>1. \A row \in rows : Floored(row.time) \in Nat /\ Floored(Floored(row.time)) = Floored(row.time)
  <2> TAKE row \in rows
  <2>1. row.time \in Nat
    BY RowTypes
  <2> QED BY <2>1, FlooredOfNat, FlooredProperties
<1>2. \A c \in Rollup(rows) : \E row \in rows :
          c = Candle(Floored(row.time), part(Floored(row.time)))
  BY DEF Rollup
<1>3. \A row \in rows : Candle(Floored(row.time), part(Floored(row.time))) \in Rollup(rows)
  BY DEF Rollup
<1>4. \A open : /\ Candle(open, part(open)).open = open /\ Candle(open, part(open)).rows = part(open)
                /\ Candle(open, part(open)).status = Status(part(open), Seconds(timeframe))
  BY DEF Candle
<1>5. \A row \in rows : row \in part(Floored(row.time))
  OBVIOUS
<1>6. ASSUME NEW c \in Rollup(rows)
      PROVE  /\ c = Candle(c.open, part(c.open))
             /\ c.rows = part(c.open) /\ c.rows # {}
             /\ c.status = Status(c.rows, Seconds(timeframe))
             /\ IsCandle(c)
  <2>1. PICK row \in rows : c = Candle(Floored(row.time), part(Floored(row.time)))
    BY <1>2
  <2> HIDE DEF part
  <2>2. c.open = Floored(row.time) /\ c.rows = part(c.open) /\ row \in c.rows
    BY <1>4, <1>5, <2>1
  <2>3. c.status = Status(c.rows, Seconds(timeframe))
    BY <1>4, <2>1
  <2>4. c.rows \in SUBSET Rows /\ c.rows # {}
    BY <2>2 DEF part
  <2>5. c.status \in Statuses
    BY <2>3, <2>4, StatusType
  <2> QED BY <1>1, <2>1, <2>2, <2>3, <2>4, <2>5 DEF IsCandle
<1>7. \A row \in rows : \E c \in Rollup(rows) : c.open = Floored(row.time) /\ row \in c.rows
  <2> HIDE DEF part
  <2> QED BY <1>3, <1>4, <1>5
<1>8. \A c, d \in Rollup(rows) : c.open = d.open => c = d
  <2> HIDE DEF part
  <2> QED BY <1>6
<1> QED BY <1>6, <1>7, <1>8

\* Finitely many rows make finitely many candles.
LEMMA RollupIsFinite ==
    ASSUME NEW rows, IsFiniteSet(rows)
    PROVE  IsFiniteSet(Rollup(rows))
<1> DEFINE made(row) == Candle(Floored(row.time), {r \in rows : Floored(r.time) = Floored(row.time)})
           f == [row \in rows |-> made(row)]
<1>1. Rollup(rows) = {made(row) : row \in rows}
  BY DEF Rollup
<1> HIDE DEF made
<1>2. f \in Surjection(rows, Rollup(rows))
  BY <1>1 DEF Surjection
<1> QED BY <1>2, FS_Surjection

\* The candles of a rollup are those of a chart.
LEMMA RollupIsChart ==
    ASSUME timeframe \in Timeframes, NEW rows \in SUBSET Rows, IsFiniteSet(rows)
    PROVE  IsChart(Rollup(rows))
BY RollupCandles, RollupIsFinite DEF IsChart

\* A candle of rows that fit is incomplete unless all of its seconds are there.
LEMMA RollupIsWhole ==
    ASSUME timeframe \in Timeframes, NEW rows \in SUBSET Rows, Fits(rows)
    PROVE  \A c \in Rollup(rows) : IsWholeCandle(c)
<1> SUFFICES ASSUME NEW c \in Rollup(rows), c.status # "incomplete"
             PROVE  /\ c.open .. c.open + Seconds(timeframe) - 1 \subseteq SecondsOf(c.rows)
                    /\ \A row \in c.rows : row.status # "incomplete"
  BY DEF IsWholeCandle
<1> DEFINE s == Seconds(timeframe)
           bucket == c.open .. c.open + s - 1
<1>1. s \in Nat \ {0}
  BY SecondsType
<1>2. /\ c.rows = {row \in rows : Floored(row.time) = c.open} /\ c.rows # {}
      /\ c.status = Status(c.rows, s) /\ c.open \in Nat
  BY RollupCandles DEF IsCandle
<1>3. ASSUME NEW row \in c.rows
      PROVE  /\ row \in rows /\ row.time \in Nat /\ row.span \in Nat \ {0}
             /\ c.open <= row.time /\ row.time + row.span <= c.open + s
  <2>1. row \in rows /\ Floored(row.time) = c.open
    BY <1>2
  <2>2. row.time \in Nat /\ row.span \in Nat \ {0}
    BY <2>1, RowTypes
  <2>3. Floored(row.time) <= row.time
    BY <2>2, FlooredProperties
  <2> QED BY <2>1, <2>2, <2>3 DEF Fits
<1>4. CASE \E row \in c.rows : row.span = s
  <2>1. PICK row \in c.rows : row.span = s
    BY <1>4
  <2>2. c.rows = {row}
    BY <1>2, <2>1 DEF Fits
  <2>3. (CHOOSE r \in c.rows : TRUE) = row
    BY <2>2
  <2>4. c.status = row.status
    BY <1>2, <1>4, <2>3 DEF Status
  <2>5. row.time = c.open
    BY <1>1, <1>2, <1>3, <2>1
  <2>6. bucket \subseteq SecondsOf(c.rows)
    BY <2>1, <2>2, <2>5 DEF SecondsOf
  <2> QED BY <2>2, <2>4, <2>6
<1>5. CASE ~ \E row \in c.rows : row.span = s
  <2>1. c.status = RollupStatus(c.rows, s)
    BY <1>2, <1>5 DEF Status
  <2>2. ~ IsIncomplete(c.rows, s)
    BY <2>1 DEF RollupStatus
  <2>3. ~ (Cardinality(SecondsOf(c.rows)) < s) /\ \A row \in c.rows : row.status # "incomplete"
    BY <2>2 DEF IsIncomplete
  <2>4. SecondsOf(c.rows) \in SUBSET bucket
    <3> SUFFICES ASSUME NEW row \in c.rows, NEW t \in row.time .. row.time + row.span - 1
                 PROVE  t \in bucket
      BY DEF SecondsOf
    <3> QED BY <1>1, <1>2, <1>3
  <2>5. IsFiniteSet(bucket) /\ Cardinality(bucket) = s
    <3>1. c.open \in Int /\ c.open + s - 1 \in Int /\ c.open <= c.open + s - 1
      BY <1>1, <1>2
    <3>2. /\ IsFiniteSet(bucket)
          /\ Cardinality(bucket) = IF c.open > c.open + s - 1 THEN 0
                                   ELSE (c.open + s - 1) - c.open + 1
      BY <3>1, FS_Interval
    <3> QED BY <1>1, <1>2, <3>2
  <2>6. /\ IsFiniteSet(SecondsOf(c.rows))
        /\ Cardinality(SecondsOf(c.rows)) <= s
        /\ s = Cardinality(SecondsOf(c.rows)) => bucket = SecondsOf(c.rows)
    <3> HIDE DEF s, bucket
    <3> QED BY <2>4, <2>5, FS_Subset
  <2>7. Cardinality(SecondsOf(c.rows)) \in Nat
    BY <2>6, FS_CardinalityType
  <2>8. bucket = SecondsOf(c.rows)
    BY <1>1, <2>3, <2>6, <2>7
  <2> QED BY <2>3, <2>8
<1> QED BY <1>4, <1>5
-----------------------------------------------------------------------------
(* The newest candles and rows *)

\* ORDER BY open_time DESC LIMIT count, of the candles of a chart.
LEMMA NewestCandles ==
    ASSUME NEW candles, IsChart(candles), NEW count \in Nat
    PROVE  LET newest == Newest(candles, count)
           IN  /\ newest \subseteq candles /\ IsChart(newest)
               /\ Cardinality(candles) \in Nat
               /\ Cardinality(newest) = IF count <= Cardinality(candles) THEN count
                                        ELSE Cardinality(candles)
               /\ \A c \in newest, d \in candles : c.open <= d.open => d \in newest
<1> DEFINE key == [c \in candles |-> c.open]
           newest == Newest(candles, count)
<1>1. key \in [candles -> Int] /\ \A c, d \in candles : key[c] = key[d] => c = d
  BY DEF IsChart, IsCandle
<1>2. \A c \in candles : {d \in candles : d.open > c.open} = Above(candles, key, c)
  BY DEF Above
<1>3. newest = Greatest(candles, key, count)
  BY <1>2 DEF Newest, Greatest
<1>4. IsFiniteSet(candles)
  BY DEF IsChart
<1>5. /\ IsFiniteSet(newest)
      /\ Cardinality(newest) = IF count <= Cardinality(candles) THEN count
                               ELSE Cardinality(candles)
  <2> HIDE DEF key, newest
  <2> QED BY <1>1, <1>3, <1>4, GreatestCount
<1>6. \A c \in newest, d \in candles : c.open <= d.open => d \in newest
  <2> SUFFICES ASSUME NEW c \in newest, NEW d \in candles, c.open <= d.open PROVE d \in newest
    OBVIOUS
  <2>1. c \in Greatest(candles, key, count) /\ c \in candles
    BY <1>3 DEF Greatest
  <2>2. key[c] <= key[d]
    BY <2>1
  <2> HIDE DEF key
  <2>3. d \in Greatest(candles, key, count)
    BY <1>1, <1>4, <2>1, <2>2, GreatestIsUpward
  <2> QED BY <1>3, <2>3
<1>7. newest \subseteq candles
  BY DEF Newest
<1>8. Cardinality(candles) \in Nat
  BY <1>4, FS_CardinalityType
<1>9. IsChart(newest)
  BY <1>5, <1>7 DEF IsChart
<1> QED BY <1>5, <1>6, <1>7, <1>8, <1>9

\* Each second once, as Ranked leaves them.
OnePerTime(rows) == \A row, other \in rows : row.time = other.time => row = other

\* ORDER BY open_time DESC LIMIT count, of one row per second.
LEMMA NewestOfRows ==
    ASSUME NEW rows \in SUBSET Rows, IsFiniteSet(rows), OnePerTime(rows), NEW count \in Nat
    PROVE  LET newest == NewestRows(rows, count)
           IN  /\ newest \subseteq rows /\ IsFiniteSet(newest)
               /\ Cardinality(newest) \in Nat
               /\ \A row \in rows \ newest :
                      /\ \A kept \in newest : row.time < kept.time
                      /\ Cardinality(newest) = count
<1> DEFINE key == [row \in rows |-> row.time]
           newest == NewestRows(rows, count)
<1>1. key \in [rows -> Int] /\ \A row, other \in rows : key[row] = key[other] => row = other
  BY RowTypes DEF OnePerTime
<1>2. \A row \in rows : {other \in rows : other.time > row.time} = Above(rows, key, row)
  BY DEF Above
<1>3. newest = Greatest(rows, key, count)
  BY <1>2 DEF NewestRows, Greatest
<1>4. newest \in SUBSET rows /\ IsFiniteSet(newest)
  BY FS_Subset DEF NewestRows
<1>5. Cardinality(newest) = IF count <= Cardinality(rows) THEN count ELSE Cardinality(rows)
  <2> HIDE DEF key, newest
  <2> QED BY <1>1, <1>3, GreatestCount
<1>6. ASSUME NEW row \in rows \ newest, NEW kept \in newest PROVE row.time < kept.time
  <2>1. kept \in Greatest(rows, key, count) /\ kept \in rows
    BY <1>3 DEF Greatest
  <2>2. row.time \in Int /\ kept.time \in Int
    BY <2>1, RowTypes
  <2>3. key[row] = row.time /\ key[kept] = kept.time
    BY <2>1
  <2> HIDE DEF key
  <2>4. kept.time <= row.time => row \in Greatest(rows, key, count)
    BY <1>1, <2>1, <2>3, GreatestIsUpward
  <2> QED BY <1>3, <2>2, <2>4
<1>7. ASSUME NEW row \in rows \ newest PROVE Cardinality(newest) = count
  <2>1. newest # rows /\ Cardinality(rows) # Cardinality(newest)
    <3> HIDE DEF newest
    <3> QED BY <1>4, FS_Subset
  <2> QED BY <1>5, <2>1
<1>8. Cardinality(newest) \in Nat
  BY <1>4, FS_CardinalityType
<1> QED BY <1>4, <1>6, <1>7, <1>8

\* The rows of n candles are at most n times the seconds of a bucket.
LEMMA RowsOfCandles ==
    ASSUME timeframe \in Timeframes, NEW rows \in SUBSET Rows, IsFiniteSet(rows),
           OnePerTime(rows)
    PROVE  Cardinality(rows) <= Cardinality(Rollup(rows)) * Seconds(timeframe)
<1> DEFINE s == Seconds(timeframe)
           candleOf == [row \in rows |-> CHOOSE c \in Rollup(rows) : c.open = Floored(row.time)]
           T == Rollup(rows) \X (0 .. s - 1)
           f == [row \in rows |-> <<candleOf[row], row.time - Floored(row.time)>>]
<1>1. s \in Nat \ {0} /\ IsFiniteSet(Rollup(rows)) /\ Cardinality(Rollup(rows)) \in Nat
  BY SecondsType, RollupIsFinite, FS_CardinalityType
<1>2. \A row \in rows : candleOf[row] \in Rollup(rows) /\ candleOf[row].open = Floored(row.time)
  BY RollupCandles
<1>3. \A row \in rows :
          /\ row.time \in Int /\ Floored(row.time) \in Int
          /\ row.time - Floored(row.time) \in 0 .. s - 1
  <2> TAKE row \in rows
  <2>1. row.time \in Int
    BY RowTypes
  <2>2. /\ Floored(row.time) \in Int /\ Floored(row.time) <= row.time
        /\ row.time < Floored(row.time) + s
    BY <2>1, FlooredProperties
  <2> QED BY <1>1, <2>1, <2>2
<1> HIDE DEF candleOf, s
<1>4. f \in [rows -> T]
  BY <1>2, <1>3
<1>5. ASSUME NEW row \in rows, NEW other \in rows, f[row] = f[other] PROVE row = other
  <2>1. /\ candleOf[row] = candleOf[other]
        /\ row.time - Floored(row.time) = other.time - Floored(other.time)
    BY <1>5
  <2>2. Floored(row.time) = Floored(other.time)
    BY <1>2, <2>1
  <2>3. row.time = other.time
    BY <1>3, <2>1, <2>2
  <2> QED BY <2>3 DEF OnePerTime
<1>6. IsFiniteSet(0 .. s - 1) /\ Cardinality(0 .. s - 1) = s
  <2>1. 0 \in Int /\ s - 1 \in Int
    BY <1>1
  <2>2. IsFiniteSet(0 .. s - 1) /\ Cardinality(0 .. s - 1) = IF 0 > s - 1 THEN 0 ELSE (s - 1) - 0 + 1
    BY <2>1, FS_Interval
  <2> QED BY <1>1, <2>2
<1>7. IsFiniteSet(T) /\ Cardinality(T) = Cardinality(Rollup(rows)) * s
  BY <1>1, <1>6, FS_Product
<1>8. f \in Injection(rows, T)
  BY <1>4, <1>5 DEF Injection, IsInjective
<1>9. Cardinality(rows) <= Cardinality(T)
  <2> HIDE DEF f, T
  <2> QED BY <1>7, <1>8, FS_Injection
<1> QED BY <1>7, <1>9 DEF s
-----------------------------------------------------------------------------
(* The tables *)

\* What the tables and the memory hold, whatever has been finalized, revised,
\* imported and dropped.
TablesInv ==
    /\ now \in Lateness .. MaxTime
    /\ IsLive(live, now) /\ IsHistorical(imported \cup importable)
    /\ trades \subseteq Nat
    /\ memory \in Seq(Rows) /\ Len(memory) <= CandleLimit

\* Multiples of m that are before a multiple of k * m are so by m at least.
LEMMA Multiples ==
    ASSUME NEW m \in Nat \ {0}, NEW s \in Nat \ {0}, s % m = 0,
           NEW t \in Int, t % m = 0, NEW q \in Int, t < q * s + s
    PROVE  t + m <= q * s + s
<1> DEFINE k == s \div m
           p == t \div m
           n == q * k + k
<1>1. k \in Int /\ p \in Int /\ s = m * k + (s % m) /\ t = m * p + (t % m)
  OBVIOUS
<1>2. s = m * k /\ t = m * p
  BY <1>1
<1> HIDE DEF k, p
<1>3. n \in Int /\ q * s + s = m * n
  <2>1. q * s = q * (m * k)
    BY <1>2
  <2>2. q * (m * k) = m * (q * k) /\ m * (q * k + k) = m * (q * k) + m * k
    BY <1>1
  <2>3. q * k + k \in Int
    BY <1>1
  <2> QED BY <1>2, <2>1, <2>2, <2>3
<1> HIDE DEF n
<1>4. p < n
  <2> SUFFICES ASSUME n <= p PROVE FALSE
    BY <1>1, <1>3
  <2>1. m * (p - n) >= 0
    BY <1>1, <1>3
  <2>2. m * (p - n) = m * p - m * n
    BY <1>1, <1>3
  <2>3. m * p < m * n
    BY <1>2, <1>3
  <2> QED BY <1>1, <1>3, <2>1, <2>2, <2>3
<1>5. m * (n - p - 1) >= 0
  BY <1>1, <1>3, <1>4
<1>6. m * (n - p - 1) = m * n - m * p - m
  BY <1>1, <1>3
<1>7. m * n \in Int /\ m * p \in Int
  BY <1>1, <1>3
<1> QED BY <1>2, <1>3, <1>5, <1>6, <1>7

\* An imported minute opens on the minute, and a persisted timeframe is made of
\* whole minutes.
LEMMA MinutesFit ==
    ASSUME timeframe \in Timeframes, timeframe \in PersistedTimeframes,
           NEW rows \in SUBSET Rows, KeyIsUnique(rows),
           \A row \in rows : /\ row.span = Minute /\ row.time % Minute = 0
                             /\ row.source = "historical_candles"
    PROVE  Fits(rows)
<1> DEFINE s == Seconds(timeframe)
<1>1. s \in Nat \ {0} /\ Minute \in Nat \ {0} /\ s % Minute = 0
  BY SecondsType, HistoryAssumption
<1>2. ASSUME NEW row \in rows PROVE row.time + row.span <= Floored(row.time) + s
  <2>1. row.time \in Int /\ row.span = Minute /\ row.time % Minute = 0
    BY RowTypes
  <2>2. row.time < Floored(row.time) + s
    BY <2>1, FlooredProperties
  <2>3. Floored(row.time) = (row.time \div s) * s /\ row.time \div s \in Int
    BY <1>1, <2>1 DEF Floored
  <2> HIDE DEF s
  <2> QED BY <1>1, <2>1, <2>2, <2>3, Multiples
<1>3. ASSUME NEW row \in rows, row.span = s, NEW other \in rows,
             Floored(other.time) = Floored(row.time)
      PROVE  other = row
  <2>1. s = Minute
    BY <1>3
  <2>2. ASSUME NEW r \in rows PROVE Floored(r.time) = r.time
    <3>1. r.time \in Int /\ r.time % Minute = 0
      BY RowTypes
    <3>2. \A t \in Int : t % Minute = 0 => (t \div Minute) * Minute = t
      BY <1>1
    <3> QED BY <2>1, <3>1, <3>2 DEF Floored
  <2>3. other.time = row.time /\ other.span = row.span /\ other.source = row.source
    BY <1>3, <2>2
  <2> QED BY <2>3 DEF KeyIsUnique
<1> QED BY <1>2, <1>3 DEF Fits

\* Buckets of one second floor nothing.
LEMMA OneSecond ==
    ASSUME timeframe \in Timeframes, Seconds(timeframe) = 1, NEW t \in Int
    PROVE  Floored(t) = t
BY DEF Floored

\* Rows of one second fit, if there is one of each second.
LEMMA SecondsFit ==
    ASSUME timeframe \in Timeframes, NEW rows \in SUBSET Rows, OnePerTime(rows),
           \A row \in rows : row.span = 1
    PROVE  Fits(rows)
<1>1. ASSUME NEW row \in rows PROVE row.time + row.span <= Floored(row.time) + Seconds(timeframe)
  <2>1. row.time \in Int /\ row.span = 1
    BY RowTypes
  <2> QED BY <2>1, FlooredProperties, SecondsType
<1>2. ASSUME NEW row \in rows, row.span = Seconds(timeframe), NEW other \in rows,
             Floored(other.time) = Floored(row.time)
      PROVE  other = row
  <2>1. row.time \in Int /\ other.time \in Int /\ Seconds(timeframe) = 1
    BY <1>2, RowTypes
  <2>2. row.time = other.time
    BY <1>2, <2>1, OneSecond
  <2> QED BY <2>2 DEF OnePerTime
<1> QED BY <1>1, <1>2 DEF Fits

\* The current rows of candles: one of each second.
LEMMA LiveFits ==
    ASSUME TablesInv, timeframe \in Timeframes
    PROVE  live \in SUBSET Rows /\ IsFiniteSet(live) /\ OnePerTime(live) /\ Fits(live)
<1>1. live \in SUBSET Rows /\ IsFiniteSet(live) /\ KeyIsUnique(live)
  BY DEF TablesInv, IsLive
<1>2. \A row \in live : row.span = 1 /\ row.source = "timescaledb"
  BY DEF TablesInv, IsLive
<1>3. OnePerTime(live)
  BY <1>1, <1>2 DEF KeyIsUnique, OnePerTime
<1> QED BY <1>1, <1>2, <1>3, SecondsFit

\* The imported minutes in any range fit the persisted timeframes.
LEMMA StoredMinutesFit ==
    ASSUME TablesInv, timeframe \in Timeframes, timeframe \in PersistedTimeframes,
           NEW rows \in SUBSET StoredMinutes
    PROVE  rows \in SUBSET Rows /\ IsFiniteSet(rows) /\ Fits(rows)
<1>1. /\ imported \cup importable \subseteq Rows /\ IsFiniteSet(imported \cup importable)
      /\ KeyIsUnique(imported \cup importable)
      /\ \A row \in imported \cup importable :
            row.span = Minute => row.source = "historical_candles" /\ row.time % Minute = 0
  BY DEF TablesInv, IsHistorical
<1>2. rows \in SUBSET (imported \cup importable) /\ \A row \in rows : row.span = Minute
  BY DEF StoredMinutes
<1>3. IsFiniteSet(rows)
  BY <1>1, <1>2, FS_Subset
<1>4. KeyIsUnique(rows)
  BY <1>1, <1>2 DEF KeyIsUnique
<1>5. rows \in SUBSET Rows
  BY <1>1, <1>2
<1>6. Fits(rows)
  BY <1>1, <1>2, <1>4, <1>5, MinutesFit
<1> QED BY <1>3, <1>5, <1>6

\* Of the rows of a second Ranked leaves the one with the highest priority.
LEMMA RankedRows ==
    ASSUME TablesInv, NEW rows \in SUBSET StoredSeconds
    PROVE  /\ rows \in SUBSET Rows /\ IsFiniteSet(rows) /\ \A row \in rows : row.span = 1
           /\ Ranked(rows) \in SUBSET Rows /\ IsFiniteSet(Ranked(rows)) /\ Ranked(rows) \subseteq rows
           /\ OnePerTime(Ranked(rows))
           /\ \A row \in rows : \E best \in Ranked(rows) : best.time = row.time
<1>1. /\ imported \cup importable \subseteq Rows /\ IsFiniteSet(imported \cup importable)
      /\ KeyIsUnique(imported \cup importable)
      /\ \A row \in imported \cup importable : row.source # "timescaledb"
  BY DEF TablesInv, IsHistorical
<1>2. /\ live \subseteq Rows /\ IsFiniteSet(live) /\ KeyIsUnique(live)
      /\ \A row \in live : row.span = 1 /\ row.source = "timescaledb"
  BY DEF TablesInv, IsLive
<1>3. \A row \in rows : row \in live \cup (imported \cup importable) /\ row.span = 1
  BY <1>2 DEF StoredSeconds
<1>4. rows \in SUBSET (live \cup (imported \cup importable))
  BY <1>3
<1>5. IsFiniteSet(rows) /\ rows \in SUBSET Rows
  <2>1. IsFiniteSet(live \cup (imported \cup importable))
    BY <1>1, <1>2, FS_Union
  <2> QED BY <1>1, <1>2, <1>4, <2>1, FS_Subset
<1>6. Ranked(rows) \in SUBSET rows
  BY DEF Ranked
<1>7. IsFiniteSet(Ranked(rows))
  BY <1>5, <1>6, FS_Subset
<1>8. \A row \in rows : Priority(row) \in {1, 2, 3}
  BY DEF Priority
<1>9. OnePerTime(Ranked(rows))
  <2> SUFFICES ASSUME NEW row \in Ranked(rows), NEW other \in Ranked(rows), row.time = other.time
               PROVE  row = other
    BY DEF OnePerTime
  <2>1. Priority(row) = Priority(other)
    <3>1. Priority(row) <= Priority(other) /\ Priority(other) <= Priority(row)
      BY DEF Ranked
    <3> QED BY <1>6, <1>8, <3>1
  <2>2. row.source \in Sources /\ other.source \in Sources
    BY <1>5, <1>6, RowTypes
  <2>3. row.source = other.source
    BY <2>1, <2>2 DEF Priority, Sources
  <2>4. row.span = other.span
    BY <1>3, <1>6
  <2> QED BY <1>1, <1>2, <1>3, <1>6, <2>3, <2>4 DEF KeyIsUnique
<1>10. ASSUME NEW row \in rows PROVE \E best \in Ranked(rows) : best.time = row.time
  <2> DEFINE same == {r \in rows : r.time = row.time}
  <2>1. \E best \in same : \A r \in same : Priority(r) <= Priority(best)
    <3>1. CASE \E r \in same : Priority(r) = 3
      BY <1>8, <3>1
    <3>2. CASE (\A r \in same : Priority(r) # 3) /\ \E r \in same : Priority(r) = 2
      BY <1>8, <3>2
    <3>3. CASE \A r \in same : Priority(r) # 3 /\ Priority(r) # 2
      BY <1>8, <3>3
    <3> QED BY <3>1, <3>2, <3>3
  <2>2. PICK best \in same : \A r \in same : Priority(r) <= Priority(best)
    BY <2>1
  <2> QED BY <2>2 DEF Ranked
<1> QED BY <1>3, <1>5, <1>6, <1>7, <1>9, <1>10
-----------------------------------------------------------------------------
(* What the tables answer *)

\* The candles cover the stored seconds: there is one wherever something is
\* stored, except that the oldest rows may be cut off once there is more than
\* the page and the candle after it.  And there is one only where something is
\* stored; the newest bucket may begin in the range and have its rows after it.
Covers(candles, stored) ==
    /\ IsChart(candles) /\ \A c \in candles : IsWholeCandle(c)
    /\ \A c, newer \in candles :
          c.open < newer.open => \E time \in stored : Floored(time) = c.open
    /\ \A time \in stored :
          \/ \E c \in candles : /\ c.open = Floored(time)
                                /\ timeframe \notin PersistedTimeframes => time \in SecondsOf(c.rows)
          \/ /\ Cardinality(candles) > limit + 1
             /\ \A c \in candles : Floored(time) <= c.open

\* The limit on the rows leaves the rows of more candles than are asked for.
LEMMA CutOffRows ==
    ASSUME timeframe \in Timeframes, limit \in Nat, NEW rows \in SUBSET Rows,
           IsFiniteSet(rows), OnePerTime(rows),
           NEW cut \in rows \ NewestRows(rows, source_fetch_limit)
    PROVE  /\ Cardinality(Rollup(NewestRows(rows, source_fetch_limit))) > limit + 1
           /\ \A c \in Rollup(NewestRows(rows, source_fetch_limit)) : Floored(cut.time) <= c.open
<1> DEFINE newest == NewestRows(rows, source_fetch_limit)
           s == Seconds(timeframe)
           n == Cardinality(Rollup(newest))
<1>1. s \in Nat \ {0} /\ source_fetch_limit = (limit + 2) * s /\ source_fetch_limit \in Nat
  BY SecondsType DEF source_fetch_limit
<1>2. /\ newest \subseteq rows /\ IsFiniteSet(newest) /\ Cardinality(newest) = source_fetch_limit
      /\ \A kept \in newest : cut.time < kept.time
  BY <1>1, NewestOfRows
<1>3. newest \in SUBSET Rows /\ OnePerTime(newest)
  BY <1>2 DEF OnePerTime
<1> HIDE DEF newest
<1>4. Cardinality(newest) <= n * s
  BY <1>2, <1>3, RowsOfCandles
<1>5. n \in Nat
  BY <1>2, RollupIsFinite, FS_CardinalityType
<1> HIDE DEF s, n
<1>6. n > limit + 1
  <2> SUFFICES ASSUME n <= limit + 1 PROVE FALSE
    BY <1>5
  <2>1. (limit + 1 - n) * s >= 0
    BY <1>1, <1>5
  <2>2. (limit + 1 - n) * s = (limit + 2) * s - n * s - s
    BY <1>1, <1>5
  <2>3. (limit + 2) * s \in Int /\ n * s \in Int
    BY <1>1, <1>5
  <2> QED BY <1>1, <1>2, <1>4, <2>1, <2>2, <2>3
<1>7. ASSUME NEW c \in Rollup(newest) PROVE Floored(cut.time) <= c.open
  <2>1. PICK row \in newest : c.open = Floored(row.time)
    <3>1. c.rows = {row \in newest : Floored(row.time) = c.open} /\ c.rows # {}
      BY <1>3, RollupCandles
    <3> QED BY <3>1
  <2>2. cut.time \in Int /\ row.time \in Int /\ cut.time <= row.time
    BY <1>2, <1>3, RowTypes
  <2> QED BY <2>1, <2>2, FlooredProperties
<1> QED BY <1>6, <1>7 DEF n, newest

\* The timeframes that are rolled up per request cover the stored seconds.
LEMMA RuntimeCovers ==
    ASSUME TablesInv, timeframe \in Timeframes, timeframe \notin PersistedTimeframes,
           limit \in Nat, NEW from \in Nat, NEW to \in Nat, Floored(from) = from
    PROVE  Covers(RuntimeCandles(from, to), StoredTimes(from, to))
<1> DEFINE ranged == {row \in StoredSeconds : from <= row.time /\ row.time < to}
           rows == NewestRows(Ranked(ranged), source_fetch_limit)
           candles == Rollup(rows)
           stored == StoredTimes(from, to)
<1>1. /\ ranged \in SUBSET Rows /\ IsFiniteSet(ranged) /\ \A row \in ranged : row.span = 1
      /\ Ranked(ranged) \in SUBSET Rows /\ IsFiniteSet(Ranked(ranged))
      /\ Ranked(ranged) \subseteq ranged /\ OnePerTime(Ranked(ranged))
      /\ \A row \in ranged : \E best \in Ranked(ranged) : best.time = row.time
  BY RankedRows
<1>2. RuntimeCandles(from, to) = candles
  BY DEF RuntimeCandles
<1>3. stored = {row.time : row \in {r \in StoredSeconds : from <= Floored(r.time) /\ r.time < to}}
  BY DEF StoredTimes
<1>4. ASSUME NEW row \in StoredSeconds, row.time \in Nat
      PROVE  from <= Floored(row.time) <=> from <= row.time
  BY <1>4, FlooredOfNat, FlooredProperties, BucketsAreOrdered
<1>5. \A row \in StoredSeconds : row.time \in Nat
  BY RowTypes DEF StoredSeconds, TablesInv, IsLive, IsHistorical
<1>6. stored = {row.time : row \in ranged}
  BY <1>3, <1>4, <1>5
<1>7. /\ rows \subseteq Ranked(ranged) /\ rows \in SUBSET Rows /\ OnePerTime(rows)
      /\ IsFiniteSet(rows) /\ \A row \in rows : row.span = 1
  <2>1. rows \in SUBSET Ranked(ranged)
    BY DEF NewestRows
  <2> HIDE DEF rows, ranged
  <2>2. IsFiniteSet(rows)
    BY <1>1, <2>1, FS_Subset
  <2> QED BY <1>1, <2>1, <2>2 DEF OnePerTime
<1> HIDE DEF rows
<1>8. IsChart(candles) /\ \A c \in candles : IsWholeCandle(c)
  BY <1>7, RollupIsChart, SecondsFit, RollupIsWhole
<1>9. ASSUME NEW c \in candles PROVE \E time \in stored : Floored(time) = c.open
  <2>1. c.rows = {row \in rows : Floored(row.time) = c.open} /\ c.rows # {}
    BY <1>7, RollupCandles
  <2>2. PICK row \in rows : Floored(row.time) = c.open
    BY <2>1
  <2>3. row.time \in stored
    BY <1>1, <1>6, <1>7
  <2> QED BY <2>2, <2>3
<1>10. ASSUME NEW time \in stored
       PROVE  \/ \E c \in candles : c.open = Floored(time) /\ time \in SecondsOf(c.rows)
              \/ /\ Cardinality(candles) > limit + 1
                 /\ \A c \in candles : Floored(time) <= c.open
  <2>1. PICK best \in Ranked(ranged) : best.time = time
    BY <1>1, <1>6
  <2>2. CASE best \in rows
    <3>1. PICK c \in candles : c.open = Floored(time) /\ best \in c.rows
      BY <1>7, <2>1, <2>2, RollupCandles
    <3>2. best.time \in best.time .. best.time + best.span - 1
      BY <1>7, <2>2, RowTypes
    <3>3. time \in SecondsOf(c.rows)
      BY <2>1, <3>1, <3>2 DEF SecondsOf
    <3> QED BY <3>1, <3>3
  <2>3. CASE best \notin rows
    <3> HIDE DEF ranged
    <3>1. /\ Cardinality(candles) > limit + 1
          /\ \A c \in candles : Floored(best.time) <= c.open
      BY <1>1, <2>3, CutOffRows DEF rows
    <3> QED BY <2>1, <3>1
  <2> QED BY <2>2, <2>3
<1> QED BY <1>2, <1>8, <1>9, <1>10 DEF Covers

\* The persisted timeframes, with imported minutes in place of buckets, do.
LEMMA PersistedCovers ==
    ASSUME TablesInv, timeframe \in Timeframes, timeframe \in PersistedTimeframes,
           NEW from \in Nat, NEW to \in Nat, Floored(from) = from
    PROVE  Covers(PersistedCandles(from, to), StoredTimes(from, to))
<1> DEFINE minutes == {row \in StoredMinutes : from <= row.time /\ row.time < to}
           historical == Rollup(minutes)
           persisted == {c \in Rollup(live) : from <= c.open /\ c.open < to}
           replaced == {c \in persisted : \A h \in historical : h.open # c.open}
           candles == historical \cup replaced
           stored == StoredTimes(from, to)
<1>1. PersistedCandles(from, to) = candles
  BY DEF PersistedCandles
<1>2. minutes \in SUBSET Rows /\ IsFiniteSet(minutes) /\ Fits(minutes)
  <2>1. minutes \in SUBSET StoredMinutes
    OBVIOUS
  <2> HIDE DEF minutes
  <2> QED BY <2>1, StoredMinutesFit
<1>3. live \in SUBSET Rows /\ IsFiniteSet(live) /\ Fits(live)
  BY LiveFits
<1>4. IsChart(historical) /\ \A c \in historical : IsWholeCandle(c)
  <2> HIDE DEF minutes
  <2> QED BY <1>2, RollupIsChart, RollupIsWhole
<1>5. IsChart(Rollup(live)) /\ \A c \in Rollup(live) : IsWholeCandle(c)
  BY <1>3, RollupIsChart, RollupIsWhole
<1>6. IsChart(candles) /\ \A c \in candles : IsWholeCandle(c)
  <2> HIDE DEF historical
  <2>1. replaced \in SUBSET Rollup(live)
    OBVIOUS
  <2>2. IsFiniteSet(candles)
    <3>1. IsFiniteSet(replaced)
      BY <1>5, <2>1, FS_Subset DEF IsChart
    <3> QED BY <1>4, <3>1, FS_Union DEF IsChart
  <2>3. \A c, d \in candles : c.open = d.open => c = d
    BY <1>4, <1>5 DEF IsChart
  <2> QED BY <1>4, <1>5, <2>2, <2>3 DEF IsChart
<1>7. /\ \A row \in live \cup StoredMinutes : row \in Rows
      /\ stored = {row.time : row \in {r \in live \cup StoredMinutes :
                                        from <= Floored(r.time) /\ r.time < to}}
  BY DEF StoredTimes, StoredMinutes, TablesInv, IsLive, IsHistorical
<1>8. ASSUME NEW row \in live \cup StoredMinutes
      PROVE  /\ row.time \in Nat /\ Floored(row.time) \in Nat /\ Floored(row.time) <= row.time
             /\ from <= Floored(row.time) <=> from <= row.time
  <2>1. row.time \in Nat
    BY <1>7, RowTypes
  <2> QED BY <2>1, FlooredOfNat, FlooredProperties, BucketsAreOrdered
<1>9. ASSUME NEW c \in candles
      PROVE  /\ c.open \in Nat /\ Floored(c.open) = c.open /\ c.open < to
             /\ \/ \E time \in stored : Floored(time) = c.open
                \/ \E row \in live : from <= Floored(row.time) /\ Floored(row.time) = c.open
  <2>1. c.open \in Nat /\ Floored(c.open) = c.open
    BY <1>6 DEF IsChart, IsCandle
  <2>2. CASE c \in historical
    <3>1. c.rows = {row \in minutes : Floored(row.time) = c.open} /\ c.rows # {}
      BY <1>2, <2>2, RollupCandles
    <3>2. PICK row \in minutes : Floored(row.time) = c.open
      BY <3>1
    <3>3. row.time \in stored /\ c.open <= row.time /\ row.time < to
      BY <1>7, <1>8, <3>2
    <3> QED BY <1>8, <2>1, <3>2, <3>3
  <2>3. CASE c \in persisted
    <3>1. c.rows = {row \in live : Floored(row.time) = c.open} /\ c.rows # {}
      BY <1>3, <2>3, RollupCandles
    <3> QED BY <2>1, <2>3, <3>1
  <2> QED BY <2>2, <2>3
<1>10. ASSUME NEW c \in candles, NEW newer \in candles, c.open < newer.open
       PROVE  \E time \in stored : Floored(time) = c.open
  <2> SUFFICES ASSUME NEW row \in live, from <= Floored(row.time), Floored(row.time) = c.open
               PROVE  \E time \in stored : Floored(time) = c.open
    BY <1>9
  <2>1. row.time < newer.open
    BY <1>8, <1>9, <1>10, BucketsAreOrdered
  <2>2. row.time < to
    BY <1>8, <1>9, <2>1
  <2> QED BY <1>7, <2>2
<1>11. ASSUME NEW time \in stored PROVE \E c \in candles : c.open = Floored(time)
  <2>1. PICK row \in live \cup StoredMinutes :
            row.time = time /\ from <= Floored(row.time) /\ row.time < to
    BY <1>7
  <2>2. CASE row \in StoredMinutes
    <3>1. row \in minutes
      BY <1>8, <2>1, <2>2
    <3> HIDE DEF minutes
    <3> QED BY <1>2, <2>1, <3>1, RollupCandles
  <2>3. CASE row \in live
    <3>1. PICK c \in Rollup(live) : c.open = Floored(time)
      BY <1>3, <2>1, <2>3, RollupCandles
    <3>2. c \in persisted
      BY <1>8, <2>1, <3>1
    <3> QED BY <3>1, <3>2
  <2> QED BY <2>1, <2>2, <2>3
<1> QED BY <1>1, <1>6, <1>11, <1>10 DEF Covers
-----------------------------------------------------------------------------
(* Pages *)

\* What the properties say of the last response, of any page.
SkipsNothing(p) ==
    p.source # "memory" =>
        \A time \in p.stored :
            (\E first \in Opens(p) : first <= time) => Floored(time) \in Opens(p)
SaysMore(p) ==
    p.source \in Sources =>
        (p.has_more <=> \E time \in p.stored : \A open \in Opens(p) : time < open)
IsWhole(p) ==
    p.source \in Sources =>
        \A c \in p.candles :
            /\ timeframe \notin PersistedTimeframes =>
                 \A time \in p.stored : Floored(time) = c.open => time \in SecondsOf(c.rows)
            /\ IsWholeCandle(c)
IsRight(p) == SkipsNothing(p) /\ SaysMore(p) /\ IsWhole(p)

\* A page of the candles of a chart is a page.
LEMMA ChartIsPage ==
    ASSUME limit \in Nat, NEW p, IsChart(p.candles), Cardinality(p.candles) <= limit,
           p.source \in Sources \cup {"none", "raw_trades", "memory"},
           p.from \in Nat, p.to \in Nat, p.has_more \in BOOLEAN, p.stored \subseteq Nat
    PROVE  IsPage(p)
<1> DEFINE f == [c \in p.candles |-> c.open]
<1>1. Opens(p) = {c.open : c \in p.candles}
  BY DEF Opens
<1>2. f \in Bijection(p.candles, Opens(p))
  BY <1>1 DEF Bijection, Injection, IsInjective, Surjection, IsChart
<1>3. Cardinality(Opens(p)) = Cardinality(p.candles)
  <2>1. ExistsBijection(p.candles, Opens(p)) /\ IsFiniteSet(p.candles)
    BY <1>2 DEF ExistsBijection, IsChart
  <2> QED BY <2>1, FS_Bijection
<1>4. \A c \in p.candles : c.open \in Nat /\ c.rows \subseteq Rows /\ c.status \in Statuses
  BY DEF IsChart, IsCandle
<1> QED BY <1>3, <1>4 DEF IsPage

\* Rows open at or after the epoch.
LEMMA StoredTimesType ==
    ASSUME TablesInv, NEW from, NEW to
    PROVE  StoredTimes(from, to) \subseteq Nat
<1>1. live \cup StoredMinutes \subseteq Rows /\ StoredSeconds \subseteq Rows
  BY DEF TablesInv, IsLive, IsHistorical, StoredMinutes, StoredSeconds
<1> QED BY <1>1, RowTypes DEF StoredTimes

\* The newest candles of the tables leave nothing out, and one more than asked
\* for tells whether there is an older one.
LEMMA DatabasePageIsRight ==
    ASSUME TablesInv, timeframe \in Timeframes, limit \in Nat \ {0},
           request.from \in Nat, request.to \in Nat, Floored(request.from) = request.from
    PROVE  IsPage(DatabasePage) /\ IsRight(DatabasePage) /\ DatabasePage.source \in Sources
<1> DEFINE candles == StoredCandles(request.from, request.to)
           fetched == Newest(candles, fetch_limit)
           kept == Newest(fetched, limit)
           stored == StoredTimes(request.from, request.to)
<1>1. Covers(candles, stored)
  BY RuntimeCovers, PersistedCovers DEF StoredCandles
<1>2. /\ DatabasePage.candles = kept /\ DatabasePage.stored = stored
      /\ DatabasePage.has_more = (Cardinality(fetched) > limit)
      /\ DatabasePage.from = request.from /\ DatabasePage.to = request.to
      /\ DatabasePage.source = _history_page_source(kept)
      /\ Opens(DatabasePage) = {c.open : c \in kept}
  BY DEF DatabasePage, Opens
<1>3. DatabasePage.source \in Sources
  BY <1>2 DEF _history_page_source, Sources
<1> HIDE DEF candles, stored
<1>4. IsChart(candles) /\ fetch_limit = limit + 1 /\ fetch_limit \in Nat
  BY <1>1 DEF Covers, fetch_limit
<1>5. /\ fetched \subseteq candles /\ IsChart(fetched) /\ Cardinality(candles) \in Nat
      /\ Cardinality(fetched) = IF limit + 1 <= Cardinality(candles) THEN limit + 1
                                ELSE Cardinality(candles)
      /\ \A c \in fetched, d \in candles : c.open <= d.open => d \in fetched
  BY <1>4, NewestCandles
<1> HIDE DEF fetched
<1>6. /\ kept \subseteq fetched /\ IsChart(kept)
      /\ Cardinality(kept) = IF limit <= Cardinality(fetched) THEN limit ELSE Cardinality(fetched)
      /\ \A c \in kept, d \in fetched : c.open <= d.open => d \in kept
  BY <1>5, NewestCandles
<1> HIDE DEF kept
<1>7. \A c \in kept, d \in candles : c.open <= d.open => d \in kept
  BY <1>5, <1>6
<1>8. Cardinality(kept) \in Nat /\ Cardinality(fetched) \in Nat /\ Cardinality(kept) <= limit
  BY <1>5, <1>6
<1>9. Cardinality(candles) <= limit => kept = candles
  <2> SUFFICES ASSUME Cardinality(candles) <= limit PROVE kept = candles
    OBVIOUS
  <2>1. Cardinality(kept) = Cardinality(candles)
    BY <1>5, <1>6
  <2>2. kept \in SUBSET candles /\ IsFiniteSet(candles)
    BY <1>4, <1>5, <1>6 DEF IsChart
  <2> QED BY <2>1, <2>2, FS_Subset
<1>10. \A c \in candles : c.open \in Nat /\ Floored(c.open) = c.open
  BY <1>4 DEF IsChart, IsCandle
<1>11. stored \subseteq Nat
  BY StoredTimesType DEF stored
<1>12. IsPage(DatabasePage)
  <2>1. DatabasePage.has_more \in BOOLEAN
    BY DEF DatabasePage
  <2>2. DatabasePage.source \in Sources \cup {"none", "raw_trades", "memory"}
    BY <1>3
  <2>3. /\ DatabasePage.from \in Nat /\ DatabasePage.to \in Nat /\ DatabasePage.stored \subseteq Nat
        /\ IsChart(DatabasePage.candles) /\ Cardinality(DatabasePage.candles) <= limit
    BY <1>2, <1>6, <1>8, <1>11
  <2> QED BY <2>1, <2>2, <2>3, ChartIsPage
<1>13. SkipsNothing(DatabasePage)
  <2> SUFFICES ASSUME NEW time \in stored, NEW first \in kept, first.open <= time
               PROVE  \E c \in kept : c.open = Floored(time)
    BY <1>2 DEF SkipsNothing
  <2>1. first \in candles /\ time \in Nat
    BY <1>5, <1>6, <1>11
  <2>2. first.open <= Floored(time)
    BY <1>10, <2>1, BucketsAreOrdered
  <2>3. CASE \E c \in candles : c.open = Floored(time)
    BY <1>7, <2>2, <2>3
  <2>4. CASE \A c \in candles : Floored(time) <= c.open
    <3>1. Floored(time) <= first.open /\ Floored(time) \in Int /\ first.open \in Int
      BY <1>10, <2>1, <2>4, FlooredProperties
    <3> QED BY <2>2, <3>1
  <2> QED BY <1>1, <2>3, <2>4 DEF Covers
<1>14. DatabasePage.has_more <=> Cardinality(candles) > limit
  <2>1. DatabasePage.has_more = (Cardinality(fetched) > limit)
    BY <1>2
  <2>2. (Cardinality(fetched) > limit) <=> (Cardinality(candles) > limit)
    BY <1>5
  <2> QED BY <2>1, <2>2, Zenon
<1>15. SaysMore(DatabasePage)
  <2>1. ASSUME Cardinality(candles) > limit
        PROVE  \E time \in stored : \A open \in Opens(DatabasePage) : time < open
    <3>1. kept # candles
      BY <1>8, <2>1
    <3>2. PICK c \in candles : c \notin kept
      BY <1>5, <1>6, <3>1
    <3>3. \A newer \in kept : newer \in candles /\ c.open < newer.open
      BY <1>5, <1>6, <1>7, <1>10, <3>2
    <3>4. \E newer \in kept : TRUE
      <4>1. Cardinality(kept) # 0
        BY <1>5, <1>6, <2>1
      <4> QED BY <4>1, FS_EmptySet
    <3>5. PICK time \in stored : Floored(time) = c.open
      BY <1>1, <3>2, <3>3, <3>4 DEF Covers
    <3>6. \A newer \in kept : time < newer.open
      BY <1>10, <1>11, <3>3, <3>5, BucketsAreOrdered
    <3> QED BY <1>2, <3>6
  <2>2. ASSUME NEW time \in stored, \A open \in Opens(DatabasePage) : time < open
        PROVE  Cardinality(candles) > limit
    <3> SUFFICES ASSUME NEW c \in candles, c.open = Floored(time), Cardinality(candles) <= limit
                 PROVE  FALSE
      BY <1>1, <1>5 DEF Covers
    <3>1. time < c.open
      BY <1>2, <1>9, <2>2
    <3>2. time \in Int /\ Floored(time) <= time
      BY <1>11, FlooredProperties
    <3> QED BY <1>10, <3>1, <3>2
  <2> QED BY <1>2, <1>14, <2>1, <2>2 DEF SaysMore
<1>16. IsWhole(DatabasePage)
  <2> SUFFICES ASSUME NEW c \in kept
               PROVE  /\ timeframe \notin PersistedTimeframes =>
                           \A time \in stored : Floored(time) = c.open => time \in SecondsOf(c.rows)
                      /\ IsWholeCandle(c)
    BY <1>2 DEF IsWhole
  <2>1. c \in candles
    BY <1>5, <1>6
  <2>2. IsWholeCandle(c)
    BY <1>1, <2>1 DEF Covers
  <2>3. ASSUME timeframe \notin PersistedTimeframes, NEW time \in stored, Floored(time) = c.open
        PROVE  time \in SecondsOf(c.rows)
    <3>1. CASE \E d \in candles : d.open = Floored(time) /\ time \in SecondsOf(d.rows)
      <4>1. PICK d \in candles : d.open = Floored(time) /\ time \in SecondsOf(d.rows)
        BY <3>1
      <4>2. d = c
        BY <1>4, <2>1, <2>3, <4>1 DEF IsChart
      <4> QED BY <4>1, <4>2
    <3>2. CASE Cardinality(candles) > limit + 1 /\ \A d \in candles : Floored(time) <= d.open
      <4>1. \A d \in candles : d \in kept
        BY <1>7, <2>3, <3>2
      <4>2. kept = candles
        BY <1>5, <1>6, <4>1
      <4> QED BY <1>5, <1>8, <3>2, <4>2
    <3> QED BY <1>1, <2>3, <3>1, <3>2 DEF Covers
  <2> QED BY <2>2, <2>3
<1> QED BY <1>3, <1>12, <1>13, <1>15, <1>16 DEF IsRight
-----------------------------------------------------------------------------
\* The range of the raw trades is made of whole buckets, none before the epoch,
\* and ends with the request or before it.
LEMMA RawRange ==
    ASSUME timeframe \in Timeframes, limit \in Nat,
           request.now \in Nat, request.from \in Nat, request.to \in Nat
    PROVE  /\ stable_to \in Nat /\ Floored(stable_to) = stable_to /\ stable_to <= request.to
           /\ raw_from \in Nat /\ Floored(raw_from) = raw_from
<1> DEFINE limited == Latest(0, request.now - StableDelay)
           early == Earliest(request.to, limited)
           kept == Latest(request.from, request.now - RawRetention)
           first == stable_to - (limit + 1) * Seconds(timeframe)
<1>1. early \in Nat /\ early <= request.to
  BY HistoryAssumption DEF Latest, Earliest
<1>2. stable_to = Floored(early)
  BY DEF stable_to
<1> HIDE DEF early
<1>3. stable_to \in Nat /\ Floored(stable_to) = stable_to /\ stable_to <= request.to
  BY <1>1, <1>2, FlooredOfNat, FlooredProperties
<1>4. first \in Int
  <2>1. (limit + 1) * Seconds(timeframe) \in Int
    BY SecondsType
  <2> QED BY <1>3, <2>1
<1>5. kept \in Nat
  BY HistoryAssumption DEF Latest
<1>6. raw_from = Floored(Latest(kept, first))
  BY DEF raw_from
<1> HIDE DEF kept, first
<1>7. Latest(kept, first) \in Nat
  BY <1>4, <1>5 DEF Latest
<1>8. raw_from \in Nat /\ Floored(raw_from) = raw_from
  BY <1>6, <1>7, FlooredOfNat, FlooredProperties
<1> QED BY <1>3, <1>8

\* From the first trade on, raw pages have a candle for each bucket.
LEMMA RawPageIsRight ==
    ASSUME TablesInv, timeframe \in Timeframes, limit \in Nat,
           request.now \in Nat, request.from \in Nat, request.to \in Nat
    PROVE  /\ IsPage(RawPage) /\ IsRight(RawPage) /\ RawPage.source = "raw_trades"
           /\ \A open \in Opens(RawPage) : open < request.to
<1> DEFINE opens == {open \in raw_from .. stable_to - 1 :
                        /\ Floored(open) = open
                        /\ \E time \in trades : time < open + Seconds(timeframe)}
           candles == {RawCandle(open) : open \in opens}
           kept == Newest(candles, limit)
           stored == StoredTimes(raw_from, stable_to)
<1>1. /\ stable_to \in Nat /\ Floored(stable_to) = stable_to /\ stable_to <= request.to
      /\ raw_from \in Nat
  BY RawRange
<1>2. /\ RawPage.source = "raw_trades" /\ RawPage.from = raw_from /\ RawPage.to = stable_to
      /\ RawPage.candles = kept /\ RawPage.stored = stored /\ RawPage.has_more \in BOOLEAN
      /\ Opens(RawPage) = {c.open : c \in kept}
  BY DEF RawPage, Opens
<1>3. stored \subseteq Nat /\ \A time \in stored : raw_from <= Floored(time) /\ time < stable_to
  <2>1. stored \subseteq Nat
    BY StoredTimesType
  <2>2. \A time \in stored : raw_from <= Floored(time) /\ time < stable_to
    BY DEF StoredTimes
  <2> QED BY <2>1, <2>2
<1>4. \A open \in opens : /\ open \in Nat /\ Floored(open) = open /\ open < stable_to
                          /\ RawCandle(open).open = open /\ IsCandle(RawCandle(open))
  <2> SUFFICES ASSUME NEW open \in opens
               PROVE  /\ open \in Nat /\ Floored(open) = open /\ open < stable_to
                      /\ RawCandle(open).open = open /\ IsCandle(RawCandle(open))
    OBVIOUS
  <2>1. open \in Nat /\ Floored(open) = open /\ open < stable_to
    BY <1>1
  <2>2. /\ RawCandle(open).open = open /\ RawCandle(open).rows = {}
        /\ RawCandle(open).status \in Statuses
    BY DEF RawCandle, Statuses
  <2> QED BY <2>1, <2>2 DEF IsCandle
<1>5. IsChart(candles)
  <2>1. IsFiniteSet(opens)
    <3>1. IsFiniteSet(raw_from .. stable_to - 1)
      <4>1. raw_from \in Int /\ stable_to - 1 \in Int
        BY <1>1
      <4> QED BY <4>1, FS_Interval
    <3>2. opens \in SUBSET (raw_from .. stable_to - 1)
      OBVIOUS
    <3> HIDE DEF opens
    <3> QED BY <3>1, <3>2, FS_Subset
  <2> HIDE DEF opens
  <2>2. [open \in opens |-> RawCandle(open)] \in Surjection(opens, candles)
    BY DEF Surjection
  <2>3. IsFiniteSet(candles)
    BY <2>1, <2>2, FS_Surjection
  <2> QED BY <1>4, <2>3 DEF IsChart
<1> HIDE DEF opens
<1>6. /\ kept \subseteq candles /\ IsChart(kept) /\ Cardinality(kept) <= limit
      /\ \A c \in kept, d \in candles : c.open <= d.open => d \in kept
  <2>1. /\ kept \subseteq candles /\ IsChart(kept) /\ Cardinality(candles) \in Nat
        /\ Cardinality(kept) = IF limit <= Cardinality(candles) THEN limit
                               ELSE Cardinality(candles)
        /\ \A c \in kept, d \in candles : c.open <= d.open => d \in kept
    <3> HIDE DEF candles
    <3> QED BY <1>5, NewestCandles
  <2> QED BY <2>1
<1>7. \A c \in kept : \E open \in opens : c = RawCandle(open)
  BY <1>6
<1>8. IsPage(RawPage)
  <2>1. RawPage.source \in Sources \cup {"none", "raw_trades", "memory"}
    BY <1>2
  <2> HIDE DEF kept, stored
  <2> QED BY <1>1, <1>2, <1>3, <1>6, <2>1, ChartIsPage
<1>9. SkipsNothing(RawPage)
  <2> SUFFICES ASSUME NEW time \in stored, NEW first \in kept, first.open <= time
               PROVE  \E c \in kept : c.open = Floored(time)
    BY <1>2 DEF SkipsNothing
  <2>1. PICK open \in opens : first = RawCandle(open)
    BY <1>7
  <2>2. first.open = open /\ open \in Nat /\ Floored(open) = open
    BY <1>4, <2>1
  <2>3. time \in Nat /\ raw_from <= Floored(time) /\ time < stable_to
    BY <1>3
  <2>4. Floored(time) \in Nat /\ Floored(time) <= time /\ open <= Floored(time)
    BY <2>2, <2>3, FlooredOfNat, FlooredProperties, BucketsAreOrdered
  <2>5. Floored(time) \in raw_from .. stable_to - 1
    BY <1>1, <2>3, <2>4
  <2>6. PICK trade \in trades : trade < open + Seconds(timeframe)
    BY DEF opens
  <2>7. trade < Floored(time) + Seconds(timeframe)
    <3>1. trade \in Nat /\ Seconds(timeframe) \in Nat
      BY SecondsType DEF TablesInv
    <3> QED BY <2>2, <2>4, <2>6, <3>1
  <2>8. Floored(Floored(time)) = Floored(time)
    BY <2>3, FlooredProperties
  <2>9. Floored(time) \in opens
    BY <2>5, <2>7, <2>8 DEF opens
  <2>10. RawCandle(Floored(time)) \in candles /\ RawCandle(Floored(time)).open = Floored(time)
    BY <1>4, <2>9
  <2> HIDE DEF kept, candles
  <2> QED BY <1>6, <2>2, <2>4, <2>10
<1>10. \A open \in Opens(RawPage) : open < request.to
  <2>1. \A c \in kept : c.open \in Nat /\ c.open < stable_to
    BY <1>4, <1>7
  <2> HIDE DEF kept
  <2> QED BY <1>1, <1>2, <2>1
<1>11. SaysMore(RawPage) /\ IsWhole(RawPage)
  BY <1>2 DEF SaysMore, IsWhole, Sources
<1> QED BY <1>2, <1>8, <1>9, <1>10, <1>11 DEF IsRight

\* The rows in memory make a page, of any order and any revisions of them.
LEMMA MemoryPageIsRight ==
    ASSUME TablesInv, timeframe \in Timeframes, limit \in Nat,
           request.from \in Nat, request.to \in Nat
    PROVE  IsPage(MemoryPage) /\ IsRight(MemoryPage)
<1> DEFINE part(open) == {i \in Held : Floored(memory[i].time) = open}
           candles == MemoryCandles
           kept == Newest(candles, limit)
           stored == StoredTimes(request.from, request.to)
<1>1. /\ MemoryPage.source = "memory" /\ MemoryPage.from = request.from
      /\ MemoryPage.to = request.to /\ MemoryPage.candles = kept /\ MemoryPage.stored = stored
      /\ MemoryPage.has_more \in BOOLEAN
  BY DEF MemoryPage
<1>2. Held \in SUBSET (1 .. Len(memory)) /\ IsFiniteSet(Held)
  <2>1. Held \in SUBSET (1 .. Len(memory)) /\ Len(memory) \in Int
    BY DEF Held, TablesInv
  <2>2. IsFiniteSet(1 .. Len(memory))
    BY <2>1, FS_Interval
  <2> QED BY <2>1, <2>2, FS_Subset
<1>3. \A i \in Held : memory[i] \in Rows /\ memory[i].time \in Nat
  <2>1. \A i \in Held : memory[i] \in Rows
    BY <1>2 DEF TablesInv
  <2> QED BY <2>1, RowTypes
<1>4. candles = {MemoryCandle(Floored(memory[i].time), part(Floored(memory[i].time))) : i \in Held}
  BY DEF MemoryCandles
<1>5. ASSUME NEW i \in Held
      PROVE  LET c == MemoryCandle(Floored(memory[i].time), part(Floored(memory[i].time)))
             IN  c = MemoryCandle(c.open, part(c.open)) /\ IsCandle(c)
  <2> DEFINE open == Floored(memory[i].time)
             c == MemoryCandle(open, part(open))
  <2>1. open \in Nat /\ Floored(open) = open
    BY <1>3, FlooredOfNat, FlooredProperties
  <2>2. c.open = open /\ c.rows = {memory[j] : j \in part(open)}
    BY DEF MemoryCandle
  <2>3. c.status \in Statuses
    <3>1. RollupStatus(c.rows, 0) \in Statuses
      BY DEF RollupStatus, Statuses
    <3>2. c.status = "incomplete" \/ c.status = RollupStatus(c.rows, 0)
      BY DEF MemoryCandle
    <3> QED BY <3>1, <3>2 DEF Statuses
  <2>4. c.rows \subseteq Rows
    BY <1>3, <2>2
  <2> HIDE DEF open, c
  <2>5. IsCandle(c)
    BY <2>1, <2>2, <2>3, <2>4 DEF IsCandle
  <2> QED BY <2>2, <2>5 DEF open, c
<1> HIDE DEF part, candles
<1>6. IsChart(candles)
  <2>1. IsFiniteSet(candles)
    <3> DEFINE made(i) == MemoryCandle(Floored(memory[i].time), part(Floored(memory[i].time)))
    <3>1. candles = {made(i) : i \in Held}
      BY <1>4
    <3> HIDE DEF made
    <3>2. [i \in Held |-> made(i)] \in Surjection(Held, candles)
      BY <3>1 DEF Surjection
    <3> QED BY <1>2, <3>2, FS_Surjection
  <2>2. \A c \in candles : c = MemoryCandle(c.open, part(c.open)) /\ IsCandle(c)
    BY <1>4, <1>5
  <2> QED BY <2>1, <2>2 DEF IsChart
<1>7. IsChart(kept) /\ Cardinality(kept) <= limit
  <2>1. /\ IsChart(kept) /\ Cardinality(candles) \in Nat
        /\ Cardinality(kept) = IF limit <= Cardinality(candles) THEN limit
                               ELSE Cardinality(candles)
    BY <1>6, NewestCandles
  <2> QED BY <2>1
<1>8. stored \subseteq Nat
  BY StoredTimesType
<1>9. IsPage(MemoryPage)
  <2>1. MemoryPage.source \in Sources \cup {"none", "raw_trades", "memory"}
    BY <1>1
  <2> HIDE DEF kept, stored
  <2> QED BY <1>1, <1>7, <1>8, <2>1, ChartIsPage
<1>10. IsRight(MemoryPage)
  BY <1>1 DEF IsRight, SkipsNothing, SaysMore, IsWhole, Sources
<1> QED BY <1>9, <1>10
-----------------------------------------------------------------------------
(* The invariant *)

\* The pages are right when they are made and what they say is not looked up
\* again, so that the tables may change after that.
HistoryInv ==
    /\ TablesInv
    /\ timeframe \in Timeframes /\ limit \in Limits
    /\ phase \in {"idle", "database", "raw", "respond"}
    /\ request \in [now : Nat, from : Nat, to : Nat]
    /\ Floored(request.from) = request.from
    /\ IsPage(page) /\ IsPage(response) /\ delivered \subseteq Nat
    /\ IsRight(page) /\ IsRight(response)

\* A row of a second that is closed.
LEMMA LiveRowType ==
    ASSUME NEW time \in Nat, NEW status \in Statuses, NEW traded \in BOOLEAN
    PROVE  /\ LiveRow(time, status, traded) \in Rows
           /\ LiveRow(time, status, traded).time = time /\ LiveRow(time, status, traded).span = 1
           /\ LiveRow(time, status, traded).source = "timescaledb"
BY DEF LiveRow, Rows, Sources

\* The deque keeps rows, and no more than its limit.
LEMMA AppliedType ==
    ASSUME memory \in Seq(Rows), Len(memory) <= CandleLimit, NEW row \in Rows
    PROVE  Applied(row) \in Seq(Rows) /\ Len(Applied(row)) <= CandleLimit
<1> DEFINE n == Len(memory)
           values == IF n > 0 /\ memory[n].time = row.time THEN [memory EXCEPT ![n] = row]
                     ELSE Append(memory, row)
<1>1. n \in Nat /\ CandleLimit \in Nat \ {0}
  BY LenProperties, HistoryAssumption
<1>2. n > 0 => [memory EXCEPT ![n] = row] \in Seq(Rows) /\ Len([memory EXCEPT ![n] = row]) = n
  <2> SUFFICES ASSUME n > 0
               PROVE  [memory EXCEPT ![n] = row] \in Seq(Rows) /\ Len([memory EXCEPT ![n] = row]) = n
    OBVIOUS
  <2>1. n \in 1 .. Len(memory)
    BY <1>1
  <2> QED BY <2>1, ExceptSeq
<1>3. Append(memory, row) \in Seq(Rows) /\ Len(Append(memory, row)) = n + 1
  BY AppendProperties
<1>4. values \in Seq(Rows) /\ Len(values) \in Nat /\ Len(values) <= CandleLimit + 1
  BY <1>1, <1>2, <1>3
<1>5. Applied(row) = IF Len(values) > CandleLimit THEN Tail(values) ELSE values
  BY DEF Applied
<1> HIDE DEF values
<1>6. CASE Len(values) > CandleLimit
  <2>1. values # << >>
    BY <1>1, <1>6
  <2>2. Tail(values) \in Seq(Rows) /\ Len(Tail(values)) = Len(values) - 1
    BY <1>4, <2>1, HeadTailProperties
  <2> QED BY <1>1, <1>4, <1>5, <1>6, <2>2
<1>7. CASE ~ (Len(values) > CandleLimit)
  BY <1>1, <1>4, <1>5, <1>7
<1> QED BY <1>6, <1>7

\* A second that is closed is newer than the rows there are.
LEMMA TickTables == ASSUME TablesInv, Tick PROVE TablesInv'
<1> DEFINE time == now - Lateness
<1>1. /\ now \in Int /\ Lateness \in Nat /\ Lateness <= now /\ now <= MaxTime
      /\ MaxTime \in Nat /\ time \in Nat
  BY HistoryAssumption DEF TablesInv
<1>2. PICK status \in Statuses, traded \in BOOLEAN :
          /\ live' = live \cup {LiveRow(time, status, traded)}
          /\ memory' = Applied(LiveRow(time, status, traded))
  <2>1. \E status \in {IF time \in trades' THEN "complete" ELSE "complete_empty", "incomplete"} :
            /\ live' = live \cup {LiveRow(time, status, time \in trades')}
            /\ memory' = Applied(LiveRow(time, status, time \in trades'))
    BY DEF Tick
  <2>2. {IF time \in trades' THEN "complete" ELSE "complete_empty", "incomplete"} \subseteq Statuses
    BY DEF Statuses
  <2>3. (time \in trades') \in BOOLEAN
    OBVIOUS
  <2> QED BY <2>1, <2>2, <2>3
<1> DEFINE row == LiveRow(time, status, traded)
<1>3. row \in Rows /\ row.time = time /\ row.span = 1 /\ row.source = "timescaledb"
  BY <1>1, LiveRowType
<1>4. now' = now + 1 /\ now < MaxTime /\ imported' = imported /\ importable' = importable
      /\ trades' \subseteq trades \cup {now}
  BY DEF Tick
<1>5. live' = live \cup {row} /\ memory' = Applied(row)
  BY <1>2
<1> HIDE DEF row
<1>6. memory' \in Seq(Rows) /\ Len(memory') <= CandleLimit
  BY <1>3, <1>5, AppliedType DEF TablesInv
<1>7. IsLive(live', now')
  <2>1. /\ live \subseteq Rows /\ IsFiniteSet(live) /\ KeyIsUnique(live)
        /\ \A r \in live : r.span = 1 /\ r.source = "timescaledb" /\ r.time < time
    BY DEF TablesInv, IsLive
  <2>2. live' \subseteq Rows /\ IsFiniteSet(live')
    BY <1>3, <1>5, <2>1, FS_AddElement
  <2>3. \A r \in live' : r.span = 1 /\ r.source = "timescaledb" /\ r.time < now' - Lateness
    <3>1. \A r \in live : r.time \in Int
      BY <2>1, RowTypes
    <3> QED BY <1>1, <1>3, <1>4, <1>5, <2>1, <3>1
  <2>4. KeyIsUnique(live')
    <3>1. \A r \in live : r.time # row.time
      BY <1>1, <1>3, <2>1, RowTypes
    <3> QED BY <1>5, <2>1, <3>1 DEF KeyIsUnique
  <2> QED BY <2>2, <2>3, <2>4 DEF IsLive
<1>8. IsHistorical(imported' \cup importable')
  BY <1>4 DEF TablesInv
<1>9. trades' \subseteq Nat /\ now' \in Lateness .. MaxTime
  BY <1>1, <1>4 DEF TablesInv
<1> QED BY <1>6, <1>7, <1>8, <1>9 DEF TablesInv

\* A revised row takes the place of the row of its second.
LEMMA RecoverTables == ASSUME TablesInv, Recover PROVE TablesInv'
<1>1. PICK old \in live :
          /\ live' = (live \ {old}) \cup {LiveRow(old.time, "recovered", TRUE)}
          /\ memory' = Applied(LiveRow(old.time, "recovered", TRUE))
          /\ trades' = trades \cup {old.time}
  BY DEF Recover
<1> DEFINE row == LiveRow(old.time, "recovered", TRUE)
<1>2. /\ live \subseteq Rows /\ IsFiniteSet(live) /\ KeyIsUnique(live)
      /\ \A r \in live : r.span = 1 /\ r.source = "timescaledb" /\ r.time < now - Lateness
  BY DEF TablesInv, IsLive
<1>3. old.time \in Nat
  BY <1>2, RowTypes
<1>4. row \in Rows /\ row.time = old.time /\ row.span = 1 /\ row.source = "timescaledb"
  BY <1>3, LiveRowType DEF Statuses
<1>5. /\ live' = (live \ {old}) \cup {row} /\ memory' = Applied(row) /\ trades' \subseteq Nat
      /\ now' = now /\ imported' = imported /\ importable' = importable
  BY <1>1, <1>3 DEF Recover, TablesInv
<1> HIDE DEF row
<1>6. memory' \in Seq(Rows) /\ Len(memory') <= CandleLimit
  BY <1>4, <1>5, AppliedType DEF TablesInv
<1>7. IsLive(live', now')
  <2>1. IsFiniteSet(live')
    BY <1>2, <1>5, FS_RemoveElement, FS_AddElement
  <2>2. /\ live' \subseteq Rows
        /\ \A r \in live' : r.span = 1 /\ r.source = "timescaledb" /\ r.time < now' - Lateness
    BY <1>2, <1>4, <1>5
  <2>3. KeyIsUnique(live')
    <3>1. \A r \in live \ {old} : r.time # row.time
      BY <1>2, <1>4 DEF KeyIsUnique
    <3> QED BY <1>2, <1>5, <3>1 DEF KeyIsUnique
  <2> QED BY <2>1, <2>2, <2>3 DEF IsLive
<1> QED BY <1>5, <1>6, <1>7 DEF TablesInv

\* No step leaves the tables with two rows of a second.
LEMMA NextTables == ASSUME TablesInv, [Next]_vars PROVE TablesInv'
<1>1. CASE Import
  <2>1. /\ imported' \cup importable' = imported \cup importable
        /\ UNCHANGED <<now, live, trades, memory>>
    BY <1>1 DEF Import
  <2> QED BY <2>1 DEF TablesInv
<1>2. CASE DropTrades
  <2>1. /\ trades' \subseteq trades
        /\ UNCHANGED <<now, live, imported, importable, memory>>
    BY <1>2 DEF DropTrades
  <2> QED BY <2>1 DEF TablesInv
<1>3. CASE UNCHANGED tables
  BY <1>3 DEF tables, TablesInv
<1>4. CASE Tick \/ Recover
  BY <1>4, TickTables, RecoverTables
<1>5. (AskNewest \/ AskOlder \/ ReadDatabase \/ ReadRaw \/ SkipRaw \/ Respond \/ UNCHANGED vars)
      => UNCHANGED tables
  BY DEF AskNewest, AskOlder, Ask, ReadDatabase, ReadRaw, SkipRaw, Respond, vars, tables
<1> QED BY <1>1, <1>2, <1>3, <1>4, <1>5 DEF Next

\* A source that does not answer says nothing.
LEMMA NoPageIsRight == ASSUME limit \in Nat PROVE IsPage(NoPage) /\ IsRight(NoPage)
<1>1. /\ NoPage.source = "none" /\ NoPage.candles = {} /\ NoPage.stored = {} /\ NoPage.from = 0
      /\ NoPage.to = 0 /\ Opens(NoPage) = {}
  BY DEF NoPage, Opens
<1>2. Cardinality({}) = 0
  BY FS_EmptySet
<1>3. IsPage(NoPage)
  <2>1. IsChart(NoPage.candles) /\ Cardinality(NoPage.candles) <= limit
    BY <1>1, <1>2, FS_EmptySet DEF IsChart
  <2>2. /\ NoPage.source \in Sources \cup {"none", "raw_trades", "memory"}
        /\ NoPage.from \in Nat /\ NoPage.to \in Nat /\ NoPage.stored \subseteq Nat
    BY <1>1
  <2>3. NoPage.has_more \in BOOLEAN
    BY DEF NoPage
  <2> QED BY <2>1, <2>2, <2>3, ChartIsPage
<1>4. NoPage.source \notin Sources
  BY <1>1 DEF Sources
<1>5. SkipsNothing(NoPage)
  BY <1>1 DEF SkipsNothing
<1>6. SaysMore(NoPage) /\ IsWhole(NoPage)
  BY <1>4 DEF SaysMore, IsWhole
<1> QED BY <1>3, <1>5, <1>6 DEF IsRight

\* The client opens without a page.
LEMMA InitHistory == Init => HistoryInv
<1> SUFFICES ASSUME Init PROVE HistoryInv
  OBVIOUS
<1>1. /\ timeframe \in Timeframes /\ limit \in Limits /\ limit \in Nat
      /\ phase = "idle" /\ request = NoRequest /\ page = NoPage /\ response = NoPage
      /\ delivered = {}
  BY HistoryAssumption DEF Init
<1>2. TablesInv
  BY ArchivesAssumption DEF Init, TablesInv
<1>3. request \in [now : Nat, from : Nat, to : Nat] /\ request.from = 0
  BY <1>1 DEF NoRequest
<1>4. Floored(request.from) = request.from
  BY <1>1, <1>3, FlooredOfNat
<1>5. IsPage(page) /\ IsPage(response) /\ IsRight(page) /\ IsRight(response)
  BY <1>1, NoPageIsRight
<1> QED BY <1>1, <1>2, <1>3, <1>4, <1>5 DEF HistoryInv

\* A request of the client leaves its last response as it is.
LEMMA AskHistory ==
    ASSUME HistoryInv, NEW to \in Nat, Ask(to)
    PROVE  HistoryInv'
<1>1. /\ timeframe' = timeframe /\ limit' = limit /\ page' = page /\ response' = response
      /\ delivered' = delivered /\ phase' = "database"
      /\ request' = [now |-> now, from |-> resolved_from(to), to |-> to]
  BY DEF Ask
<1>2. /\ now \in Nat /\ timeframe \in Timeframes
      /\ resolved_from(to) \in Nat /\ Floored(resolved_from(to)) = resolved_from(to)
  <2>1. now \in Nat /\ timeframe \in Timeframes /\ Retention \in Nat
    BY HistoryAssumption DEF HistoryInv, TablesInv
  <2>2. Latest(0, to - Retention) \in Nat
    BY <2>1 DEF Latest
  <2> QED BY <2>1, <2>2, FlooredOfNat, FlooredProperties DEF resolved_from
<1>3. /\ request' \in [now : Nat, from : Nat, to : Nat]
      /\ Floored(request.from)' = request'.from
  BY <1>1, <1>2 DEF Floored, Seconds
<1>4. TablesInv'
  BY NextTables DEF HistoryInv, Ask, tables, TablesInv
<1> QED BY <1>1, <1>3, <1>4
  DEF HistoryInv, IsPage, IsRight, SkipsNothing, SaysMore, IsWhole, IsWholeCandle, Opens, Floored,
      Seconds

\* Each answer is right, and nothing else touches the pages.
LEMMA NextHistory == ASSUME HistoryInv, [Next]_vars PROVE HistoryInv'
<1>1. /\ TablesInv /\ timeframe \in Timeframes /\ limit \in Nat \ {0} /\ limit \in Nat
      /\ request.now \in Nat /\ request.from \in Nat /\ request.to \in Nat
      /\ Floored(request.from) = request.from
      /\ IsPage(page) /\ IsPage(response) /\ IsRight(page) /\ IsRight(response)
      /\ delivered \subseteq Nat
  BY HistoryAssumption DEF HistoryInv
<1>2. TablesInv'
  BY <1>1, NextTables
\* The client looks at one timeframe and one page size.
<1>3. timeframe' = timeframe /\ limit' = limit
  BY DEF Next, AskNewest, AskOlder, Ask, ReadDatabase, ReadRaw, SkipRaw, Respond, Tick, Recover,
         Import, DropTrades, vars, tables, client
<1>4. ASSUME phase' \in {"idle", "database", "raw", "respond"},
             request' \in [now : Nat, from : Nat, to : Nat], Floored(request'.from) = request'.from,
             IsPage(page'), IsRight(page'), IsPage(response'), IsRight(response'),
             delivered' \subseteq Nat
      PROVE  HistoryInv'
  BY <1>2, <1>3, <1>4
  DEF HistoryInv, IsPage, IsRight, SkipsNothing, SaysMore, IsWhole, IsWholeCandle, Opens, Floored,
      Seconds
<1>5. CASE AskNewest
  <2>1. now + Seconds(timeframe) \in Nat
    BY <1>1, SecondsType, HistoryAssumption DEF TablesInv
  <2> QED BY <1>5, <2>1, AskHistory DEF AskNewest
<1>6. CASE AskOlder
  <2>1. PICK first \in response.candles : Ask(first.open)
    BY <1>6 DEF AskOlder
  <2>2. first.open \in Nat
    BY <1>1 DEF IsPage
  <2> QED BY <2>1, <2>2, AskHistory
<1>7. CASE ReadDatabase
  <2>1. /\ page' \in {DatabasePage, NoPage} /\ phase' = "raw"
        /\ UNCHANGED <<request, response, delivered>>
    BY <1>7 DEF ReadDatabase
  <2>2. IsPage(page') /\ IsRight(page')
    BY <1>1, <2>1, DatabasePageIsRight, NoPageIsRight
  <2> QED BY <1>1, <1>4, <2>1, <2>2 DEF HistoryInv
<1>8. CASE ReadRaw
  <2>1. /\ page' \in {page, RawPage} /\ phase' = "respond"
        /\ UNCHANGED <<request, response, delivered>>
    BY <1>8 DEF ReadRaw
  <2>2. IsPage(page') /\ IsRight(page')
    BY <1>1, <2>1, RawPageIsRight
  <2> QED BY <1>1, <1>4, <2>1, <2>2 DEF HistoryInv
<1>9. CASE SkipRaw
  <2>1. phase' = "respond" /\ UNCHANGED <<request, page, response, delivered>>
    BY <1>9 DEF SkipRaw
  <2> QED BY <1>1, <1>4, <2>1 DEF HistoryInv
<1>10. CASE Respond
  <2>1. /\ response' \in {MemoryPage, page} /\ delivered' = delivered \cup Opens(response)
        /\ phase' = "idle" /\ page' = NoPage /\ request' = NoRequest
    BY <1>10 DEF Respond
  <2>2. IsPage(response') /\ IsRight(response') /\ IsPage(page') /\ IsRight(page')
    BY <1>1, <2>1, MemoryPageIsRight, NoPageIsRight
  <2>3. delivered' \subseteq Nat
    BY <1>1, <2>1 DEF IsPage, Opens
  <2>4. request' \in [now : Nat, from : Nat, to : Nat] /\ Floored(request'.from) = request'.from
    BY <1>1, <2>1, FlooredOfNat DEF NoRequest
  <2> QED BY <1>4, <2>1, <2>2, <2>3, <2>4
<1>11. CASE Tick \/ Recover \/ Import \/ DropTrades \/ UNCHANGED vars
  <2>1. UNCHANGED <<phase, request, page, response, delivered>>
    BY <1>11 DEF Tick, Recover, Import, DropTrades, vars, client
  <2> QED BY <1>1, <1>4, <2>1 DEF HistoryInv
<1> QED BY <1>5, <1>6, <1>7, <1>8, <1>9, <1>10, <1>11 DEF Next

\* The inductive invariant of the history: the pages on the way and the last
\* response are right about the tables that they were read from.
THEOREM HistoryInvariant == Spec => []HistoryInv
<1> QED BY InitHistory, NextHistory, PTL DEF Spec

\* Every page has each bucket once and at most the candles asked for, whichever
\* source it is from.
THEOREM TypesAreRight == Spec => []TypeOK
<1>1. HistoryInv => TypeOK
  <2>1. HistoryInv => now \in 0 .. MaxTime
    BY HistoryAssumption DEF HistoryInv, TablesInv
  <2>2. HistoryInv => live \subseteq Rows /\ imported \subseteq Rows /\ importable \subseteq Rows
    BY DEF HistoryInv, TablesInv, IsLive, IsHistorical
  <2> QED BY <2>1, <2>2 DEF HistoryInv, TablesInv, TypeOK
<1> QED BY <1>1, HistoryInvariant, PTL

\* No page leaves out a stored candle between its first one and its end, for any
\* tables, timeframe and limit, and however the page was cut off.
THEOREM NothingIsEverSkipped == Spec => []NothingIsSkipped
<1>1. HistoryInv => NothingIsSkipped
  BY DEF HistoryInv, IsRight, SkipsNothing, NothingIsSkipped
<1> QED BY <1>1, HistoryInvariant, PTL

\* hasMore is right for any tables: the limits on rows and candles never hide
\* that there is an older one, and never promise one that is not there.
THEOREM HasMoreIsAlwaysRight == Spec => []HasMoreIsRight
<1>1. HistoryInv => HasMoreIsRight
  BY DEF HistoryInv, IsRight, SaysMore, HasMoreIsRight
<1> QED BY <1>1, HistoryInvariant, PTL

\* The limit on the rows never cuts a served candle in two, and one that is not
\* called incomplete has all of its seconds.
THEOREM CandlesAreAlwaysWhole == Spec => []CandlesAreWhole
<1>1. HistoryInv => CandlesAreWhole
  BY DEF HistoryInv, IsRight, IsWhole, IsWholeCandle, CandlesAreWhole
<1> QED BY <1>1, HistoryInvariant, PTL
-----------------------------------------------------------------------------
(* Paging *)

\* A request ends where the responses before it begin, and its page before that.
RequestsGoBackwards ==
    /\ response = NoPage => delivered = {}
    /\ phase # "idle" => \A time \in Opens(response) \cup delivered : request.to <= time
    /\ phase \in {"raw", "respond"} => \A open \in Opens(page) : open < request.to

PagingInv == RequestsGoBackwards /\ PagesGoBackwards

\* The candles of a page open before the end of the request.
IsBefore(candles, to) == \A c \in candles : c.open < to

\* Rows before `to` make candles before `to`.
LEMMA RollupIsBefore ==
    ASSUME timeframe \in Timeframes, NEW to \in Int, NEW rows \in SUBSET Rows,
           \A row \in rows : row.time < to
    PROVE  IsBefore(Rollup(rows), to)
<1> SUFFICES ASSUME NEW c \in Rollup(rows) PROVE c.open < to
  BY DEF IsBefore
<1>1. c.rows = {row \in rows : Floored(row.time) = c.open} /\ c.rows # {}
  BY RollupCandles
<1>2. PICK row \in rows : Floored(row.time) = c.open
  BY <1>1
<1>3. row.time \in Int /\ row.time < to
  BY RowTypes
<1>4. c.open \in Int /\ c.open <= row.time
  BY <1>2, <1>3, FlooredProperties
<1> QED BY <1>3, <1>4

\* What the tables answer opens before the end of the request.
LEMMA DatabasePageIsBefore ==
    ASSUME HistoryInv
    PROVE  IsBefore(DatabasePage.candles, request.to)
<1> DEFINE from == request.from
           to == request.to
           ranged == {row \in StoredSeconds : from <= row.time /\ row.time < to}
           rows == NewestRows(Ranked(ranged), source_fetch_limit)
           minutes == {row \in StoredMinutes : from <= row.time /\ row.time < to}
<1>1. timeframe \in Timeframes /\ to \in Int
  BY DEF HistoryInv
<1>2. StoredSeconds \subseteq Rows /\ StoredMinutes \subseteq Rows
  BY DEF HistoryInv, TablesInv, IsLive, IsHistorical, StoredSeconds, StoredMinutes
<1>3. rows \in SUBSET Rows /\ \A row \in rows : row.time < to
  BY <1>2 DEF NewestRows, Ranked
<1>4. minutes \in SUBSET Rows /\ \A row \in minutes : row.time < to
  BY <1>2
<1>5. IsBefore(Rollup(rows), to)
  <2> HIDE DEF rows, to
  <2> QED BY <1>1, <1>3, RollupIsBefore
<1>6. IsBefore(Rollup(minutes), to)
  <2> HIDE DEF minutes, to
  <2> QED BY <1>1, <1>4, RollupIsBefore
<1>7. RuntimeCandles(from, to) = Rollup(rows)
  BY DEF RuntimeCandles
<1>8. \A c \in PersistedCandles(from, to) : c \in Rollup(minutes) \/ c.open < to
  BY DEF PersistedCandles
<1>9. IsBefore(StoredCandles(from, to), to)
  <2> HIDE DEF rows, minutes, from, to
  <2> QED BY <1>5, <1>6, <1>7, <1>8 DEF StoredCandles, IsBefore
<1>10. DatabasePage.candles \subseteq StoredCandles(from, to)
  BY DEF DatabasePage, Newest
<1> QED BY <1>9, <1>10 DEF IsBefore

\* So does what the memory answers.
LEMMA MemoryPageIsBefore ==
    ASSUME HistoryInv
    PROVE  IsBefore(MemoryPage.candles, request.to)
<1> SUFFICES ASSUME NEW c \in MemoryCandles PROVE c.open < request.to
  BY DEF MemoryPage, Newest, IsBefore
<1>1. request.to \in Int /\ timeframe \in Timeframes /\ memory \in Seq(Rows)
  BY DEF HistoryInv, TablesInv
<1>2. PICK open \in {Floored(memory[i].time) : i \in Held} :
          c = MemoryCandle(open, {i \in Held : Floored(memory[i].time) = open})
  BY DEF MemoryCandles
<1>3. c.open = open
  BY <1>2 DEF MemoryCandle
<1>4. PICK i \in Held : open = Floored(memory[i].time)
  OBVIOUS
<1>5. i \in DOMAIN memory /\ memory[i].time < request.to
  BY DEF Held
<1>6. memory[i].time \in Int
  <2>1. memory[i] \in Rows
    BY <1>1, <1>5
  <2> QED BY <2>1, RowTypes
<1>7. Floored(memory[i].time) \in Int /\ Floored(memory[i].time) <= memory[i].time
  BY <1>1, <1>6, FlooredProperties
<1> QED BY <1>1, <1>3, <1>4, <1>5, <1>6, <1>7

\* Nothing is delivered at first.
LEMMA InitPaging == Init => PagingInv
BY DEF Init, PagingInv, RequestsGoBackwards, PagesGoBackwards, NoPage, Opens

\* Asking for what is older than everything there is keeps the invariant.
LEMMA AskPaging ==
    ASSUME PagingInv, NEW to, Ask(to), \A time \in Opens(response) \cup delivered : to <= time
    PROVE  PagingInv'
BY DEF Ask, PagingInv, RequestsGoBackwards, PagesGoBackwards, Opens, tables

\* No step brings a page that is not older than those before it.
LEMMA NextPaging == ASSUME HistoryInv, PagingInv, [Next]_vars PROVE PagingInv'
<1>1. /\ request.to \in Int /\ delivered \subseteq Nat
      /\ Opens(page) \subseteq Nat /\ Opens(response) \subseteq Nat
  BY DEF HistoryInv, IsPage, Opens
<1>2. CASE AskNewest
  <2>1. Opens(response) \cup delivered = {}
    BY <1>2 DEF AskNewest, PagingInv, RequestsGoBackwards, NoPage, Opens
  <2> QED BY <1>2, <2>1, AskPaging DEF AskNewest
<1>3. CASE AskOlder
  <2>1. PICK first \in response.candles :
            (\A c \in response.candles : first.open <= c.open) /\ Ask(first.open)
    BY <1>3 DEF AskOlder
  <2>2. first.open \in Opens(response) /\ first.open \in Int
    BY <1>1, <2>1 DEF Opens
  <2>3. \A time \in Opens(response) : first.open <= time
    BY <2>1 DEF Opens
  <2>4. \A time \in delivered : time \in Int /\ first.open < time
    BY <1>1, <2>2 DEF PagingInv, PagesGoBackwards
  <2>5. \A time \in Opens(response) \cup delivered : first.open <= time
    BY <2>2, <2>3, <2>4
  <2> QED BY <2>1, <2>5, AskPaging
<1>4. CASE ReadDatabase
  <2>1. page' = DatabasePage \/ page' = NoPage
    BY <1>4 DEF ReadDatabase
  <2>2. IsBefore(page'.candles, request.to)
    BY <2>1, DatabasePageIsBefore DEF NoPage, IsBefore
  <2> QED BY <1>4, <2>2
    DEF ReadDatabase, PagingInv, RequestsGoBackwards, PagesGoBackwards, Opens, IsBefore
<1>5. CASE ReadRaw
  <2>1. page' = page \/ page' = RawPage
    BY <1>5 DEF ReadRaw
  <2>2. \A open \in Opens(page') : open < request.to
    <3>1. CASE page' = page
      BY <1>5, <3>1 DEF ReadRaw, PagingInv, RequestsGoBackwards
    <3>2. CASE page' = RawPage
      BY <3>2, RawPageIsRight, HistoryAssumption DEF HistoryInv
    <3> QED BY <2>1, <3>1, <3>2
  <2> QED BY <1>5, <2>2
    DEF ReadRaw, PagingInv, RequestsGoBackwards, PagesGoBackwards, Opens
<1>6. CASE SkipRaw
  BY <1>6 DEF SkipRaw, PagingInv, RequestsGoBackwards, PagesGoBackwards, Opens
<1>7. CASE Respond
  <2>1. response' = MemoryPage \/ (response' = page /\ page # NoPage)
    BY <1>7 DEF Respond
  <2>2. response' # NoPage
    BY <2>1 DEF MemoryPage, NoPage
  <2>3. \A open \in Opens(response') : open \in Int /\ open < request.to
    <3>1. CASE response' = MemoryPage
      <4>1. IsBefore(MemoryPage.candles, request.to)
        BY MemoryPageIsBefore
      <4>2. Opens(response)' \subseteq Nat
        BY NextHistory DEF HistoryInv, IsPage, Opens
      <4> QED BY <3>1, <4>1, <4>2 DEF IsBefore, Opens
    <3>2. CASE response' = page
      BY <1>1, <1>7, <3>2 DEF Respond, PagingInv, RequestsGoBackwards
    <3> QED BY <2>1, <3>1, <3>2
  <2>4. \A time \in delivered' : time \in Int /\ request.to <= time
    BY <1>1, <1>7 DEF Respond, PagingInv, RequestsGoBackwards
  <2>5. PagesGoBackwards'
    <3>1. \A open \in Opens(response'), newer \in delivered' : open < newer
      BY <1>1, <2>3, <2>4
    <3> QED BY <3>1 DEF PagesGoBackwards, Opens
  <2>6. RequestsGoBackwards'
    BY <1>7, <2>2 DEF Respond, RequestsGoBackwards
  <2> QED BY <2>5, <2>6 DEF PagingInv
<1>8. CASE Tick \/ Recover \/ Import \/ DropTrades \/ UNCHANGED vars
  <2>1. UNCHANGED client
    BY <1>8 DEF Tick, Recover, Import, DropTrades, client, vars
  <2> QED BY <2>1 DEF client, PagingInv, RequestsGoBackwards, PagesGoBackwards, Opens
<1> QED BY <1>2, <1>3, <1>4, <1>5, <1>6, <1>7, <1>8 DEF Next

\* However a market's pages are mixed from tables, raw trades and memory, and
\* whatever changes between the requests, each is older than those before it.
THEOREM PagesAlwaysGoBackwards == Spec => []PagesGoBackwards
<1>1. PagingInv => PagesGoBackwards
  BY DEF PagingInv
<1>2. HistoryInv /\ PagingInv /\ [Next]_vars => PagingInv'
  BY NextPaging
<1> QED BY <1>1, <1>2, InitPaging, HistoryInvariant, PTL DEF Spec
=============================================================================
