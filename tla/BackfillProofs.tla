--------------------------- MODULE BackfillProofs ---------------------------
(***************************************************************************)
(* Proofs about BackfillPrograms: its type invariant, that the table holds *)
(* a candle the exchange still changes only where a load was sent for it   *)
(* before it was over, and that what a run reports as imported is in the   *)
(* table, for any exchanges, listings, limits and numbers of runs.         *)
(*                                                                         *)
(* The argument is in two parts.  MarketInv is about the loop of one       *)
(* market: the candles of the window that were over when the run began and *)
(* that open before the cursor are stored or pending, and what is stored   *)
(* is never replaced by an older state of it.  ProgramInv is about the     *)
(* caller: a step it has gone past is done or recorded as failed.          *)
(***************************************************************************)
EXTENDS BackfillPrograms, TLAPS

\* The market part of TypeOK, with what it needs to know of the run.
MarketTypeOK ==
    /\ now \in Nat
    /\ started \in Nat /\ started <= now
    /\ ahead \subseteq [timeframe : Timeframes, started : Nat, to : Int]
    /\ listed \in Listings
    /\ rows \subseteq Candles
    /\ window \in [Timeframes -> [from : Int, to : Int]]
    /\ phase \in [Jobs -> Phases]
    /\ cursor \in [Jobs -> Int]
    /\ pending \in [Jobs -> SUBSET Candles]
    /\ tries \in [Jobs -> [url : Nat, attempt : 0 .. MaxRetries]]

\* A window ends at an interval that was over when the run began, or the load is
\* one of those recorded as ahead of the clock.
WindowIsKnown(timeframe) ==
    \/ /\ align_closed_end_ms(window[timeframe].to, timeframe) = window[timeframe].to
       /\ window[timeframe].to <= started
    \/ [timeframe |-> timeframe, started |-> started, to |-> window[timeframe].to] \in ahead
WindowsAreKnown == \A timeframe \in Timeframes : WindowIsKnown(timeframe)

AskedFor(job, open) ==
    \E load \in ahead : /\ load.timeframe = job.timeframe
                        /\ load.started < open + interval(job)
                        /\ open < load.to

\* A final candle is over; one that is not was asked for.
IsSound(candle) ==
    IF candle.final THEN candle.open + interval(candle.job) <= now
    ELSE AskedFor(candle.job, candle.open)

RowsAreSound ==
    /\ \A row \in rows : IsSound(row)
    /\ \A a, b \in rows : a.job = b.job /\ a.open = b.open => a = b

\* The candles a market is about to write: its own, from before its cursor, each
\* once, and none that would undo a final row.
PendingIsSound(j) ==
    /\ phase[j] = "idle" => pending[j] = {}
    /\ \A candle \in pending[j] :
          /\ candle.job = j /\ candle.open < cursor[j] /\ IsSound(candle)
          /\ candle.final \/ FinalCandle(j, candle.open) \notin rows
    /\ \A a, b \in pending[j] : a.open = b.open => a = b

CandlesAreSound == RowsAreSound /\ \A j \in Jobs : PendingIsSound(j)

\* What opens before the cursor, and was over when the run began, is stored or
\* pending.
IsKept(j, open, table) == open + interval(j) <= started => FinalCandle(j, open) \in table
CoveredOf(j) ==
    /\ phase[j] \in Active =>
          \A open \in listed[j] :
              start_ms(j) <= open /\ open < cursor[j] /\ open < end_ms(j)
                  => IsKept(j, open, rows \cup pending[j])
    /\ phase[j] = "closing" => end_ms(j) <= cursor[j]
    /\ phase[j] = "done" =>
          \A open \in Offered(j, start_ms(j), end_ms(j), started) : FinalCandle(j, open) \in rows
Covered == \A j \in Jobs : CoveredOf(j)

MarketInv == MarketTypeOK /\ WindowsAreKnown /\ CandlesAreSound /\ Covered

\* What the caller has gone past is done, failed and recorded, or empty.
ProgramInv ==
    /\ program = "none" => at = 1 /\ \A j \in Jobs : phase[j] = "idle"
    /\ program = "recovery" =>
          \A i \in 1 .. Len(plan) : i < at /\ plan[i].kind = "backfill" =>
              \/ phase[plan[i].job] = "done"
              \/ plan[i] \in failures
              \/ end_ms(plan[i].job) <= start_ms(plan[i].job)
    /\ program = "command" =>
          \A i \in 1 .. Len(plan) : i < at => phase[plan[i].job] = "done"
    /\ program = "loader" =>
          \A j \in selected : phase[j] = "failed" => failures # {}

\* The final candles behind the claims; that nothing else is stored for their
\* open times follows from RowsAreSound.
ClaimsAreKept ==
    \A c \in claimed : \A open \in Offered(c.job, c.from, c.to, c.started) :
        FinalCandle(c.job, open) \in rows

Inv == TypeOK /\ MarketInv /\ ProgramInv /\ ClaimsAreKept
-----------------------------------------------------------------------------
\* Two multiples of an interval are at least the interval apart.
LEMMA MultiplesApart ==
    ASSUME NEW I \in Nat \ {0}, NEW a \in Int, NEW b \in Int,
           (a \div I) * I = a, (b \div I) * I = b, a < b
    PROVE  a + I <= b
<1> DEFINE m == a \div I
           n == b \div I
<1>1. m \in Int /\ n \in Int /\ m * I = a /\ n * I = b
  OBVIOUS
<1> HIDE DEF m, n
<1>2. m < n
  <2>1. SUFFICES ASSUME n <= m PROVE FALSE
    BY <1>1
  <2>2. n * I <= m * I
    BY <1>1, <2>1
  <2> QED BY <1>1, <2>2
<1>3. (m + 1) * I <= n * I
  BY <1>1, <1>2
<1>4. (m + 1) * I = m * I + I
  BY <1>1
<1> QED BY <1>1, <1>3, <1>4

\* A floored time is a multiple, and not after the time.
LEMMA FlooredIsMultiple ==
    ASSUME NEW I \in Nat \ {0}, NEW t \in Int
    PROVE  /\ (t \div I) * I \in Int
           /\ (t \div I) * I <= t
           /\ (((t \div I) * I) \div I) * I = (t \div I) * I
<1> DEFINE q == t \div I
<1>1. q \in Int /\ q * I <= t
  OBVIOUS
<1> HIDE DEF q
<1>2. q * I \in Int
  BY <1>1
<1>3. (q * I) \div I = q
  BY <1>1, <1>2
<1> QED BY <1>1, <1>2, <1>3 DEF q

\* The interval of a job and its window have their types, and what an exchange
\* lists opens at multiples of the interval.
LEMMA JobFacts ==
    ASSUME MarketTypeOK, NEW j \in Jobs
    PROVE  /\ j.timeframe \in Timeframes
           /\ interval(j) \in Nat \ {0}
           /\ start_ms(j) \in Int /\ end_ms(j) \in Int
           /\ cursor[j] \in Int
           /\ Limit * interval(j) \in Nat
           /\ listed[j] \subseteq Nat
           /\ \A open \in listed[j] : (open \div interval(j)) * interval(j) = open
<1>1. j.timeframe \in Timeframes
  BY DEF Jobs
<1>2. interval(j) \in Nat \ {0}
  BY <1>1, BackfillAssumption DEF interval, Timeframes
<1>3. start_ms(j) \in Int /\ end_ms(j) \in Int /\ cursor[j] \in Int
  BY <1>1 DEF MarketTypeOK, start_ms, end_ms
<1>4. Limit * interval(j) \in Nat
  BY <1>2, BackfillAssumption
<1>5. /\ listed \in [Jobs -> SUBSET Nat]
      /\ \A open \in listed[j] : open \in OpenTimes(j.timeframe)
  BY ProgramsAssumption DEF MarketTypeOK
<1>6. \A open \in listed[j] : (open \div interval(j)) * interval(j) = open
  BY <1>5 DEF OpenTimes, align_closed_end_ms, interval
<1> QED BY <1>1, <1>2, <1>3, <1>4, <1>5, <1>6

\* What an exchange reports of a listed candle: its final form if it is over; if
\* it is not, the candle was asked for with an end ahead of the clock.
LEMMA LoadedFacts ==
    ASSUME MarketTypeOK, WindowsAreKnown, NEW j \in Jobs,
           NEW open \in listed[j], open < end_ms(j)
    PROVE  /\ HistoricalCandle(j, open) \in Candles
           /\ HistoricalCandle(j, open).job = j /\ HistoricalCandle(j, open).open = open
           /\ HistoricalCandle(j, open).final <=> open + interval(j) <= now
           /\ open + interval(j) <= now => HistoricalCandle(j, open) = FinalCandle(j, open)
           /\ IsSound(HistoricalCandle(j, open))
<1>1. /\ interval(j) \in Nat \ {0} /\ open \in Nat /\ end_ms(j) \in Int
      /\ (open \div interval(j)) * interval(j) = open
      /\ j.timeframe \in Timeframes
  BY JobFacts
<1>2. now \in Nat /\ started \in Nat /\ started <= now
  BY DEF MarketTypeOK
<1>3. /\ HistoricalCandle(j, open) \in Candles
      /\ HistoricalCandle(j, open).job = j /\ HistoricalCandle(j, open).open = open
      /\ HistoricalCandle(j, open).final <=> open + interval(j) <= now
  <2> DEFINE over == open + interval(j) <= now
  <2>1. over \in BOOLEAN
    BY <1>1, <1>2
  <2>2. HistoricalCandle(j, open) = [job |-> j, open |-> open, final |-> over]
    BY DEF HistoricalCandle
  <2> HIDE DEF over
  <2>3. [job |-> j, open |-> open, final |-> over] \in Candles
    BY <1>1, <2>1 DEF Candles
  <2>4. HistoricalCandle(j, open).final = over
    BY <2>2
  <2>5. HistoricalCandle(j, open) \in Candles
    BY <2>2, <2>3
  <2>6. HistoricalCandle(j, open).job = j /\ HistoricalCandle(j, open).open = open
    BY <2>2
  <2>7. HistoricalCandle(j, open).final <=> over
    BY <2>4, Zenon
  <2> QED BY <2>5, <2>6, <2>7 DEF over
<1>4. open + interval(j) <= now => HistoricalCandle(j, open) = FinalCandle(j, open)
  BY DEF HistoricalCandle, FinalCandle
<1>5. ASSUME ~(open + interval(j) <= now) PROVE AskedFor(j, open)
  <2> DEFINE tf == j.timeframe
             load == [timeframe |-> tf, started |-> started, to |-> window[tf].to]
  <2>1. WindowIsKnown(tf)
    BY <1>1 DEF WindowsAreKnown
  <2>2. CASE align_closed_end_ms(window[tf].to, tf) = window[tf].to /\ window[tf].to <= started
    <3>1. (end_ms(j) \div interval(j)) * interval(j) = end_ms(j) /\ end_ms(j) <= started
      BY <2>2 DEF align_closed_end_ms, end_ms, interval
    <3>2. open + interval(j) <= end_ms(j)
      BY <1>1, <3>1, MultiplesApart
    <3> QED BY <1>1, <1>2, <1>5, <3>1, <3>2
  <2>3. CASE load \in ahead
    <3>1. load.timeframe = j.timeframe /\ load.started < open + interval(j) /\ open < load.to
      BY <1>1, <1>2, <1>5 DEF end_ms
    <3> QED BY <2>3, <3>1 DEF AskedFor
  <2> QED BY <2>1, <2>2, <2>3 DEF WindowIsKnown
<1> QED BY <1>3, <1>4, <1>5 DEF IsSound
-----------------------------------------------------------------------------
\* A sound candle stays sound.
LEMMA SoundStays ==
    ASSUME MarketTypeOK, NEW candle \in Candles, IsSound(candle),
           now' \in Nat, now <= now', ahead \subseteq ahead'
    PROVE  IsSound(candle)'
<1>1. candle.job \in Jobs /\ candle.open \in Nat
  BY DEF Candles
<1>2. interval(candle.job) \in Nat
  BY <1>1, JobFacts
<1>3. CASE candle.final
  <2>1. candle.open + interval(candle.job) <= now /\ now \in Nat
    BY <1>3 DEF IsSound, MarketTypeOK
  <2>2. candle.open + interval(candle.job) <= now'
    BY <1>1, <1>2, <2>1
  <2> QED BY <1>3, <2>2 DEF IsSound, interval
<1>4. CASE ~candle.final
  BY <1>4 DEF IsSound, AskedFor, interval
<1> QED BY <1>3, <1>4

\* The table is as sound as it was if it is the same.
LEMMA RowsFrame ==
    ASSUME MarketInv, rows' = rows, now' \in Nat, now <= now', ahead \subseteq ahead'
    PROVE  RowsAreSound'
<1>1. MarketTypeOK /\ RowsAreSound /\ rows \subseteq Candles
  BY DEF MarketInv, CandlesAreSound, MarketTypeOK
<1>2. \A row \in rows : IsSound(row)'
  BY <1>1, SoundStays DEF RowsAreSound
<1> QED BY <1>1, <1>2 DEF RowsAreSound

\* So is what a market is about to write, while no row of it becomes final.
LEMMA PendingFrame ==
    ASSUME MarketInv, NEW j \in Jobs,
           phase'[j] = "idle" => phase[j] = "idle",
           cursor'[j] \in Int, cursor[j] <= cursor'[j] \/ phase[j] = "idle",
           pending'[j] = pending[j],
           \A open \in Nat : FinalCandle(j, open) \in rows' => FinalCandle(j, open) \in rows,
           now' \in Nat, now <= now', ahead \subseteq ahead'
    PROVE  PendingIsSound(j)'
<1>1. MarketTypeOK /\ PendingIsSound(j) /\ pending[j] \subseteq Candles /\ cursor[j] \in Int
  BY DEF MarketInv, CandlesAreSound, MarketTypeOK
<1>2. ASSUME NEW candle \in pending[j]
      PROVE  /\ candle.job = j /\ candle.open < cursor'[j] /\ IsSound(candle)'
             /\ candle.final \/ FinalCandle(j, candle.open) \notin rows'
  <2>1. candle \in Candles /\ candle.open \in Nat
    BY <1>1 DEF Candles
  <2>2. IsSound(candle)'
    BY <1>1, <2>1, SoundStays DEF PendingIsSound
  <2>3. phase[j] # "idle"
    BY <1>1 DEF PendingIsSound
  <2>4. candle.open < cursor'[j]
    BY <1>1, <2>1, <2>3 DEF PendingIsSound
  <2> QED BY <1>1, <2>1, <2>2, <2>4 DEF PendingIsSound
<1>3. phase'[j] = "idle" => pending'[j] = {}
  BY <1>1 DEF PendingIsSound
<1>4. \A a, b \in pending'[j] : a.open = b.open => a = b
  BY <1>1 DEF PendingIsSound
<1>5. \A candle \in pending'[j] : FinalCandle(j, candle.open)' = FinalCandle(j, candle.open)
  BY DEF FinalCandle
<1> QED BY <1>2, <1>3, <1>4, <1>5 DEF PendingIsSound

\* A step of one market that writes nothing keeps the candles sound, if those of
\* the market are.
LEMMA SoundElsewhere ==
    ASSUME MarketInv, NEW job \in Jobs, UNCHANGED <<now, rows, ahead>>,
           \A j \in Jobs \ {job} : /\ phase'[j] = phase[j] /\ cursor'[j] = cursor[j]
                                   /\ pending'[j] = pending[j],
           PendingIsSound(job)'
    PROVE  CandlesAreSound'
<1>1. MarketTypeOK
  BY DEF MarketInv
<1>2. now' \in Nat /\ now <= now'
  BY <1>1 DEF MarketTypeOK
<1>3. RowsAreSound'
  BY <1>2, RowsFrame
<1>4. ASSUME NEW j \in Jobs \ {job} PROVE PendingIsSound(j)'
  <2>1. cursor'[j] \in Int /\ cursor[j] <= cursor'[j]
    BY <1>1 DEF MarketTypeOK
  <2> QED BY <1>2, <2>1, PendingFrame
<1> QED BY <1>3, <1>4 DEF CandlesAreSound

\* What is stored stays stored for a market that makes no step.
LEMMA CoveredFrame ==
    ASSUME NEW j \in Jobs, CoveredOf(j), UNCHANGED <<listed, window, started>>,
           phase'[j] = phase[j], cursor'[j] = cursor[j], pending'[j] = pending[j],
           \A open \in listed[j] : FinalCandle(j, open) \in rows => FinalCandle(j, open) \in rows'
    PROVE  CoveredOf(j)'
BY DEF CoveredOf, IsKept, Offered, start_ms, end_ms, interval, FinalCandle

LEMMA CoveredElsewhere ==
    ASSUME MarketInv, NEW job \in Jobs, UNCHANGED <<listed, window, started>>,
           \A j \in Jobs \ {job} : /\ phase'[j] = phase[j] /\ cursor'[j] = cursor[j]
                                   /\ pending'[j] = pending[j],
           \A j \in Jobs : \A open \in listed[j] :
               FinalCandle(j, open) \in rows => FinalCandle(j, open) \in rows',
           CoveredOf(job)'
    PROVE  Covered'
<1>1. ASSUME NEW j \in Jobs \ {job} PROVE CoveredOf(j)'
  <2>1. CoveredOf(j)
    BY DEF MarketInv, Covered
  <2> QED BY <2>1, CoveredFrame
<1> QED BY <1>1 DEF Covered

\* A run knows its windows while it lasts.
LEMMA WindowsFrame ==
    ASSUME WindowsAreKnown, UNCHANGED <<window, started>>, ahead \subseteq ahead'
    PROVE  WindowsAreKnown'
BY DEF WindowsAreKnown, WindowIsKnown, align_closed_end_ms

\* The phase a loop is in at a given cursor.
LEMMA PhaseAtFacts ==
    ASSUME MarketTypeOK, NEW j \in Jobs, NEW time \in Int
    PROVE  /\ PhaseAt(j, time) \in {"asking", "closing"}
           /\ PhaseAt(j, time) = "closing" => end_ms(j) <= time
BY JobFacts DEF PhaseAt

LEMMA BeginMarketInv ==
    ASSUME MarketInv, NEW job \in Jobs, BeginMarket(job), UNCHANGED <<started, ahead>>
    PROVE  MarketInv'
<1>1. /\ phase[job] = "idle"
      /\ phase' = [phase EXCEPT ![job] = PhaseAt(job, start_ms(job))]
      /\ cursor' = [cursor EXCEPT ![job] = start_ms(job)]
      /\ UNCHANGED <<now, listed, rows, window, pending, tries>>
  BY DEF BeginMarket
<1>2. start_ms(job) \in Int /\ MarketTypeOK
  BY JobFacts DEF MarketInv
<1>3. /\ PhaseAt(job, start_ms(job)) \in {"asking", "closing"}
      /\ PhaseAt(job, start_ms(job)) = "closing" => end_ms(job) <= start_ms(job)
  BY <1>2, PhaseAtFacts
<1>4. MarketTypeOK'
  BY <1>1, <1>2, <1>3 DEF MarketTypeOK, Phases
<1>5. WindowsAreKnown'
  BY <1>1, WindowsFrame DEF MarketInv
<1>6. /\ phase'[job] = PhaseAt(job, start_ms(job)) /\ cursor'[job] = start_ms(job)
      /\ \A j \in Jobs \ {job} : phase'[j] = phase[j] /\ cursor'[j] = cursor[j]
  BY <1>1, <1>2 DEF MarketTypeOK
<1>7. CandlesAreSound'
  <2>1. PendingIsSound(job)'
    <3>1. now' \in Nat /\ now <= now'
      BY <1>1, <1>2 DEF MarketTypeOK
    <3> QED BY <1>1, <1>2, <1>6, <3>1, PendingFrame
  <2> QED BY <1>1, <1>6, <2>1, SoundElsewhere
<1>8. CoveredOf(job)'
  <2>1. \A open \in listed[job] : ~(start_ms(job) <= open /\ open < start_ms(job))
    BY <1>2, JobFacts
  <2> QED BY <1>1, <1>3, <1>6, <2>1 DEF CoveredOf, start_ms, end_ms
<1>9. Covered'
  BY <1>1, <1>6, <1>8, CoveredElsewhere
<1> QED BY <1>4, <1>5, <1>7, <1>9 DEF MarketInv

\* A request range reaches as far as the cursor goes on after an empty page,
\* as far as the window goes.
LEMMA RequestEndFacts ==
    ASSUME MarketTypeOK, NEW j \in Jobs, NEW open \in Nat,
           open < end_ms(j), open < cursor[j] + Limit * interval(j)
    PROVE  open < RequestEnd(j)
BY JobFacts DEF RequestEnd

\* The page holds every listed candle from the cursor to the request's end that
\* has begun.
LEMMA KeptFacts ==
    ASSUME MarketTypeOK, NEW j \in Jobs, NEW early \in Earliness(j)
    PROVE  /\ Kept(j, Answer(j, early)) \subseteq listed[j]
           /\ \A open \in Kept(j, Answer(j, early)) :
                 cursor[j] <= open /\ open < end_ms(j) /\ open < RequestEnd(j)
           /\ \A open \in listed[j] :
                 cursor[j] <= open /\ open < end_ms(j) /\ open < RequestEnd(j) /\ open <= now
                     => open \in Kept(j, Answer(j, early))
<1>1. interval(j) \in Nat \ {0} /\ cursor[j] \in Int /\ listed[j] \subseteq Nat
  BY JobFacts
<1>2. early \in Nat
  BY <1>1 DEF Earliness
<1>3. ASSUME NEW open \in listed[j], cursor[j] <= open, open < end_ms(j), open < RequestEnd(j),
             open <= now
      PROVE  open \in Kept(j, Answer(j, early))
  <2>1. cursor[j] - early <= open
    BY <1>1, <1>2, <1>3
  <2> QED BY <1>3, <2>1 DEF Kept, Answer
<1>4. Kept(j, Answer(j, early)) \subseteq listed[j]
  BY DEF Kept, Answer
<1>5. \A open \in Kept(j, Answer(j, early)) :
          cursor[j] <= open /\ open < end_ms(j) /\ open < RequestEnd(j)
  BY DEF Kept, Answer
<1> QED BY <1>3, <1>4, <1>5

LEMMA EmptyPageInv ==
    ASSUME MarketInv, NEW job \in Jobs, EmptyPage(job), UNCHANGED <<started, ahead>>
    PROVE  MarketInv'
<1> DEFINE next == cursor[job] + Limit * interval(job)
<1>1. /\ phase[job] = "asking"
      /\ cursor' = [cursor EXCEPT ![job] = next]
      /\ phase' = [phase EXCEPT ![job] = PhaseAt(job, cursor'[job])]
      /\ tries' = [tries EXCEPT ![job] = NoTries]
      /\ UNCHANGED <<now, listed, rows, window, pending>>
  BY DEF EmptyPage
<1>2. MarketTypeOK
  BY DEF MarketInv
<1>3. /\ next \in Int /\ cursor[job] \in Int /\ cursor[job] <= next
      /\ listed[job] \subseteq Nat /\ interval(job) \in Nat
      /\ now \in Nat /\ started \in Nat /\ started <= now
  BY <1>2, JobFacts DEF MarketTypeOK
<1>a. cursor'[job] = next
  BY <1>1, <1>2 DEF MarketTypeOK
<1>b. \A open \in listed[job] :
          cursor[job] <= open /\ open < next /\ open < end_ms(job)
              => ~(open + interval(job) <= started)
  <2>1. PICK early \in Earliness(job) : Kept(job, Answer(job, early)) = {}
    BY DEF EmptyPage
  <2>2. ASSUME NEW open \in listed[job], cursor[job] <= open, open < next, open < end_ms(job),
               open + interval(job) <= started
        PROVE  FALSE
    <3>1. open < RequestEnd(job)
      BY <1>2, <1>3, <2>2, RequestEndFacts
    <3>2. open <= now
      BY <1>3, <2>2
    <3>3. open \in Kept(job, Answer(job, early))
      BY <1>2, <2>2, <3>1, <3>2, KeptFacts
    <3> QED BY <2>1, <3>3
  <2> QED BY <2>2
<1> HIDE DEF next
<1>4. /\ PhaseAt(job, next) \in {"asking", "closing"}
      /\ PhaseAt(job, next) = "closing" => end_ms(job) <= next
  BY <1>2, <1>3, PhaseAtFacts
<1>5. phase' = [phase EXCEPT ![job] = PhaseAt(job, next)]
  BY <1>1, <1>a
<1>6. MarketTypeOK'
  <2>1. NoTries \in [url : Nat, attempt : 0 .. MaxRetries]
    BY BackfillAssumption DEF NoTries
  <2> QED BY <1>1, <1>2, <1>3, <1>4, <1>5, <2>1 DEF MarketTypeOK, Phases
<1>7. WindowsAreKnown'
  BY <1>1, WindowsFrame DEF MarketInv
<1>c. /\ phase'[job] = PhaseAt(job, next)
      /\ \A j \in Jobs \ {job} : phase'[j] = phase[j] /\ cursor'[j] = cursor[j]
  BY <1>1, <1>2, <1>5 DEF MarketTypeOK
<1>8. CandlesAreSound'
  <2>1. PendingIsSound(job)'
    BY <1>1, <1>3, <1>4, <1>a, <1>c, PendingFrame
  <2> QED BY <1>1, <1>c, <2>1, SoundElsewhere
<1>9. CoveredOf(job)'
  <2>1. \A open \in listed[job] :
            start_ms(job) <= open /\ open < cursor[job] /\ open < end_ms(job)
                => IsKept(job, open, rows \cup pending[job])
    BY <1>1 DEF MarketInv, Covered, CoveredOf, Active
  <2>2. \A open \in listed[job] :
            start_ms(job) <= open /\ open < next /\ open < end_ms(job)
                => IsKept(job, open, rows \cup pending[job])
    <3>1. ASSUME NEW open \in listed[job], start_ms(job) <= open, open < next, open < end_ms(job)
          PROVE  IsKept(job, open, rows \cup pending[job])
      <4>1. CASE open < cursor[job]
        BY <2>1, <3>1, <4>1
      <4>2. CASE cursor[job] <= open
        BY <1>b, <3>1, <4>2 DEF IsKept
      <4> QED BY <1>3, <4>1, <4>2
    <3> QED BY <3>1
  <2>3. \A open : IsKept(job, open, rows \cup pending[job])
                      => IsKept(job, open, rows \cup pending[job])'
    BY <1>1 DEF IsKept, interval, FinalCandle
  <2> QED BY <1>1, <1>4, <1>a, <1>c, <2>2, <2>3 DEF CoveredOf, start_ms, end_ms
<1>10. Covered'
  BY <1>1, <1>c, <1>9, CoveredElsewhere
<1> QED BY <1>6, <1>7, <1>8, <1>10 DEF MarketInv

LEMMA LoadPageInv ==
    ASSUME MarketInv, NEW job \in Jobs, LoadPage(job), UNCHANGED <<started, ahead>>
    PROVE  MarketInv'
<1>0. PICK early \in Earliness(job) :
          \E last \in Kept(job, Answer(job, early)) :
              /\ \A open \in Kept(job, Answer(job, early)) : open <= last
              /\ cursor' = [cursor EXCEPT ![job] = last + interval(job)]
              /\ pending' = [pending EXCEPT ![job] =
                    @ \cup {HistoricalCandle(job, open) : open \in Kept(job, Answer(job, early))}]
  BY DEF LoadPage
<1>1. PICK last \in Kept(job, Answer(job, early)) :
          /\ \A open \in Kept(job, Answer(job, early)) : open <= last
          /\ cursor' = [cursor EXCEPT ![job] = last + interval(job)]
          /\ pending' = [pending EXCEPT ![job] =
                @ \cup {HistoricalCandle(job, open) : open \in Kept(job, Answer(job, early))}]
  BY <1>0
<1>2. /\ phase[job] = "asking"
      /\ tries' = [tries EXCEPT ![job] = NoTries]
      /\ UNCHANGED <<now, listed, rows, window>>
      /\ phase' = [phase EXCEPT ![job] =
                      IF Cardinality(pending'[job]) >= BatchSize THEN "storing"
                      ELSE PhaseAt(job, cursor'[job])]
  BY DEF LoadPage
<1> DEFINE next == last + interval(job)
           page == Kept(job, Answer(job, early))
           loaded == {HistoricalCandle(job, open) : open \in page}
<1>3. /\ MarketTypeOK /\ WindowsAreKnown /\ PendingIsSound(job) /\ RowsAreSound
      /\ now \in Nat /\ started \in Nat /\ started <= now
  BY DEF MarketInv, CandlesAreSound, MarketTypeOK
<1>4. /\ page \subseteq listed[job]
      /\ \A open \in page : cursor[job] <= open /\ open < end_ms(job) /\ open < RequestEnd(job)
      /\ \A open \in listed[job] :
            cursor[job] <= open /\ open < end_ms(job) /\ open < RequestEnd(job) /\ open <= now
                => open \in page
  BY <1>3, KeptFacts
<1>5. /\ interval(job) \in Nat \ {0} /\ cursor[job] \in Int /\ listed[job] \subseteq Nat
      /\ end_ms(job) \in Int
      /\ \A open \in listed[job] : (open \div interval(job)) * interval(job) = open
  BY <1>3, JobFacts
<1>6. /\ last \in Nat /\ last \in listed[job] /\ next \in Nat
      /\ last < end_ms(job) /\ last < RequestEnd(job) /\ cursor[job] <= next
  BY <1>1, <1>4, <1>5
<1>7. \A open \in page :
          /\ HistoricalCandle(job, open) \in Candles
          /\ HistoricalCandle(job, open).job = job /\ HistoricalCandle(job, open).open = open
          /\ HistoricalCandle(job, open).final <=> open + interval(job) <= now
          /\ open + interval(job) <= now => HistoricalCandle(job, open) = FinalCandle(job, open)
          /\ IsSound(HistoricalCandle(job, open))
  BY <1>3, <1>4, LoadedFacts
<1>8. \A candle \in loaded :
          /\ candle \in Candles /\ candle.job = job
          /\ candle.open \in page /\ candle = HistoricalCandle(job, candle.open)
          /\ candle.open \in Nat /\ cursor[job] <= candle.open /\ candle.open < next
          /\ IsSound(candle)
          /\ candle.final \/ FinalCandle(job, candle.open) \notin rows
  <2>1. ASSUME NEW open \in page
        PROVE  open \in Nat /\ cursor[job] <= open /\ open < next
    BY <1>1, <1>4, <1>5, <1>6
  <2>2. ASSUME NEW open \in page, FinalCandle(job, open) \in rows
        PROVE  HistoricalCandle(job, open).final
    <3>1. /\ FinalCandle(job, open).final /\ FinalCandle(job, open).open = open
          /\ FinalCandle(job, open).job = job
      BY DEF FinalCandle
    <3>2. open + interval(job) <= now
      BY <1>3, <2>2, <3>1 DEF RowsAreSound, IsSound
    <3> QED BY <1>7, <3>2
  <2> QED BY <1>7, <2>1, <2>2
<1>9. \A open \in listed[job] :
          cursor[job] <= open /\ open < next /\ open < end_ms(job)
          /\ open + interval(job) <= started
              => FinalCandle(job, open) \in loaded
  <2>1. ASSUME NEW open \in listed[job], cursor[job] <= open, open < next, open < end_ms(job),
               open + interval(job) <= started
        PROVE  FinalCandle(job, open) \in loaded
    <3>1. open \in Nat /\ last \in Nat /\ open + interval(job) <= now /\ open <= now
      BY <1>3, <1>5, <1>6, <2>1
    <3>2. open <= last
      <4>1. last < open => last + interval(job) <= open
        <5>1. /\ (last \div interval(job)) * interval(job) = last
              /\ (open \div interval(job)) * interval(job) = open
          BY <1>5, <1>6, <2>1
        <5>2. last \in Int /\ open \in Int
          BY <3>1
        <5> QED BY <1>5, <5>1, <5>2, MultiplesApart
      <4> QED BY <2>1, <3>1, <4>1, <1>5
    <3>3. open < RequestEnd(job)
      <4>1. RequestEnd(job) \in Int
        BY <1>3, <1>5, JobFacts DEF RequestEnd
      <4> QED BY <1>6, <3>1, <3>2, <4>1
    <3>4. open \in page
      BY <1>4, <2>1, <3>1, <3>3
    <3> QED BY <1>7, <3>1, <3>4
  <2> QED BY <2>1
<1>a. cursor'[job] = next /\ pending'[job] = pending[job] \cup loaded
  BY <1>1, <1>3 DEF MarketTypeOK
<1>b. \A j \in Jobs \ {job} : /\ phase'[j] = phase[j] /\ cursor'[j] = cursor[j]
                              /\ pending'[j] = pending[j]
  BY <1>1, <1>2, <1>3 DEF MarketTypeOK
<1>c. cursor' \in [Jobs -> Int] /\ pending' \in [Jobs -> SUBSET Candles]
  <2>1. pending[job] \cup loaded \in SUBSET Candles
    BY <1>3, <1>8 DEF MarketTypeOK
  <2> QED BY <1>1, <1>3, <1>6, <2>1 DEF MarketTypeOK
<1> HIDE DEF next, page, loaded
<1>d. /\ PhaseAt(job, next) \in {"asking", "closing"}
      /\ PhaseAt(job, next) = "closing" => end_ms(job) <= next
  BY <1>3, <1>6, PhaseAtFacts
<1>e. /\ phase' \in [Jobs -> Phases]
      /\ phase'[job] \in {"storing", PhaseAt(job, next)}
  BY <1>2, <1>3, <1>a, <1>d DEF MarketTypeOK, Phases
<1>f. MarketTypeOK'
  <2>1. NoTries \in [url : Nat, attempt : 0 .. MaxRetries]
    BY BackfillAssumption DEF NoTries
  <2> QED BY <1>2, <1>3, <1>c, <1>e, <2>1 DEF MarketTypeOK
<1>g. WindowsAreKnown'
  BY <1>2, WindowsFrame DEF MarketInv
<1>h. CandlesAreSound'
  <2>1. ASSUME NEW candle \in pending'[job]
        PROVE  /\ candle.job = job /\ candle.open < cursor'[job] /\ IsSound(candle)'
               /\ candle.final \/ FinalCandle(job, candle.open) \notin rows'
    <3>1. IsSound(candle) => IsSound(candle)'
      BY <1>2 DEF IsSound, AskedFor, interval
    <3>2. CASE candle \in loaded
      BY <1>2, <1>8, <1>a, <3>1, <3>2
    <3>3. CASE candle \in pending[job]
      <4>1. candle.open \in Nat
        BY <1>3, <3>3 DEF MarketTypeOK, Candles
      <4>2. candle.open < cursor'[job]
        BY <1>3, <1>5, <1>6, <1>a, <3>3, <4>1 DEF PendingIsSound
      <4> QED BY <1>2, <1>3, <3>1, <3>3, <4>2 DEF PendingIsSound
    <3> QED BY <1>a, <3>2, <3>3
  <2>2. \A a, b \in pending'[job] : a.open = b.open => a = b
    <3>1. ASSUME NEW a \in pending[job], NEW b \in loaded PROVE a.open # b.open
      <4>1. a.open \in Nat /\ a.open < cursor[job] /\ b.open \in Nat /\ cursor[job] <= b.open
        BY <1>3, <1>8 DEF MarketTypeOK, Candles, PendingIsSound
      <4> QED BY <1>5, <4>1
    <3>2. \A a, b \in loaded : a.open = b.open => a = b
      BY <1>8
    <3> QED BY <1>3, <1>a, <3>1, <3>2 DEF PendingIsSound
  <2>3. PendingIsSound(job)'
    <3>1. phase'[job] # "idle"
      BY <1>d, <1>e
    <3>2. \A candle \in pending'[job] : FinalCandle(job, candle.open)' = FinalCandle(job, candle.open)
      BY DEF FinalCandle
    <3> QED BY <2>1, <2>2, <3>1, <3>2 DEF PendingIsSound
  <2> QED BY <1>2, <1>b, <2>3, SoundElsewhere
<1>i. CoveredOf(job)'
  <2>1. \A open \in listed[job] :
            start_ms(job) <= open /\ open < cursor[job] /\ open < end_ms(job)
                => IsKept(job, open, rows \cup pending[job])
    BY <1>2 DEF MarketInv, Covered, CoveredOf, Active
  <2>2. \A open \in listed[job] :
            start_ms(job) <= open /\ open < next /\ open < end_ms(job)
                => IsKept(job, open, rows \cup (pending[job] \cup loaded))
    <3>1. ASSUME NEW open \in listed[job], start_ms(job) <= open, open < next, open < end_ms(job)
          PROVE  IsKept(job, open, rows \cup (pending[job] \cup loaded))
      <4>1. CASE open < cursor[job]
        BY <2>1, <3>1, <4>1 DEF IsKept
      <4>2. CASE cursor[job] <= open
        BY <1>9, <3>1, <4>2 DEF IsKept
      <4> QED BY <1>5, <4>1, <4>2
    <3> QED BY <3>1
  <2>3. \A open : IsKept(job, open, rows \cup (pending[job] \cup loaded))
                      => IsKept(job, open, rows \cup pending[job])'
    BY <1>2, <1>a DEF IsKept, interval, FinalCandle
  <2> QED BY <1>2, <1>a, <1>d, <1>e, <2>2, <2>3 DEF CoveredOf, start_ms, end_ms
<1>j. Covered'
  BY <1>2, <1>b, <1>i, CoveredElsewhere
<1> QED BY <1>f, <1>g, <1>h, <1>j DEF MarketInv

LEMMA AskAgainInv ==
    ASSUME MarketInv, NEW job \in Jobs, AskAgain(job), UNCHANGED <<started, ahead>>
    PROVE  MarketInv'
<1>1. UNCHANGED <<now, listed, rows, window, phase, cursor, pending>>
  BY DEF AskAgain, RetryRequest, TryNextUrl
<1>2. MarketTypeOK
  BY DEF MarketInv
<1>3. tries' \in [Jobs -> [url : Nat, attempt : 0 .. MaxRetries]]
  <2>1. tries[job].url \in Nat /\ tries[job].attempt \in 0 .. MaxRetries
    BY <1>2 DEF MarketTypeOK
  <2>2. CASE RetryRequest(job)
    <3>1. tries[job].attempt + 1 \in 0 .. MaxRetries
      BY <2>1, <2>2, BackfillAssumption DEF RetryRequest
    <3> QED BY <1>2, <2>2, <3>1 DEF RetryRequest, MarketTypeOK
  <2>3. CASE TryNextUrl(job)
    <3>1. [url |-> tries[job].url + 1, attempt |-> 0] \in [url : Nat, attempt : 0 .. MaxRetries]
      BY <2>1, BackfillAssumption
    <3> QED BY <1>2, <2>3, <3>1 DEF TryNextUrl, MarketTypeOK
  <2> QED BY <2>2, <2>3 DEF AskAgain
<1>4. MarketTypeOK'
  BY <1>1, <1>2, <1>3 DEF MarketTypeOK
<1>5. WindowsAreKnown'
  BY <1>1, WindowsFrame DEF MarketInv
<1>6. CandlesAreSound'
  <2>1. PendingIsSound(job)'
    <3>1. now' \in Nat /\ now <= now' /\ cursor'[job] \in Int /\ cursor[job] <= cursor'[job]
      BY <1>1, <1>2 DEF MarketTypeOK
    <3> QED BY <1>1, <3>1, PendingFrame
  <2> QED BY <1>1, <2>1, SoundElsewhere
<1>7. Covered'
  <2>1. ASSUME NEW j \in Jobs PROVE CoveredOf(j)'
    <3>1. CoveredOf(j)
      BY DEF MarketInv, Covered
    <3> QED BY <1>1, <3>1, CoveredFrame
  <2> QED BY <2>1 DEF Covered
<1> QED BY <1>4, <1>5, <1>6, <1>7 DEF MarketInv

\* A batch replaces a final row only by the same final candle, leaves one row of
\* an open time, and makes no row of another market final.
LEMMA UpsertedFacts ==
    ASSUME MarketInv, NEW job \in Jobs
    PROVE  /\ Upserted(rows, pending[job]) \subseteq rows \cup pending[job]
           /\ pending[job] \subseteq Upserted(rows, pending[job])
           /\ \A j \in Jobs, open \in Nat :
                 FinalCandle(j, open) \in rows
                     => FinalCandle(j, open) \in Upserted(rows, pending[job])
           /\ \A j \in Jobs \ {job}, open \in Nat :
                 FinalCandle(j, open) \in Upserted(rows, pending[job])
                     => FinalCandle(j, open) \in rows
           /\ \A a, b \in Upserted(rows, pending[job]) :
                 a.job = b.job /\ a.open = b.open => a = b
<1>1. /\ rows \subseteq Candles /\ pending[job] \subseteq Candles
      /\ PendingIsSound(job) /\ RowsAreSound
  BY DEF MarketInv, MarketTypeOK, CandlesAreSound
<1>2. ASSUME NEW j \in Jobs, NEW open \in Nat, FinalCandle(j, open) \in rows
      PROVE  FinalCandle(j, open) \in Upserted(rows, pending[job])
  <2>0. FinalCandle(j, open).job = j /\ FinalCandle(j, open).open = open
    BY DEF FinalCandle
  <2>1. CASE \A c \in pending[job] : <<c.job, c.open>> # <<j, open>>
    BY <1>2, <2>0, <2>1 DEF Upserted
  <2>2. CASE \E c \in pending[job] : <<c.job, c.open>> = <<j, open>>
    <3>1. PICK c \in pending[job] : c.job = j /\ c.open = open
      BY <2>2
    <3>2. c \in Candles /\ c.job = job /\ (c.final \/ FinalCandle(job, c.open) \notin rows)
      BY <1>1 DEF PendingIsSound
    <3>3. c.final = TRUE
      BY <1>2, <3>1, <3>2 DEF Candles
    <3>4. c = FinalCandle(j, open)
      BY <3>1, <3>2, <3>3 DEF Candles, FinalCandle
    <3> QED BY <3>4 DEF Upserted
  <2> QED BY <2>1, <2>2
<1>3. ASSUME NEW j \in Jobs \ {job}, NEW open \in Nat,
             FinalCandle(j, open) \in Upserted(rows, pending[job])
      PROVE  FinalCandle(j, open) \in rows
  <2>1. FinalCandle(j, open).job = j
    BY DEF FinalCandle
  <2>2. FinalCandle(j, open) \notin pending[job]
    BY <1>1, <2>1 DEF PendingIsSound
  <2> QED BY <1>3, <2>2 DEF Upserted
<1>4. ASSUME NEW a \in Upserted(rows, pending[job]), NEW b \in Upserted(rows, pending[job]),
             a.job = b.job, a.open = b.open
      PROVE  a = b
  <2>1. ASSUME NEW r \in rows, NEW c \in pending[job],
               \A p \in pending[job] : <<p.job, p.open>> # <<r.job, r.open>>
        PROVE  ~(r.job = c.job /\ r.open = c.open)
    BY <2>1
  <2>2. CASE a \in pending[job] /\ b \in pending[job]
    BY <1>1, <1>4, <2>2 DEF PendingIsSound
  <2>3. CASE a \in rows /\ b \in rows
    BY <1>1, <1>4, <2>3 DEF RowsAreSound
  <2>4. CASE a \notin pending[job] /\ b \in pending[job]
    <3>1. a \in rows /\ \A p \in pending[job] : <<p.job, p.open>> # <<a.job, a.open>>
      BY <2>4 DEF Upserted
    <3> QED BY <1>4, <2>1, <2>4, <3>1
  <2>5. CASE a \in pending[job] /\ b \notin pending[job]
    <3>1. b \in rows /\ \A p \in pending[job] : <<p.job, p.open>> # <<b.job, b.open>>
      BY <2>5 DEF Upserted
    <3> QED BY <1>4, <2>1, <2>5, <3>1
  <2> QED BY <2>2, <2>3, <2>4, <2>5 DEF Upserted
<1>5. /\ Upserted(rows, pending[job]) \subseteq rows \cup pending[job]
      /\ pending[job] \subseteq Upserted(rows, pending[job])
  BY DEF Upserted
<1> QED BY <1>2, <1>3, <1>4, <1>5

LEMMA FlushInv ==
    ASSUME MarketInv, NEW job \in Jobs, Flush(job), UNCHANGED <<started, ahead>>
    PROVE  MarketInv'
<1>1. /\ phase[job] \in {"storing", "closing"}
      /\ rows' = Upserted(rows, pending[job])
      /\ pending' = [pending EXCEPT ![job] = {}]
      /\ phase' = [phase EXCEPT ![job] =
                      IF @ = "closing" THEN "done" ELSE PhaseAt(job, cursor[job])]
      /\ UNCHANGED <<now, listed, window, cursor, tries>>
  BY DEF Flush
<1>2. /\ MarketTypeOK /\ PendingIsSound(job) /\ RowsAreSound
      /\ now' \in Nat /\ now <= now'
      /\ rows \subseteq Candles /\ pending[job] \subseteq Candles
  BY <1>1 DEF MarketInv, CandlesAreSound, MarketTypeOK
<1>3. /\ rows' \subseteq rows \cup pending[job]
      /\ pending[job] \subseteq rows'
      /\ \A j \in Jobs, open \in Nat : FinalCandle(j, open) \in rows => FinalCandle(j, open) \in rows'
      /\ \A j \in Jobs \ {job}, open \in Nat :
            FinalCandle(j, open) \in rows' => FinalCandle(j, open) \in rows
      /\ \A a, b \in rows' : a.job = b.job /\ a.open = b.open => a = b
  BY <1>1, UpsertedFacts
<1>4. /\ cursor[job] \in Int /\ listed[job] \subseteq Nat
      /\ end_ms(job) \in Int
  BY <1>2, JobFacts
<1>5. /\ PhaseAt(job, cursor[job]) \in {"asking", "closing"}
      /\ PhaseAt(job, cursor[job]) = "closing" => end_ms(job) <= cursor[job]
  BY <1>2, <1>4, PhaseAtFacts
<1>6. /\ phase'[job] = IF phase[job] = "closing" THEN "done" ELSE PhaseAt(job, cursor[job])
      /\ pending'[job] = {}
      /\ \A j \in Jobs \ {job} : phase'[j] = phase[j] /\ pending'[j] = pending[j]
  BY <1>1, <1>2 DEF MarketTypeOK
<1>7. MarketTypeOK'
  <2>1. phase' \in [Jobs -> Phases]
    BY <1>1, <1>2, <1>5 DEF MarketTypeOK, Phases
  <2>2. rows' \subseteq Candles
    BY <1>2, <1>3
  <2> QED BY <1>1, <1>2, <2>1, <2>2 DEF MarketTypeOK
<1>8. WindowsAreKnown'
  BY <1>1, WindowsFrame DEF MarketInv
<1>9. CandlesAreSound'
  <2>1. RowsAreSound'
    <3>1. \A row \in rows' : IsSound(row)
      BY <1>2, <1>3 DEF RowsAreSound, PendingIsSound
    <3>2. \A row \in rows' : IsSound(row)'
      BY <1>1, <3>1 DEF IsSound, AskedFor, interval
    <3> QED BY <1>3, <3>2 DEF RowsAreSound
  <2>2. PendingIsSound(job)'
    BY <1>6 DEF PendingIsSound
  <2>3. ASSUME NEW j \in Jobs \ {job} PROVE PendingIsSound(j)'
    <3>1. cursor'[j] \in Int /\ cursor[j] <= cursor'[j]
      BY <1>1, <1>2 DEF MarketTypeOK
    <3>2. \A open \in Nat : FinalCandle(j, open) \in rows' => FinalCandle(j, open) \in rows
      BY <1>3
    <3> QED BY <1>2, <1>6, <3>1, <3>2, PendingFrame
  <2> QED BY <2>1, <2>2, <2>3 DEF CandlesAreSound
<1>10. CoveredOf(job)'
  <2>1. \A open \in listed[job] :
            start_ms(job) <= open /\ open < cursor[job] /\ open < end_ms(job)
                => IsKept(job, open, rows')
    <3>1. \A open \in listed[job] :
              start_ms(job) <= open /\ open < cursor[job] /\ open < end_ms(job)
                  => IsKept(job, open, rows \cup pending[job])
      BY <1>1 DEF MarketInv, Covered, CoveredOf, Active
    <3>2. \A open \in Nat : IsKept(job, open, rows \cup pending[job]) => IsKept(job, open, rows')
      BY <1>3 DEF IsKept
    <3> QED BY <1>4, <3>1, <3>2
  <2>2. CASE phase[job] = "storing"
    <3>1. \A open : IsKept(job, open, rows') => IsKept(job, open, rows \cup pending[job])'
      BY DEF IsKept, interval, FinalCandle
    <3> QED BY <1>1, <1>5, <1>6, <2>1, <2>2, <3>1 DEF CoveredOf, start_ms, end_ms
  <2>3. CASE phase[job] = "closing"
    <3>1. end_ms(job) <= cursor[job]
      BY <2>3 DEF MarketInv, Covered, CoveredOf
    <3>2. \A open \in Offered(job, start_ms(job), end_ms(job), started) :
              FinalCandle(job, open) \in rows'
      BY <1>4, <2>1, <3>1 DEF Offered, IsKept
    <3>3. Offered(job, start_ms(job), end_ms(job), started)' =
              Offered(job, start_ms(job), end_ms(job), started)
      BY <1>1 DEF Offered, start_ms, end_ms, interval
    <3>4. \A open : FinalCandle(job, open)' = FinalCandle(job, open)
      BY DEF FinalCandle
    <3>5. phase'[job] = "done"
      BY <1>6, <2>3
    <3> QED BY <3>2, <3>3, <3>4, <3>5 DEF CoveredOf, Active
  <2> QED BY <1>1, <2>2, <2>3
<1>11. Covered'
  <2>1. \A j \in Jobs : listed[j] \subseteq Nat
    BY <1>2, JobFacts
  <2> QED BY <1>1, <1>3, <1>6, <1>10, <2>1, CoveredElsewhere
<1> QED BY <1>7, <1>8, <1>9, <1>11 DEF MarketInv

LEMMA RaiseInv ==
    ASSUME MarketInv, NEW job \in Jobs, Raise(job), UNCHANGED <<started, ahead>>
    PROVE  MarketInv'
<1>1. /\ phase' = [phase EXCEPT ![job] = "failed"]
      /\ pending' = [pending EXCEPT ![job] = {}]
      /\ UNCHANGED <<now, listed, rows, window, cursor, tries>>
  BY DEF Raise
<1>2. MarketTypeOK
  BY DEF MarketInv
<1>3. MarketTypeOK'
  BY <1>1, <1>2 DEF MarketTypeOK, Phases
<1>4. WindowsAreKnown'
  BY <1>1, WindowsFrame DEF MarketInv
<1>5. /\ phase'[job] = "failed" /\ pending'[job] = {}
      /\ \A j \in Jobs \ {job} : /\ phase'[j] = phase[j] /\ cursor'[j] = cursor[j]
                                 /\ pending'[j] = pending[j]
  BY <1>1, <1>2 DEF MarketTypeOK
<1>6. CandlesAreSound'
  <2>1. PendingIsSound(job)'
    BY <1>5 DEF PendingIsSound
  <2> QED BY <1>1, <1>5, <2>1, SoundElsewhere
<1>7. CoveredOf(job)'
  BY <1>5 DEF CoveredOf, Active
<1>8. Covered'
  BY <1>1, <1>5, <1>7, CoveredElsewhere
<1> QED BY <1>3, <1>4, <1>6, <1>8 DEF MarketInv
-----------------------------------------------------------------------------
\* The markets are as they were if nothing of them changes.
LEMMA MarketFrame ==
    ASSUME MarketInv, UNCHANGED <<now, listed, rows, window, phase, cursor, pending, tries>>,
           UNCHANGED <<started, ahead>>
    PROVE  MarketInv'
<1>1. MarketTypeOK /\ now' \in Nat /\ now <= now'
  BY DEF MarketInv, MarketTypeOK
<1>2. MarketTypeOK'
  BY <1>1 DEF MarketTypeOK
<1>3. WindowsAreKnown'
  BY WindowsFrame DEF MarketInv
<1>4. RowsAreSound'
  BY <1>1, RowsFrame
<1>5. ASSUME NEW j \in Jobs PROVE PendingIsSound(j)' /\ CoveredOf(j)'
  <2>1. cursor'[j] \in Int /\ cursor[j] <= cursor'[j]
    BY <1>1 DEF MarketTypeOK
  <2>2. PendingIsSound(j)'
    BY <1>1, <2>1, PendingFrame
  <2>3. CoveredOf(j)
    BY DEF MarketInv, Covered
  <2> QED BY <2>2, <2>3, CoveredFrame
<1> QED BY <1>2, <1>3, <1>4, <1>5 DEF MarketInv, CandlesAreSound, Covered

\* What a step of one market leaves alone.
MarketEffect(job) ==
    /\ UNCHANGED <<now, listed, window, started, ahead>>
    /\ phase[job] \notin {"done", "failed"}
    /\ \A j \in Jobs \ {job} : phase'[j] = phase[j]
    /\ \A j \in Jobs, open \in Nat : FinalCandle(j, open) \in rows => FinalCandle(j, open) \in rows'

\* The steps of one market keep its invariant, and only Raise fails it.
LEMMA WorkFacts ==
    ASSUME MarketInv, NEW job \in Jobs,
           BeginMarket(job) \/ Page(job) \/ AskAgain(job) \/ Flush(job),
           UNCHANGED <<started, ahead>>
    PROVE  MarketInv' /\ MarketEffect(job) /\ phase'[job] # "failed"
<1>1. MarketTypeOK
  BY DEF MarketInv
<1>2. start_ms(job) \in Int /\ cursor[job] \in Int
  BY <1>1, JobFacts
<1>3. CASE BeginMarket(job)
  <2>1. MarketInv'
    BY <1>3, BeginMarketInv
  <2>2. PhaseAt(job, start_ms(job)) # "failed"
    BY DEF PhaseAt
  <2> QED BY <1>1, <1>3, <2>1, <2>2 DEF BeginMarket, MarketEffect, MarketTypeOK
<1>4. CASE EmptyPage(job)
  <2>1. MarketInv'
    BY <1>4, EmptyPageInv
  <2>2. PhaseAt(job, cursor'[job]) # "failed"
    BY DEF PhaseAt
  <2> QED BY <1>1, <1>4, <2>1, <2>2 DEF EmptyPage, MarketEffect, MarketTypeOK
<1>5. CASE LoadPage(job)
  <2>1. MarketInv'
    BY <1>5, LoadPageInv
  <2>2. PhaseAt(job, cursor'[job]) # "failed"
    BY DEF PhaseAt
  <2>3. /\ phase[job] = "asking"
        /\ phase' = [phase EXCEPT ![job] =
                        IF Cardinality(pending'[job]) >= BatchSize THEN "storing"
                        ELSE PhaseAt(job, cursor'[job])]
        /\ UNCHANGED <<now, listed, rows, window>>
    BY <1>5 DEF LoadPage
  <2> QED BY <1>1, <2>1, <2>2, <2>3 DEF MarketEffect, MarketTypeOK
<1>6. CASE AskAgain(job)
  <2>1. MarketInv'
    BY <1>6, AskAgainInv
  <2>2. phase[job] = "asking" /\ UNCHANGED <<now, listed, rows, window, phase>>
    BY <1>6 DEF AskAgain, RetryRequest, TryNextUrl
  <2> QED BY <2>1, <2>2 DEF MarketEffect
<1>7. CASE Flush(job)
  <2>1. MarketInv'
    BY <1>7, FlushInv
  <2>2. PhaseAt(job, cursor[job]) # "failed"
    BY DEF PhaseAt
  <2>3. \A j \in Jobs, open \in Nat : FinalCandle(j, open) \in rows => FinalCandle(j, open) \in rows'
    BY <1>7, UpsertedFacts DEF Flush
  <2>4. /\ phase[job] \in {"storing", "closing"}
        /\ phase' = [phase EXCEPT ![job] =
                        IF @ = "closing" THEN "done" ELSE PhaseAt(job, cursor[job])]
        /\ UNCHANGED <<now, listed, window>>
    BY <1>7 DEF Flush
  <2>5. phase'[job] = IF phase[job] = "closing" THEN "done" ELSE PhaseAt(job, cursor[job])
    BY <1>1, <2>4 DEF MarketTypeOK
  <2>6. \A j \in Jobs \ {job} : phase'[j] = phase[j]
    BY <1>1, <2>4 DEF MarketTypeOK
  <2> QED BY <2>1, <2>2, <2>3, <2>4, <2>5, <2>6 DEF MarketEffect
<1> QED BY <1>3, <1>4, <1>5, <1>6, <1>7 DEF Page

LEMMA RaiseFacts ==
    ASSUME MarketInv, NEW job \in Jobs, Raise(job), UNCHANGED <<started, ahead>>
    PROVE  MarketInv' /\ MarketEffect(job)
<1>1. MarketInv'
  BY RaiseInv
<1>2. phase[job] \notin {"done", "failed"}
  BY DEF Raise, CanRaise
<1> QED BY <1>1, <1>2 DEF Raise, MarketEffect, MarketInv, MarketTypeOK

\* What was reported stays true while rows are added.
LEMMA ClaimsFrame ==
    ASSUME TypeOK, ClaimsAreKept, UNCHANGED <<listed, claimed>>,
           \A j \in Jobs, open \in Nat : FinalCandle(j, open) \in rows => FinalCandle(j, open) \in rows'
    PROVE  ClaimsAreKept'
<1>1. ASSUME NEW c \in claimed, NEW open \in Offered(c.job, c.from, c.to, c.started)
      PROVE  FinalCandle(c.job, open) \in rows'
  <2>1. c.job \in Jobs
    BY DEF TypeOK
  <2>2. open \in Nat
    BY <2>1, ProgramsAssumption DEF TypeOK, Offered
  <2> QED BY <1>1, <2>1, <2>2 DEF ClaimsAreKept
<1>2. \A c \in claimed : Offered(c.job, c.from, c.to, c.started)' =
                            Offered(c.job, c.from, c.to, c.started)
  BY DEF Offered, interval
<1>3. \A c \in claimed : \A open : FinalCandle(c.job, open)' = FinalCandle(c.job, open)
  BY DEF FinalCandle
<1> QED BY <1>1, <1>2, <1>3 DEF ClaimsAreKept

\* No window is one that ends at the beginning of time.
LEMMA NoWindowIsKnown ==
    ASSUME window' = NoWindow, started' = 0 PROVE WindowsAreKnown'
<1>1. ASSUME NEW tf \in Timeframes
      PROVE  align_closed_end_ms(window'[tf].to, tf) = window'[tf].to /\ window'[tf].to <= 0
  <2>1. Interval[tf] \in Nat \ {0}
    BY BackfillAssumption DEF Timeframes
  <2>2. (0 \div Interval[tf]) * Interval[tf] = 0
    BY <2>1
  <2>3. window'[tf].to = 0
    BY DEF NoWindow
  <2> QED BY <2>2, <2>3 DEF align_closed_end_ms
<1> QED BY <1>1 DEF WindowsAreKnown, WindowIsKnown, align_closed_end_ms

\* A run ends well when what it claims is stored.
LEMMA EndRunInv ==
    ASSUME Inv, NEW claims \in SUBSET Jobs, EndRun(claims),
           \A j \in claims : \A open \in Offered(j, start_ms(j), end_ms(j), started) :
               FinalCandle(j, open) \in rows
    PROVE  Inv'
<1>1. /\ TypeOK /\ MarketInv /\ MarketTypeOK /\ ClaimsAreKept
      /\ now \in Nat /\ started \in 0 .. now
  BY DEF Inv, MarketInv, TypeOK, MarketTypeOK
<1>2. /\ phase' = [j \in Jobs |-> "idle"] /\ cursor' = [j \in Jobs |-> 0]
      /\ pending' = [j \in Jobs |-> {}] /\ tries' = [j \in Jobs |-> NoTries]
      /\ UNCHANGED <<now, listed, rows, ahead, runs>> /\ window' = NoWindow
      /\ program' = "none" /\ plan' = <<>> /\ at' = 1 /\ selected' = {} /\ failures' = {}
      /\ started' = 0
  BY DEF EndRun
<1>3. MarketTypeOK'
  <2>1. NoTries \in [url : Nat, attempt : 0 .. MaxRetries]
    BY BackfillAssumption DEF NoTries
  <2>2. NoWindow \in [Timeframes -> [from : Int, to : Int]]
    BY DEF NoWindow
  <2> QED BY <1>1, <1>2, <2>1, <2>2 DEF MarketTypeOK, Phases
<1>4. WindowsAreKnown'
  BY <1>2, NoWindowIsKnown
<1>5. CandlesAreSound'
  <2>1. RowsAreSound'
    BY <1>1, <1>2, RowsFrame
  <2>2. \A j \in Jobs : PendingIsSound(j)'
    BY <1>2 DEF PendingIsSound
  <2> QED BY <2>1, <2>2 DEF CandlesAreSound
<1>6. Covered'
  BY <1>2 DEF Covered, CoveredOf, Active
<1>7. claimed' \subseteq [job : Jobs, from : Int, to : Int, started : 0 .. now]
  <2>1. \A j \in claims : start_ms(j) \in Int /\ end_ms(j) \in Int
    BY <1>1, JobFacts
  <2> QED BY <1>1, <2>1 DEF EndRun, TypeOK
<1>8. TypeOK'
  <2>1. IsPlan(<<>>)
    BY DEF IsPlan
  <2>2. 0 \in 0 .. now
    BY <1>1
  <2> QED BY <1>1, <1>2, <1>3, <1>7, <2>1, <2>2 DEF TypeOK, MarketTypeOK
<1>9. ProgramInv'
  BY <1>2 DEF ProgramInv
<1>10. ClaimsAreKept'
  <2>1. \A c \in claimed' : \A open \in Offered(c.job, c.from, c.to, c.started) :
            FinalCandle(c.job, open) \in rows
    BY <1>1 DEF EndRun, ClaimsAreKept
  <2>2. \A c : Offered(c.job, c.from, c.to, c.started)' = Offered(c.job, c.from, c.to, c.started)
    BY <1>2 DEF Offered, interval
  <2>3. \A c, open : FinalCandle(c.job, open)' = FinalCandle(c.job, open)
    BY DEF FinalCandle
  <2> QED BY <1>2, <2>1, <2>2, <2>3 DEF ClaimsAreKept
<1> QED BY <1>3, <1>4, <1>5, <1>6, <1>8, <1>9, <1>10 DEF Inv, MarketInv

\* A run starts with idle markets and windows that are known.
LEMMA StartRunInv ==
    ASSUME Inv, NEW name \in {"recovery", "command", "loader"}, StartRun(name),
           window' \in [Timeframes -> [from : Int, to : Int]], WindowsAreKnown',
           ahead \subseteq ahead', ahead' \subseteq [timeframe : Timeframes, started : 0 .. now, to : Int],
           IsPlan(plan'), selected' \subseteq Jobs
    PROVE  Inv'
<1>1. /\ TypeOK /\ MarketInv /\ MarketTypeOK /\ ClaimsAreKept
      /\ now \in Nat /\ now \in 0 .. now
  BY DEF Inv, MarketInv, MarketTypeOK
<1>2. /\ program = "none" /\ runs < MaxRuns /\ program' = name /\ runs' = runs + 1
      /\ started' = now
      /\ UNCHANGED <<now, listed, rows, phase, cursor, pending, tries, at, failures, claimed>>
  BY DEF StartRun, marketVars
<1>3. at = 1 /\ \A j \in Jobs : phase[j] = "idle"
  BY <1>2 DEF Inv, ProgramInv
<1>4. MarketTypeOK'
  BY <1>1, <1>2 DEF MarketTypeOK
<1>5. CandlesAreSound'
  <2>1. RowsAreSound'
    BY <1>1, <1>2, RowsFrame
  <2>2. ASSUME NEW j \in Jobs PROVE PendingIsSound(j)'
    <3>1. cursor'[j] \in Int /\ cursor[j] <= cursor'[j] /\ now' \in Nat /\ now <= now'
      BY <1>1, <1>2 DEF MarketTypeOK
    <3> QED BY <1>1, <1>2, <3>1, PendingFrame
  <2> QED BY <2>1, <2>2 DEF CandlesAreSound
<1>6. Covered'
  BY <1>2, <1>3 DEF Covered, CoveredOf, Active
<1>7. TypeOK'
  <2>1. at' \in 1 .. Len(plan') + 1
    <3>1. Len(plan') \in Nat
      BY DEF IsPlan
    <3> QED BY <1>2, <1>3, <3>1
  <2>2. runs' \in 0 .. MaxRuns
    BY <1>1, <1>2, ProgramsAssumption DEF TypeOK
  <2> QED BY <1>1, <1>2, <1>4, <2>1, <2>2 DEF TypeOK, MarketTypeOK
<1>8. ProgramInv'
  <2>1. \A i \in 1 .. Len(plan') : ~(i < at')
    BY <1>2, <1>3
  <2> QED BY <1>2, <1>3, <2>1 DEF ProgramInv
<1>9. ClaimsAreKept'
  BY <1>1, <1>2, ClaimsFrame
<1> QED BY <1>4, <1>5, <1>6, <1>7, <1>8, <1>9 DEF Inv, MarketInv

\* The end of a window: a floored time that is not after the one it floors.
LEMMA AlignedFacts ==
    ASSUME NEW tf \in Timeframes, NEW time \in Int
    PROVE  /\ align_closed_end_ms(time, tf) \in Int
           /\ align_closed_end_ms(time, tf) <= time
           /\ align_closed_end_ms(align_closed_end_ms(time, tf), tf) = align_closed_end_ms(time, tf)
<1>1. Interval[tf] \in Nat \ {0}
  BY BackfillAssumption DEF Timeframes
<1> QED BY <1>1, FlooredIsMultiple DEF align_closed_end_ms

LEMMA StartRecoveryInv ==
    ASSUME Inv, StartRecovery PROVE Inv'
<1>1. PICK chosen \in {Exchanges} \cup {{e} : e \in Exchanges} :
          /\ StartRun("recovery")
          /\ \E lookback \in Lookbacks : window' = RecoveryWindow(lookback)
          /\ plan' = RecoveryPlan(chosen)
          /\ UNCHANGED <<selected, ahead>>
  BY DEF StartRecovery
<1>2. PICK lookback \in Lookbacks : window' = RecoveryWindow(lookback)
  BY <1>1
<1>3. IsPlan(plan')
  <2>1. chosen \in SUBSET Exchanges
    OBVIOUS
  <2> QED BY <1>1, <2>1, ProgramsAssumption
<1>4. selected' \subseteq Jobs
  BY <1>1 DEF Inv, TypeOK
<1>5. now \in Nat /\ started' = now
  BY <1>1 DEF Inv, MarketInv, MarketTypeOK, StartRun
<1>6. ASSUME NEW tf \in Timeframes
      PROVE  /\ window'[tf] \in [from : Int, to : Int]
             /\ align_closed_end_ms(window'[tf].to, tf) = window'[tf].to
             /\ window'[tf].to <= now
  <2> DEFINE time == IF tf = "1s" THEN Latest(0, now - StableDelay) ELSE now
             end == align_closed_end_ms(time, tf)
  <2>1. time \in Int /\ time <= now
    BY <1>5, ProgramsAssumption DEF Latest
  <2>2. align_closed_end_ms(end, tf) = end /\ end \in Int /\ end <= now
    <3>1. end \in Int /\ end <= time /\ align_closed_end_ms(end, tf) = end
      BY <2>1, AlignedFacts
    <3> QED BY <1>5, <2>1, <3>1
  <2>3. window'[tf] = [from |-> Latest(0, end - lookback[tf]), to |-> end]
    BY <1>2 DEF RecoveryWindow
  <2> HIDE DEF end
  <2>4. lookback[tf] \in Nat
    BY ProgramsAssumption
  <2>5. Latest(0, end - lookback[tf]) \in Int
    BY <2>2, <2>4 DEF Latest
  <2> QED BY <2>2, <2>3, <2>5
<1>7. window' \in [Timeframes -> [from : Int, to : Int]]
  <2>1. window' = [tf \in Timeframes |-> window'[tf]]
    BY <1>2 DEF RecoveryWindow
  <2> HIDE <1>2
  <2> QED BY <1>6, <2>1
<1>8. WindowsAreKnown'
  BY <1>5, <1>6 DEF WindowsAreKnown, WindowIsKnown, align_closed_end_ms
<1>9. ahead \subseteq ahead' /\ ahead' \subseteq [timeframe : Timeframes, started : 0 .. now, to : Int]
  BY <1>1 DEF Inv, TypeOK
<1> QED BY <1>1, <1>3, <1>4, <1>7, <1>8, <1>9, StartRunInv

\* The interval of a loader ends at a closed interval too, or is recorded as
\* ahead of the clock.
LEMMA StartScriptFacts ==
    ASSUME MarketTypeOK, TypeOK, NEW name, NEW timeframe \in Timeframes,
           StartScript(name, timeframe)
    PROVE  /\ window' \in [Timeframes -> [from : Int, to : Int]]
           /\ WindowsAreKnown'
           /\ ahead \subseteq ahead'
           /\ ahead' \subseteq [timeframe : Timeframes, started : 0 .. now, to : Int]
<1>1. PICK until \in {now} \cup Untils :
          /\ window' = ScriptWindow(timeframe, until)
          /\ ahead' = IF until <= now THEN ahead
                      ELSE ahead \cup {[timeframe |-> timeframe, started |-> now,
                                       to |-> align_closed_end_ms(until, timeframe)]}
  BY DEF StartScript
<1>2. now \in Nat /\ until \in Int /\ Days \in Int /\ started' = now
  BY ProgramsAssumption DEF MarketTypeOK, StartScript, StartRun
<1> DEFINE end == align_closed_end_ms(until, timeframe)
<1>3. end \in Int /\ end <= until /\ align_closed_end_ms(end, timeframe) = end
  BY <1>2, AlignedFacts
<1>4. /\ window' = [NoWindow EXCEPT ![timeframe] = [from |-> end - Days, to |-> end]]
      /\ ahead' = IF until <= now THEN ahead
                  ELSE ahead \cup {[timeframe |-> timeframe, started |-> now, to |-> end]}
  BY <1>1 DEF ScriptWindow
<1> HIDE DEF end
<1>5. NoWindow \in [Timeframes -> [from : Int, to : Int]]
  BY DEF NoWindow
<1>6. [from |-> end - Days, to |-> end] \in [from : Int, to : Int]
  BY <1>2, <1>3
<1>7. window' \in [Timeframes -> [from : Int, to : Int]]
  BY <1>4, <1>5, <1>6
<1>8. ahead \subseteq ahead' /\ ahead' \subseteq [timeframe : Timeframes, started : 0 .. now, to : Int]
  BY <1>2, <1>3, <1>4 DEF TypeOK
<1>9. ASSUME NEW tf \in Timeframes
      PROVE  \/ /\ align_closed_end_ms(window'[tf].to, tf) = window'[tf].to
                /\ window'[tf].to <= now
             \/ [timeframe |-> tf, started |-> now, to |-> window'[tf].to] \in ahead'
  <2>1. CASE tf = timeframe
    <3>1. window'[tf].to = end
      BY <1>4, <1>5, <2>1
    <3> QED BY <1>2, <1>3, <1>4, <2>1, <3>1
  <2>2. CASE tf # timeframe
    <3>1. window'[tf].to = 0
      BY <1>4, <2>2 DEF NoWindow
    <3>2. Interval[tf] \in Nat \ {0}
      BY BackfillAssumption DEF Timeframes
    <3>3. (0 \div Interval[tf]) * Interval[tf] = 0
      BY <3>2
    <3> QED BY <1>2, <3>1, <3>3 DEF align_closed_end_ms
  <2> QED BY <2>1, <2>2
<1>10. WindowsAreKnown'
  BY <1>2, <1>9 DEF WindowsAreKnown, WindowIsKnown, align_closed_end_ms
<1> QED BY <1>7, <1>8, <1>10

LEMMA StartCommandInv ==
    ASSUME Inv, StartCommand PROVE Inv'
<1>1. PICK chosen \in {Exchanges} \cup {{e} : e \in Exchanges}, timeframe \in Timeframes :
          /\ StartScript("command", timeframe)
          /\ plan' = CommandPlan(chosen, timeframe)
          /\ UNCHANGED selected
  BY DEF StartCommand
<1>2. IsPlan(plan')
  <2>1. chosen \in SUBSET Exchanges
    OBVIOUS
  <2> QED BY <1>1, <2>1, ProgramsAssumption
<1>3. selected' \subseteq Jobs /\ StartRun("command")
  BY <1>1 DEF Inv, TypeOK, StartScript
<1>4. MarketTypeOK /\ TypeOK
  BY DEF Inv, MarketInv
<1> QED BY <1>1, <1>2, <1>3, <1>4, StartScriptFacts, StartRunInv

LEMMA StartLoaderInv ==
    ASSUME Inv, StartLoader PROVE Inv'
<1>1. PICK timeframe \in Timeframes : StartScript("loader", timeframe)
  BY DEF StartLoader
<1>2. StartRun("loader") /\ selected' \subseteq Jobs /\ UNCHANGED plan
  BY DEF StartLoader, StartScript
<1>3. MarketTypeOK /\ TypeOK /\ IsPlan(plan')
  BY <1>2 DEF Inv, MarketInv, TypeOK
<1> QED BY <1>1, <1>2, <1>3, StartScriptFacts, StartRunInv

LEMMA TickInv ==
    ASSUME Inv, Tick PROVE Inv'
<1>1. /\ now < MaxTime /\ now' = now + 1
      /\ UNCHANGED <<listed, rows, window, phase, cursor, pending, tries>>
      /\ UNCHANGED <<program, plan, at, selected, started, failures, claimed, ahead, runs>>
  BY DEF Tick, marketVars, programVars
<1>2. TypeOK /\ MarketInv /\ MarketTypeOK /\ ClaimsAreKept
  BY DEF Inv, MarketInv
<1>3. now' \in 0 .. MaxTime /\ now' \in Nat /\ now <= now' /\ now \in Nat
  BY <1>1, <1>2, ProgramsAssumption DEF TypeOK, MarketTypeOK
<1>4. MarketTypeOK'
  BY <1>1, <1>2, <1>3 DEF MarketTypeOK
<1>5. TypeOK'
  <2>1. 0 .. now \subseteq 0 .. now'
    BY <1>3
  <2>2. /\ started' \in 0 .. now'
        /\ claimed' \subseteq [job : Jobs, from : Int, to : Int, started : 0 .. now']
        /\ ahead' \subseteq [timeframe : Timeframes, started : 0 .. now', to : Int]
    BY <1>1, <1>2, <2>1 DEF TypeOK
  <2> QED BY <1>1, <1>2, <1>3, <2>2 DEF TypeOK
<1>6. WindowsAreKnown'
  BY <1>1, <1>2, WindowsFrame DEF MarketInv
<1>7. CandlesAreSound'
  <2>1. RowsAreSound'
    BY <1>1, <1>2, <1>3, RowsFrame
  <2>2. ASSUME NEW j \in Jobs PROVE PendingIsSound(j)'
    <3>1. cursor'[j] \in Int /\ cursor[j] <= cursor'[j]
      BY <1>1, <1>2 DEF MarketTypeOK
    <3> QED BY <1>1, <1>2, <1>3, <3>1, PendingFrame
  <2> QED BY <2>1, <2>2 DEF CandlesAreSound
<1>8. Covered'
  <2>1. ASSUME NEW j \in Jobs PROVE CoveredOf(j)'
    <3>1. CoveredOf(j)
      BY <1>2 DEF MarketInv, Covered
    <3> QED BY <1>1, <3>1, CoveredFrame
  <2> QED BY <2>1 DEF Covered
<1>9. ProgramInv'
  BY <1>1 DEF Inv, ProgramInv, start_ms, end_ms
<1>10. ClaimsAreKept'
  BY <1>1, <1>2, ClaimsFrame
<1> QED BY <1>4, <1>5, <1>6, <1>7, <1>8, <1>9, <1>10 DEF Inv, MarketInv

\* The steps of a plan are about markets.
LEMMA PlanFacts ==
    ASSUME TypeOK
    PROVE  \A i \in 1 .. Len(plan) : plan[i] \in Steps /\ plan[i].job \in Jobs
<1>1. plan \in Seq(Steps)
  BY DEF TypeOK, IsPlan
<1>2. \A i \in 1 .. Len(plan) : plan[i] \in Steps
  BY <1>1
<1> QED BY <1>2 DEF Steps

\* A market step within a run, whatever program makes it.
LEMMA MarketStepInv ==
    ASSUME Inv, NEW job \in Jobs, MarketInv', MarketEffect(job),
           UNCHANGED <<program, plan, selected, started, claimed, ahead, runs>>,
           program # "none", at' = at, failures \subseteq failures', failures' \subseteq Steps,
           phase'[job] = "failed" => failures' # {}
    PROVE  Inv'
<1>1. TypeOK /\ ClaimsAreKept /\ ProgramInv
  BY DEF Inv
<1>2. /\ UNCHANGED <<now, listed, window, started, ahead>>
      /\ phase[job] \notin {"done", "failed"}
      /\ \A j \in Jobs \ {job} : phase'[j] = phase[j]
  BY DEF MarketEffect
<1>3. TypeOK'
  BY <1>1, <1>2 DEF TypeOK, MarketInv, MarketTypeOK
<1>4. ClaimsAreKept'
  BY <1>1, ClaimsFrame DEF MarketEffect
<1>5. \A j \in Jobs : phase[j] = "done" => phase'[j] = "done"
  BY <1>2
<1>6. \A i \in 1 .. Len(plan) : plan[i].job \in Jobs
  BY <1>1, PlanFacts
<1>7. ProgramInv'
  <2>1. program = "recovery" =>
          \A i \in 1 .. Len(plan) : i < at /\ plan[i].kind = "backfill" =>
              \/ phase'[plan[i].job] = "done"
              \/ plan[i] \in failures'
              \/ end_ms(plan[i].job) <= start_ms(plan[i].job)
    BY <1>1, <1>5, <1>6 DEF ProgramInv
  <2>2. program = "command" =>
          \A i \in 1 .. Len(plan) : i < at => phase'[plan[i].job] = "done"
    BY <1>1, <1>5, <1>6 DEF ProgramInv
  <2>3. program = "loader" =>
          \A j \in selected : phase'[j] = "failed" => failures' # {}
    <3>1. ASSUME program = "loader", NEW j \in selected, phase'[j] = "failed"
          PROVE  failures' # {}
      <4>1. j \in Jobs
        BY <1>1 DEF TypeOK
      <4>2. CASE j = job
        BY <3>1, <4>2
      <4>3. CASE j # job
        <5>1. phase[j] = "failed"
          BY <1>2, <3>1, <4>1, <4>3
        <5>2. failures # {}
          BY <1>1, <3>1, <5>1 DEF ProgramInv
        <5> QED BY <5>2
      <4> QED BY <4>2, <4>3
    <3> QED BY <3>1
  <2> QED BY <1>2, <2>1, <2>2, <2>3 DEF ProgramInv, start_ms, end_ms
<1> QED BY <1>3, <1>4, <1>7 DEF Inv

\* A serial program leaves its step behind.
LEMMA NextStepInv ==
    ASSUME Inv, HasStep, at' = at + 1,
           UNCHANGED <<now, listed, rows, window, phase, cursor, pending, tries>>,
           UNCHANGED <<program, plan, selected, started, claimed, ahead, runs>>,
           failures \subseteq failures', failures' \subseteq Steps,
           step.kind = "backfill" =>
               \/ phase[step.job] = "done"
               \/ program = "recovery" /\ end_ms(step.job) <= start_ms(step.job),
           step.kind # "backfill" => program = "recovery"
    PROVE  Inv'
<1>1. TypeOK /\ MarketInv /\ ClaimsAreKept /\ ProgramInv
  BY DEF Inv
<1>2. at \in 1 .. Len(plan) /\ Len(plan) \in Nat /\ program \in {"recovery", "command"}
  BY <1>1 DEF HasStep, TypeOK, IsPlan
<1>3. TypeOK'
  BY <1>1, <1>2 DEF TypeOK
<1>4. MarketInv'
  BY <1>1, MarketFrame
<1>5. ClaimsAreKept'
  BY <1>1, ClaimsFrame
<1>6. \A i \in 1 .. Len(plan) : i < at + 1 => i < at \/ i = at
  BY <1>2
<1>7. CASE program = "recovery"
  <2>1. \A i \in 1 .. Len(plan) : i < at + 1 /\ plan[i].kind = "backfill" =>
              \/ phase[plan[i].job] = "done"
              \/ plan[i] \in failures'
              \/ end_ms(plan[i].job) <= start_ms(plan[i].job)
    BY <1>1, <1>6, <1>7 DEF ProgramInv, step
  <2> QED BY <1>3, <1>4, <1>5, <1>7, <2>1 DEF Inv, ProgramInv, start_ms, end_ms
<1>8. CASE program = "command"
  <2>1. \A i \in 1 .. Len(plan) : i < at + 1 => phase[plan[i].job] = "done"
    BY <1>1, <1>6, <1>8 DEF ProgramInv, step
  <2> QED BY <1>3, <1>4, <1>5, <1>8, <2>1 DEF Inv, ProgramInv
<1> QED BY <1>2, <1>7, <1>8

\* The step a serial program is at.
LEMMA StepFacts ==
    ASSUME Inv, HasStep
    PROVE  step \in Steps /\ step.job \in Jobs /\ at \in 1 .. Len(plan)
<1>1. plan \in Seq(Steps) /\ at \in 1 .. Len(plan)
  BY DEF Inv, TypeOK, IsPlan, HasStep
<1>2. step \in Steps
  BY <1>1 DEF step
<1> QED BY <1>1, <1>2 DEF Steps

LEMMA SerialInv ==
    ASSUME Inv, SerialBegin \/ SerialWork \/ SerialReturn \/ SkipEmptySeconds \/ RepairSeconds
    PROVE  Inv'
<1>1. TypeOK /\ MarketInv
  BY DEF Inv
<1>2. CASE SerialBegin \/ SerialWork
  <2>1. /\ HasStep
        /\ UNCHANGED <<program, plan, at, selected, started, failures, claimed, ahead, runs>>
        /\ BeginMarket(step.job) \/ Page(step.job) \/ AskAgain(step.job) \/ Flush(step.job)
    BY <1>2 DEF SerialBegin, SerialWork, programVars
  <2>2. step.job \in Jobs
    BY <2>1, StepFacts
  <2>3. MarketInv' /\ MarketEffect(step.job) /\ phase'[step.job] # "failed"
    BY <1>1, <2>1, <2>2, WorkFacts
  <2>4. program # "none" /\ failures \subseteq Steps
    BY <1>1, <2>1 DEF HasStep, TypeOK
  <2> QED BY <2>1, <2>2, <2>3, <2>4, MarketStepInv
<1>3. CASE SerialReturn
  <2>1. /\ HasStep /\ step.kind = "backfill" /\ phase[step.job] = "done" /\ at' = at + 1
        /\ UNCHANGED <<now, listed, rows, window, phase, cursor, pending, tries>>
        /\ UNCHANGED <<program, plan, selected, started, failures, claimed, ahead, runs>>
    BY <1>3 DEF SerialReturn, marketVars
  <2>2. failures \subseteq Steps
    BY <1>1 DEF TypeOK
  <2> QED BY <2>1, <2>2, NextStepInv
<1>4. CASE SkipEmptySeconds
  <2>1. /\ HasStep /\ at' = at + 1
        /\ program = "recovery" /\ end_ms(step.job) <= start_ms(step.job)
        /\ UNCHANGED <<now, listed, rows, window, phase, cursor, pending, tries>>
        /\ UNCHANGED <<program, plan, selected, started, failures, claimed, ahead, runs>>
    BY <1>4 DEF SkipEmptySeconds, IsSkipped, marketVars
  <2>2. failures \subseteq Steps
    BY <1>1 DEF TypeOK
  <2> QED BY <2>1, <2>2, NextStepInv
<1>5. CASE RepairSeconds
  <2>1. /\ HasStep /\ at' = at + 1 /\ program = "recovery" /\ step.kind = "repair"
        /\ failures' \in {failures, failures \cup {step}}
        /\ UNCHANGED <<now, listed, rows, window, phase, cursor, pending, tries>>
        /\ UNCHANGED <<program, plan, selected, started, claimed, ahead, runs>>
    BY <1>5 DEF RepairSeconds, marketVars
  <2>2. failures \subseteq Steps /\ step \in Steps
    BY <1>1, <2>1, StepFacts DEF TypeOK
  <2>3. failures \subseteq failures' /\ failures' \subseteq Steps
    BY <2>1, <2>2
  <2> QED BY <2>1, <2>3, NextStepInv
<1> QED BY <1>2, <1>3, <1>4, <1>5

\* A failed step of a recovery is recorded and left behind at once.
LEMMA RecoveryStepFailsInv ==
    ASSUME Inv, RecoveryStepFails PROVE Inv'
<1>1. /\ program = "recovery" /\ HasStep /\ step.kind = "backfill" /\ Raise(step.job)
      /\ failures' = failures \cup {step} /\ at' = at + 1
      /\ UNCHANGED <<program, plan, selected, started, claimed, ahead, runs>>
  BY DEF RecoveryStepFails
<1>2. TypeOK /\ MarketInv /\ ClaimsAreKept /\ ProgramInv
  BY DEF Inv
<1>3. step \in Steps /\ step.job \in Jobs /\ at \in 1 .. Len(plan)
  BY <1>1, StepFacts
<1>4. MarketInv' /\ MarketEffect(step.job)
  BY <1>1, <1>2, <1>3, RaiseFacts
<1>5. UNCHANGED <<now, listed, window, started, ahead>>
  BY <1>4 DEF MarketEffect
<1>6. TypeOK'
  <2>1. Len(plan) \in Nat
    BY <1>2 DEF TypeOK, IsPlan
  <2>2. at' \in 1 .. Len(plan') + 1 /\ failures' \subseteq Steps
    BY <1>1, <1>2, <1>3, <2>1 DEF TypeOK
  <2>3. MarketTypeOK'
    BY <1>4 DEF MarketInv
  <2>4. /\ now' \in 0 .. MaxTime /\ listed' \in Listings
        /\ IsPlan(plan') /\ selected' \subseteq Jobs /\ runs' \in 0 .. MaxRuns
        /\ claimed' \subseteq [job : Jobs, from : Int, to : Int, started : 0 .. now']
        /\ started' \in 0 .. now'
        /\ ahead' \subseteq [timeframe : Timeframes, started : 0 .. now', to : Int]
        /\ program' \in {"none", "recovery", "command", "loader"}
    BY <1>1, <1>2, <1>5 DEF TypeOK
  <2> QED BY <2>2, <2>3, <2>4 DEF TypeOK, MarketTypeOK
<1>7. ClaimsAreKept'
  BY <1>1, <1>2, <1>4, ClaimsFrame DEF MarketEffect
<1>8. ProgramInv'
  <2>1. \A i \in 1 .. Len(plan) : plan[i].job \in Jobs
    BY <1>2, PlanFacts
  <2>2. \A j \in Jobs : phase[j] = "done" => phase'[j] = "done"
    BY <1>4 DEF MarketEffect
  <2>3. \A i \in 1 .. Len(plan) : i < at + 1 => i < at \/ i = at
    BY <1>3
  <2>4. plan[at] \in failures'
    BY <1>1 DEF step
  <2>5. \A i \in 1 .. Len(plan) : i < at + 1 /\ plan[i].kind = "backfill" =>
              \/ phase'[plan[i].job] = "done"
              \/ plan[i] \in failures'
              \/ end_ms(plan[i].job) <= start_ms(plan[i].job)
    BY <1>1, <1>2, <2>1, <2>2, <2>3, <2>4 DEF ProgramInv
  <2> QED BY <1>1, <1>5, <2>5 DEF ProgramInv, start_ms, end_ms
<1> QED BY <1>4, <1>6, <1>7, <1>8 DEF Inv

LEMMA LoaderInv ==
    ASSUME Inv, Loader PROVE Inv'
<1>1. PICK job \in selected :
          \/ LoaderBegin(job) \/ LoaderPage(job) \/ LoaderAskAgain(job) \/ LoaderFlush(job)
          \/ LoaderMarketFails(job)
  BY DEF Loader
<1>2. TypeOK /\ MarketInv
  BY DEF Inv
<1>3. job \in Jobs /\ failures \subseteq Steps
  BY <1>2 DEF TypeOK
<1>4. CASE LoaderBegin(job) \/ LoaderPage(job) \/ LoaderAskAgain(job) \/ LoaderFlush(job)
  <2>1. /\ program = "loader"
        /\ UNCHANGED <<program, plan, at, selected, started, failures, claimed, ahead, runs>>
        /\ BeginMarket(job) \/ Page(job) \/ AskAgain(job) \/ Flush(job)
    BY <1>4 DEF LoaderBegin, LoaderPage, LoaderAskAgain, LoaderFlush, programVars
  <2>2. MarketInv' /\ MarketEffect(job) /\ phase'[job] # "failed"
    BY <1>2, <1>3, <2>1, WorkFacts
  <2> QED BY <1>3, <2>1, <2>2, MarketStepInv
<1>5. CASE LoaderMarketFails(job)
  <2> DEFINE failure == [kind |-> "backfill", job |-> job]
  <2>1. /\ program = "loader" /\ Raise(job)
        /\ failures' = failures \cup {failure}
        /\ UNCHANGED <<program, plan, at, selected, started, claimed, ahead, runs>>
    BY <1>5 DEF LoaderMarketFails, programVars
  <2>2. failure \in Steps
    BY <1>3 DEF Steps
  <2>3. MarketInv' /\ MarketEffect(job)
    BY <1>2, <1>3, <2>1, RaiseFacts
  <2>4. failures \subseteq failures' /\ failures' \subseteq Steps /\ failures' # {}
    BY <1>3, <2>1, <2>2
  <2> QED BY <1>3, <2>1, <2>3, <2>4, MarketStepInv
<1> QED BY <1>1, <1>4, <1>5

\* What the three programs report is stored when they report it.
LEMMA FinishInv ==
    ASSUME Inv, FinishRecovery \/ FinishCommand \/ FinishLoader
    PROVE  Inv'
<1>1. TypeOK /\ MarketInv /\ MarketTypeOK /\ ProgramInv
  BY DEF Inv, MarketInv
<1>2. ASSUME NEW j \in Jobs, phase[j] = "done" \/ end_ms(j) <= start_ms(j)
      PROVE  \A open \in Offered(j, start_ms(j), end_ms(j), started) : FinalCandle(j, open) \in rows
  <2>1. CASE phase[j] = "done"
    BY <1>1, <2>1 DEF MarketInv, Covered, CoveredOf
  <2>2. CASE end_ms(j) <= start_ms(j)
    <3>1. end_ms(j) \in Int /\ start_ms(j) \in Int /\ listed[j] \subseteq Nat
      BY <1>1, JobFacts
    <3>2. Offered(j, start_ms(j), end_ms(j), started) = {}
      BY <2>2, <3>1 DEF Offered
    <3> QED BY <3>2
  <2> QED BY <1>2, <2>1, <2>2
<1>3. ASSUME at > Len(plan) PROVE \A i \in 1 .. Len(plan) : i < at
  <2>1. Len(plan) \in Nat /\ at \in Nat
    BY <1>1 DEF TypeOK, IsPlan
  <2> QED BY <1>3, <2>1
<1>4. CASE FinishRecovery
  <2>1. program = "recovery" /\ at > Len(plan) /\ EndRun(RecoveryClaims)
    BY <1>4 DEF FinishRecovery
  <2>2. RecoveryClaims \in SUBSET Jobs
    BY <1>1, PlanFacts DEF RecoveryClaims
  <2>3. ASSUME NEW j \in RecoveryClaims
        PROVE  phase[j] = "done" \/ end_ms(j) <= start_ms(j)
    <3>1. PICK i \in 1 .. Len(plan) :
              plan[i].kind = "backfill" /\ plan[i] \notin failures /\ j = plan[i].job
      BY DEF RecoveryClaims
    <3>2. i < at
      BY <1>3, <2>1
    <3> QED BY <1>1, <2>1, <3>1, <3>2 DEF ProgramInv
  <2> QED BY <1>2, <2>1, <2>2, <2>3, EndRunInv
<1>5. CASE FinishCommand
  <2> DEFINE claims == {plan[i].job : i \in 1 .. Len(plan)}
  <2>1. program = "command" /\ at > Len(plan) /\ EndRun(claims)
    BY <1>5 DEF FinishCommand
  <2>2. claims \in SUBSET Jobs
    BY <1>1, PlanFacts
  <2>3. \A j \in claims : phase[j] = "done"
    BY <1>1, <1>3, <2>1 DEF ProgramInv
  <2> HIDE DEF claims
  <2> QED BY <1>2, <2>1, <2>2, <2>3, EndRunInv
<1>6. CASE FinishLoader
  <2> DEFINE claims == IF failures = {} THEN selected ELSE {}
  <2>1. /\ program = "loader" /\ EndRun(claims)
        /\ \A j \in selected : phase[j] \in {"done", "failed"}
    BY <1>6 DEF FinishLoader
  <2>2. claims \in SUBSET Jobs
    BY <1>1 DEF TypeOK
  <2>3. \A j \in claims : phase[j] = "done"
    BY <1>1, <2>1 DEF ProgramInv
  <2> HIDE DEF claims
  <2> QED BY <1>2, <2>1, <2>2, <2>3, EndRunInv
<1> QED BY <1>4, <1>5, <1>6

\* A killed run claims nothing.
LEMMA AbandonInv ==
    ASSUME Inv, Abandon \/ CommandFails PROVE Inv'
<1>1. EndRun({})
  BY DEF Abandon, CommandFails
<1>2. {} \in SUBSET Jobs
  OBVIOUS
<1>3. \A j \in {} : \A open \in Offered(j, start_ms(j), end_ms(j), started) : FinalCandle(j, open) \in rows
  OBVIOUS
<1> QED BY <1>1, <1>2, <1>3, EndRunInv
-----------------------------------------------------------------------------
LEMMA InitInv == Init => Inv
<1> SUFFICES ASSUME Init PROVE Inv
  OBVIOUS
<1>1. /\ now \in 0 .. MaxTime /\ now \in Nat /\ MaxRuns \in Nat
      /\ MaxRetries \in Nat
  BY ProgramsAssumption, BackfillAssumption DEF Init
<1>2. MarketTypeOK
  <2>1. NoTries \in [url : Nat, attempt : 0 .. MaxRetries]
    BY <1>1 DEF NoTries
  <2>2. NoWindow \in [Timeframes -> [from : Int, to : Int]]
    BY DEF NoWindow
  <2> QED BY <1>1, <2>1, <2>2 DEF Init, NoMarkets, MarketTypeOK, Phases
<1>3. WindowsAreKnown
  <2>1. ASSUME NEW tf \in Timeframes
        PROVE  align_closed_end_ms(window[tf].to, tf) = window[tf].to /\ window[tf].to <= 0
    <3>1. Interval[tf] \in Nat \ {0}
      BY BackfillAssumption DEF Timeframes
    <3>2. (0 \div Interval[tf]) * Interval[tf] = 0
      BY <3>1
    <3>3. window[tf].to = 0
      BY DEF Init, NoWindow
    <3> QED BY <3>2, <3>3 DEF align_closed_end_ms
  <2> QED BY <2>1 DEF Init, WindowsAreKnown, WindowIsKnown
<1>4. CandlesAreSound /\ Covered
  BY DEF Init, NoMarkets, CandlesAreSound, RowsAreSound, PendingIsSound, Covered, CoveredOf, Active
<1>5. TypeOK
  <2>1. IsPlan(<<>>)
    BY DEF IsPlan
  <2> QED BY <1>1, <1>2, <2>1 DEF Init, TypeOK, MarketTypeOK
<1>6. ProgramInv /\ ClaimsAreKept
  BY DEF Init, NoMarkets, ProgramInv, ClaimsAreKept
<1> QED BY <1>2, <1>3, <1>4, <1>5, <1>6 DEF Inv, MarketInv

LEMMA NextInv == Inv /\ [Next]_vars => Inv'
<1> SUFFICES ASSUME Inv, [Next]_vars PROVE Inv'
  OBVIOUS
<1>1. CASE Tick
  BY <1>1, TickInv
<1>2. CASE StartRecovery
  BY <1>2, StartRecoveryInv
<1>3. CASE StartCommand
  BY <1>3, StartCommandInv
<1>4. CASE StartLoader
  BY <1>4, StartLoaderInv
<1>5. CASE Abandon \/ CommandFails
  BY <1>5, AbandonInv
<1>6. CASE SerialBegin \/ SerialWork \/ SerialReturn \/ SkipEmptySeconds \/ RepairSeconds
  BY <1>6, SerialInv
<1>7. CASE RecoveryStepFails
  BY <1>7, RecoveryStepFailsInv
<1>8. CASE FinishRecovery \/ FinishCommand \/ FinishLoader
  BY <1>8, FinishInv
<1>9. CASE Loader
  BY <1>9, LoaderInv
<1>10. CASE UNCHANGED vars
  <2>1. /\ UNCHANGED <<now, listed, rows, window, phase, cursor, pending, tries>>
        /\ UNCHANGED <<program, plan, at, selected, started, failures, claimed, ahead, runs>>
    BY <1>10 DEF vars
  <2>2. TypeOK'
    BY <2>1 DEF Inv, TypeOK
  <2>3. MarketInv'
    BY <2>1, MarketFrame DEF Inv
  <2>4. ProgramInv'
    BY <2>1 DEF Inv, ProgramInv, start_ms, end_ms
  <2>5. ClaimsAreKept'
    BY <2>1, ClaimsFrame DEF Inv
  <2> QED BY <2>2, <2>3, <2>4, <2>5 DEF Inv
<1> QED BY <1>1, <1>2, <1>3, <1>4, <1>5, <1>6, <1>7, <1>8, <1>9, <1>10 DEF Next, Work

\* The inductive invariant holds in every reachable state.
THEOREM InvHolds == Spec => []Inv
<1> QED BY InitInv, NextInv, PTL DEF Spec

\* The types of all the state of the backfill programs, for any constants.
THEOREM TypesHold == Spec => []TypeOK
<1>1. Inv => TypeOK
  BY DEF Inv
<1> QED BY <1>1, InvHolds, PTL

\* Whatever a recovery, a serial or a parallel load reports as imported is in
\* historical_candles in its final form, and nothing else is in its place, for
\* any number of markets, page and batch sizes, retry budgets, failures and kills,
\* and any --until-ms (backfill_market and its three callers).
THEOREM ClaimsHold == Spec => []ClaimedIsStored
<1>1. Inv => ClaimedIsStored
  <2> SUFFICES ASSUME Inv, NEW c \in claimed, NEW open \in Offered(c.job, c.from, c.to, c.started)
               PROVE  /\ FinalCandle(c.job, open) \in rows
                      /\ \A row \in rows : row.job = c.job /\ row.open = open => row.final
    BY DEF ClaimedIsStored
  <2>1. FinalCandle(c.job, open) \in rows
    BY DEF Inv, ClaimsAreKept
  <2>2. /\ FinalCandle(c.job, open).job = c.job /\ FinalCandle(c.job, open).open = open
        /\ FinalCandle(c.job, open).final
    BY DEF FinalCandle
  <2>3. \A row \in rows : row.job = c.job /\ row.open = open => row = FinalCandle(c.job, open)
    BY <2>1, <2>2 DEF Inv, MarketInv, CandlesAreSound, RowsAreSound
  <2> QED BY <2>1, <2>2, <2>3
<1> QED BY <1>1, InvHolds, PTL

\* historical_candles holds a candle the exchange may still change only where a
\* loader was sent for it before it was over, with an --until-ms in the future,
\* and never two rows of one market, timeframe and open time.
THEOREM RowsHold == Spec => []FormingWasAskedFor
<1>1. Inv => FormingWasAskedFor
  BY DEF Inv, MarketInv, CandlesAreSound, RowsAreSound, IsSound, AskedFor, FormingWasAskedFor
<1> QED BY <1>1, InvHolds, PTL
=============================================================================
