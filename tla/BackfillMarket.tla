--------------------------- MODULE BackfillMarket ---------------------------
(***************************************************************************)
(* One market's backfill: the loop of backfill_market, which walks an      *)
(* interval of an exchange's public klines page by page, retries a request *)
(* over the exchange's base URLs, and upserts what it loads into the table *)
(* historical_candles in batches.  The same loop runs in the server's      *)
(* recovery and in both command-line loaders (BackfillPrograms).           *)
(*                                                                         *)
(* Time is in units of the shortest interval.  A candle is its job and its *)
(* open time, and whether the exchange still changes it; its prices are    *)
(* the exchange's and no step of this code computes with them.             *)
(***************************************************************************)
EXTENDS Integers, FiniteSets

CONSTANTS
    Exchanges,      \* names of exchanges, {"binance", "bybit"} in the code
    Symbols,        \* the exchanges that list an instrument, by instrument
    Interval,       \* INTERVAL_MS, by timeframe
    Limit,          \* candles asked for per request
    BatchSize,      \* pending candles that are written at once
    MaxRetries,     \* repetitions of a request to one base URL
    BaseUrls        \* number of base URLs, by exchange

Timeframes == DOMAIN Interval

ASSUME BackfillAssumption ==
    /\ Symbols \in [DOMAIN Symbols -> SUBSET Exchanges]
    /\ Interval \in [DOMAIN Interval -> Nat \ {0}]
    /\ Limit \in Nat \ {0}
    /\ BatchSize \in Nat \ {0}
    /\ MaxRetries \in Nat
    /\ BaseUrls \in [Exchanges -> Nat \ {0}]

\* What one call of backfill_market is for.
Jobs == {j \in [exchange : Exchanges, instrument : DOMAIN Symbols, timeframe : Timeframes] :
            j.exchange \in Symbols[j.instrument]}

VARIABLES
    now,        \* the clock, the same for the exchanges and this host
    listed,     \* job -> the open times for which the exchange has a candle
    rows,       \* historical_candles
    window,     \* timeframe -> start_ms and end_ms of the running program
    phase,      \* job -> where its call of backfill_market stands
    cursor,     \* job -> cursor
    pending,    \* job -> pending, the candles loaded and not written yet
    tries       \* job -> the base URL in use and the attempts made on it

marketVars == <<phase, cursor, pending, tries>>

Phases == {"idle", "asking", "storing", "closing", "done", "failed"}
Active == {"asking", "storing", "closing"}

interval(job) == Interval[job.timeframe]
end_ms(job) == window[job.timeframe].to
start_ms(job) == window[job.timeframe].from

\* A candle as the exchange reports it at this moment; it is final once its
\* interval is over.
HistoricalCandle(job, open) ==
    [job |-> job, open |-> open, final |-> open + interval(job) <= now]
FinalCandle(job, open) == [job |-> job, open |-> open, final |-> TRUE]
Candles == [job : Jobs, open : Nat, final : BOOLEAN]

\* Mutant of align_closed_end_ms: the end is rounded up, to the interval that is still open.
align_open_end_ms(time, timeframe) ==
    ((time + Interval[timeframe] - 1) \div Interval[timeframe]) * Interval[timeframe]

align_closed_end_ms(time, timeframe) ==
    (time \div Interval[timeframe]) * Interval[timeframe]

\* The open times a timeframe has.
OpenTimes(timeframe) == {time \in Nat : align_closed_end_ms(time, timeframe) = time}

\* bybit's kline endpoint has no seconds.
supports_rest_timeframe(exchange, timeframe) == ~(exchange = "bybit" /\ timeframe = "1s")

NoTries == [url |-> 1, attempt |-> 0]
NoMarkets ==
    /\ phase = [j \in Jobs |-> "idle"]
    /\ cursor = [j \in Jobs |-> 0]
    /\ pending = [j \in Jobs |-> {}]
    /\ tries = [j \in Jobs |-> NoTries]

\* The loop goes on while the cursor is before the end, then writes the rest.
PhaseAt(job, time) == IF time < end_ms(job) THEN "asking" ELSE "closing"

BeginMarket(job) ==
    /\ phase[job] = "idle"
    /\ phase' = [phase EXCEPT ![job] = PhaseAt(job, start_ms(job))]
    /\ cursor' = [cursor EXCEPT ![job] = start_ms(job)]
    /\ UNCHANGED <<now, listed, rows, window, pending, tries>>
-----------------------------------------------------------------------------
\* One request asks for Limit intervals from the cursor.  The range holds at
\* most Limit candles, which is at most what the exchanges put in one answer.
RequestEnd(job) ==
    IF cursor[job] + Limit * interval(job) < end_ms(job)
    THEN cursor[job] + Limit * interval(job)
    ELSE end_ms(job)

\* The answer of an exchange: the candles that open in the range, and with
\* `early` the candle in which a start that is not aligned falls.
Answer(job, early) ==
    {open \in listed[job] :
        cursor[job] - early <= open /\ open < RequestEnd(job) /\ open <= now}
Earliness(job) == {0, interval(job) - 1}

\* Mutant of Kept: the candle at the cursor is taken for one of the page before.
KeptAfterCursor(job, answer) ==
    {open \in answer : cursor[job] < open /\ open < end_ms(job)}

\* What backfill_market keeps of the answer.
Kept(job, answer) == {open \in answer : cursor[job] <= open /\ open < end_ms(job)}

\* Mutant of EmptyPage: an empty page is asked for again.
EmptyPageAgain(job) ==
    /\ phase[job] = "asking"
    /\ \E early \in Earliness(job) : Kept(job, Answer(job, early)) = {}
    /\ tries' = [tries EXCEPT ![job] = NoTries]
    /\ UNCHANGED <<now, listed, rows, window, phase, cursor, pending>>

EmptyPage(job) ==
    /\ phase[job] = "asking"
    /\ \E early \in Earliness(job) : Kept(job, Answer(job, early)) = {}
    /\ cursor' = [cursor EXCEPT ![job] = @ + Limit * interval(job)]
    /\ phase' = [phase EXCEPT ![job] = PhaseAt(job, cursor'[job])]
    /\ tries' = [tries EXCEPT ![job] = NoTries]
    /\ UNCHANGED <<now, listed, rows, window, pending>>

LoadPage(job) ==
    /\ phase[job] = "asking"
    /\ \E early \in Earliness(job) :
          LET page == Kept(job, Answer(job, early)) IN
            \E last \in page :
                /\ \A open \in page : open <= last
                /\ cursor' = [cursor EXCEPT ![job] = last + interval(job)]
                /\ pending' = [pending EXCEPT ![job] =
                                  @ \cup {HistoricalCandle(job, open) : open \in page}]
    /\ phase' = [phase EXCEPT ![job] =
                    IF Cardinality(pending'[job]) >= BatchSize THEN "storing"
                    ELSE PhaseAt(job, cursor'[job])]
    /\ tries' = [tries EXCEPT ![job] = NoTries]
    /\ UNCHANGED <<now, listed, rows, window>>

\* Mutant of RetryRequest: attempt <= max_retries.
RetryOnceMore(job) ==
    /\ phase[job] = "asking"
    /\ tries[job].attempt <= MaxRetries
    /\ tries' = [tries EXCEPT ![job].attempt = @ + 1]
    /\ UNCHANGED <<now, listed, rows, window, phase, cursor, pending>>

\* The exchange is overloaded, or does not answer in time: the same request
\* once more, up to MaxRetries times.
RetryRequest(job) ==
    /\ phase[job] = "asking"
    /\ tries[job].attempt < MaxRetries
    /\ tries' = [tries EXCEPT ![job].attempt = @ + 1]
    /\ UNCHANGED <<now, listed, rows, window, phase, cursor, pending>>

\* The retries are used up, or the error is one that is not repeated, or the
\* answer cannot be read: the same request at the next base URL.
TryNextUrl(job) ==
    /\ phase[job] = "asking"
    /\ tries[job].url < BaseUrls[job.exchange]
    /\ tries' = [tries EXCEPT ![job] = [url |-> @.url + 1, attempt |-> 0]]
    /\ UNCHANGED <<now, listed, rows, window, phase, cursor, pending>>

\* INSERT ... ON CONFLICT DO UPDATE, one row per job and open time.
Upserted(table, candles) ==
    {row \in table : \A c \in candles : <<c.job, c.open>> # <<row.job, row.open>>} \cup candles

\* A batch within the loop, or what is left after it.
Flush(job) ==
    /\ phase[job] \in {"storing", "closing"}
    /\ rows' = Upserted(rows, pending[job])
    /\ pending' = [pending EXCEPT ![job] = {}]
    /\ phase' = [phase EXCEPT ![job] =
                    IF @ = "closing" THEN "done" ELSE PhaseAt(job, cursor[job])]
    /\ UNCHANGED <<now, listed, window, cursor, tries>>

\* An error that leaves backfill_market: the last base URL has failed too, or
\* the database refused a batch.  What was pending is lost with the call.
CanRaise(job) ==
    \/ phase[job] = "asking" /\ tries[job].url = BaseUrls[job.exchange]
    \/ phase[job] \in {"storing", "closing"} /\ pending[job] # {}

Raise(job) ==
    /\ CanRaise(job)
    /\ phase' = [phase EXCEPT ![job] = "failed"]
    /\ pending' = [pending EXCEPT ![job] = {}]
    /\ UNCHANGED <<now, listed, rows, window, cursor, tries>>

\* A page has come, or has to be asked for once more.
Page(job) == EmptyPage(job) \/ LoadPage(job)
AskAgain(job) == RetryRequest(job) \/ TryNextUrl(job)
=============================================================================
