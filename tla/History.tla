------------------------------- MODULE History -------------------------------
(***************************************************************************)
(* The candle history that the REST API serves page by page                *)
(* (service.candle_history), and where it comes from: the current candles, *)
(* the imported ones and their rollups (database.candle_history), the raw  *)
(* trades (database.raw_trade_candle_history), or the candles in memory    *)
(* (history.aggregate_memory_candles).  A client asks for the newest page  *)
(* of one market and then, with nextBefore, for older ones, while seconds  *)
(* are finalized and revised, candles are imported, trades are dropped,    *)
(* and the database fails.                                                 *)
(*                                                                         *)
(* Time is in seconds.  A served candle is the set of rows it is made of:  *)
(* its prices and volumes are functions of them.                           *)
(***************************************************************************)
EXTENDS Integers, FiniteSets, Sequences

CONSTANTS
    TIMEFRAME_SECONDS,  \* seconds of a timeframe
    PersistedTimeframes,\* PERSISTED_TIMEFRAMES, the others are rolled up per request
    Minute,             \* seconds of an imported minute
    Retention,          \* ONE_SECOND_RETENTION_MS
    RawRetention,       \* raw_trade_retention_hours
    StableDelay,        \* stable_chart_delay_ms
    Lateness,           \* allowed_lateness_ms
    CandleLimit,        \* store.candle_limit
    Limits,             \* the page sizes a client may ask for
    Archives,           \* what the tables and the memory may hold at first
    MaxRecovered,       \* bound: seconds revised by late trades
    MaxTime             \* bound: the clock stops here

Timeframes == DOMAIN TIMEFRAME_SECONDS
Seconds(timeframe) == TIMEFRAME_SECONDS[timeframe]

ASSUME HistoryAssumption ==
    /\ TIMEFRAME_SECONDS \in [Timeframes -> Nat \ {0}]
    /\ PersistedTimeframes \subseteq Timeframes
    /\ Minute \in Nat \ {0, 1}
    /\ \A tf \in PersistedTimeframes : Seconds(tf) % Minute = 0
    /\ Retention \in Nat \ {0} /\ RawRetention \in Nat /\ StableDelay \in Nat /\ Lateness \in Nat
    /\ CandleLimit \in Nat \ {0} /\ Limits \subseteq Nat \ {0} /\ MaxTime \in Nat /\ MaxRecovered \in Nat

Statuses == {"complete", "complete_empty", "recovered", "incomplete"}
Sources == {"timescaledb", "historical_candles", "binance_proxy_1s"}

\* A row of candles or of historical_candles: `span` seconds from `time`.
Rows == [time : Nat, span : {1, Minute}, source : Sources, status : Statuses, traded : BOOLEAN]
LiveRow(time, status, traded) ==
    [time |-> time, span |-> 1, source |-> "timescaledb", status |-> status, traded |-> traded]

\* The primary key of historical_candles (and of the current rows of candles,
\* which all have one source).
KeyIsUnique(rows) ==
    \A row, other \in rows :
        row.time = other.time /\ row.span = other.span /\ row.source = other.source => row = other

\* A table of candles, all of them closed: the allowed lateness has passed.
IsLive(rows, time) ==
    /\ rows \subseteq Rows /\ IsFiniteSet(rows) /\ KeyIsUnique(rows)
    /\ \A row \in rows :
          row.span = 1 /\ row.source = "timescaledb" /\ row.time < time - Lateness

\* A table of imported candles, where minutes open on the minute and are only
\* read for the exchange they are from.
IsHistorical(rows) ==
    /\ rows \subseteq Rows /\ IsFiniteSet(rows) /\ KeyIsUnique(rows)
    /\ \A row \in rows :
          /\ row.source # "timescaledb"
          /\ row.span = Minute => row.source = "historical_candles" /\ row.time % Minute = 0

ASSUME ArchivesAssumption ==
    \A archive \in Archives :
        /\ archive.now \in Lateness .. MaxTime
        /\ IsLive(archive.live, archive.now)
        /\ IsHistorical(archive.imported \cup archive.importable)
        /\ archive.trades \subseteq Nat
        /\ archive.memory \in Seq(Rows) /\ Len(archive.memory) <= CandleLimit

VARIABLES
    now,        \* the clock
    live,       \* the current rows of candles
    imported,   \* historical_candles: seconds, minutes, and the proxy's seconds
    importable, \* what a backfill may still import
    trades,     \* the seconds that have raw trades
    memory,     \* the market's candles in the store, in the order of apply_candle
    timeframe,  \* what the client looks at
    limit,      \* and how many candles it asks for
    phase,      \* where the request stands
    request,    \* its resolved range
    page,       \* the page found so far
    response,   \* the last response
    delivered   \* the open times of the responses before it

tables == <<now, live, imported, importable, trades, memory>>
client == <<timeframe, limit, phase, request, page, response, delivered>>
vars == <<tables, client>>

NoPage == [source |-> "none", from |-> 0, to |-> 0, candles |-> {}, has_more |-> FALSE,
           stored |-> {}]
Opens(p) == {c.open : c \in p.candles}
NoRequest == [now |-> 0, from |-> 0, to |-> 0]

Init ==
    /\ \E archive \in Archives :
          /\ now = archive.now /\ live = archive.live
          /\ imported = archive.imported /\ importable = archive.importable
          /\ trades = archive.trades /\ memory = archive.memory
    /\ timeframe \in Timeframes /\ limit \in Limits
    /\ phase = "idle" /\ request = NoRequest /\ page = NoPage
    /\ response = NoPage /\ delivered = {}

Latest(a, b) == IF a > b THEN a ELSE b
Earliest(a, b) == IF a < b THEN a ELSE b
Floored(time) == (time \div Seconds(timeframe)) * Seconds(timeframe)
-----------------------------------------------------------------------------
\* A bucket that one row fills has the status of the row.  Another one is
\* incomplete while seconds of it are missing.
SecondsOf(rows) == UNION {row.time .. row.time + row.span - 1 : row \in rows}

IsIncomplete(rows, expected) ==
    Cardinality(SecondsOf(rows)) < expected \/ \E row \in rows : row.status = "incomplete"
RollupStatus(rows, expected) ==
    IF IsIncomplete(rows, expected) THEN "incomplete"
    ELSE IF \E row \in rows : row.status = "recovered" THEN "recovered"
    ELSE IF \E row \in rows : row.traded THEN "complete" ELSE "complete_empty"

Status(rows, expected) ==
    IF \E row \in rows : row.span = expected THEN (CHOOSE row \in rows : TRUE).status
    ELSE RollupStatus(rows, expected)

Candle(open, rows) ==
    [open |-> open, rows |-> rows, status |-> Status(rows, Seconds(timeframe))]

\* GROUP BY time_bucket(open_time).
Rollup(rows) ==
    {Candle(open, {row \in rows : Floored(row.time) = open}) :
        open \in {Floored(row.time) : row \in rows}}

\* ORDER BY open_time DESC LIMIT count.
NewestRows(rows, count) ==
    {row \in rows : Cardinality({other \in rows : other.time > row.time}) < count}
Newest(candles, count) ==
    {c \in candles : Cardinality({other \in candles : other.open > c.open}) < count}

\* One row per second: an imported one, a live one, or the proxy's.
Priority(row) ==
    IF row.source = "historical_candles" THEN 3 ELSE IF row.source = "timescaledb" THEN 2 ELSE 1
Ranked(rows) ==
    {row \in rows : \A other \in rows : other.time = row.time => Priority(other) <= Priority(row)}

StoredSeconds == live \cup {row \in imported : row.span = 1}
StoredMinutes == {row \in imported : row.span = Minute}

\* Mutant of source_fetch_limit: the rows are cut off like the candles.
source_fetch_limit_in_candles == limit + 1

\* _one_second_history_sql and _runtime_rollup_sql.
source_fetch_limit == (limit + 2) * Seconds(timeframe)

\* Mutant of RuntimeCandles: `to` belongs to the range.
RuntimeCandlesThrough(from, to) ==
    Rollup(NewestRows(Ranked({row \in StoredSeconds : from <= row.time /\ row.time <= to}),
                      source_fetch_limit))

RuntimeCandles(from, to) ==
    Rollup(NewestRows(Ranked({row \in StoredSeconds : from <= row.time /\ row.time < to}),
                      source_fetch_limit))

\* _persisted_rollup_sql: imported minutes take the place of the view's bucket.
PersistedCandles(from, to) ==
    LET historical == Rollup({row \in StoredMinutes : from <= row.time /\ row.time < to})
        persisted == {c \in Rollup(live) : from <= c.open /\ c.open < to}
    IN  historical \cup {c \in persisted : \A h \in historical : h.open # c.open}

StoredCandles(from, to) ==
    IF timeframe \in PersistedTimeframes THEN PersistedCandles(from, to) ELSE RuntimeCandles(from, to)

\* The persisted timeframes do not say which table a row is from.
_history_page_source(candles) ==
    LET sources == {row.source : row \in UNION {c.rows : c \in candles}} IN
        IF timeframe \in PersistedTimeframes THEN "timescaledb"
        ELSE IF "binance_proxy_1s" \in sources THEN "binance_proxy_1s"
        ELSE IF "historical_candles" \in sources THEN "historical_candles"
        ELSE "timescaledb"

\* When the rows open that the tables have for a range, for the properties.
StoredTimes(from, to) ==
    {row.time : row \in {r \in IF timeframe \in PersistedTimeframes THEN live \cup StoredMinutes
                              ELSE StoredSeconds : from <= Floored(r.time) /\ r.time < to}}

\* Mutant of fetch_limit: only the candles asked for are fetched.
fetch_limit_asked == limit

\* One more candle than asked for is fetched, to see whether there is one.
fetch_limit == limit + 1
DatabasePage ==
    LET fetched == Newest(StoredCandles(request.from, request.to), fetch_limit)
        kept == Newest(fetched, limit)
    IN  [source |-> _history_page_source(kept), from |-> request.from, to |-> request.to,
         candles |-> kept, has_more |-> Cardinality(fetched) > limit,
         stored |-> StoredTimes(request.from, request.to)]
-----------------------------------------------------------------------------
\* The short timeframes prefer raw trades, which end a stable delay ago.
IsRawTimeframe == timeframe \notin PersistedTimeframes
stable_to == Floored(Earliest(request.to, Latest(0, request.now - StableDelay)))
raw_from ==
    Floored(Latest(Latest(request.from, request.now - RawRetention),
                   stable_to - (limit + 1) * Seconds(timeframe)))

AsksRaw ==
    /\ IsRawTimeframe /\ raw_from < stable_to
    /\ page.source \in {"none", "timescaledb"} \/ page.candles = {}

\* Mutant of RawPage: only the buckets that have trades.
RawPageOfTrades ==
    LET opens == {open \in raw_from .. stable_to - 1 : \E time \in trades : Floored(time) = open}
        candles == {[open |-> open, rows |-> {}, status |-> "complete"] : open \in opens}
    IN  [source |-> "raw_trades", from |-> raw_from, to |-> stable_to,
         candles |-> Newest(candles, limit),
         has_more |-> \/ Cardinality(candles) > limit
                      \/ \E time \in trades : time < raw_from,
         stored |-> StoredTimes(raw_from, stable_to)]

\* Every bucket from the first trade on is there: one without a trade carries
\* the price before it.
RawCandle(open) ==
    [open |-> open, rows |-> {},
     status |-> IF \E time \in trades : Floored(time) = open THEN "complete" ELSE "complete_empty"]
RawPage ==
    LET opens == {open \in raw_from .. stable_to - 1 :
                    /\ Floored(open) = open
                    /\ \E time \in trades : time < open + Seconds(timeframe)}
        candles == {RawCandle(open) : open \in opens}
    IN  [source |-> "raw_trades", from |-> raw_from, to |-> stable_to,
         candles |-> Newest(candles, limit),
         has_more |-> \/ Cardinality(candles) > limit
                      \/ \E time \in trades : time < raw_from,
         stored |-> StoredTimes(raw_from, stable_to)]

\* The rows in memory are counted with their revisions, and the newest `limit`
\* buckets are kept.
Held == {i \in DOMAIN memory : request.from <= memory[i].time /\ memory[i].time < request.to}
MemoryCandle(open, held) ==
    LET rows == {memory[i] : i \in held} IN
        [open |-> open, rows |-> rows,
         status |-> IF Cardinality(held) < Seconds(timeframe) THEN "incomplete"
                    ELSE RollupStatus(rows, 0)]
MemoryCandles ==
    {MemoryCandle(open, {i \in Held : Floored(memory[i].time) = open}) :
        open \in {Floored(memory[i].time) : i \in Held}}
MemoryPage ==
    [source |-> "memory", from |-> request.from, to |-> request.to,
     candles |-> Newest(MemoryCandles, limit), has_more |-> Cardinality(MemoryCandles) > limit,
     stored |-> StoredTimes(request.from, request.to)]
-----------------------------------------------------------------------------
\* resolve_time_range.  A client that asks for `to` has it from a response.
resolved_from(to) == IF IsRawTimeframe THEN Floored(Latest(0, to - Retention)) ELSE 0

Ask(to) ==
    /\ request' = [now |-> now, from |-> resolved_from(to), to |-> to]
    /\ resolved_from(to) < to
    /\ phase' = "database"
    /\ UNCHANGED <<tables, timeframe, limit, page, response, delivered>>

AskNewest ==
    /\ phase = "idle" /\ response = NoPage
    /\ Ask(now + Seconds(timeframe))

\* nextBefore, when the last response has it.
AskOlder ==
    /\ phase = "idle" /\ response.has_more
    /\ \E first \in response.candles :
          /\ \A c \in response.candles : first.open <= c.open
          /\ Ask(first.open)

\* The database answers, or it is not configured or fails.
ReadDatabase ==
    /\ phase = "database"
    /\ page' \in {DatabasePage, NoPage}
    /\ phase' = "raw"
    /\ UNCHANGED <<tables, timeframe, limit, request, response, delivered>>

\* An answer without candles, and an error, leave the page as it is.
ReadRaw ==
    /\ phase = "raw" /\ AsksRaw
    /\ page' \in {page} \cup {p \in {RawPage} : p.candles # {}}
    /\ phase' = "respond"
    /\ UNCHANGED <<tables, timeframe, limit, request, response, delivered>>

SkipRaw ==
    /\ phase = "raw" /\ ~AsksRaw
    /\ phase' = "respond"
    /\ UNCHANGED <<tables, timeframe, limit, request, page, response, delivered>>

Respond ==
    /\ phase = "respond"
    /\ response' = IF page = NoPage THEN MemoryPage ELSE page
    /\ delivered' = delivered \cup Opens(response)
    /\ phase' = "idle" /\ page' = NoPage /\ request' = NoRequest
    /\ UNCHANGED <<tables, timeframe, limit>>
-----------------------------------------------------------------------------
\* Mutant of Applied: a deque without maxlen.
AppliedUnbounded(row) == Append(memory, row)

\* apply_candle: the deque replaces its newest entry, or appends.
Applied(row) ==
    LET n == Len(memory)
        values == IF n > 0 /\ memory[n].time = row.time THEN [memory EXCEPT ![n] = row]
                  ELSE Append(memory, row)
    IN  IF Len(values) > CandleLimit THEN Tail(values) ELSE values

\* A second passes, with a trade or without one, and another one is closed.
Tick ==
    /\ now < MaxTime
    /\ now' = now + 1
    /\ trades' \in {trades, trades \cup {now}}
    /\ LET time == now - Lateness
           traded == time \in trades'
       IN  \E status \in {IF traded THEN "complete" ELSE "complete_empty", "incomplete"} :
             /\ live' = live \cup {LiveRow(time, status, traded)}
             /\ memory' = Applied(LiveRow(time, status, traded))
    /\ UNCHANGED <<imported, importable, client>>

\* A late trade: the current row of its second is the recovered one.
Recover ==
    /\ Cardinality({row \in live : row.status = "recovered"}) < MaxRecovered
    /\ \E row \in live :
        /\ row.status \in {"complete", "complete_empty"}
        /\ LET recovered == LiveRow(row.time, "recovered", TRUE) IN
             /\ live' = (live \ {row}) \cup {recovered}
             /\ memory' = Applied(recovered)
        /\ trades' = trades \cup {row.time}
    /\ UNCHANGED <<now, imported, importable, client>>

\* A batch of a backfill.
Import ==
    /\ importable # {}
    /\ imported' = imported \cup importable /\ importable' = {}
    /\ UNCHANGED <<now, live, trades, memory, client>>

\* The retention policy drops whole chunks of raw_trades that are old enough.
DropTrades ==
    /\ \E time \in trades :
          /\ time < now - RawRetention
          /\ trades' = {other \in trades : other > time}
    /\ UNCHANGED <<now, live, imported, importable, memory, client>>

Next ==
    \/ AskNewest \/ AskOlder \/ ReadDatabase \/ ReadRaw \/ SkipRaw \/ Respond
    \/ Tick \/ Recover \/ Import \/ DropTrades

Spec == Init /\ [][Next]_vars
-----------------------------------------------------------------------------
IsPage(p) ==
    /\ p.source \in Sources \cup {"none", "raw_trades", "memory"}
    /\ p.from \in Nat /\ p.to \in Nat /\ p.has_more \in BOOLEAN /\ p.stored \subseteq Nat
    /\ Cardinality(p.candles) = Cardinality(Opens(p)) /\ Cardinality(p.candles) <= limit
    /\ \A c \in p.candles : c.open \in Nat /\ c.rows \subseteq Rows /\ c.status \in Statuses

\* Type invariant: a page, with each bucket once, and no larger than asked for.
TypeOK ==
    /\ now \in 0 .. MaxTime
    /\ live \subseteq Rows /\ imported \subseteq Rows /\ importable \subseteq Rows
    /\ trades \subseteq Nat /\ memory \in Seq(Rows) /\ Len(memory) <= CandleLimit
    /\ timeframe \in Timeframes /\ limit \in Limits
    /\ phase \in {"idle", "database", "raw", "respond"}
    /\ request \in [now : Nat, from : Nat, to : Nat]
    /\ IsPage(page) /\ IsPage(response) /\ delivered \subseteq Nat

\* Paging goes back in time: the candles of a page are all older than those of
\* the pages before it, whatever source each page is from and whatever is
\* stored, dropped or revised between the requests (nextBefore and the
\* half-open ranges of every source).
PagesGoBackwards == \A open \in Opens(response), newer \in delivered : open < newer

\* A page leaves out nothing between its first candle and its end: what the
\* tables hold of that time is in it, if the tables or the raw trades answered
\* (LIMIT after ORDER BY open_time DESC, and the carried price of raw pages).
NothingIsSkipped ==
    response.source # "memory" =>
        \A time \in response.stored :
            (\E first \in Opens(response) : first <= time) => Floored(time) \in Opens(response)

\* hasMore says whether an older candle is stored in the range, when the
\* tables answered.
HasMoreIsRight ==
    response.source \in Sources =>
        (response.has_more <=>
            \E time \in response.stored : \A open \in Opens(response) : time < open)

\* A candle of the tables is whole: each of its seconds that is stored takes
\* part in it, even at the old end of the page where the rows are cut off, and
\* a candle that is not incomplete has all of its seconds, none of them
\* incomplete (source_fetch_limit, _history_row_to_api).
CandlesAreWhole ==
    response.source \in Sources =>
        \A c \in response.candles :
            /\ timeframe \notin PersistedTimeframes =>
                 \A time \in response.stored : Floored(time) = c.open => time \in SecondsOf(c.rows)
            /\ c.status # "incomplete" =>
                 /\ c.open .. c.open + Seconds(timeframe) - 1 \subseteq SecondsOf(c.rows)
                 /\ \A row \in c.rows : row.status # "incomplete"
=============================================================================
