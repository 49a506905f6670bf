# Tickframe in TLA+

Tickframe collects trades from Binance and Bybit, builds one-second candles from
them, persists both in TimescaleDB and streams them to a browser. This directory
holds TLA+ modules of its core, the TLC configurations that check them, and
proofs of what matters most. Paths below are relative to the repository.

## 1. Inventory

Everything in the backend runs in one asyncio event loop (Python 3.12), so a
coroutine is atomic between two points at which it really suspends. Facts about
suspension that the models rely on:

- `CandleAggregator` never awaits. One call of `add_trade`, `mark_gap` or
  `finalize_due` is one step as far as other coroutines can tell.
- `asyncio.Queue.put` suspends only while the queue is full, `get` only while
  it is empty; `put_nowait` and `get_nowait` never do.
- The locks of `LiveStore` and the stream condition are never held by a
  coroutine that waits, so acquiring them does not suspend either.
- `set_connected(True)` runs `handle_connection_state`, every `mark_gap` in it
  and the reset of the accepted topics before the first `websocket.send`.

| component | state | operations | interacts with |
|---|---|---|---|
| candle aggregator (`backend/app/aggregation.py`) | open seconds, cache of finalized seconds, last finalized second and last close per stream, gaps, seen trade ids | `add_trade`, `finalize_due`, `mark_gap`, `provisional` | called by the service's consumer, finalizer and connection handler |
| database writer (`database.py`) | bounded event queue, its unfinished count, the writer task and its batch, tables `raw_trades` and `candles` | `enqueue_*`, `_run`, `_write_batch`, `repair_one_second_candles_from_raw_trades`, `stop` | fed by consumer and finalizer, overlapped by recovery |
| exchange collectors (`exchanges/`) | connected, accepted/pending topics, endpoint index, backoff | `run`, `connect_once`, `_subscribe`, `set_connected` | put trades into the trade queue, report connection changes to the service |
| market data service (`service.py`) | trade queue, metric queue and pending scopes, stream revisions, disconnect times, recovery task | `_consume_trades`, `_finalize_candles`, `_process_metric_updates`, `handle_connection_state`, `_schedule_recovery`, `stop` | drives all of the above |
| live store (`store.py`) | latest trade and a bounded deque of candles per market | `apply_trade`, `apply_candle`, snapshots | written by the service, read by the API |
| API (`main.py`) | last revision sent, per websocket | websocket loops, routes | reads store, metric cache and history |
| history (`history.py`, `database.py`, `service.candle_history`) | none | rollups, paging, source fallback | reads the tables, raw trades and store |
| backfill (`backend/scripts/`) | per market: window, cursor, pending batch, retries | `backfill_market`, `fetch_candles`, `flush` | exchange REST, `historical_candles` |
| recovery (`service.py`) | the running task, its report | `_schedule_recovery`, `_run_recovery` | calls the backfill and the writer's repair after a start or a reconnect |
| sessions (`auth.py`) | users, sessions | register, login, logout | its own tables |
| observability (`observability.py`) | rolling latency windows | observe, snapshot | called by service and API |
| frontend (`frontend/src/`) | candle lists, sockets | merge, reconnect | API |

What makes each correct, and what is hard about it:

- **Aggregator.** A second is open or closed, never both; each trade is counted
  once, in event-time order whatever the arrival order; a late trade makes a new
  revision of what was published; an empty second carries the right price; no
  second goes without a candle but for an outage, and an outage is not dressed up
  as one. Hard: late trades racing the finalizer,
  three bounded caches that evict, time boundaries.
- **Database writer.** Nothing that was accepted is lost, `join` means stored,
  one current row per second, and it is the newest one. Hard: retries that
  reorder, a lost answer of a commit, a full queue, a repair that overlaps.
- **Feed.** Time in which an exchange was not heard is a gap, no more and no
  less. Hard: connections that fail half-way, repeated outages, trades still
  queued when the state changes.
- **Service pipeline, store, API.** No update is missed for ever by a metric
  worker or a websocket; recovery that was asked for happens.
- **History.** Pages never overlap or skip what is stored, a candle is made of all
  its seconds, `hasMore` is right. Hard: each page comes from one of four sources
  that end at different times, and they change while a request reads them.
- **Backfill, recovery.** What is reported as imported is in the table, an
  unfinished candle gets there only when a loader was given an end in the future,
  a run ends. Hard: holes, short and empty pages, retries, a batch lost half-way, a
  kill, one market failing among others, a candle imported while it forms.

`PROJECT.json` lists the hazards line by line with the properties that cover
them, and those that no property covers yet.

## 2. Modules

| module | models | extends |
|---|---|---|
| `PyCollections` | `dict` and `OrderedDict` operations the code uses | |
| `CandleState` | `_CandleState`, trade order, `Candle` | `PyCollections` |
| `CandleAggregator` | `CandleAggregator` | `CandleState` |
| `MarketFeed` | one collector, the connection handler, the trade queue, consumer and finalizer around the aggregator | `CandleAggregator` |
| `DatabaseWriter` | the write-behind queue, the writer task, the tables, repair and shutdown | |
| `RecomputeOnDemand` | abstract: values asked for are computed, one at a time | |
| `MetricPipeline` | from a closed candle to its metrics: finalizer, consumer, metric queue, worker, REST builds, cache | `PyCollections` |
| `StreamNotification` | stream revisions, the shared condition and the websocket loops | |
| `BackfillMarket` | the download loop of one market, in both scripts and in the recovery | |
| `BackfillPrograms` | the recovery and the two scripts as runs over one table | `BackfillMarket` |
| `History` | `candle_history`: paging over tables, rollups, raw trades and memory | |
| `MC*` | small instances | the module they instantiate |
| `*Proofs` | theorems | the module they are about, TLAPS |

### CandleAggregator

The variables are the attributes: `open`, `finalized` with its order
`finalizedOrder`, `lastFinalizedOpen`, `lastClose`, `gaps`, `seenTrades`
(`None` stands for a missing key). `now` is the wall clock, `deliveries` counts
how often each trade was handed over, and `candles` records every candle
returned, per second, which is what clients and database were given.

`AddTrade` is the duplicate test followed by the three branches of `add_trade`:
`ReviseCachedSecond`, `RecoverUncachedSecond`, `AccumulateOpenSecond`.
`FinalizeDue` starts a pass and `PassStep` handles one second of one stream at a
time, in the order of the loops; `pass` is the cursor. Trades, gaps and the clock
wait until a pass ends, as they do in the code, so splitting it adds no
behaviour; it makes the loop body an action the invariants are checked after.
`MarkGap` is `RecordGap`, the effect of `mark_gap`, under what the service
guarantees of its arguments (gaps end now and do not overlap); `MarketFeed`
shows that the feed keeps that.

Data: a price is a number, a candle keeps OHLC, volume, trade count, status,
revision, and the order keys of its first and last trade. A second is `SecondMs` ticks.

### MarketFeed

`phase` is where `connect_once` is, `connected`, `accepted` and `requested` are
the collector's, `disconnectedSince` and `marking` belong to
`handle_connection_state`, `tradeQueue` to the service. `Connect` pops the
disconnect time and starts marking, `MarkStream` is one iteration over the
instruments, `Disconnect` is the `finally` of `connect_once`, and
`SubscribeFails` is an exception before that `finally` is reached: `run` then
resets `connected` by itself. `offline` is the history of the ticks an
established feed was down, which the properties compare with what was published.
Bybit's topics are accepted one by one; Binance corresponds to runs in which
all are accepted at once.

`ImplementsAggregator` is the refinement: every behaviour of the feed, with its
connections, queue and consumer, is one of `CandleAggregator`'s specification, so
what is proved of the aggregator alone holds of it in the feed.

### DatabaseWriter

`queue` and `unfinished` are `asyncio.Queue`; `pending` holds what each putter
(consumer, finalizer, the writer itself) has still to put; `writer` is where
`_run` is. `Fail` covers a rollback and a commit whose answer was lost. A candle
stands for the set of trades it summarises. `Repair` is the pair of statements of
the recovery, which share a transaction. Transactions are atomic: two that
overlap on one second conflict on `candles_one_current_revision_idx`, and the
one that fails is a `Fail`, or a repair that did not happen.

### MetricPipeline

`metricQueue` and `pendingScopes` are `metric_queue` and
`_pending_metric_scopes`, `metricCache` is `metric_cache`. `putting` holds the
candles that a finalizer pass or the consumer has in hand, `sent` and `stored`
are the database's end of its queue as `DatabaseWriter` has it. `PutFirst` is the
return of `enqueue_candle` and the scopes asked for after it. `building` says
what the worker and the REST requests are computing: `Take` or `Request` begins,
`Read` is the query of the history (which falls back to the store), `Publish` the
assignment to the cache, `FailBuild` an exception. A candle is its second and its
revision, and a summary is the set of candles it was computed from.

`RecomputeOnDemand` is what the worker promises, with liveness:
the pipeline implements it with `asked <- pendingScopes` and
`computing <- InWork`. It is what removing a scope from the pending set *before*
its build gives: a scope asked for during a build is built again.

### StreamNotification

`revision` has the counters of the market and stable streams and
`metric_scope_revisions`; `shown` is the version of the data under each stream.
A subscriber's loop is `polling` (it reads the revision and takes a snapshot in
one step), `sending`, `waiting` in the condition, or `woken` and not run yet.
`ApplyCandle` and `EndPass` keep apart the candles that a pass applies and the one
notification at its end. What a snapshot makes of the data by the clock is left
out: a stable candle is held back by `TICKFRAME_STABLE_CHART_DELAY_MS`, so a
subscriber that has the newest version may see its last candle only with a later
notification.

### BackfillMarket and BackfillPrograms

`cursor` and `pending` are the local variables of `backfill_market`, `window` its
`start_ms` and `end_ms`, `tries` the place of `http_json` and of the loop over
base URLs, `phase` where the coroutine is suspended. `LoadPage` and `EmptyPage` are one
iteration with and without candles, `Flush` the upsert of a batch, `RetryRequest`,
`TryNextUrl` and `Raise` the three things a failed request leads to. `listed` is
what the exchange has; its answer may begin before the cursor, and a candle it
returns is final or not by the clock of that moment. A row keeps its market, its open time
and whether it was final: no step of this code computes with its prices.

`program` is what runs: the recovery (`StartRecovery`, its steps in the order of
its loops, each in its own `try`), the serial script or the parallel one, whose
tasks interleave under one semaphore per exchange. `ScriptWindow` is the interval of both scripts: it
ends now or at `--until-ms`, which neither script compares with the clock, so
`Untils` has times in the past and in the future. `started` is the clock at the
start of the run. `claimed` is what the runs
have reported as imported: a recovery by a step missing from `failedMarkets`,
the scripts by how they exit; `ahead` keeps the loads that were given an end in the
future. `claimed` and `ahead` are history, for the properties only. `Abandon` kills a run at any point, and
the next one starts from the table alone. One program runs at a time;
the repair of seconds is an action of `DatabaseWriter` and only a step that may
fail here. `Steps`, `IsPlan` and the plans are the nested loops unrolled.

### History

A client asks for the newest page and then, with `nextBefore`, for older ones, as
`loadEarlier` in the frontend does. A request is three steps, at its awaits:
`ReadDatabase`, `ReadRaw` (or `SkipRaw`) and `Respond`, and between them and
between requests seconds are finalized (`Tick`) and revised (`Recover`), a batch
is imported (`Import`) and chunks of raw trades are dropped (`DropTrades`). Each
read may fail. The SQL is modelled by what it selects: `Ranked` is the
`row_number` over priorities, `Rollup` the `GROUP BY time_bucket`, `NewestRows` and
`Newest` the `ORDER BY ... DESC LIMIT` before and after it. A served candle is
the set of rows it was made from, and its status. `stored` in a page records
what the tables held when it was read; it is there for the properties only.

## 3. Runs

| run | instance | shows |
|---|---|---|
| `aggregator` | 1 market, 3 trades (two of one second, ids against arrival, one of the second after the next), each delivered up to twice, 2 gaps, 4 seconds | exact candles, revisions, frontier, carried price, which seconds have no candle, promptness; caches large |
| `aggregator_eviction` | 2 markets sharing caches of size 1, 3 trades, 1 gap | what remains true when caches evict; the inductive invariant of the frontier |
| `writer` | 1 second with two trades and an empty one, queue of 2, batches of 2, 2 failures, 1 repair, shutdown | nothing lost, join, one current row, exactness, liveness |
| `feed` | 2 markets, 1 trade each, 2 outages, 1 failed subscription, 3 seconds | refinement; incomplete seconds are exactly those of outages |
| `metrics` | 1 market, a timeframe and its last day (2 scopes), 2 seconds, 1 late trade, 1 REST request, 1 failed build, queue of 2 | queue and pending set agree, no candle goes by unnoticed, the worker implements `RecomputeOnDemand` |
| `streams` | 2 metric scopes, 1 subscriber of any stream, each stream changes up to twice | sleepers are current; subscribers catch up |
| `backfill` | 2 exchanges, 1 instrument, 2 timeframes, minutes of two units, pages and batches of 2, ends before, at and after the present, holes, 1 retry, 2 base URLs, 2 runs | what is claimed is stored, a forming candle only if asked for, runs end |
| `history` | 4 timeframes (two from seconds, two from minutes), pages of 1 and 2, two archives (imported minutes; another exchange's seconds), an outage, empty seconds, 1 late trade, 1 import | pages do not overlap or skip, `hasMore`, whole candles |
| `aggregator_revision_reuse`, `writer_requeue_order`, `feed_subscribe_failure`, `metrics_freshness` | see section 5 | where code and documentation differ |

Why these bounds: the aggregator treats markets independently except in its two
shared caches, so one market suffices without eviction and two with. A second
needs two trades for order to matter and a third trade to move the frontier past
it; an empty second between them is one that a gap can leave without a candle. Two ticks per second give a boundary and an inside; a lateness of one or two
seconds puts the watermark on and off boundaries. A queue of two with batches of
two can be full, split a batch between queue and putter, and hold a candle away
from its trade; two failures let a retried batch fail again. Two outages are
needed for a disconnect time to be overwritten or left over. Two scopes are what a
queue needs to have an order; the second candle or the late trade asks for a scope
while it is queued or built. Subscribers do not affect each other, so one
suffices; two scopes share the metric revision, and two changes are one during a
send and one after it. A page of two candles against a window of five units
gives full, short, overlapping and empty pages and a batch that is flushed
half-way; a second run meets the rows of a killed one, and those of a run with
an end in the future, whose forming minute is over in the next time unit. Pages of one and two
candles over at most ten stored seconds give several pages of each source,
buckets of one, two and four seconds cut by every limit, and a retention of raw
trades that ends inside them.

`Horizon`, `MaxDeliveries`, `Disconnects`, `MaxFailures`, `MaxRepairs`,
`MaxOutages`, `MaxSubscribeFailures`, `LastClose`, `MaxLate`, `MaxRequests`,
`MaxChanges`, `MaxTime`, `MaxRuns`, `MaxRecovered` bound what the environment does and appear
in guards. `MaxGaps`, `FinalizedCacheSize`, `DedupCacheSize`, `QueueSize`,
`BatchSize`, `AllowedLatenessMs` are the code's own parameters (100, 6000,
200000, 200000, 1000, 2000 in the code). `OutagesAreIncomplete` speaks of
states with no failed subscription and no more outages than `MaxGaps`, and its proof
supposes a lateness that covers a second; with the code's values the lateness
does, and a gap is forgotten only after a hundred further outages.

The aggregator and the feed always have a step left, and deadlock is checked
there. The writer stops, the pipeline ends when no second is left to close, and a
subscriber of a stream that no longer changes sleeps; the backfill runs and the
history end with their clocks. It is not checked in those runs.

**Fairness.** `QueueDrains` is checked under weak fairness of the writer's own
steps, of every waiting putter and of the end of `stop()`: asyncio runs each task
that is ready, and the database call returns with a result or an error.
Failures are finite (`MaxFailures`), which is the assumption that the database
comes back; nothing is assumed of producers, repairs or shutdown.
`RecomputesOnDemand` is checked under weak fairness of the puts that wait (which
is what `QueueDrains` is for) and of the worker's steps; that no scope
starves follows from the order of the queue. `SubscribersCatchUp` is checked under
weak fairness of a subscriber's own steps and of the end of a pass, and needs
neither the 30-second timeout nor a further change.
`ProgramsEnd` is checked under weak fairness of the work of a run as a whole:
one of its tasks that can go on does, since asyncio runs what is ready and a request
or a statement returns or raises (requests have a timeout). Nothing is assumed
of kills, of the clock, or of any request succeeding. What makes the runs end is in
the code: retries are counted, and every page moves the cursor.
The property `QueueDrains` names the one way the queue does not drain: `Wedged`, the
writer waiting to put a failed batch back into a queue that only it empties.

## 4. Proofs

Every safety property of the passing runs, and both refinements' safety, is a
theorem. The inductive invariants `CacheInv`, `SeenInv`, `ExactInv`, `FeedInv`,
`OrderInv`, `PublicationInv` and `HistoryInv` were also model-checked, on the
instances of section 3, before they were proved; `FrontierInv`, `AccountInv` and
others are properties of the runs themselves. The constants range over everything
that the modules' assumptions allow; further hypotheses are named where they occur.

`CandleAggregatorProofs` proves, for any streams, trades, cache sizes, lateness
and clock bounds that meet the assumptions of `CandleAggregator`:

1. `TypeOK`, action by action.
2. `FrontierInv`. `FrontierSeparates` (an open second is past the frontier, a
   closed one is not) is not inductive: closing the second at the cursor is safe
   only because the cursor is aligned to seconds, just past the frontier, and has
   no open second behind it. The proof rests on lemmas about
   multiples of `SecondMs` (two different seconds are at least one apart).
3. `PublicationInv`. It combines `FirstRevisionComesFirst`, `CacheIsPublished` and
   `CarriedPriceIsFrontierClose`, which need each other: that a cached
   second equals its last published candle makes its revision at least 1, that the
   frontier is published gives the carried price its candle, and FrontierInv
   makes the second that a pass publishes one that was never published.
4. From these, the action properties `CachedRevisionsIncrease` and
   `PromptTradesAreNotLate` (with the invariant that no frontier passes the
   watermark), and `PricesAreOrdered` with the same for the states.
   The last one is the `CHECK` constraints of table `candles`: no candle is ever
   refused by them, so no batch fails for ever because of one.
5. `RevisionsIncrease` as long as `CacheHoldsAll`: no more seconds were published
   than the cache of finalized seconds holds (6000 of all streams together; after
   that an evicted second starts again at 2, see section 5). `CacheInv` adds that
   the order of the cache lists its keys once each, so that nothing is evicted,
   and that a published second is only uncached if it is the `incomplete` candle
   of a gap, which has revision 1.
6. `CandlesAreExact` as long as, in addition, `DedupHoldsAll`: no more trades were
   delivered than the dedup cache remembers. It supposes `IdsAreUnique`, that an
   exchange gives two trades of a stream two ids, which the duplicate test itself
   relies on (the key of `raw_trades` adds the exchange time to them). `SeenInv` says that the dedup cache holds the keys
   of the delivered trades and no others, and `ExactInv` that every open and every
   cached state `Tracks` the trades delivered for its second: first and last by
   the order of the code, extremes, count, and volume. The volume is a recursive sum
   (`MapThenSumSet`). That it does not depend on the order of the additions is
   proved by induction over finite sets, as the absence of a minimal
   counterexample under strict inclusion, which is well-founded.
7. `HolesFollowGaps`, for any cache sizes. A hole appears when the frontier jumps
   over seconds that a pass left behind its cursor; `HolesInv` says that such a
   pass has no price to carry (`CursorIsNext`), and that a stream which closed a
   second with a price is without one only after a gap that ended when that
   second was due (`PriceIsKept`). That the excuse reaches every second closed so
   far rests on the frontier being behind the watermark, and that a late trade
   makes no second need one on its candle being revision 2 or more.

`DatabaseWriterProofs` proves `TypeOK`, `AccountInv`, `NothingLost` and
`JoinMeansStored` for any queue and batch size, any finite set of trades and
seconds, and any number of failures and repairs. The account is the inductive
part: unfinished = queued + in hand, and while the writer puts a batch back every
event of it is already queued or still pending, since nobody else takes from the
queue.

`DatabaseRowsProofs` proves `OneCurrentRow`, `NewestWhileInOrder` and
`CurrentIsExact`. That the newest row is current is not inductive. `OrderInv` is
about the line of events still to be written, the batch in hand and the queue
behind it: while nothing failed and nobody waited, the candles of a second stand in it
in the order of their revisions, the last of them is the newest there is, no row
is newer than one of them, and a trade that a closed second has to know of has
the candle that knows it behind it. From the last part follows that a repair, which
reads `raw_trades` in the middle of all this, makes no row current that a candle of
the line does not replace.

`MarketFeedProofs` proves, for any outages, accepted topics, failures to subscribe
and interleavings of marking, queue, consumer and finalizer: `FeedTypeOK`;
`ImplementsAggregator`, step by step; `OnlyOutagesAreIncomplete`;
`OutagesAreIncomplete`. That the feed calls `mark_gap` only as the aggregator's
specification allows needs `MarkingInv`: gaps of a stream end no later than a
disconnect time that is still to be marked, and no such time is left while one is
being marked. `GapsAreOutages` and `OutagesAreMarked` are the two directions
between gaps and the history of outages, `GapsAreCounted` that the list forgets
none before its hundredth, and `DownIsIdle` that a feed that is down has no pass of its
streams under way, since nothing awaits inside one. `OutagesAreAlwaysIncomplete`
supposes `SecondMs <= AllowedLatenessMs + 1` (1000 and 2000 ms in the code): with a
smaller lateness a second is closed before an outage in its end is known, and
TLC finds that with a lateness of 0.
`FeedAssumption` asks for a stream, and that a connection may be lost at any tick.
`MetricPipelineProofs` proves, for any timeframes, clients and queue size:
`TypeOK`; `PendingIsQueued`, by lemmas about sequences without duplicates (the
order in which scopes are asked for is a bijection, and appending it to a queue
that holds none of them keeps the queue free of duplicates);
`CandlesAskForTheirScopes`, if the queue has room for every scope, because a queue
without duplicates is never longer than the set of scopes; and that the pipeline
implements `SafeRecompute`, step by step. The inductive invariant adds to the
first two that a second has one revision per late trade.

`StreamNotificationProofs` proves `SleepersAreCurrent` for any streams and
subscribers. It is not inductive: the invariant `StreamInv` adds that revisions
only grow and never exceed the shared counter, and that a loop that remembers
the newest revision has sent, or is sending, what the stream shows.

`BackfillProofs` proves `TypeOK`, `FormingWasAskedFor` and `ClaimedIsStored` for
any exchanges, listings, page and batch sizes, retries, values of `--until-ms`,
numbers of runs and kills. `ClaimedIsStored` is about a report; what carries it is
about the loop. The invariant `Covered` says that each listed candle of the window
that opens before the cursor and was over when the run began is stored or pending,
that a market that is done has all of them stored, and `ProgramInv` that a step the
caller has passed is done, failed and recorded, or has an empty window. That every
page keeps `Covered` rests on the answer being the first `Limit` candles after the
cursor, and on two open times being an interval apart (`MultiplesApart`), so that
the new cursor skips none. That a window lies in the past is not assumed:
`WindowsAreKnown` says that a window ends at a multiple of the interval that is
over, or belongs to a load in `ahead`. `CandlesAreSound` says that a candle that is
stored or pending is final only if it is over, and forming only if it was asked for,
and that none that is pending would put a forming candle in the place of a final
one; the last part is what keeps the claims of earlier runs true while a load
into the future runs.

`HistoryProofs` proves `TypeOK`, `NothingIsSkipped`, `HasMoreIsRight`,
`CandlesAreWhole` and `PagesGoBackwards` for any timeframes, page sizes, tables and
changes of them. The tables are finite and keep their primary keys, imported
minutes open on the minute, and a persisted timeframe is a whole number of
minutes; this is `HistoryAssumption` and `ArchivesAssumption`, and `TablesInv` says
that it stays so. The invariant `HistoryInv` adds that the page under way and the
last response are right about what was stored when they were read. What carries
it is one lemma on the newest `n` of a finite set with distinct keys: they are an upper part of it,
and all of it if it has no more than `n`. The `LIMIT` on rows cuts off only rows
older than all that were read, and when it cuts off any, those read make more
buckets than the page holds, so the bucket that was cut is not on the page. For
`PagesGoBackwards` the invariant is `PagingInv`: a request ends where the
first candle of the response before it opens, and the page found so far, from
whichever source, lies before the request's end, because each source selects a
half-open range and a bucket opens no later than the rows in it.

Only model-checked: liveness, which this prover does not reach, as it does not
reach ENABLED. That is `QueueDrains`, `ProgramsEnd`, `SubscribersCatchUp` and the
liveness half of `RecomputeOnDemand` (in `RecomputesOnDemand`).

## 5. Where code and documentation differ

- `aggregator_revision_reuse`: a second that was evicted is recovered as revision
  2, again and again. What does hold, and is proved, is `CachedRevisionsIncrease`.
- `writer_requeue_order`: a retried batch is written after events that followed
  it, and an older revision becomes current. What does hold is `NewestWhileInOrder`.
- `feed_subscribe_failure`: a reconnect that fails to subscribe ends the gap of
  an outage that goes on. What does hold is `OutagesAreIncomplete`.
- `metrics_freshness`: a summary may be computed, and pushed, without the candle
  that asked for it, since the candle is asked for when it is queued for the
  database and not when it is committed. The next candle of the scope, or a
  REST request, brings it. What does hold, and is proved, is
  `CandlesAskForTheirScopes` and `RecomputesSafely`: the computation itself is
  never forgotten.

Met while modelling, without a run of their own:

- `mark_gap` takes the carried price away at once (`aggregation.py:270`), also for
  seconds before the gap that are not due yet. Those without trades are passed over
  and get no candle, although the stream was connected
  (`backend/README.md:34`: "A connected stream with no trades creates
  `complete_empty`."). In the `aggregator` run a gap leaves the second between two
  others without a candle. What does hold, and is proved, is `HolesFollowGaps`: nothing but a
  gap has this effect.
- An `--until-ms` in the future is taken as the end of the window
  (`backfill_candles.py:585`): the candle that is forming is stored, with a
  `finalized_at` that is still to come, where the test
  `test_end_time_is_aligned_to_closed_interval` and that column speak of a closed
  interval. A later import of the same window replaces it. In the `backfill` run
  such rows occur. What does hold, and is proved, is `FormingWasAskedFor` and, for
  what was over when a run began, `ClaimedIsStored`.
- `finalize_due` closes the second that contains the watermark
  (`aggregation.py:224`), so a trade can be late although it arrives within
  `allowed_lateness_ms` of its own time (`backend/README.md:32`). What does hold,
  and is proved, is `PromptTradesAreNotLate`.
- `hasMore` of a page of raw trades says whether there is an older *trade*
  (`database.py:1172`), within the range or before it; `backend/README.md:141`
  says "whether an older page exists in the scanned range". At the edge of the
  72 hours of raw trades it may be false while the tables hold older
  candles. A memory page likewise knows nothing older than its deque.
  `HasMoreIsRight` is therefore about pages of the tables.
- Pages of raw trades fill the seconds of an outage with the carried price as
  `complete_empty` (`database.py:1127`), where `candles` has `incomplete`
  without prices (`backend/README.md:35`).
- An imported minute takes the place of the whole persisted bucket
  (`database.py:1387`): one imported minute in an hour makes that hour
  `incomplete` although its live seconds are all there.
- Minutes imported from Bybit have no trade count (`backfill_candles.py:475`), so a
  `5m`, `15m` or `1h` candle made of them alone is `complete_empty` whatever its
  volume (`database.py:1503`).
- The memory fallback counts a second once per revision it holds
  (`history.py:101`, `store.py:65`): a bucket with a revised second can have
  enough entries to be `complete` with a second missing, and its volumes include both revisions.
- A reconnect while a recovery runs starts none (`service.py:1087`), where
  `AGENT_CONTEXT.md:167` says "Recovery also starts after exchange reconnect."
- `AGENT_CONTEXT.md:130` gives the stable chart delay as 10000 ms; the default
  in the code is 2000 (`service.py:39`).

## 6. Not modelled

- `metrics.py`, the pattern classifier (`pattern_ml.py`, `ml/`) and the latency
  percentiles of `observability.py`: decimal and floating-point numerics over
  lists, with no protocol state; TLC would check an arithmetic of its own.
- `auth.py`: each operation is a short transaction on one user and what races is
  decided by the keys of its tables. `register` commits the user before the
  session, so a failure in between leaves a user who has to log in.
- The merge of provisional, stable and historical candles in the frontend, which
  is React state, and its reconnecting sockets; rendering and styling.
- In what is modelled: prices and volumes in `History` and `BackfillMarket`; the
  14-day retention and the compression of `candles` and the refresh of the
  rollup views (TimescaleDB serves their unmaterialised part from `candles`);
  two backfill programs at once; `--dry-run`, `--allow-failures` and a `--limit`
  larger than what an exchange returns per answer; cross-pair
  correlations; closing of websocket connections; endpoint rotation, heartbeats
  and backoff times of the collectors; the text of messages and SQL.
- Configuration (read once, the constants of the models), the dashboards, and the
  simulated prototype under `src/src`.

## 7. Plan

1. `CandleAggregator`, `DatabaseWriter`, `MetricPipeline`, `StreamNotification`,
   `BackfillMarket` with `BackfillPrograms`: done, their safety proved.
2. `MarketFeed`: done, its safety and the refinement proved.
3. `History`: done, its safety proved.
4. Not begun: the request that is dropped while a recovery runs, composed with
   `MarketFeed`; the cross-pair correlation cache; sessions.
