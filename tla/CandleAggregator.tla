-------------------------- MODULE CandleAggregator --------------------------
(***************************************************************************)
(* The event-time candle aggregator of the backend.  Trades arrive late,   *)
(* out of order and more than once; once per polling period the finalizer  *)
(* closes every second that the watermark has passed.  A trade for a       *)
(* second that is already closed produces a "recovered" revision of it.    *)
(*                                                                         *)
(* Neither add_trade nor finalize_due awaits anything, so each is atomic   *)
(* on the event loop.  add_trade is one action per outcome.  finalize_due  *)
(* is a pass of one action per loop iteration, and nothing else happens    *)
(* while a pass is under way.                                              *)
(*                                                                         *)
(* A dictionary is a function on the keys it holds; an OrderedDict is such *)
(* a function with the sequence of its keys, oldest first.                 *)
(***************************************************************************)
EXTENDS CandleState, PyCollections

CONSTANTS AllowedLatenessMs,   \* allowed_lateness_ms
          FinalizedCacheSize,  \* finalized_cache_size
          DedupCacheSize,      \* dedup_cache_size
          MaxGaps,             \* gaps remembered per stream (100)
          ClockSkew,           \* how far exchange clocks run ahead of ours
          Disconnects,         \* the times at which a gap may have begun
          Horizon,             \* bound: the clock stops here
          MaxDeliveries        \* bound: times one trade is delivered

ASSUME ParameterAssumption ==
    /\ AllowedLatenessMs \in Nat
    /\ FinalizedCacheSize \in Nat
    /\ DedupCacheSize \in Nat
    /\ MaxGaps \in Nat
    /\ ClockSkew \in Nat
    /\ Disconnects \subseteq Nat
    /\ Horizon \in Nat
    /\ MaxDeliveries \in Nat

VARIABLES
    now,                \* the backend's clock
    deliveries,         \* how often each trade has been handed to add_trade
    seenTrades,         \* _seen_trades: dedup keys, oldest first
    open,               \* _open: key -> state of a second still accumulating
    finalized,          \* _finalized: key -> state of a closed second
    finalizedOrder,     \* the keys of _finalized, least recently used first
    lastFinalizedOpen,  \* _last_finalized_open, per stream
    lastClose,          \* _last_close, per stream
    gaps,               \* _gaps, per stream: <<start, end>> intervals
    pass,               \* the finalize_due pass under way, or None
    candles             \* key -> every candle returned for that second, in order

inputs == <<now, deliveries>>
aggregator == <<seenTrades, open, finalized, finalizedOrder,
                lastFinalizedOpen, lastClose, gaps>>
vars == <<inputs, aggregator, pass, candles>>

Key == Streams \X Int

-----------------------------------------------------------------------------

Published(key) == IF key \in DOMAIN candles THEN candles[key] ELSE <<>>

(***************************************************************************)
(* Hand a candle to the caller (the return value of add_trade, or an       *)
(* element of the list finalize_due returns).                              *)
(***************************************************************************)
Publish(key, candle) ==
    candles' = With(candles, key, Append(Published(key), candle))

(***************************************************************************)
(* Put an entry at the recent end of the finalized cache and evict from    *)
(* the other end while the cache is too large.                             *)
(***************************************************************************)
RememberFinalized(key, state) ==
    /\ finalizedOrder' = Newest(MoveToEnd(finalizedOrder, key), FinalizedCacheSize)
    /\ finalized' = Restrict(With(finalized, key, state),
                             (DOMAIN finalized \cup {key}) \cap ToSet(finalizedOrder'))

-----------------------------------------------------------------------------

Init ==
    /\ now = 0
    /\ deliveries = [trade \in Trades |-> 0]
    /\ seenTrades = <<>>
    /\ open = <<>>
    /\ finalized = <<>>
    /\ finalizedOrder = <<>>
    /\ lastFinalizedOpen = [s \in Streams |-> None]
    /\ lastClose = [s \in Streams |-> None]
    /\ gaps = [s \in Streams |-> <<>>]
    /\ pass = None
    /\ candles = <<>>

Tick ==
    /\ pass = None
    /\ now < Horizon
    /\ now' = now + 1
    /\ UNCHANGED <<deliveries, aggregator, pass, candles>>

-----------------------------------------------------------------------------
(* add_trade *)

DedupKey(trade) == <<trade.stream, trade.id>>

Deliver(trade) ==
    /\ pass = None
    /\ trade.time <= now + ClockSkew
    /\ deliveries[trade] < MaxDeliveries
    /\ deliveries' = [deliveries EXCEPT ![trade] = @ + 1]
    /\ UNCHANGED <<now, pass>>

DeliverFresh(trade) ==
    /\ Deliver(trade)
    /\ DedupKey(trade) \notin ToSet(seenTrades)
    /\ seenTrades' = Newest(Append(seenTrades, DedupKey(trade)), DedupCacheSize)

AddDuplicateTrade(trade) ==
    /\ Deliver(trade)
    /\ DedupKey(trade) \in ToSet(seenTrades)
    /\ UNCHANGED <<aggregator, candles>>

(* Mutant of CarryClose: a late trade leaves the carried price as it was. *)
CarryNothing(key, close) == lastClose' = lastClose

(***************************************************************************)
(* The frontier second carries its close into the empty seconds after it.  *)
(***************************************************************************)
CarryClose(key, close) ==
    lastClose' = IF lastFinalizedOpen[key[1]] = key[2]
                 THEN [lastClose EXCEPT ![key[1]] = close]
                 ELSE lastClose

(* Mutant of ReviseCachedSecond: the revision is not incremented. *)
ReviseInPlace(trade) ==
    LET key     == KeyOf(trade)
        revised == Apply(finalized[key], trade)
    IN  /\ DeliverFresh(trade)
        /\ key \in DOMAIN finalized
        /\ RememberFinalized(key, revised)
        /\ CarryClose(key, revised.close)
        /\ Publish(key, Finalize(revised, "recovered"))
        /\ UNCHANGED <<open, lastFinalizedOpen, gaps>>

(* Mutant of ReviseCachedSecond: the cache keeps the state before the trade. *)
ReviseCopyOfSecond(trade) ==
    LET key     == KeyOf(trade)
        applied == Apply(finalized[key], trade)
        revised == [applied EXCEPT !.revision = @ + 1]
    IN  /\ DeliverFresh(trade)
        /\ key \in DOMAIN finalized
        /\ RememberFinalized(key, finalized[key])
        /\ CarryClose(key, revised.close)
        /\ Publish(key, Finalize(revised, "recovered"))
        /\ UNCHANGED <<open, lastFinalizedOpen, gaps>>

(***************************************************************************)
(* A late trade for a closed second that is still cached revises it.       *)
(***************************************************************************)
ReviseCachedSecond(trade) ==
    LET key     == KeyOf(trade)
        applied == Apply(finalized[key], trade)
        revised == [applied EXCEPT !.revision = @ + 1]
    IN  /\ DeliverFresh(trade)
        /\ key \in DOMAIN finalized
        /\ RememberFinalized(key, revised)
        /\ CarryClose(key, revised.close)
        /\ Publish(key, Finalize(revised, "recovered"))
        /\ UNCHANGED <<open, lastFinalizedOpen, gaps>>

IsClosed(key) ==
    /\ lastFinalizedOpen[key[1]] # None
    /\ key[2] <= lastFinalizedOpen[key[1]]

(* Mutant of RecoverUncachedSecond: the recovered second is revision 1. *)
RecoverAsFirstRevision(trade) ==
    LET key       == KeyOf(trade)
        recovered == FromTrade(trade)
    IN  /\ DeliverFresh(trade)
        /\ key \notin DOMAIN finalized
        /\ IsClosed(key)
        /\ RememberFinalized(key, recovered)
        /\ CarryClose(key, trade.price)
        /\ Publish(key, Finalize(recovered, "recovered"))
        /\ UNCHANGED <<open, lastFinalizedOpen, gaps>>

(***************************************************************************)
(* A late trade for a closed second that is not cached starts it over, as  *)
(* revision 2.                                                             *)
(***************************************************************************)
RecoverUncachedSecond(trade) ==
    LET key       == KeyOf(trade)
        recovered == [FromTrade(trade) EXCEPT !.revision = 2]
    IN  /\ DeliverFresh(trade)
        /\ key \notin DOMAIN finalized
        /\ IsClosed(key)
        /\ RememberFinalized(key, recovered)
        /\ CarryClose(key, trade.price)
        /\ Publish(key, Finalize(recovered, "recovered"))
        /\ UNCHANGED <<open, lastFinalizedOpen, gaps>>

(* Mutant of AccumulateOpenSecond: a second that is not cached is reopened. *)
ReopenSecond(trade) ==
    LET key == KeyOf(trade)
    IN  /\ DeliverFresh(trade)
        /\ key \notin DOMAIN finalized
        /\ open' = With(open, key, IF key \in DOMAIN open
                                   THEN Apply(open[key], trade)
                                   ELSE FromTrade(trade))
        /\ UNCHANGED <<finalized, finalizedOrder, lastFinalizedOpen, lastClose,
                       gaps, candles>>

AccumulateOpenSecond(trade) ==
    LET key == KeyOf(trade)
    IN  /\ DeliverFresh(trade)
        /\ key \notin DOMAIN finalized
        /\ ~ IsClosed(key)
        /\ open' = With(open, key, IF key \in DOMAIN open
                                   THEN Apply(open[key], trade)
                                   ELSE FromTrade(trade))
        /\ UNCHANGED <<finalized, finalizedOrder, lastFinalizedOpen, lastClose,
                       gaps, candles>>

AddTrade(trade) ==
    \/ AddDuplicateTrade(trade)
    \/ ReviseCachedSecond(trade)
    \/ RecoverUncachedSecond(trade)
    \/ AccumulateOpenSecond(trade)

-----------------------------------------------------------------------------
(* mark_gap *)

RecordGap(s, start) ==
    /\ start < now
    /\ gaps' = [gaps EXCEPT ![s] = Newest(Append(@, <<start, now>>), MaxGaps)]
    /\ lastClose' = [lastClose EXCEPT ![s] = None]
    /\ UNCHANGED <<inputs, seenTrades, open, finalized, finalizedOrder,
                   lastFinalizedOpen, pass, candles>>

(***************************************************************************)
(* The service marks the interval from a disconnect to the reconnect, at   *)
(* the moment of the reconnect; a later disconnect starts after it.        *)
(***************************************************************************)
MarkGap(s, start) ==
    /\ pass = None
    /\ gaps[s] # <<>> => Last(gaps[s])[2] <= start
    /\ RecordGap(s, start)

(* Mutant of HasGap: a gap that ends as the second begins counts too. *)
HasTouchingGap(key) ==
    \E i \in DOMAIN gaps[key[1]] : /\ gaps[key[1]][i][1] < key[2] + SecondMs
                                   /\ gaps[key[1]][i][2] >= key[2]

HasGap(key) ==
    \E i \in DOMAIN gaps[key[1]] : /\ gaps[key[1]][i][1] < key[2] + SecondMs
                                   /\ gaps[key[1]][i][2] > key[2]

-----------------------------------------------------------------------------
(* finalize_due *)

(* Mutant of LastDueOpen: the allowed lateness is not subtracted. *)
LastOpenWithoutLateness == candle_open_time(now - 1)

LastDueOpen == candle_open_time(now - AllowedLatenessMs - 1)

FinalizeDue(active) ==
    /\ pass = None
    /\ pass' = [streams |-> active, stream |-> None, at |-> 0]
    /\ UNCHANGED <<inputs, aggregator, candles>>

(* Mutant of FirstDueSeconds: a pass starts from the oldest second with trades. *)
FirstTradedSeconds(s) == {key[2] : key \in {k \in DOMAIN open : k[1] = s /\ k[2] <= LastDueOpen}}

(***************************************************************************)
(* The seconds of s that finalize_due may start from: the one after the    *)
(* frontier or, before any second was closed, the oldest one with trades.  *)
(***************************************************************************)
FirstDueSeconds(s) ==
    IF lastFinalizedOpen[s] # None
    THEN {lastFinalizedOpen[s] + SecondMs}
    ELSE {key[2] : key \in {k \in DOMAIN open : k[1] = s /\ k[2] <= LastDueOpen}}

BeginStream(s) ==
    /\ pass # None
    /\ pass.stream = None
    /\ s \in pass.streams
    /\ \E start \in FirstDueSeconds(s) :
           /\ \A t \in FirstDueSeconds(s) : start <= t
           /\ pass' = [pass EXCEPT !.stream = s, !.at = start]
    /\ UNCHANGED <<inputs, aggregator, candles>>

PassOverStream(s) ==
    /\ pass # None
    /\ pass.stream = None
    /\ s \in pass.streams
    /\ FirstDueSeconds(s) = {}
    /\ pass' = [pass EXCEPT !.streams = @ \ {s}]
    /\ UNCHANGED <<inputs, aggregator, candles>>

IterateOn(key) ==
    /\ pass # None
    /\ pass.stream # None
    /\ pass.at <= LastDueOpen
    /\ key = <<pass.stream, pass.at>>
    /\ pass' = [pass EXCEPT !.at = @ + SecondMs]
    /\ open' = Without(open, key)

MoveFrontier(key) ==
    lastFinalizedOpen' = [lastFinalizedOpen EXCEPT ![key[1]] = key[2]]

FinalizeGapSecond(key) ==
    /\ IterateOn(key)
    /\ key \notin DOMAIN open
    /\ HasGap(key)
    /\ Publish(key, IncompleteCandle)
    /\ MoveFrontier(key)
    /\ UNCHANGED <<inputs, seenTrades, finalized, finalizedOrder, lastClose, gaps>>

(***************************************************************************)
(* No trades, no gap and no price to carry: the second is passed over.     *)
(***************************************************************************)
SkipSecond(key) ==
    /\ IterateOn(key)
    /\ key \notin DOMAIN open
    /\ ~ HasGap(key)
    /\ lastClose[key[1]] = None
    /\ UNCHANGED <<inputs, seenTrades, finalized, finalizedOrder,
                   lastFinalizedOpen, lastClose, gaps, candles>>

(***************************************************************************)
(* Close a second from its state; in a gap it is only "incomplete" and its *)
(* close is not carried.                                                   *)
(***************************************************************************)
CloseSecond(key, state) ==
    LET status == IF HasGap(key) THEN "incomplete" ELSE ResolvedStatus(state)
    IN  /\ Publish(key, Finalize(state, status))
        /\ RememberFinalized(key, state)
        /\ MoveFrontier(key)
        /\ lastClose' = IF status = "incomplete" THEN lastClose
                        ELSE [lastClose EXCEPT ![key[1]] = state.close]
        /\ UNCHANGED <<inputs, seenTrades, gaps>>

FinalizeTradedSecond(key) ==
    /\ IterateOn(key)
    /\ key \in DOMAIN open
    /\ CloseSecond(key, open[key])

(* Mutant of FinalizeEmptySecond: the missing carried price is not noticed. *)
FinalizeUnpricedSecond(key) ==
    /\ IterateOn(key)
    /\ key \notin DOMAIN open
    /\ ~ HasGap(key)
    /\ CloseSecond(key, EmptyState(key[2], lastClose[key[1]]))

FinalizeEmptySecond(key) ==
    /\ IterateOn(key)
    /\ key \notin DOMAIN open
    /\ ~ HasGap(key)
    /\ lastClose[key[1]] # None
    /\ CloseSecond(key, EmptyState(key[2], lastClose[key[1]]))

FinalizeSecond(key) ==
    \/ FinalizeGapSecond(key)
    \/ SkipSecond(key)
    \/ FinalizeTradedSecond(key)
    \/ FinalizeEmptySecond(key)

EndStream ==
    /\ pass # None
    /\ pass.stream # None
    /\ pass.at > LastDueOpen
    /\ pass' = [pass EXCEPT !.streams = @ \ {pass.stream}, !.stream = None]
    /\ UNCHANGED <<inputs, aggregator, candles>>

EndPass ==
    /\ pass # None
    /\ pass.stream = None
    /\ pass.streams = {}
    /\ pass' = None
    /\ UNCHANGED <<inputs, aggregator, candles>>

-----------------------------------------------------------------------------

PassStep ==
    \/ \E s \in Streams : BeginStream(s) \/ PassOverStream(s)
    \/ pass # None /\ FinalizeSecond(<<pass.stream, pass.at>>)
    \/ EndStream
    \/ EndPass

Next ==
    \/ Tick
    \/ \E trade \in Trades : AddTrade(trade)
    \/ \E s \in Streams, start \in Disconnects : MarkGap(s, start)
    \/ \E active \in SUBSET Streams : FinalizeDue(active)
    \/ PassStep

Spec == Init /\ [][Next]_vars

-----------------------------------------------------------------------------
(* Properties *)

Pass == [streams: SUBSET Streams, stream: Streams \cup {None}, at: Int]

(* The types of the aggregator's dictionaries and of what it has published. *)
TypeOK ==
    /\ now \in Nat
    /\ deliveries \in [Trades -> Nat]
    /\ seenTrades \in Seq(Streams \X Nat)
    /\ DOMAIN open \subseteq Key /\ \A key \in DOMAIN open : open[key] \in State
    /\ DOMAIN finalized \subseteq Key
    /\ \A key \in DOMAIN finalized : finalized[key] \in State
    /\ finalizedOrder \in Seq(Key)
    /\ lastFinalizedOpen \in [Streams -> Int \cup {None}]
    /\ lastClose \in [Streams -> Price]
    /\ gaps \in [Streams -> Seq(Int \X Int)]
    /\ pass \in {None} \cup Pass
    /\ DOMAIN candles \subseteq Key
    /\ \A key \in DOMAIN candles : candles[key] \in Seq(Candle)

(***************************************************************************)
(* The frontier separates the two dictionaries: a second still collecting  *)
(* trades lies beyond the last finalized one, a cached or published second *)
(* does not.  The finalizer relies on it to find the trades of a second in *)
(* exactly one place, whatever the arrival order and the evictions.        *)
(***************************************************************************)
FrontierSeparates ==
    /\ \A key \in DOMAIN open : ~ IsClosed(key)
    /\ \A key \in DOMAIN finalized \cup DOMAIN candles : IsClosed(key)

(***************************************************************************)
(* What keeps the frontier so: seconds begin on multiples of SecondMs, and *)
(* the cursor of a pass is beyond the frontier with no trades before it.   *)
(***************************************************************************)
Aligned(t) == t % SecondMs = 0

SecondsAreAligned ==
    /\ \A key \in DOMAIN open : Aligned(key[2])
    /\ \A s \in Streams : lastFinalizedOpen[s] # None => Aligned(lastFinalizedOpen[s])

CursorPrecedesOpen ==
    pass # None => (pass.stream # None =>
        /\ Aligned(pass.at)
        /\ ~ IsClosed(<<pass.stream, pass.at>>)
        /\ \A key \in DOMAIN open : key[1] = pass.stream => pass.at <= key[2])

FrontierInv == SecondsAreAligned /\ CursorPrecedesOpen /\ FrontierSeparates

(***************************************************************************)
(* The finalizer closes a second at most once and never after a recovered  *)
(* revision of it: revision 1 is only ever the first candle of a second.   *)
(***************************************************************************)
FirstRevisionComesFirst ==
    \A key \in DOMAIN candles :
        \A i \in 2..Len(candles[key]) : candles[key][i].revision # 1

(***************************************************************************)
(* A cached second is the last candle published for it, so the next late   *)
(* trade revises what clients and the database were given, also after      *)
(* other seconds were evicted.                                             *)
(***************************************************************************)
CacheIsPublished ==
    \A key \in DOMAIN finalized :
        /\ key \in DOMAIN candles
        /\ candles[key] # <<>>
        /\ Last(candles[key]) = Finalize(finalized[key], Last(candles[key]).status)

(***************************************************************************)
(* Open and close lie between low and high in every candle with a price,   *)
(* whatever order its trades were applied in.                              *)
(***************************************************************************)
Ordered(c) == c.low <= c.open /\ c.open <= c.high /\ c.low <= c.close /\ c.close <= c.high

PricesAreOrdered ==
    \A key \in DOMAIN candles : \A i \in DOMAIN candles[key] :
        candles[key][i] # IncompleteCandle => Ordered(candles[key][i])

(***************************************************************************)
(* What keeps it so: the states candles are made from are ordered too.     *)
(***************************************************************************)
StatesAreOrdered ==
    /\ \A key \in DOMAIN open : Ordered(open[key])
    /\ \A key \in DOMAIN finalized : Ordered(finalized[key])

(***************************************************************************)
(* A late trade creates a new revision: the revisions published for one    *)
(* second increase.                                                        *)
(***************************************************************************)
RevisionsIncrease ==
    \A key \in DOMAIN candles :
        \A i \in 2..Len(candles[key]) :
            candles[key][i].revision > candles[key][i - 1].revision

DeliveredTo(key) == {trade \in Trades : deliveries[trade] > 0 /\ KeyOf(trade) = key}

Earliest(S) == CHOOSE t \in S : \A u \in S \ {t} : Precedes(trade_order(t), trade_order(u))

Latest(S) == CHOOSE t \in S : \A u \in S \ {t} : Precedes(trade_order(u), trade_order(t))

Summarises(c, S) ==
    /\ c.count = Cardinality(S)
    /\ c.volume = MapThenSumSet(LAMBDA t : t.quantity, S)
    /\ S # {} => /\ c.open = Earliest(S).price
                 /\ c.close = Latest(S).price
                 /\ c.high = Max({t.price : t \in S})
                 /\ c.low = Min({t.price : t \in S})

(***************************************************************************)
(* While no cache overflows, every second is the OHLCV of exactly the      *)
(* trades delivered for it, each counted once and in event-time order,     *)
(* however they were delayed, reordered or repeated: this holds of the     *)
(* seconds still open (what provisional() shows) and of the last candle    *)
(* published for every closed second, and no delivered trade is in neither.*)
(***************************************************************************)
CandlesAreExact ==
    /\ \A key \in DOMAIN open : Summarises(open[key], DeliveredTo(key))
    /\ \A key \in DOMAIN candles : Summarises(Last(candles[key]), DeliveredTo(key))
    /\ \A trade \in Trades :
           deliveries[trade] > 0 => KeyOf(trade) \in DOMAIN open \cup DOMAIN candles

(***************************************************************************)
(* The price carried into empty seconds is the close of the last revision  *)
(* of the frontier second, also when a late trade revised it meanwhile;    *)
(* only an incomplete frontier leaves an older price in place.             *)
(***************************************************************************)
CarriedPriceIsFrontierClose ==
    \A s \in Streams :
        lastClose[s] # None =>
            LET frontier == Last(Published(<<s, lastFinalizedOpen[s]>>))
            IN  frontier.status = "incomplete" \/ frontier.close = lastClose[s]

(***************************************************************************)
(* A late trade for a second that is still cached publishes exactly the    *)
(* next revision of it, also when eviction has been at work around it.     *)
(***************************************************************************)
CachedRevisionsIncrease ==
    [][\A key \in DOMAIN finalized :
           candles'[key] # candles[key]
           => Last(candles'[key]).revision = Last(candles[key]).revision + 1]_vars

(***************************************************************************)
(* A second closed with a price, after which there is one to carry, and a  *)
(* gap recorded when that second had been closed or was due.               *)
(***************************************************************************)
ClosedWithPrice(key) == candles[key][1].revision = 1 /\ candles[key][1].status # "incomplete"

GapSince(key) ==
    gaps[key[1]] # <<>> /\ Last(gaps[key[1]])[2] > key[2] + AllowedLatenessMs

(***************************************************************************)
(* Only an outage leaves a second without any candle: once a second was    *)
(* closed with a price, every later second up to the frontier gets one,    *)
(* until a gap takes the carried price away.  finalize_due passes over     *)
(* seconds without a price and never comes back to them once the frontier  *)
(* has moved on.                                                           *)
(***************************************************************************)
HolesFollowGaps ==
    MaxGaps > 0 =>
        \A key \in DOMAIN candles : ClosedWithPrice(key) =>
            \A t \in key[2]..lastFinalizedOpen[key[1]] :
                Aligned(t) /\ <<key[1], t>> \notin DOMAIN candles => GapSince(key)

(***************************************************************************)
(* A finalized second lies wholly or partly before the watermark.          *)
(***************************************************************************)
FrontierIsBehindWatermark ==
    \A s \in Streams :
        lastFinalizedOpen[s] # None => lastFinalizedOpen[s] + AllowedLatenessMs < now

(***************************************************************************)
(* A trade handed over so soon that its whole second lies within the       *)
(* allowed lateness is never late: it publishes no recovered revision.     *)
(***************************************************************************)
PromptTradesAreNotLate ==
    [][\A trade \in Trades :
           (/\ deliveries'[trade] > deliveries[trade]
            /\ now <= candle_open_time(trade.time) + AllowedLatenessMs)
           => UNCHANGED candles]_vars
=============================================================================
