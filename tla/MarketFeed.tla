----------------------------- MODULE MarketFeed -----------------------------
(***************************************************************************)
(* One exchange collector and the candle aggregator it feeds.  The         *)
(* collector connects, subscribes, receives trades into the trade queue,   *)
(* loses its connection and connects again; the service turns the time in  *)
(* between into gaps of the collector's streams; the consumer hands the    *)
(* queued trades to the aggregator; the finalizer closes the seconds of    *)
(* the streams that are active.                                            *)
(*                                                                         *)
(* The streams are the instruments of the one exchange.  The collector is  *)
(* Bybit's, which subscribes to each topic on the open connection and has  *)
(* it accepted or rejected.  Binance names the topics in the URL: it       *)
(* behaves like a Bybit connection all of whose topics are accepted at     *)
(* once.  The exchange itself is external: it reports a trade at any time  *)
(* after it happened, but on the connection that was open then.            *)
(***************************************************************************)
EXTENDS CandleAggregator

CONSTANTS MaxOutages,            \* bound: connections that are lost
          MaxSubscribeFailures   \* bound: connections that fail to subscribe

ASSUME FeedAssumption ==
    /\ MaxOutages \in Nat
    /\ MaxSubscribeFailures \in Nat
    /\ Streams # {}
    /\ 0..Horizon \subseteq Disconnects   \* a connection may be lost at any time
    /\ None \notin [streams: SUBSET Streams, start: Nat]

VARIABLES
    phase,             \* where connect_once is; "new" until a feed is established
    connected,         \* connected
    accepted,          \* the streams whose topic is accepted
    requested,         \* the streams whose subscription is not answered yet
    disconnectedSince, \* _disconnected_since of the exchange, or None
    marking,           \* the gap being marked: [streams, start], or None
    tradeQueue,        \* trade_queue
    outages,           \* connections lost so far
    subscribeFailures, \* connections that failed to subscribe so far
    offline            \* the ticks during which an established feed was down

collector == <<phase, connected, accepted, requested>>
bounds    == <<outages, subscribeFailures>>
feedVars  == <<vars, collector, disconnectedSince, marking, tradeQueue, bounds, offline>>

FeedInit ==
    /\ Init
    /\ phase = "new"
    /\ connected = FALSE
    /\ accepted = {}
    /\ requested = {}
    /\ disconnectedSince = None
    /\ marking = None
    /\ tradeQueue = <<>>
    /\ outages = 0
    /\ subscribeFailures = 0
    /\ offline = {}

(***************************************************************************)
(* Neither marking gaps nor a finalizer pass awaits anything.              *)
(***************************************************************************)
LoopIsFree == pass = None /\ marking = None

FeedTick ==
    /\ LoopIsFree
    /\ Tick
    /\ offline' = IF phase = "down" THEN offline \cup {now} ELSE offline
    /\ UNCHANGED <<collector, disconnectedSince, marking, tradeQueue, bounds>>

-----------------------------------------------------------------------------
(* The collector *)

(* Mutant of Connect: the disconnect time is read but not popped. *)
ConnectWithoutPop ==
    /\ LoopIsFree
    /\ phase \in {"new", "down"}
    /\ connected' = TRUE
    /\ phase' = "subscribing"
    /\ accepted' = {}
    /\ requested' = {}
    /\ marking' = IF disconnectedSince = None THEN None
                  ELSE [streams |-> Streams, start |-> disconnectedSince]
    /\ UNCHANGED <<vars, disconnectedSince, tradeQueue, bounds, offline>>

(***************************************************************************)
(* The connection is up.  The state change marks the gap since the last    *)
(* disconnect, and the topics accepted before are forgotten.               *)
(***************************************************************************)
Connect ==
    /\ LoopIsFree
    /\ phase \in {"new", "down"}
    /\ connected' = TRUE
    /\ phase' = "subscribing"
    /\ accepted' = {}
    /\ requested' = {}
    /\ disconnectedSince' = None
    /\ marking' = IF disconnectedSince = None THEN None
                  ELSE [streams |-> Streams, start |-> disconnectedSince]
    /\ UNCHANGED <<vars, tradeQueue, bounds, offline>>

(***************************************************************************)
(* mark_gap of one stream: nothing to mark if no time has passed.          *)
(***************************************************************************)
MarkStream(s) ==
    /\ marking # None
    /\ s \in marking.streams
    /\ RecordGap(s, marking.start) \/ (marking.start >= now /\ UNCHANGED vars)
    /\ marking' = IF marking.streams = {s} THEN None
                  ELSE [marking EXCEPT !.streams = @ \ {s}]
    /\ UNCHANGED <<collector, disconnectedSince, tradeQueue, bounds, offline>>

Subscribe ==
    /\ LoopIsFree
    /\ phase = "subscribing"
    /\ phase' = "receiving"
    /\ requested' = Streams
    /\ UNCHANGED <<vars, connected, accepted, disconnectedSince, marking,
                   tradeQueue, bounds, offline>>

(***************************************************************************)
(* A send fails before messages are read: run() resets `connected` itself, *)
(* without the state change that records the time.                         *)
(***************************************************************************)
SubscribeFails ==
    /\ LoopIsFree
    /\ phase = "subscribing"
    /\ subscribeFailures < MaxSubscribeFailures
    /\ subscribeFailures' = subscribeFailures + 1
    /\ phase' = IF outages = 0 THEN "new" ELSE "down"
    /\ connected' = FALSE
    /\ UNCHANGED <<vars, accepted, requested, disconnectedSince, marking,
                   tradeQueue, outages, offline>>

AcceptTopic(s) ==
    /\ LoopIsFree
    /\ phase = "receiving"
    /\ s \in requested
    /\ requested' = requested \ {s}
    /\ accepted' = accepted \cup {s}
    /\ UNCHANGED <<vars, phase, connected, disconnectedSince, marking,
                   tradeQueue, bounds, offline>>

RejectTopic(s) ==
    /\ LoopIsFree
    /\ phase = "receiving"
    /\ s \in requested
    /\ requested' = requested \ {s}
    /\ accepted' = accepted \ {s}
    /\ UNCHANGED <<vars, phase, connected, disconnectedSince, marking,
                   tradeQueue, bounds, offline>>

Disconnect ==
    /\ LoopIsFree
    /\ phase = "receiving"
    /\ outages < MaxOutages
    /\ outages' = outages + 1
    /\ phase' = "down"
    /\ connected' = FALSE
    /\ disconnectedSince' = IF disconnectedSince = None THEN now ELSE disconnectedSince
    /\ UNCHANGED <<vars, accepted, requested, marking, tradeQueue,
                   subscribeFailures, offline>>

Receive(trade) ==
    /\ LoopIsFree
    /\ phase = "receiving"
    /\ trade.stream \in accepted
    /\ trade.time <= now
    /\ (trade.time..now) \cap offline = {}
    /\ trade \notin ToSet(tradeQueue)
    /\ deliveries[trade] < MaxDeliveries
    /\ tradeQueue' = Append(tradeQueue, trade)
    /\ UNCHANGED <<vars, collector, disconnectedSince, marking, bounds, offline>>

-----------------------------------------------------------------------------
(* The service *)

Consume ==
    /\ LoopIsFree
    /\ tradeQueue # <<>>
    /\ AddTrade(Head(tradeQueue))
    /\ tradeQueue' = Tail(tradeQueue)
    /\ UNCHANGED <<collector, disconnectedSince, marking, bounds, offline>>

(* Mutant of ActiveStreams: a disconnected collector's streams are active. *)
AllSubscribedStreams == accepted

ActiveStreams == IF connected THEN accepted ELSE {}

FinalizeActive ==
    /\ LoopIsFree
    /\ FinalizeDue(ActiveStreams)
    /\ UNCHANGED <<collector, disconnectedSince, marking, tradeQueue, bounds, offline>>

ContinuePass ==
    /\ PassStep
    /\ UNCHANGED <<collector, disconnectedSince, marking, tradeQueue, bounds, offline>>

-----------------------------------------------------------------------------

CollectorStep ==
    \/ Connect
    \/ Subscribe
    \/ SubscribeFails
    \/ \E s \in Streams : AcceptTopic(s) \/ RejectTopic(s)
    \/ Disconnect
    \/ \E trade \in Trades : Receive(trade)

FeedNext ==
    \/ FeedTick
    \/ CollectorStep
    \/ \E s \in Streams : MarkStream(s)
    \/ Consume
    \/ FinalizeActive
    \/ ContinuePass

FeedSpec == FeedInit /\ [][FeedNext]_feedVars

-----------------------------------------------------------------------------
(* Properties *)

(* The types of the collector, the service and the aggregator it feeds. *)
FeedTypeOK ==
    /\ TypeOK
    /\ phase \in {"new", "subscribing", "receiving", "down"}
    /\ connected \in BOOLEAN
    /\ accepted \subseteq Streams
    /\ requested \subseteq Streams
    /\ disconnectedSince \in Nat \cup {None}
    /\ marking \in {None} \cup [streams: (SUBSET Streams) \ {{}}, start: Nat]
    /\ tradeQueue \in Seq(Trades)
    /\ outages \in Nat
    /\ subscribeFailures \in Nat
    /\ offline \subseteq Nat

(***************************************************************************)
(* The feed uses the aggregator as the aggregator's own specification      *)
(* assumes: gaps are marked forward in time, one after the other, trades   *)
(* are never from the future, and nothing happens within a pass.           *)
(***************************************************************************)
ImplementsAggregator == Spec

TicksOf(key) == key[2]..(key[2] + SecondMs - 1)

PublishedAs(key, status) ==
    \E i \in DOMAIN Published(key) : Published(key)[i].status = status

(***************************************************************************)
(* A disconnected interval creates incomplete candles: no second that the  *)
(* feed was down in is published as a complete one.  It holds while every  *)
(* connection that is made also subscribes and the aggregator remembers as *)
(* many gaps as there were outages, with queued trades, finalizer passes   *)
(* and repeated outages in any order.                                      *)
(***************************************************************************)
OutagesAreIncomplete ==
    (subscribeFailures = 0 /\ outages <= MaxGaps) =>
        \A key \in DOMAIN candles :
            TicksOf(key) \cap offline # {} =>
                ~ PublishedAs(key, "complete") /\ ~ PublishedAs(key, "complete_empty")

(***************************************************************************)
(* No price is invented from the previous close for a second that lies     *)
(* wholly in an outage.  The code breaks it when a connection fails to     *)
(* subscribe: the rest of the outage is then never marked as a gap.        *)
(***************************************************************************)
NoPriceIsInvented ==
    \A key \in DOMAIN candles :
        TicksOf(key) \subseteq offline => ~ PublishedAs(key, "complete_empty")

(***************************************************************************)
(* Only a second the feed was down in is published as incomplete.          *)
(***************************************************************************)
OnlyOutagesAreIncomplete ==
    \A key \in DOMAIN candles :
        PublishedAs(key, "incomplete") => TicksOf(key) \cap offline # {}
=============================================================================
