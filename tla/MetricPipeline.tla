--------------------------- MODULE MetricPipeline ---------------------------
(***************************************************************************)
(* From a closed candle to its metrics: the finalizer and the trade        *)
(* consumer apply candles to the store, put them into the database's queue *)
(* and ask for the metric scopes they close; one worker recomputes the     *)
(* scopes from the history, while REST requests compute and publish the    *)
(* same scopes.                                                            *)
(*                                                                         *)
(* The tasks share one event loop, so a step is all that a task does       *)
(* between two places where it can suspend: a put into the database's      *)
(* queue (which suspends while that is full) and a query.  The locks of    *)
(* the store and of the stream condition are never held across one.        *)
(*                                                                         *)
(* One market.  A candle is its second and its revision; a summary is the  *)
(* set of candles it is computed from; times are in seconds.  The          *)
(* correlations with other markets are left out, and so are the raw trades *)
(* that timeframes below a minute read first, and how summaries reach the  *)
(* subscribers (see StreamNotification).                                   *)
(***************************************************************************)
EXTENDS Integers, Sequences, FiniteSets, PyCollections

CONSTANTS Timeframes,     \* the timeframes, in seconds
          DayTimeframe,   \* METRICS_24H_TIMEFRAME
          LastClose,      \* bound: the seconds that close
          MaxLate,        \* bound: late trades
          QueueSize,      \* maxsize of metric_queue
          Clients,        \* clients of the REST endpoint
          MaxRequests,    \* bound: their requests
          MaxFailures     \* bound: builds that raise

(***************************************************************************)
(* What metrics are cached for: each timeframe, and the last day of one.   *)
(***************************************************************************)
Scopes == [timeframe : Timeframes, window : {"default"}]
              \cup [timeframe : {DayTimeframe} \cap Timeframes, window : {"24h"}]

(***************************************************************************)
(* What a client may ask for: a scope, or a window of its own.             *)
(***************************************************************************)
Requests == Scopes \cup [timeframe : Timeframes, window : {"custom"}]

ASSUME PipelineAssumption ==
    /\ Timeframes \subseteq Nat \ {0} /\ IsFiniteSet(Timeframes)
    /\ DayTimeframe \in Nat
    /\ LastClose \in Nat
    /\ MaxLate \in Nat
    /\ QueueSize \in Nat \ {0}
    /\ "worker" \notin Clients
    /\ MaxRequests \in Nat
    /\ MaxFailures \in Nat

Candle == [close : 1..LastClose, revision : 1..MaxLate + 1]

Builders == {"worker"} \cup Clients

Producers == {"finalizer", "consumer"}

VARIABLES
    latest,         \* second -> its newest revision, 0 while it is open
    putting,        \* producer -> its candles not yet in the database's queue
    live,           \* the candles applied to the store
    sent,           \* the candles in the database's queue, or beyond it
    stored,         \* the candles in the database
    metricQueue,    \* metric_queue
    pendingScopes,  \* _pending_metric_scopes
    building,       \* builder -> what it builds, for the busy ones
    metricCache,    \* metric_cache: scope -> summary
    spent           \* how often each bounded input happened

candles  == <<latest, putting, live, sent>>
queueing == <<metricQueue, pendingScopes>>
vars     == <<candles, stored, queueing, building, metricCache, spent>>

-----------------------------------------------------------------------------

Init ==
    /\ latest = [close \in 1..LastClose |-> 0]
    /\ putting = [p \in Producers |-> <<>>]
    /\ live = {}
    /\ sent = {}
    /\ stored = {}
    /\ metricQueue = <<>>
    /\ pendingScopes = {}
    /\ building = <<>>
    /\ metricCache = <<>>
    /\ spent = [late |-> 0, requests |-> 0, failures |-> 0]

Spend(what, limit) ==
    /\ spent[what] < limit
    /\ spent' = [spent EXCEPT ![what] = @ + 1]

-----------------------------------------------------------------------------
(* Metric scopes *)

Before(s, t) ==
    \/ s.timeframe < t.timeframe
    \/ s.timeframe = t.timeframe /\ s.window = "default" /\ t.window = "24h"

(***************************************************************************)
(* The scopes of a set in the order in which they are asked for: by        *)
(* timeframe, the default window first.                                    *)
(***************************************************************************)
Ordered(S) ==
    {order \in [1..Cardinality(S) -> S] :
        \A i, j \in 1..Cardinality(S) : i < j => Before(order[i], order[j])}

(***************************************************************************)
(* A candle asks for the scopes whose bucket it closes; a recovered one,   *)
(* which may lie anywhere, for all.                                        *)
(***************************************************************************)
ScopesOf(candle) ==
    {s \in Scopes : \/ s.timeframe = 1
                    \/ candle.revision > 1
                    \/ candle.close % s.timeframe = 0}

(* Mutant of Wanted: a scope that is being built is not asked for either. *)
WantedUnlessBuilding(S) ==
    S \ (pendingScopes \cup {building[b].scope : b \in DOMAIN building})

(***************************************************************************)
(* A scope that is pending already is not asked for again.                 *)
(***************************************************************************)
Wanted(S) == S \ pendingScopes

(***************************************************************************)
(* A scope that finds the queue full is forgotten.                         *)
(***************************************************************************)
EnqueueScopes(S) ==
    \E order \in Ordered(Wanted(S)) :
        LET room == QueueSize - Len(metricQueue)
            fits == SubSeq(order, 1, IF Len(order) < room THEN Len(order) ELSE room)
        IN  /\ metricQueue' = metricQueue \o fits
            /\ pendingScopes' = pendingScopes \cup ToSet(fits)

-----------------------------------------------------------------------------
(* The producers *)

(***************************************************************************)
(* A late trade revises a closed second: the recovered candle is applied   *)
(* and announced, and then put into the database's queue.                  *)
(***************************************************************************)
ConsumeLateTrade(close) ==
    LET candle == [close |-> close, revision |-> latest[close] + 1]
    IN  /\ putting["consumer"] = <<>>
        /\ latest[close] > 0
        /\ Spend("late", MaxLate)
        /\ latest' = [latest EXCEPT ![close] = @ + 1]
        /\ live' = live \cup {candle}
        /\ putting' = [putting EXCEPT !["consumer"] = <<candle>>]
        /\ UNCHANGED <<sent, stored, queueing, building, metricCache>>

Closed(close) == [close |-> close, revision |-> 1]

(***************************************************************************)
(* A pass of the finalizer closes the next n seconds, and applies and puts *)
(* their candles one after the other.                                      *)
(***************************************************************************)
FinalizeDue(n) ==
    LET open  == {close \in 1..LastClose : latest[close] = 0}
        first == LastClose - Cardinality(open) + 1
    IN  /\ putting["finalizer"] = <<>>
        /\ n <= Cardinality(open)
        /\ latest' = [close \in 1..LastClose |->
                        IF close \in first..first + n - 1 THEN 1 ELSE latest[close]]
        /\ live' = live \cup {Closed(first)}
        /\ putting' = [putting EXCEPT !["finalizer"] =
                         [i \in 1..n |-> Closed(first + i - 1)]]
        /\ UNCHANGED <<sent, stored, queueing, building, metricCache, spent>>

(***************************************************************************)
(* The put of p's first candle returns, and its scopes are asked for.      *)
(***************************************************************************)
PutFirst(p) ==
    /\ putting[p] # <<>>
    /\ sent' = sent \cup {Head(putting[p])}
    /\ EnqueueScopes(ScopesOf(Head(putting[p])))
    /\ putting' = [putting EXCEPT ![p] = Tail(putting[p])]

PutRecovered ==
    /\ PutFirst("consumer")
    /\ UNCHANGED <<latest, live, stored, building, metricCache, spent>>

PutAndApplyNext ==
    /\ PutFirst("finalizer")
    /\ Tail(putting["finalizer"]) # <<>>
    /\ live' = live \cup {putting["finalizer"][2]}
    /\ UNCHANGED <<latest, stored, building, metricCache, spent>>

(***************************************************************************)
(* The last candle ends the pass (and notifies: see StreamNotification).   *)
(***************************************************************************)
EndPass ==
    /\ PutFirst("finalizer")
    /\ Tail(putting["finalizer"]) = <<>>
    /\ UNCHANGED <<latest, live, stored, building, metricCache, spent>>

(***************************************************************************)
(* The database's writer commits a candle (in any order: see               *)
(* DatabaseWriter for what retries do).                                    *)
(***************************************************************************)
Store(candle) ==
    /\ candle \in sent \ stored
    /\ stored' = stored \cup {candle}
    /\ UNCHANGED <<candles, queueing, building, metricCache, spent>>

-----------------------------------------------------------------------------
(* The builders *)

Build(scope) == [stage |-> "reading", scope |-> scope, summary |-> {}]

(* Mutant of PendingAfterTake: the scope stays pending while it is built. *)
PendingUntilBuilt(scope) == pendingScopes

(* Mutant of PendingAfterTake: every pending scope is discarded. *)
PendingCleared(scope) == {}

(***************************************************************************)
(* A scope is no longer pending when its build begins, so that a candle    *)
(* that closes meanwhile asks for it again.                                *)
(***************************************************************************)
PendingAfterTake(scope) == pendingScopes \ {scope}

Take ==
    /\ "worker" \notin DOMAIN building
    /\ metricQueue # <<>>
    /\ pendingScopes' = PendingAfterTake(Head(metricQueue))
    /\ metricQueue' = Tail(metricQueue)
    /\ building' = With(building, "worker", Build(Head(metricQueue)))
    /\ UNCHANGED <<candles, stored, metricCache, spent>>

Request(client, scope) ==
    /\ client \notin DOMAIN building
    /\ Spend("requests", MaxRequests)
    /\ building' = With(building, client, Build(scope))
    /\ UNCHANGED <<candles, stored, queueing, metricCache>>

(***************************************************************************)
(* The history is read from the database, or if that fails from the store; *)
(* the correlations and the put of the metric rows suspend after it.       *)
(***************************************************************************)
Read(b) ==
    /\ b \in DOMAIN building
    /\ building[b].stage = "reading"
    /\ \E history \in {stored, live} :
          building' = [building EXCEPT ![b].stage = "publishing",
                                       ![b].summary = history]
    /\ UNCHANGED <<candles, stored, queueing, metricCache, spent>>

(* Mutant of IsCached: a client's own window is cached, too. *)
IsBuilt(scope) == scope \in Requests

(***************************************************************************)
(* The summary of a client's own window is for that client only.           *)
(***************************************************************************)
IsCached(scope) == scope.window # "custom"

Publish(b) ==
    /\ b \in DOMAIN building
    /\ building[b].stage = "publishing"
    /\ metricCache' = IF IsCached(building[b].scope)
                        THEN With(metricCache, building[b].scope, building[b].summary)
                        ELSE metricCache
    /\ building' = Without(building, b)
    /\ UNCHANGED <<candles, stored, queueing, spent>>

(***************************************************************************)
(* A build raises: the error is kept, and the scope is not asked for again.*)
(***************************************************************************)
FailBuild(b) ==
    /\ b \in DOMAIN building
    /\ Spend("failures", MaxFailures)
    /\ building' = Without(building, b)
    /\ UNCHANGED <<candles, stored, queueing, metricCache>>

-----------------------------------------------------------------------------

Produce ==
    \/ \E close \in 1..LastClose : ConsumeLateTrade(close) \/ FinalizeDue(close)
    \/ PutRecovered
    \/ PutAndApplyNext
    \/ EndPass
    \/ \E candle \in sent : Store(candle)

BuilderStep ==
    \/ Take
    \/ \E client \in Clients, scope \in Requests : Request(client, scope)
    \/ \E b \in Builders : Read(b) \/ Publish(b) \/ FailBuild(b)

Next == Produce \/ BuilderStep

Spec == Init /\ [][Next]_vars

(***************************************************************************)
(* The event loop runs every task that can run: a put ends (QueueDrains of *)
(* DatabaseWriter) and the worker builds.  Nothing makes seconds close,    *)
(* trades come late, requests arrive or candles be committed.              *)
(***************************************************************************)
Fairness ==
    /\ WF_vars(PutRecovered)
    /\ WF_vars(PutAndApplyNext)
    /\ WF_vars(EndPass)
    /\ WF_vars(Take)
    /\ WF_vars(Read("worker"))
    /\ WF_vars(Publish("worker"))

FairSpec == Spec /\ Fairness

-----------------------------------------------------------------------------
(* Properties *)

(* The types of the candles under way. *)
CandlesTypeOK ==
    /\ latest \in [1..LastClose -> 0..MaxLate + 1]
    /\ putting \in [Producers -> Seq(Candle)]
    /\ live \subseteq Candle
    /\ sent \subseteq Candle
    /\ stored \subseteq Candle

(* The types of the scopes asked for, built and cached. *)
ScopesTypeOK ==
    /\ metricQueue \in Seq(Scopes) /\ Len(metricQueue) <= QueueSize
    /\ pendingScopes \subseteq Scopes
    /\ DOMAIN building \subseteq Builders
    /\ building \in [DOMAIN building -> [stage : {"reading", "publishing"},
                                         scope : Requests, summary : SUBSET Candle]]
    /\ DOMAIN metricCache \subseteq Scopes
    /\ metricCache \in [DOMAIN metricCache -> SUBSET Candle]
    /\ spent \in [{"late", "requests", "failures"} -> Nat]

(* The types of the pipeline. *)
TypeOK == CandlesTypeOK /\ ScopesTypeOK

(***************************************************************************)
(* The set that guards the queue agrees with it through every interleaving *)
(* of candles and builds: a scope is pending if and only if it is in the   *)
(* queue, and it is there once.                                            *)
(***************************************************************************)
PendingIsQueued ==
    /\ pendingScopes = ToSet(metricQueue)
    /\ \A i, j \in DOMAIN metricQueue : metricQueue[i] = metricQueue[j] => i = j

(***************************************************************************)
(* No candle goes by unnoticed: when it is put into the database's queue,  *)
(* every scope it closes waits for a build, however long builds take.  The *)
(* queue has room for every scope, and so none is ever forgotten.          *)
(***************************************************************************)
CandlesAskForTheirScopes ==
    [][\A candle \in sent' \ sent : ScopesOf(candle) \subseteq pendingScopes']_vars

(***************************************************************************)
(* What the worker builds, a set of at most one scope.                     *)
(***************************************************************************)
InWork == {building[b].scope : b \in {"worker"} \cap DOMAIN building}

(***************************************************************************)
(* The worker recomputes on demand: pending scopes are asked for, and the  *)
(* worker's build is the computation.                                      *)
(***************************************************************************)
Demand == INSTANCE RecomputeOnDemand WITH
             Values <- Scopes,
             asked <- pendingScopes,
             computing <- InWork

(***************************************************************************)
(* Every scope a candle asks for is built after it, even if it was being   *)
(* built at that moment; bursts are merged; no scope starves.              *)
(***************************************************************************)
RecomputesOnDemand == Demand!RecomputeSpec

Quiet ==
    /\ putting = [p \in Producers |-> <<>>]
    /\ metricQueue = <<>>
    /\ building = <<>>
    /\ stored = sent

(***************************************************************************)
(* Once a candle is recomputed and nothing is under way, the summary that  *)
(* was pushed for its scopes knows of it.  The code breaks it: the scope   *)
(* is asked for when the candle is queued for the database, and the build  *)
(* may read the history before the candle is committed.                    *)
(***************************************************************************)
PushedSummariesAreFresh ==
    Quiet => \A candle \in sent : \A s \in ScopesOf(candle) :
                 s \in DOMAIN metricCache /\ candle \in metricCache[s]
=============================================================================
