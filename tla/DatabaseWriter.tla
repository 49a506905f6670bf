--------------------------- MODULE DatabaseWriter ---------------------------
(***************************************************************************)
(* Write-behind persistence.  The trade consumer and the candle finalizer  *)
(* put trades and candles into one bounded asyncio queue; a single writer  *)
(* task takes batches from it, writes each in a transaction, and puts a    *)
(* failed batch back at the tail.  Recovery meanwhile repairs candle rows  *)
(* from the raw trades, in transactions of its own, and stopping waits for *)
(* the queue to be joined.                                                 *)
(*                                                                         *)
(* A put suspends only while the queue is full, so a coroutine that puts   *)
(* several events is one step as far as they fit, and the events that do   *)
(* not fit stay pending.  (The store's locks and the stream condition that *)
(* are acquired on the way are never held while their holder waits.)       *)
(* TimescaleDB is external: a transaction is atomic and takes effect, does *)
(* not, or takes effect although its outcome is reported as an error.      *)
(*                                                                         *)
(* A candle stands for the trades it summarises; the aggregator's          *)
(* finalized cache is taken to be large enough for the seconds modelled.   *)
(***************************************************************************)
EXTENDS Integers, Sequences, FiniteSets

CONSTANTS Seconds,      \* the seconds of one stream
          Trades,       \* the trades, each in one second: [id, second]
          QueueSize,    \* maxsize of the queue
          BatchSize,    \* batch_size
          MaxFailures,  \* bound: batches that fail
          MaxRepairs    \* bound: recovery runs

Trade == [id: Nat, second: Seconds]

ASSUME WriterAssumption ==
    /\ Seconds \subseteq Nat /\ IsFiniteSet(Seconds)
    /\ Trades \subseteq Trade /\ IsFiniteSet(Trades)
    /\ QueueSize \in Nat \ {0}
    /\ BatchSize \in Nat \ {0}
    /\ MaxFailures \in Nat
    /\ MaxRepairs \in Nat

(***************************************************************************)
(* The first candle of a second is revision 1, a trade revises it once.    *)
(***************************************************************************)
Revision == 1..Cardinality(Trades) + 1

Candle == [second: Seconds, revision: Revision,
           status: {"complete", "complete_empty", "recovered"},
           trades: SUBSET Trades]

Event == [kind: {"trade"}, value: Trades] \cup [kind: {"candle"}, value: Candle]

Putters == {"consumer", "finalizer", "writer"}

VARIABLES
    consumed,   \* the trades the consumer has taken from the trade queue
    latest,     \* second -> the newest candle of it, for closed seconds
    pending,    \* putter -> the events it still has to put
    queue,      \* the queue, oldest event first
    unfinished, \* the queue's count of unfinished tasks
    accepted,   \* every event that was ever put into the queue
    throttled,  \* whether a put ever had to wait
    writer,     \* what the writer task is doing
    batch,      \* the batch it holds
    failures,   \* batches that failed so far
    rawTrades,  \* table raw_trades
    rows,       \* table candles: <<second, revision>> -> its row
    repairs,    \* recovery runs so far
    stage       \* "running", "stopping" (database.stop awaits join), "stopped"

sources == <<consumed, latest>>
buffer  == <<pending, queue, unfinished, accepted, throttled>>
task    == <<writer, batch, failures>>
tables  == <<rawTrades, rows>>
vars    == <<sources, buffer, task, tables, repairs, stage>>

-----------------------------------------------------------------------------

Init ==
    /\ consumed = {}
    /\ latest = <<>>
    /\ pending = [p \in Putters |-> <<>>]
    /\ queue = <<>>
    /\ unfinished = 0
    /\ accepted = {}
    /\ throttled = FALSE
    /\ writer = "idle"
    /\ batch = <<>>
    /\ failures = 0
    /\ rawTrades = {}
    /\ rows = <<>>
    /\ repairs = 0
    /\ stage = "running"

ElementsOf(seq) == {seq[i] : i \in DOMAIN seq}

(***************************************************************************)
(* p puts events, in order, until the queue is full.                       *)
(***************************************************************************)
Offer(p, events) ==
    LET room == QueueSize - Len(queue)
        n    == IF Len(events) < room THEN Len(events) ELSE room
        fits == SubSeq(events, 1, n)
    IN  /\ queue' = queue \o fits
        /\ pending' = [pending EXCEPT ![p] = SubSeq(events, n + 1, Len(events))]
        /\ unfinished' = unfinished + n
        /\ accepted' = accepted \cup ElementsOf(fits)
        /\ throttled' = (throttled \/ n < Len(events))

(***************************************************************************)
(* A putter that was waiting finds room.                                   *)
(***************************************************************************)
Resume(p) ==
    /\ stage # "stopped"
    /\ pending[p] # <<>>
    /\ Len(queue) < QueueSize
    /\ Offer(p, pending[p])
    /\ UNCHANGED <<sources, task, tables, repairs, stage>>

-----------------------------------------------------------------------------
(* The producers *)

TradeEvent(trade) == [kind |-> "trade", value |-> trade]

CandleEvent(candle) == [kind |-> "candle", value |-> candle]

TradesOf(S, second) == {trade \in S : trade.second = second}

(* Mutant of Recovered: the revision knows the late trade only. *)
RecoveredAlone(trade) ==
    [second |-> trade.second, revision |-> latest[trade.second].revision + 1,
     status |-> "recovered", trades |-> {trade}]

(***************************************************************************)
(* The consumer handles a trade: a late one revises its closed second, and *)
(* the trade is put before the revised candle.                             *)
(***************************************************************************)
Recovered(trade) ==
    LET before == latest[trade.second]
    IN  [second |-> trade.second, revision |-> before.revision + 1,
         status |-> "recovered", trades |-> before.trades \cup {trade}]

ConsumeTrade(trade) ==
    /\ stage = "running"
    /\ pending["consumer"] = <<>>
    /\ trade \notin consumed
    /\ trade.second \notin DOMAIN latest
    /\ consumed' = consumed \cup {trade}
    /\ Offer("consumer", <<TradeEvent(trade)>>)
    /\ UNCHANGED <<latest, task, tables, repairs, stage>>

ConsumeLateTrade(trade) ==
    /\ stage = "running"
    /\ pending["consumer"] = <<>>
    /\ trade \notin consumed
    /\ trade.second \in DOMAIN latest
    /\ consumed' = consumed \cup {trade}
    /\ latest' = [latest EXCEPT ![trade.second] = Recovered(trade)]
    /\ Offer("consumer", <<TradeEvent(trade), CandleEvent(Recovered(trade))>>)
    /\ UNCHANGED <<task, tables, repairs, stage>>

(***************************************************************************)
(* finalize_due closes every second that is due before the first of the    *)
(* candles is put.                                                         *)
(***************************************************************************)
FirstCandle(second) ==
    LET trades == TradesOf(consumed, second)
    IN  [second |-> second, revision |-> 1, trades |-> trades,
         status |-> IF trades = {} THEN "complete_empty" ELSE "complete"]

FinalizeDue(last_due) ==
    LET due == {s \in Seconds : s <= last_due /\ s \notin DOMAIN latest}
    IN  /\ stage = "running"
        /\ pending["finalizer"] = <<>>
        /\ due # {}
        /\ latest' = [s \in DOMAIN latest \cup due |->
                          IF s \in due THEN FirstCandle(s) ELSE latest[s]]
        /\ \E order \in [1..Cardinality(due) -> due] :
               /\ \A i, j \in 1..Cardinality(due) : i < j => order[i] < order[j]
               /\ Offer("finalizer", [i \in 1..Cardinality(due) |->
                                          CandleEvent(FirstCandle(order[i]))])
        /\ UNCHANGED <<consumed, task, tables, repairs, stage>>

-----------------------------------------------------------------------------
(* The writer task *)

TakeBatch ==
    LET n == IF Len(queue) < BatchSize THEN Len(queue) ELSE BatchSize
    IN  /\ stage # "stopped"
        /\ writer = "idle"
        /\ queue # <<>>
        /\ batch' = SubSeq(queue, 1, n)
        /\ queue' = SubSeq(queue, n + 1, Len(queue))
        /\ writer' = "writing"
        /\ UNCHANGED <<sources, pending, unfinished, accepted, throttled,
                       failures, tables, repairs, stage>>

CandlesIn(events) == {i \in DOMAIN events : events[i].kind = "candle"}

RowKey(candle) == <<candle.second, candle.revision>>

Newest(indices) == CHOOSE i \in indices : \A j \in indices : j <= i

(* Mutant of RowAfter: the older rows of the second stay current. *)
RowStaysCurrent(events, key) ==
    LET ofRow == {i \in CandlesIn(events) : RowKey(events[i].value) = key}
    IN  IF ofRow = {} THEN rows[key]
        ELSE [candle |-> events[Newest(ofRow)].value, current |-> TRUE]

(***************************************************************************)
(* The rows after a batch: each candle in turn takes `current` from the    *)
(* rows of its second, and inserts or overwrites the row of its revision.  *)
(***************************************************************************)
RowAfter(events, key) ==
    LET ofSecond == {i \in CandlesIn(events) : events[i].value.second = key[1]}
        ofRow    == {i \in ofSecond : RowKey(events[i].value) = key}
    IN  IF ofSecond = {} THEN rows[key]
        ELSE [candle  |-> IF ofRow = {} THEN rows[key].candle
                          ELSE events[Newest(ofRow)].value,
              current |-> Newest(ofSecond) \in ofRow]

WriteBatch ==
    /\ rawTrades' = rawTrades \cup
           {batch[i].value : i \in {j \in DOMAIN batch : batch[j].kind = "trade"}}
    /\ rows' = [key \in DOMAIN rows \cup {RowKey(batch[i].value) : i \in CandlesIn(batch)}
                |-> RowAfter(batch, key)]

TaskDone == unfinished' = unfinished - Len(batch)

Commit ==
    /\ writer = "writing"
    /\ WriteBatch
    /\ TaskDone
    /\ writer' = "idle"
    /\ batch' = <<>>
    /\ UNCHANGED <<sources, pending, queue, accepted, throttled, failures,
                   repairs, stage>>

(* Mutant of Fail: the failed batch is marked as done at once. *)
FailAndForget ==
    /\ writer = "writing"
    /\ failures < MaxFailures
    /\ failures' = failures + 1
    /\ WriteBatch \/ UNCHANGED tables
    /\ TaskDone
    /\ writer' = "sleeping"
    /\ UNCHANGED <<sources, pending, queue, accepted, throttled, batch, repairs, stage>>

(***************************************************************************)
(* The transaction fails: it is rolled back, or it was committed and only  *)
(* the answer was lost.                                                    *)
(***************************************************************************)
Fail ==
    /\ writer = "writing"
    /\ failures < MaxFailures
    /\ failures' = failures + 1
    /\ WriteBatch \/ UNCHANGED tables
    /\ writer' = "sleeping"
    /\ UNCHANGED <<sources, buffer, batch, repairs, stage>>

(* Mutant of Requeue: the failed batch is dropped. *)
DropBatch ==
    /\ writer = "sleeping"
    /\ writer' = "requeueing"
    /\ UNCHANGED <<sources, buffer, batch, failures, tables, repairs, stage>>

(***************************************************************************)
(* After the pause the batch goes back to the tail of the queue, and only  *)
(* then is it marked as done.                                              *)
(***************************************************************************)
Requeue ==
    /\ writer = "sleeping"
    /\ writer' = "requeueing"
    /\ Offer("writer", batch)
    /\ UNCHANGED <<sources, batch, failures, tables, repairs, stage>>

(* Mutant of EndRequeue: the requeued events are never marked as done. *)
EndRequeueWithoutDone ==
    /\ writer = "requeueing"
    /\ pending["writer"] = <<>>
    /\ writer' = "idle"
    /\ batch' = <<>>
    /\ UNCHANGED <<sources, buffer, failures, tables, repairs, stage>>

EndRequeue ==
    /\ writer = "requeueing"
    /\ pending["writer"] = <<>>
    /\ TaskDone
    /\ writer' = "idle"
    /\ batch' = <<>>
    /\ UNCHANGED <<sources, pending, queue, accepted, throttled, failures,
                   tables, repairs, stage>>

-----------------------------------------------------------------------------
(* Recovery: rebuild the rows of every second that has raw trades *)

Revisions(second) == {key[2] : key \in {k \in DOMAIN rows : k[1] = second}}

(* Mutant of RepairedRevision: a second without rows gets revision 0. *)
RepairedFromZero(second) ==
    IF Revisions(second) = {} THEN 0
    ELSE CHOOSE r \in Revisions(second) : \A q \in Revisions(second) : q <= r

(* Mutant of RepairedRevision: later revisions are not looked up. *)
RepairedFirst(second) == 1

RepairedRevision(second) ==
    IF Revisions(second) = {} THEN 1
    ELSE CHOOSE r \in Revisions(second) : \A q \in Revisions(second) : q <= r

Repair(last_due) ==
    LET rolled   == {s \in Seconds : s <= last_due /\ TradesOf(rawTrades, s) # {}}
        repaired == {<<s, RepairedRevision(s)>> : s \in rolled}
    IN  /\ stage = "running"
        /\ repairs < MaxRepairs
        /\ repairs' = repairs + 1
        /\ rows' = [key \in DOMAIN rows \cup repaired |->
                IF key \in repaired
                THEN [candle |-> [second |-> key[1], revision |-> key[2],
                                  status |-> "complete",
                                  trades |-> TradesOf(rawTrades, key[1])],
                      current |-> TRUE]
                ELSE IF key[1] \in rolled THEN [rows[key] EXCEPT !.current = FALSE]
                ELSE rows[key]]
        /\ UNCHANGED <<sources, buffer, task, rawTrades, stage>>

-----------------------------------------------------------------------------
(* Shutdown *)

(***************************************************************************)
(* The trade queue is joined, so the consumer is done; the finalizer is    *)
(* cancelled wherever it waits, and what it had not put yet is dropped.    *)
(***************************************************************************)
StopService ==
    /\ stage = "running"
    /\ pending["consumer"] = <<>>
    /\ pending' = [pending EXCEPT !["finalizer"] = <<>>]
    /\ stage' = "stopping"
    /\ UNCHANGED <<sources, queue, unfinished, accepted, throttled, task, tables, repairs>>

StopWriter ==
    /\ stage = "stopping"
    /\ unfinished = 0
    /\ stage' = "stopped"
    /\ UNCHANGED <<sources, buffer, task, tables, repairs>>

-----------------------------------------------------------------------------

WriterStep == TakeBatch \/ Commit \/ Fail \/ Requeue \/ EndRequeue

Next ==
    \/ \E trade \in Trades : ConsumeTrade(trade) \/ ConsumeLateTrade(trade)
    \/ \E s \in Seconds : FinalizeDue(s) \/ Repair(s)
    \/ \E p \in Putters : Resume(p)
    \/ WriterStep
    \/ StopService
    \/ StopWriter

Spec == Init /\ [][Next]_vars

(***************************************************************************)
(* Tasks that can run are run, and the database does not fail for ever.    *)
(***************************************************************************)
FairSpec ==
    /\ Spec
    /\ WF_vars(TakeBatch) /\ WF_vars(Commit) /\ WF_vars(Requeue) /\ WF_vars(EndRequeue)
    /\ \A p \in Putters : WF_vars(Resume(p))
    /\ WF_vars(StopWriter)

-----------------------------------------------------------------------------
(* Properties *)

Row == [candle: Candle, current: BOOLEAN]

SourceTypes ==
    /\ consumed \subseteq Trades
    /\ DOMAIN latest \subseteq Seconds
    /\ \A s \in DOMAIN latest : latest[s] \in Candle /\ latest[s].second = s

BufferTypes ==
    /\ pending \in [Putters -> Seq(Event)]
    /\ queue \in Seq(Event)
    /\ unfinished \in Int
    /\ accepted \subseteq Event
    /\ throttled \in BOOLEAN

TaskTypes ==
    /\ writer \in {"idle", "writing", "sleeping", "requeueing"}
    /\ batch \in Seq(Event)
    /\ failures \in Nat

TableTypes ==
    /\ rawTrades \subseteq Trades
    /\ DOMAIN rows \subseteq Seconds \X Revision
    /\ \A key \in DOMAIN rows : rows[key] \in Row

(***************************************************************************)
(* The types of the queue, the writer and the tables: no candle, rebuilt   *)
(* or revised, gets a revision below 1 or beyond one per trade.            *)
(***************************************************************************)
TypeOK ==
    /\ SourceTypes
    /\ BufferTypes
    /\ TaskTypes
    /\ TableTypes
    /\ repairs \in Nat
    /\ stage \in {"running", "stopping", "stopped"}

Stored(e) == IF e.kind = "trade" THEN e.value \in rawTrades
             ELSE RowKey(e.value) \in DOMAIN rows

(***************************************************************************)
(* No event is lost between the queue and the tables: whatever was put is  *)
(* queued, or in the batch in hand, or stored, through every failure,      *)
(* partial requeue and lost answer.                                        *)
(***************************************************************************)
NothingLost ==
    \A e \in accepted :
        e \in ElementsOf(queue) \/ e \in ElementsOf(batch) \/ Stored(e)

(***************************************************************************)
(* The queue is joined only when everything that was put is stored, so     *)
(* that stop() may cancel the writer: a failed batch counts as unfinished  *)
(* until it is queued again.                                               *)
(***************************************************************************)
JoinMeansStored ==
    unfinished = 0 => \A e \in accepted : Stored(e)

(***************************************************************************)
(* What keeps both so.  The unfinished tasks are the events queued and in  *)
(* hand; the writer holds a batch, and waits to put one back, only where   *)
(* its code does; while it puts a batch back nothing leaves the queue.     *)
(***************************************************************************)
AccountInv ==
    /\ Len(queue) <= QueueSize
    /\ unfinished = Len(queue) + Len(batch)
    /\ writer = "idle" => batch = <<>>
    /\ writer # "requeueing" => pending["writer"] = <<>>
    /\ writer = "requeueing" =>
           ElementsOf(batch) \subseteq ElementsOf(queue) \cup ElementsOf(pending["writer"])
    /\ NothingLost

(***************************************************************************)
(* A trade revises at most one second, once.                               *)
(***************************************************************************)
RevisionsAreBounded ==
    \A s \in DOMAIN latest : latest[s].revision <= Cardinality(consumed) + 1

CurrentRows(second) ==
    {key \in DOMAIN rows : key[1] = second /\ rows[key].current}

(***************************************************************************)
(* A second with rows has exactly one current row (history reads no other  *)
(* and a unique index forbids two), whatever batches and repairs overlap.  *)
(***************************************************************************)
OneCurrentRow ==
    \A key \in DOMAIN rows : Cardinality(CurrentRows(key[1])) = 1

(***************************************************************************)
(* The current row of a second is its newest revision.  Breaks once a      *)
(* batch fails: the retried events are written after those that came later.*)
(***************************************************************************)
CurrentIsNewest ==
    \A key \in DOMAIN rows :
        rows[key].current => \A other \in DOMAIN rows :
                                 other[1] = key[1] => other[2] <= key[2]

(***************************************************************************)
(* Until a batch fails or the queue is full, events are written in the     *)
(* order they arose, and the current row of a second is its newest         *)
(* revision, however batches and repairs interleave.                       *)
(***************************************************************************)
InOrder == failures = 0 /\ ~ throttled

NewestWhileInOrder == InOrder => CurrentIsNewest

(***************************************************************************)
(* Once everything is written and nothing ever went wrong, the current row *)
(* of every closed second summarises exactly the raw trades of it, however *)
(* revisions, batches and repairs were interleaved.                        *)
(***************************************************************************)
CurrentIsExact ==
    (InOrder /\ unfinished = 0) =>
        \A s \in DOMAIN latest : \A key \in CurrentRows(s) :
            /\ rows[key].candle.trades = TradesOf(rawTrades, s)
            /\ TradesOf(consumed, s) = TradesOf(rawTrades, s)

(***************************************************************************)
(* The writer waits for room in the full queue that only it empties.       *)
(***************************************************************************)
Wedged ==
    /\ writer = "requeueing"
    /\ pending["writer"] # <<>>
    /\ Len(queue) = QueueSize

(***************************************************************************)
(* If the database stops failing, the queue is eventually joined; the only *)
(* way it is not is the wedge.                                             *)
(***************************************************************************)
QueueDrains == unfinished > 0 ~> (unfinished = 0 \/ Wedged)
=============================================================================
