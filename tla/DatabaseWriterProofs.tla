------------------------ MODULE DatabaseWriterProofs ------------------------
(***************************************************************************)
(* Proofs about the database writer, for every finite set of seconds and   *)
(* trades, and every size of the queue and of its batches.                 *)
(***************************************************************************)
EXTENDS DatabaseWriter, FiniteSetTheorems, WellFoundedInduction, TLAPS

-----------------------------------------------------------------------------
(* Greatest elements *)

LEMMA GreatestExists ==
    ASSUME NEW bound \in Nat, NEW S \in SUBSET (0..bound), S # {}
    PROVE  \E m \in S : \A x \in S : x <= m
<1> DEFINE T == {bound - x : x \in S}
<1>0. \A x \in S : x \in Nat /\ bound - x \in Nat
  OBVIOUS
<1>1. T \subseteq Nat /\ T # {}
  BY <1>0
<1>2. \E t \in T : \A u \in T : ~ (<<u, t>> \in OpToRel(<, Nat))
  <2> HIDE DEF T
  <2> QED BY <1>1, WFMin, NatLessThanWellFounded
<1>3. PICK t \in T : \A u \in T : ~ (u < t)
  BY <1>1, <1>2 DEF OpToRel
<1>4. bound - t \in S
  BY <1>3
<1>5. ASSUME NEW x \in S PROVE x <= bound - t
  <2>1. bound - x \in T /\ ~ (bound - x < t) /\ t \in Nat
    BY <1>1, <1>3
  <2> HIDE DEF T
  <2> QED BY <2>1, <1>0
<1> QED BY <1>4, <1>5

(* There are finitely many trades. *)
LEMMA CardinalityOfTrades == Cardinality(Trades) \in Nat
    BY WriterAssumption, FS_CardinalityType

(* The newest of some events of a batch is one of them. *)
LEMMA NewestIsMember ==
    ASSUME NEW events \in Seq(Event), NEW S \in SUBSET (DOMAIN events), S # {}
    PROVE  Newest(S) \in S
<1>1. Len(events) \in Nat /\ S \in SUBSET (0..Len(events))
  OBVIOUS
<1>2. \E m \in S : \A x \in S : x <= m
  BY <1>1, GreatestExists
<1> QED BY <1>2 DEF Newest

-----------------------------------------------------------------------------
(* Sequences of events *)

LEMMA ElementsOfMember ==
    ASSUME NEW S, NEW s \in Seq(S), NEW i \in 1..Len(s)
    PROVE  s[i] \in ElementsOf(s) /\ s[i] \in S
    BY DEF ElementsOf

(* Appending events to a queue gives a queue as long as both together. *)
LEMMA ConcatType ==
    ASSUME NEW S, NEW s \in Seq(S), NEW t \in Seq(S)
    PROVE  s \o t \in Seq(S) /\ Len(s \o t) = Len(s) + Len(t)
    OBVIOUS

(* It holds the events of both. *)
LEMMA ElementsOfConcat ==
    ASSUME NEW S, NEW s \in Seq(S), NEW t \in Seq(S)
    PROVE  ElementsOf(s \o t) = ElementsOf(s) \cup ElementsOf(t)
<1>1. ElementsOf(s) \subseteq ElementsOf(s \o t)
  <2> SUFFICES ASSUME NEW i \in 1..Len(s) PROVE s[i] \in ElementsOf(s \o t)
    BY DEF ElementsOf
  <2>1. i \in 1..Len(s \o t) /\ (s \o t)[i] = s[i] /\ s \o t \in Seq(S)
    OBVIOUS
  <2> QED BY <2>1, ElementsOfMember
<1>2. ElementsOf(t) \subseteq ElementsOf(s \o t)
  <2> SUFFICES ASSUME NEW i \in 1..Len(t) PROVE t[i] \in ElementsOf(s \o t)
    BY DEF ElementsOf
  <2>1. /\ Len(s) + i \in 1..Len(s \o t) /\ (s \o t)[Len(s) + i] = t[i]
        /\ s \o t \in Seq(S)
    OBVIOUS
  <2> QED BY <2>1, ElementsOfMember
<1>3. ElementsOf(s \o t) \subseteq ElementsOf(s) \cup ElementsOf(t)
  <2> SUFFICES ASSUME NEW i \in 1..Len(s) + Len(t)
               PROVE  (s \o t)[i] \in ElementsOf(s) \cup ElementsOf(t)
    BY DEF ElementsOf
  <2>1. CASE i <= Len(s)
    <3>1. i \in 1..Len(s) /\ (s \o t)[i] = s[i]
      BY <2>1
    <3> QED BY <3>1, ElementsOfMember
  <2>2. CASE i > Len(s)
    <3>1. i - Len(s) \in 1..Len(t) /\ (s \o t)[i] = t[i - Len(s)]
      BY <2>2
    <3> QED BY <3>1, ElementsOfMember
  <2> QED BY <2>1, <2>2
<1> QED BY <1>1, <1>2, <1>3

(***************************************************************************)
(* A sequence is its first n elements and the rest of it.                  *)
(***************************************************************************)
LEMMA SplitSequence ==
    ASSUME NEW S, NEW s \in Seq(S), NEW n \in 0..Len(s)
    PROVE  /\ SubSeq(s, 1, n) \in Seq(S) /\ Len(SubSeq(s, 1, n)) = n
           /\ SubSeq(s, n + 1, Len(s)) \in Seq(S)
           /\ Len(SubSeq(s, n + 1, Len(s))) = Len(s) - n
           /\ ElementsOf(s) = ElementsOf(SubSeq(s, 1, n))
                                  \cup ElementsOf(SubSeq(s, n + 1, Len(s)))
<1> DEFINE front == SubSeq(s, 1, n)
           rest  == SubSeq(s, n + 1, Len(s))
<1>1. /\ front \in Seq(S) /\ Len(front) = n
      /\ \A i \in 1..n : front[i] = s[i]
  OBVIOUS
<1>2. /\ rest \in Seq(S) /\ Len(rest) = Len(s) - n
      /\ \A i \in 1..Len(s) - n : rest[i] = s[n + i]
  OBVIOUS
<1> HIDE DEF front, rest
<1>3. ASSUME NEW i \in 1..Len(s)
      PROVE  s[i] \in ElementsOf(front) \cup ElementsOf(rest)
  <2>1. CASE i <= n
    <3>1. i \in 1..Len(front) /\ front[i] = s[i]
      BY <2>1, <1>1
    <3> QED BY <3>1, <1>1, ElementsOfMember
  <2>2. CASE i > n
    <3>1. i - n \in 1..Len(rest) /\ rest[i - n] = s[i]
      BY <2>2, <1>2
    <3> QED BY <3>1, <1>2, ElementsOfMember
  <2> QED BY <2>1, <2>2
<1>4. ASSUME NEW i \in 1..Len(front) PROVE front[i] \in ElementsOf(s)
  BY <1>1, ElementsOfMember
<1>5. ASSUME NEW i \in 1..Len(rest) PROVE rest[i] \in ElementsOf(s)
  <2>1. n + i \in 1..Len(s) /\ rest[i] = s[n + i]
    BY <1>2
  <2> QED BY <2>1, ElementsOfMember
<1>6. ElementsOf(s) = ElementsOf(front) \cup ElementsOf(rest)
  <2>1. ElementsOf(s) = {s[i] : i \in 1..Len(s)}
    BY DEF ElementsOf
  <2>2. ElementsOf(front) = {front[i] : i \in 1..Len(front)}
    BY <1>1 DEF ElementsOf
  <2>3. ElementsOf(rest) = {rest[i] : i \in 1..Len(rest)}
    BY <1>2 DEF ElementsOf
  <2> QED BY <1>3, <1>4, <1>5, <2>1, <2>2, <2>3
<1> QED BY <1>1, <1>2, <1>6 DEF front, rest

-----------------------------------------------------------------------------
(* Putting events *)

(***************************************************************************)
(* Offer splits the events between the queue and the putter.               *)
(***************************************************************************)
LEMMA OfferEffect ==
    ASSUME NEW p \in Putters, NEW events \in Seq(Event),
           queue \in Seq(Event), Len(queue) <= QueueSize,
           pending \in [Putters -> Seq(Event)],
           accepted \subseteq Event, unfinished \in Int,
           Offer(p, events)
    PROVE  /\ queue' \in Seq(Event)
           /\ Len(queue') <= QueueSize
           /\ unfinished' = unfinished + Len(queue') - Len(queue)
           /\ pending' \in [Putters -> Seq(Event)]
           /\ \A q \in Putters \ {p} : pending'[q] = pending[q]
           /\ ElementsOf(queue) \subseteq ElementsOf(queue')
           /\ accepted' \subseteq Event
           /\ accepted' \subseteq accepted \cup ElementsOf(queue')
           /\ ElementsOf(events) \subseteq
                  ElementsOf(queue') \cup ElementsOf(pending'[p])
           /\ throttled' \in BOOLEAN
<1>1. PICK n : n = IF Len(events) < QueueSize - Len(queue)
                   THEN Len(events) ELSE QueueSize - Len(queue)
  OBVIOUS
<1>2. /\ n \in 0..Len(events) /\ Len(queue) + n <= QueueSize
      /\ Len(queue) \in Nat
  BY <1>1, WriterAssumption
<1> DEFINE fits == SubSeq(events, 1, n)
           rest == SubSeq(events, n + 1, Len(events))
<1>3. /\ queue' = queue \o fits
      /\ pending' = [pending EXCEPT ![p] = rest]
      /\ unfinished' = unfinished + n
      /\ accepted' = accepted \cup ElementsOf(fits)
  BY <1>1, Zenon DEF Offer
<1>4. /\ fits \in Seq(Event) /\ Len(fits) = n
      /\ rest \in Seq(Event)
      /\ ElementsOf(events) = ElementsOf(fits) \cup ElementsOf(rest)
  BY <1>2, SplitSequence
<1> HIDE DEF fits, rest
<1>5. queue' \in Seq(Event) /\ Len(queue') = Len(queue) + n
  <2>1. queue \o fits \in Seq(Event) /\ Len(queue \o fits) = Len(queue) + Len(fits)
    BY <1>4, ConcatType
  <2> QED BY <2>1, <1>3, <1>4
<1>6. ElementsOf(queue') = ElementsOf(queue) \cup ElementsOf(fits)
  BY <1>3, <1>4, ElementsOfConcat
<1>7. ElementsOf(fits) \subseteq Event
  BY <1>4 DEF ElementsOf
<1>8. /\ pending' \in [Putters -> Seq(Event)] /\ pending'[p] = rest
      /\ \A q \in Putters \ {p} : pending'[q] = pending[q]
  BY <1>3, <1>4
<1>9. Len(queue') <= QueueSize /\ unfinished' = unfinished + Len(queue') - Len(queue)
  BY <1>2, <1>3, <1>5, WriterAssumption
<1>10. accepted' \subseteq Event /\ accepted' \subseteq accepted \cup ElementsOf(queue')
  BY <1>3, <1>6, <1>7
<1>11. ElementsOf(events) \subseteq ElementsOf(queue') \cup ElementsOf(pending'[p])
  BY <1>4, <1>6, <1>8
<1>12. throttled' \in BOOLEAN
  BY DEF Offer
<1> QED BY <1>5, <1>6, <1>8, <1>9, <1>10, <1>11, <1>12
-----------------------------------------------------------------------------
(* Events and rows *)

LEMMA CandleFields ==
    ASSUME NEW c \in Candle
    PROVE  /\ c.second \in Seconds /\ c.revision \in Revision
           /\ RowKey(c) \in Seconds \X Revision
           /\ RowKey(c)[1] = c.second
    BY DEF Candle, RowKey

(* What enqueue_trade puts is an event. *)
LEMMA TradeEventType ==
    ASSUME NEW trade \in Trades PROVE TradeEvent(trade) \in Event
    BY DEF TradeEvent, Event

(* What enqueue_candle puts is an event. *)
LEMMA CandleEventType ==
    ASSUME NEW c \in Candle PROVE CandleEvent(c) \in Event
    BY DEF CandleEvent, Event

(* An event carries a trade or a candle, as its kind says. *)
LEMMA EventValue ==
    ASSUME NEW e \in Event
    PROVE  /\ e.kind = "candle" => e.value \in Candle
           /\ e.kind = "trade" => e.value \in Trades
           /\ e.kind \in {"trade", "candle"}
    BY DEF Event

(* What finalize_due publishes of a second is a candle of revision 1. *)
LEMMA FirstCandleType ==
    ASSUME SourceTypes, NEW s \in Seconds
    PROVE  FirstCandle(s) \in Candle /\ FirstCandle(s).second = s
           /\ FirstCandle(s).revision = 1
<1>1. 1 \in Revision
  BY CardinalityOfTrades DEF Revision
<1>2. TradesOf(consumed, s) \in SUBSET Trades
  BY DEF TradesOf, SourceTypes
<1> QED BY <1>1, <1>2 DEF FirstCandle, Candle

(***************************************************************************)
(* A late trade is one more consumed trade, so the revision stays bounded. *)
(***************************************************************************)
LEMMA RecoveredType ==
    ASSUME SourceTypes, RevisionsAreBounded,
           NEW trade \in Trades, trade \notin consumed, trade.second \in DOMAIN latest
    PROVE  /\ Recovered(trade) \in Candle /\ Recovered(trade).second = trade.second
           /\ Recovered(trade).revision <= Cardinality(consumed \cup {trade}) + 1
<1> DEFINE before == latest[trade.second]
<1>1. before \in Candle /\ before.revision <= Cardinality(consumed) + 1
      /\ trade.second \in Seconds
  BY DEF SourceTypes, RevisionsAreBounded
<1>2. before.revision \in Nat /\ before.revision >= 1 /\ before.trades \in SUBSET Trades
  BY <1>1, CardinalityOfTrades DEF Candle, Revision
<1>3. /\ Cardinality(consumed \cup {trade}) = Cardinality(consumed) + 1
      /\ Cardinality(consumed \cup {trade}) <= Cardinality(Trades)
      /\ Cardinality(consumed) \in Nat
  <2>1. IsFiniteSet(consumed) /\ consumed \cup {trade} \in SUBSET Trades
    BY WriterAssumption, FS_Subset DEF SourceTypes
  <2> QED BY <2>1, WriterAssumption, FS_Subset, FS_AddElement, FS_CardinalityType
<1> HIDE DEF before
<1>4. before.revision + 1 \in Revision
      /\ before.revision + 1 <= Cardinality(consumed \cup {trade}) + 1
  BY <1>1, <1>2, <1>3, CardinalityOfTrades DEF Revision
<1>5. Recovered(trade) = [second |-> trade.second, revision |-> before.revision + 1,
                          status |-> "recovered", trades |-> before.trades \cup {trade}]
  BY DEF Recovered, before
<1> QED BY <1>1, <1>2, <1>4, <1>5 DEF Candle

(* The candle events of a batch carry candles. *)
LEMMA CandlesInBatch ==
    ASSUME TaskTypes, NEW i \in CandlesIn(batch)
    PROVE  i \in DOMAIN batch /\ batch[i].value \in Candle
    BY EventValue DEF TaskTypes, CandlesIn

(***************************************************************************)
(* A written batch leaves rows of the right kind, and adds the row of each *)
(* of its candles.                                                         *)
(***************************************************************************)
LEMMA WriteBatchTypes ==
    ASSUME TaskTypes, TableTypes, WriteBatch
    PROVE  TableTypes'
<1>1. rawTrades' \subseteq Trades
  BY EventValue DEF WriteBatch, TaskTypes, TableTypes
<1> DEFINE written == {RowKey(batch[i].value) : i \in CandlesIn(batch)}
<1>2. /\ DOMAIN rows' = DOMAIN rows \cup written
      /\ \A key \in DOMAIN rows' : rows'[key] = RowAfter(batch, key)
  BY DEF WriteBatch
<1>3. written \subseteq Seconds \X Revision
  BY CandlesInBatch, CandleFields
<1>4. ASSUME NEW key \in DOMAIN rows'
      PROVE  RowAfter(batch, key) \in Row
  <2> DEFINE ofSecond == {i \in CandlesIn(batch) : batch[i].value.second = key[1]}
             ofRow    == {i \in ofSecond : RowKey(batch[i].value) = key}
  <2>1. key \in DOMAIN rows \/ ofRow # {}
    <3> SUFFICES ASSUME key \in written PROVE ofRow # {}
      BY <1>2
    <3>1. PICK i \in CandlesIn(batch) : RowKey(batch[i].value) = key
      OBVIOUS
    <3>2. batch[i].value.second = key[1]
      BY <3>1, CandlesInBatch, CandleFields
    <3> QED BY <3>1, <3>2
  <2>2. key \in DOMAIN rows => rows[key] \in Row /\ rows[key].candle \in Candle
    BY DEF TableTypes, Row
  <2>3. ofRow # {} => batch[Newest(ofRow)].value \in Candle
    <3>1. ofRow \in SUBSET DOMAIN batch
      BY DEF CandlesIn
    <3>2. ofRow # {} => Newest(ofRow) \in ofRow
      <4> HIDE DEF ofRow
      <4> QED BY <3>1, NewestIsMember DEF TaskTypes
    <3> QED BY <3>2, CandlesInBatch
  <2>4. RowAfter(batch, key) =
            IF ofSecond = {} THEN rows[key]
            ELSE [candle  |-> IF ofRow = {} THEN rows[key].candle
                              ELSE batch[Newest(ofRow)].value,
                  current |-> Newest(ofSecond) \in ofRow]
    BY DEF RowAfter
  <2>5. ofSecond = {} => ofRow = {}
    OBVIOUS
  <2> HIDE DEF ofSecond, ofRow
  <2>6. CASE ofSecond = {}
    BY <2>1, <2>2, <2>4, <2>5, <2>6
  <2>7. CASE ofSecond # {}
    <3>1. (IF ofRow = {} THEN rows[key].candle ELSE batch[Newest(ofRow)].value) \in Candle
      BY <2>1, <2>2, <2>3
    <3>2. (Newest(ofSecond) \in ofRow) \in BOOLEAN
      OBVIOUS
    <3> QED BY <2>4, <2>7, <3>1, <3>2 DEF Row
  <2> QED BY <2>6, <2>7
<1> QED BY <1>1, <1>2, <1>3, <1>4 DEF TableTypes

(***************************************************************************)
(* What is stored stays stored, and a written batch is stored.             *)
(***************************************************************************)
LEMMA WriteBatchStores ==
    ASSUME TaskTypes, WriteBatch
    PROVE  /\ \A e \in ElementsOf(batch) : Stored(e)'
           /\ \A e : Stored(e) => Stored(e)'
<1>1. ASSUME NEW e \in ElementsOf(batch) PROVE Stored(e)'
  <2>1. PICK i \in DOMAIN batch : e = batch[i]
    BY <1>1 DEF ElementsOf
  <2>2. e \in Event
    BY <2>1 DEF TaskTypes
  <2>3. CASE e.kind = "trade"
    BY <2>1, <2>3 DEF Stored, WriteBatch
  <2>4. CASE e.kind = "candle"
    <3>1. RowKey(e.value) \in DOMAIN rows'
      BY <2>1, <2>4 DEF WriteBatch, CandlesIn
    <3> QED BY <2>4, <3>1 DEF Stored, RowKey
  <2> QED BY <2>2, <2>3, <2>4, EventValue
<1>2. ASSUME NEW e, Stored(e) PROVE Stored(e)'
  <2>1. rawTrades \subseteq rawTrades' /\ DOMAIN rows \subseteq DOMAIN rows'
    BY DEF WriteBatch
  <2> QED BY <1>2, <2>1 DEF Stored, RowKey
<1> QED BY <1>1, <1>2

(* COALESCE(existing.revision, 1) is a revision. *)
LEMMA RepairedRevisionType ==
    ASSUME TableTypes, NEW s \in Seconds
    PROVE  RepairedRevision(s) \in Revision
<1>1. Revisions(s) \in SUBSET Revision
  BY DEF Revisions, TableTypes
<1>2. Revision \in SUBSET (0..Cardinality(Trades) + 1) /\ 1 \in Revision
  BY CardinalityOfTrades DEF Revision
<1>3. CASE Revisions(s) = {}
  BY <1>2, <1>3 DEF RepairedRevision
<1>4. CASE Revisions(s) # {}
  <2>0. Cardinality(Trades) + 1 \in Nat /\ Revisions(s) \in SUBSET (0..(Cardinality(Trades) + 1))
    <3>1. \A r \in Revision : r \in 0..(Cardinality(Trades) + 1)
      BY CardinalityOfTrades DEF Revision
    <3> QED BY <3>1, <1>1, CardinalityOfTrades
  <2>1. \E r \in Revisions(s) : \A q \in Revisions(s) : q <= r
    BY <1>4, <2>0, GreatestExists
  <2> QED BY <1>1, <1>4, <2>1 DEF RepairedRevision
<1> QED BY <1>3, <1>4

(* The repair statements keep the types of the tables. *)
LEMMA RepairTypes ==
    ASSUME TableTypes, repairs \in Nat, NEW last_due \in Seconds, Repair(last_due)
    PROVE  TableTypes' /\ repairs' \in Nat
<1> DEFINE rolled   == {s \in Seconds : s <= last_due /\ TradesOf(rawTrades, s) # {}}
           repaired == {<<s, RepairedRevision(s)>> : s \in rolled}
           row(key) == [candle |-> [second |-> key[1], revision |-> key[2],
                                    status |-> "complete",
                                    trades |-> TradesOf(rawTrades, key[1])],
                        current |-> TRUE]
<1>1. repaired \subseteq Seconds \X Revision
  BY RepairedRevisionType
<1>2. rows' = [key \in DOMAIN rows \cup repaired |->
                IF key \in repaired THEN row(key)
                ELSE IF key[1] \in rolled THEN [rows[key] EXCEPT !.current = FALSE]
                ELSE rows[key]]
  BY DEF Repair
<1>3. ASSUME NEW key \in repaired PROVE row(key) \in Row
  <2>1. key[1] \in Seconds /\ key[2] \in Revision
    BY <1>1
  <2>2. TradesOf(rawTrades, key[1]) \in SUBSET Trades
    BY DEF TradesOf, TableTypes
  <2>3. [second |-> key[1], revision |-> key[2], status |-> "complete",
         trades |-> TradesOf(rawTrades, key[1])] \in Candle
    BY <2>1, <2>2 DEF Candle
  <2> QED BY <2>3 DEF Row
<1>4. ASSUME NEW key \in DOMAIN rows PROVE [rows[key] EXCEPT !.current = FALSE] \in Row
  BY DEF TableTypes, Row
<1>5. rawTrades' \subseteq Trades /\ repairs' \in Nat
  BY DEF Repair, TableTypes
<1> HIDE DEF rolled, repaired, row
<1>6. DOMAIN rows' = DOMAIN rows \cup repaired
  BY <1>2
<1>7. ASSUME NEW key \in DOMAIN rows' PROVE rows'[key] \in Row
  <2>1. rows'[key] = IF key \in repaired THEN row(key)
                     ELSE IF key[1] \in rolled THEN [rows[key] EXCEPT !.current = FALSE]
                     ELSE rows[key]
    BY <1>2, <1>6
  <2>2. key \in repaired \/ key \in DOMAIN rows
    BY <1>6
  <2> QED BY <2>1, <2>2, <1>3, <1>4 DEF TableTypes
<1> QED BY <1>1, <1>5, <1>6, <1>7 DEF TableTypes

(* The repair statements delete nothing. *)
LEMMA RepairStores ==
    ASSUME NEW last_due \in Seconds, Repair(last_due)
    PROVE  \A e : Stored(e) => Stored(e)'
<1>1. rawTrades' = rawTrades /\ DOMAIN rows \subseteq DOMAIN rows'
  BY DEF Repair
<1> QED BY <1>1 DEF Stored, RowKey

-----------------------------------------------------------------------------
(* The invariant *)

WriterInv == TypeOK /\ RevisionsAreBounded /\ AccountInv

(* A new writer satisfies the invariant. *)
LEMMA InitEstablishes == Init => WriterInv
<1> SUFFICES ASSUME Init PROVE WriterInv
  OBVIOUS
<1>1. TypeOK
  <2>1. SourceTypes
    BY DEF Init, SourceTypes
  <2>2. BufferTypes
    <3>1. <<>> \in Seq(Event) /\ [p \in Putters |-> <<>>] \in [Putters -> Seq(Event)]
      OBVIOUS
    <3>2. 0 \in Int /\ {} \subseteq Event /\ FALSE \in BOOLEAN
      OBVIOUS
    <3> QED BY <3>1, <3>2, Zenon DEF Init, BufferTypes
  <2>3. TaskTypes
    BY DEF Init, TaskTypes
  <2>4. TableTypes
    BY DEF Init, TableTypes
  <2> QED BY <2>1, <2>2, <2>3, <2>4 DEF Init, TypeOK
<1>2. RevisionsAreBounded
  BY DEF Init, RevisionsAreBounded
<1>3. AccountInv
  BY WriterAssumption DEF Init, AccountInv, NothingLost, Putters
<1> QED BY <1>1, <1>2, <1>3 DEF WriterInv

(***************************************************************************)
(* A put by the consumer or the finalizer keeps the accounts.              *)
(***************************************************************************)
LEMMA ProducerPutKeepsAccount ==
    ASSUME BufferTypes, AccountInv, NEW p \in {"consumer", "finalizer"},
           NEW events \in Seq(Event), Offer(p, events), UNCHANGED <<task, tables>>
    PROVE  BufferTypes' /\ AccountInv'
<1>1. p \in Putters /\ "writer" \in Putters \ {p}
  BY DEF Putters
<1>2. /\ queue' \in Seq(Event) /\ Len(queue') <= QueueSize
      /\ unfinished' = unfinished + Len(queue') - Len(queue)
      /\ pending' \in [Putters -> Seq(Event)] /\ pending'["writer"] = pending["writer"]
      /\ ElementsOf(queue) \subseteq ElementsOf(queue')
      /\ accepted' \subseteq Event /\ accepted' \subseteq accepted \cup ElementsOf(queue')
      /\ throttled' \in BOOLEAN
  BY <1>1, OfferEffect DEF BufferTypes, AccountInv
<1>3. Len(queue) \in Nat /\ Len(queue') \in Nat /\ unfinished \in Int
  BY <1>2 DEF BufferTypes
<1>4. batch' = batch /\ writer' = writer /\ rawTrades' = rawTrades /\ rows' = rows
  BY DEF task, tables
<1>5. BufferTypes'
  BY <1>2, <1>3 DEF BufferTypes
<1>6. NothingLost'
  BY <1>2, <1>4 DEF NothingLost, AccountInv, Stored, ElementsOf, RowKey
<1>7. unfinished' = Len(queue') + Len(batch')
  <2>1. unfinished = Len(queue) + Len(batch)
    BY DEF AccountInv
  <2> QED BY <1>2, <1>3, <1>4, <2>1
<1>8. /\ writer' = "idle" => batch' = <<>>
      /\ writer' # "requeueing" => pending'["writer"] = <<>>
  BY <1>2, <1>4 DEF AccountInv
<1>9. writer' = "requeueing" =>
          ElementsOf(batch') \subseteq ElementsOf(queue') \cup ElementsOf(pending'["writer"])
  BY <1>2, <1>4 DEF AccountInv
<1> QED BY <1>2, <1>5, <1>6, <1>7, <1>8, <1>9 DEF AccountInv, ElementsOf
-----------------------------------------------------------------------------
(* The producers *)

LEMMA ResumeStep ==
    ASSUME WriterInv, NEW p \in Putters, Resume(p)
    PROVE  WriterInv'
<1>1. /\ UNCHANGED sources /\ UNCHANGED task /\ UNCHANGED tables
      /\ UNCHANGED repairs /\ UNCHANGED stage
      /\ Offer(p, pending[p]) /\ pending[p] # <<>> /\ pending[p] \in Seq(Event)
  BY DEF Resume, WriterInv, TypeOK, BufferTypes
<1>2. SourceTypes' /\ RevisionsAreBounded' /\ TaskTypes' /\ TableTypes'
      /\ repairs' \in Nat /\ stage' \in {"running", "stopping", "stopped"}
  BY <1>1 DEF WriterInv, TypeOK, SourceTypes, RevisionsAreBounded, TaskTypes,
              TableTypes, sources, task, tables
<1>3. BufferTypes' /\ AccountInv'
  <2>1. CASE p \in {"consumer", "finalizer"}
    BY <1>1, <2>1, ProducerPutKeepsAccount DEF WriterInv, TypeOK
  <2>2. CASE p = "writer"
    <3>1. writer = "requeueing" /\ AccountInv /\ BufferTypes
      BY <1>1, <2>2 DEF WriterInv, AccountInv, TypeOK
    <3>2. /\ queue' \in Seq(Event) /\ Len(queue') <= QueueSize
          /\ unfinished' = unfinished + Len(queue') - Len(queue)
          /\ pending' \in [Putters -> Seq(Event)]
          /\ ElementsOf(queue) \subseteq ElementsOf(queue')
          /\ accepted' \subseteq Event /\ accepted' \subseteq accepted \cup ElementsOf(queue')
          /\ ElementsOf(pending["writer"]) \subseteq
                 ElementsOf(queue') \cup ElementsOf(pending'["writer"])
          /\ throttled' \in BOOLEAN
      BY <1>1, <2>2, <3>1, OfferEffect DEF BufferTypes, AccountInv, Putters
    <3>3. batch' = batch /\ writer' = writer /\ rawTrades' = rawTrades /\ rows' = rows
      BY <1>1 DEF task, tables
    <3>4. Len(queue) \in Nat /\ Len(queue') \in Nat /\ unfinished \in Int
      BY <3>1, <3>2 DEF BufferTypes
    <3>5. BufferTypes'
      BY <3>2, <3>4 DEF BufferTypes
    <3>6. ElementsOf(batch') \subseteq ElementsOf(queue') \cup ElementsOf(pending'["writer"])
      BY <3>1, <3>2, <3>3 DEF AccountInv
    <3>7. NothingLost'
      BY <3>1, <3>2, <3>3 DEF NothingLost, AccountInv, Stored, ElementsOf, RowKey
    <3>8. unfinished' = Len(queue') + Len(batch')
      <4>1. unfinished = Len(queue) + Len(batch)
        BY <3>1 DEF AccountInv
      <4> QED BY <3>2, <3>3, <3>4, <4>1
    <3> QED BY <3>1, <3>2, <3>3, <3>5, <3>6, <3>7, <3>8 DEF AccountInv, ElementsOf
  <2> QED BY <2>1, <2>2 DEF Putters
<1> QED BY <1>2, <1>3 DEF WriterInv, TypeOK

(* A consumed trade makes the consumed trades no fewer. *)
LEMMA ConsumedGrows ==
    ASSUME SourceTypes, NEW trade \in Trades, consumed' = consumed \cup {trade}
    PROVE  /\ Cardinality(consumed) <= Cardinality(consumed')
           /\ Cardinality(consumed) \in Nat /\ Cardinality(consumed') \in Nat
<1>1. consumed \in SUBSET consumed' /\ consumed' \in SUBSET Trades
  BY DEF SourceTypes
<1>2. IsFiniteSet(consumed') /\ IsFiniteSet(consumed)
  BY <1>1, WriterAssumption, FS_Subset
<1> QED BY <1>1, <1>2, FS_Subset, FS_CardinalityType

(* _consume_trades of a trade of an open second keeps the invariant. *)
LEMMA ConsumeTradeStep ==
    ASSUME WriterInv, NEW trade \in Trades, ConsumeTrade(trade)
    PROVE  WriterInv'
<1>1. /\ UNCHANGED latest /\ UNCHANGED task /\ UNCHANGED tables
      /\ UNCHANGED repairs /\ UNCHANGED stage
      /\ consumed' = consumed \cup {trade}
      /\ Offer("consumer", <<TradeEvent(trade)>>)
  BY DEF ConsumeTrade
<1>2. SourceTypes' /\ TaskTypes' /\ TableTypes'
      /\ repairs' \in Nat /\ stage' \in {"running", "stopping", "stopped"}
  BY <1>1 DEF WriterInv, TypeOK, SourceTypes, TaskTypes, TableTypes, task, tables
<1>3. BufferTypes' /\ AccountInv'
  <2>1. <<TradeEvent(trade)>> \in Seq(Event)
    BY TradeEventType
  <2> QED BY <1>1, <2>1, ProducerPutKeepsAccount DEF WriterInv, TypeOK
<1>4. RevisionsAreBounded'
  <2>1. Cardinality(consumed) <= Cardinality(consumed')
        /\ Cardinality(consumed) \in Nat /\ Cardinality(consumed') \in Nat
    BY <1>1, ConsumedGrows DEF WriterInv, TypeOK
  <2>2. SUFFICES ASSUME NEW s \in DOMAIN latest
                 PROVE  latest[s].revision <= Cardinality(consumed') + 1
    BY <1>1 DEF RevisionsAreBounded
  <2>3. latest[s].revision \in Int /\ latest[s].revision <= Cardinality(consumed) + 1
    BY CardinalityOfTrades, CandleFields
       DEF WriterInv, TypeOK, SourceTypes, RevisionsAreBounded, Revision
  <2> QED BY <2>1, <2>3
<1> QED BY <1>2, <1>3, <1>4 DEF WriterInv, TypeOK

(* _consume_trades of a late trade keeps the invariant. *)
LEMMA ConsumeLateTradeStep ==
    ASSUME WriterInv, NEW trade \in Trades, ConsumeLateTrade(trade)
    PROVE  WriterInv'
<1>1. /\ UNCHANGED task /\ UNCHANGED tables /\ UNCHANGED repairs /\ UNCHANGED stage
      /\ consumed' = consumed \cup {trade}
      /\ trade \notin consumed /\ trade.second \in DOMAIN latest
      /\ latest' = [latest EXCEPT ![trade.second] = Recovered(trade)]
      /\ Offer("consumer", <<TradeEvent(trade), CandleEvent(Recovered(trade))>>)
  BY DEF ConsumeLateTrade
<1>2. /\ Recovered(trade) \in Candle /\ Recovered(trade).second = trade.second
      /\ Recovered(trade).revision <= Cardinality(consumed') + 1
  BY <1>1, RecoveredType DEF WriterInv, TypeOK
<1>3. SourceTypes' /\ TaskTypes' /\ TableTypes'
      /\ repairs' \in Nat /\ stage' \in {"running", "stopping", "stopped"}
  BY <1>1, <1>2 DEF WriterInv, TypeOK, SourceTypes, TaskTypes, TableTypes, task, tables
<1>4. BufferTypes' /\ AccountInv'
  <2>1. <<TradeEvent(trade), CandleEvent(Recovered(trade))>> \in Seq(Event)
    BY <1>2, TradeEventType, CandleEventType
  <2> QED BY <1>1, <2>1, ProducerPutKeepsAccount DEF WriterInv, TypeOK
<1>5. RevisionsAreBounded'
  <2>1. Cardinality(consumed) <= Cardinality(consumed')
        /\ Cardinality(consumed) \in Nat /\ Cardinality(consumed') \in Nat
    BY <1>1, ConsumedGrows DEF WriterInv, TypeOK
  <2>2. SUFFICES ASSUME NEW s \in DOMAIN latest
                 PROVE  latest'[s].revision <= Cardinality(consumed') + 1
    BY <1>1 DEF RevisionsAreBounded
  <2>3. CASE s = trade.second
    BY <1>1, <1>2, <2>3
  <2>4. CASE s # trade.second
    <3>1. latest'[s] = latest[s]
      BY <1>1, <2>4
    <3>2. latest[s].revision \in Int /\ latest[s].revision <= Cardinality(consumed) + 1
      BY CardinalityOfTrades, CandleFields
         DEF WriterInv, TypeOK, SourceTypes, RevisionsAreBounded, Revision
    <3> QED BY <2>1, <3>1, <3>2
  <2> QED BY <2>3, <2>4
<1> QED BY <1>3, <1>4, <1>5 DEF WriterInv, TypeOK

(* _finalize_candles keeps the invariant. *)
LEMMA FinalizeDueStep ==
    ASSUME WriterInv, NEW last_due \in Seconds, FinalizeDue(last_due)
    PROVE  WriterInv'
<1> DEFINE due == {s \in Seconds : s <= last_due /\ s \notin DOMAIN latest}
<1>1. /\ UNCHANGED consumed /\ UNCHANGED task /\ UNCHANGED tables
      /\ UNCHANGED repairs /\ UNCHANGED stage
      /\ latest' = [s \in DOMAIN latest \cup due |->
                       IF s \in due THEN FirstCandle(s) ELSE latest[s]]
  BY DEF FinalizeDue
<1>2. PICK order \in [1..Cardinality(due) -> due] :
          Offer("finalizer", [i \in 1..Cardinality(due) |->
                                  CandleEvent(FirstCandle(order[i]))])
  BY DEF FinalizeDue
<1>3. Cardinality(due) \in Nat
  BY WriterAssumption, FS_Subset, FS_CardinalityType
<1>4. \A s \in due : s \in Seconds
  OBVIOUS
<1> HIDE DEF due
<1>5. \A s \in due : /\ FirstCandle(s) \in Candle /\ FirstCandle(s).second = s
                     /\ FirstCandle(s).revision = 1
  BY <1>4, FirstCandleType DEF WriterInv, TypeOK
<1>6. /\ DOMAIN latest' = DOMAIN latest \cup due
      /\ \A s \in due : latest'[s] = FirstCandle(s)
      /\ \A s \in DOMAIN latest \ due : latest'[s] = latest[s]
  BY <1>1
<1>7. SourceTypes' /\ TaskTypes' /\ TableTypes'
      /\ repairs' \in Nat /\ stage' \in {"running", "stopping", "stopped"}
  BY <1>1, <1>4, <1>5, <1>6
     DEF WriterInv, TypeOK, SourceTypes, TaskTypes, TableTypes, task, tables
<1>8. BufferTypes' /\ AccountInv'
  <2>1. \A i \in 1..Cardinality(due) : CandleEvent(FirstCandle(order[i])) \in Event
    BY <1>2, <1>5, CandleEventType
  <2>2. [i \in 1..Cardinality(due) |-> CandleEvent(FirstCandle(order[i]))] \in Seq(Event)
    BY <1>3, <2>1
  <2> QED BY <1>1, <1>2, <2>2, ProducerPutKeepsAccount DEF WriterInv, TypeOK
<1>9. RevisionsAreBounded'
  <2>1. Cardinality(consumed) \in Nat
    BY WriterAssumption, FS_Subset, FS_CardinalityType DEF WriterInv, TypeOK, SourceTypes
  <2> QED BY <1>1, <1>5, <1>6, <2>1 DEF WriterInv, RevisionsAreBounded
<1> QED BY <1>7, <1>8, <1>9 DEF WriterInv, TypeOK
-----------------------------------------------------------------------------
(* The writer task, recovery and shutdown *)

LEMMA EmptyBatch ==
    <<>> \in Seq(Event) /\ Len(<<>>) = 0 /\ ElementsOf(<<>>) = {}
    BY DEF ElementsOf

(* Taking a batch (_run) keeps the invariant. *)
LEMMA TakeBatchStep ==
    ASSUME WriterInv, TakeBatch
    PROVE  WriterInv'
<1>1. PICK n : n = IF Len(queue) < BatchSize THEN Len(queue) ELSE BatchSize
  OBVIOUS
<1>2. /\ UNCHANGED sources /\ UNCHANGED tables /\ UNCHANGED repairs /\ UNCHANGED stage
      /\ UNCHANGED <<pending, unfinished, accepted, throttled, failures>>
      /\ writer = "idle" /\ writer' = "writing"
      /\ batch' = SubSeq(queue, 1, n) /\ queue' = SubSeq(queue, n + 1, Len(queue))
  BY <1>1, Zenon DEF TakeBatch
<1>3. n \in 0..Len(queue) /\ queue \in Seq(Event) /\ Len(queue) \in Nat
  BY <1>1, WriterAssumption DEF WriterInv, TypeOK, BufferTypes
<1>4. /\ batch' \in Seq(Event) /\ Len(batch') = n
      /\ queue' \in Seq(Event) /\ Len(queue') = Len(queue) - n
      /\ ElementsOf(queue) = ElementsOf(batch') \cup ElementsOf(queue')
  BY <1>2, <1>3, SplitSequence
<1>5. SourceTypes' /\ RevisionsAreBounded' /\ TableTypes'
      /\ repairs' \in Nat /\ stage' \in {"running", "stopping", "stopped"}
  BY <1>2 DEF WriterInv, TypeOK, SourceTypes, RevisionsAreBounded, TableTypes, sources, tables
<1>6. BufferTypes' /\ TaskTypes'
  BY <1>2, <1>4 DEF WriterInv, TypeOK, BufferTypes, TaskTypes
<1>7. batch = <<>> /\ pending["writer"] = <<>> /\ AccountInv
  BY <1>2 DEF WriterInv, AccountInv
<1>8. unfinished' = Len(queue') + Len(batch') /\ Len(queue') <= QueueSize
  <2>1. unfinished = Len(queue) + 0 /\ Len(queue) <= QueueSize
    BY <1>7, EmptyBatch DEF AccountInv
  <2>2. unfinished' = unfinished
    BY <1>2
  <2> QED BY <1>3, <1>4, <2>1, <2>2, WriterAssumption
<1>9. NothingLost'
  <2>1. ElementsOf(batch) = {}
    BY <1>7, EmptyBatch
  <2>2. accepted' = accepted /\ rawTrades' = rawTrades /\ rows' = rows
    BY <1>2 DEF tables
  <2> QED BY <1>4, <1>7, <2>1, <2>2 DEF AccountInv, NothingLost, Stored, RowKey, ElementsOf
<1>10. AccountInv'
  BY <1>2, <1>7, <1>8, <1>9 DEF AccountInv
<1> QED BY <1>5, <1>6, <1>10 DEF WriterInv, TypeOK

(***************************************************************************)
(* The batch in hand is done: its events are stored, or queued again.      *)
(***************************************************************************)
LEMMA DoneKeepsAccount ==
    ASSUME WriterInv, TaskDone, writer' = "idle", batch' = <<>>,
           UNCHANGED <<sources, pending, queue, accepted, throttled, failures,
                       repairs, stage>>,
           TableTypes', \A e : Stored(e) => Stored(e)',
           pending["writer"] = <<>>,
           \A e \in ElementsOf(batch) : e \in ElementsOf(queue) \/ Stored(e)'
    PROVE  WriterInv'
<1>1. /\ Len(queue) \in Nat /\ Len(batch) \in Nat
      /\ unfinished = Len(queue) + Len(batch) /\ unfinished' = unfinished - Len(batch)
  BY DEF WriterInv, TypeOK, BufferTypes, TaskTypes, AccountInv, TaskDone
<1>2. unfinished' = Len(queue) /\ unfinished' \in Int
  BY <1>1
<1>3. SourceTypes' /\ RevisionsAreBounded' /\ repairs' \in Nat
      /\ stage' \in {"running", "stopping", "stopped"}
  BY DEF WriterInv, TypeOK, SourceTypes, RevisionsAreBounded, sources
<1>4. BufferTypes' /\ TaskTypes'
  BY <1>2, EmptyBatch DEF WriterInv, TypeOK, BufferTypes, TaskTypes
<1>5. NothingLost'
  <2> SUFFICES ASSUME NEW e \in accepted
               PROVE  e \in ElementsOf(queue) \/ Stored(e)'
    BY DEF NothingLost, ElementsOf, Stored, RowKey
  <2> QED BY DEF WriterInv, AccountInv, NothingLost
<1>6. AccountInv'
  <2>1. Len(queue') <= QueueSize /\ unfinished' = Len(queue') + Len(batch')
    BY <1>1, <1>2, EmptyBatch DEF WriterInv, AccountInv
  <2> QED BY <2>1, <1>5 DEF AccountInv
<1> QED BY <1>3, <1>4, <1>6 DEF WriterInv, TypeOK

(* A batch that is written (_run, _write_batch) keeps the invariant. *)
LEMMA CommitStep ==
    ASSUME WriterInv, Commit
    PROVE  WriterInv'
<1>1. TaskTypes /\ TableTypes /\ WriteBatch /\ TaskDone
      /\ writer = "writing" /\ writer' = "idle" /\ batch' = <<>>
      /\ UNCHANGED <<sources, pending, queue, accepted, throttled, failures, repairs, stage>>
  BY DEF Commit, WriterInv, TypeOK
<1>2. TableTypes'
  BY <1>1, WriteBatchTypes
<1>3. (\A e \in ElementsOf(batch) : Stored(e)') /\ (\A e : Stored(e) => Stored(e)')
  BY <1>1, WriteBatchStores
<1>4. pending["writer"] = <<>>
  BY <1>1 DEF WriterInv, AccountInv
<1> QED BY <1>1, <1>2, <1>3, <1>4, DoneKeepsAccount

(* Marking a requeued batch as done (_run) keeps the invariant. *)
LEMMA EndRequeueStep ==
    ASSUME WriterInv, EndRequeue
    PROVE  WriterInv'
<1>1. TableTypes /\ TaskDone /\ UNCHANGED tables
      /\ writer = "requeueing" /\ writer' = "idle" /\ batch' = <<>>
      /\ pending["writer"] = <<>>
      /\ UNCHANGED <<sources, pending, queue, accepted, throttled, failures, repairs, stage>>
  BY DEF EndRequeue, WriterInv, TypeOK
<1>2. TableTypes' /\ \A e : Stored(e) => Stored(e)'
  BY <1>1 DEF TableTypes, tables, Stored, RowKey
<1>3. \A e \in ElementsOf(batch) : e \in ElementsOf(queue)
  BY <1>1, EmptyBatch DEF WriterInv, AccountInv
<1> QED BY <1>1, <1>2, <1>3, DoneKeepsAccount

(* A batch that fails (_run), written or not, keeps the invariant. *)
LEMMA FailStep ==
    ASSUME WriterInv, Fail
    PROVE  WriterInv'
<1>1. /\ UNCHANGED sources /\ UNCHANGED buffer /\ UNCHANGED batch
      /\ UNCHANGED repairs /\ UNCHANGED stage
      /\ writer = "writing" /\ writer' = "sleeping" /\ failures' = failures + 1
      /\ WriteBatch \/ UNCHANGED tables
  BY DEF Fail
<1>2. TableTypes' /\ \A e : Stored(e) => Stored(e)'
  <2>1. CASE WriteBatch
    BY <2>1, WriteBatchTypes, WriteBatchStores DEF WriterInv, TypeOK
  <2>2. CASE UNCHANGED tables
    BY <2>2 DEF WriterInv, TypeOK, TableTypes, tables, Stored, RowKey
  <2> QED BY <1>1, <2>1, <2>2
<1>3. SourceTypes' /\ RevisionsAreBounded' /\ BufferTypes' /\ TaskTypes'
      /\ repairs' \in Nat /\ stage' \in {"running", "stopping", "stopped"}
  BY <1>1 DEF WriterInv, TypeOK, SourceTypes, RevisionsAreBounded, BufferTypes,
              TaskTypes, sources, buffer
<1>4. NothingLost'
  BY <1>1, <1>2 DEF WriterInv, AccountInv, NothingLost, buffer, ElementsOf, Stored, RowKey
<1>5. AccountInv'
  BY <1>1, <1>4 DEF WriterInv, AccountInv, buffer
<1> QED BY <1>2, <1>3, <1>5 DEF WriterInv, TypeOK

(* Putting a failed batch back (_run) keeps the invariant. *)
LEMMA RequeueStep ==
    ASSUME WriterInv, Requeue
    PROVE  WriterInv'
<1>1. /\ UNCHANGED sources /\ UNCHANGED batch /\ UNCHANGED failures /\ UNCHANGED tables
      /\ UNCHANGED repairs /\ UNCHANGED stage
      /\ writer' = "requeueing" /\ Offer("writer", batch)
      /\ BufferTypes /\ AccountInv /\ batch \in Seq(Event) /\ "writer" \in Putters
  BY DEF Requeue, WriterInv, TypeOK, TaskTypes, Putters
<1>2. /\ queue' \in Seq(Event) /\ Len(queue') <= QueueSize
      /\ unfinished' = unfinished + Len(queue') - Len(queue)
      /\ pending' \in [Putters -> Seq(Event)]
      /\ ElementsOf(queue) \subseteq ElementsOf(queue')
      /\ accepted' \subseteq Event /\ accepted' \subseteq accepted \cup ElementsOf(queue')
      /\ ElementsOf(batch) \subseteq ElementsOf(queue') \cup ElementsOf(pending'["writer"])
      /\ throttled' \in BOOLEAN
  BY <1>1, OfferEffect DEF BufferTypes, AccountInv
<1>3. /\ Len(queue) \in Nat /\ Len(queue') \in Nat /\ unfinished \in Int
      /\ unfinished = Len(queue) + Len(batch)
  BY <1>1, <1>2 DEF BufferTypes, AccountInv
<1>4. SourceTypes' /\ RevisionsAreBounded' /\ TaskTypes' /\ TableTypes'
      /\ repairs' \in Nat /\ stage' \in {"running", "stopping", "stopped"}
  BY <1>1 DEF WriterInv, TypeOK, SourceTypes, RevisionsAreBounded, TaskTypes,
              TableTypes, sources, tables
<1>5. BufferTypes'
  BY <1>2, <1>3 DEF BufferTypes
<1>6. NothingLost'
  BY <1>1, <1>2 DEF AccountInv, NothingLost, tables, Stored, ElementsOf, RowKey
<1>7. unfinished' = Len(queue') + Len(batch')
  <2>1. batch' = batch /\ Len(batch) \in Nat
    BY <1>1
  <2> QED BY <1>2, <1>3, <2>1
<1>8. AccountInv'
  BY <1>1, <1>2, <1>6, <1>7 DEF AccountInv, ElementsOf
<1> QED BY <1>4, <1>5, <1>8 DEF WriterInv, TypeOK

(* A repair of the candle rows keeps the invariant. *)
LEMMA RepairStep ==
    ASSUME WriterInv, NEW last_due \in Seconds, Repair(last_due)
    PROVE  WriterInv'
<1>1. /\ UNCHANGED sources /\ UNCHANGED buffer /\ UNCHANGED task /\ UNCHANGED stage
  BY DEF Repair
<1>2. TableTypes' /\ repairs' \in Nat /\ \A e : Stored(e) => Stored(e)'
  BY RepairTypes, RepairStores DEF WriterInv, TypeOK
<1>3. SourceTypes' /\ RevisionsAreBounded' /\ BufferTypes' /\ TaskTypes'
      /\ stage' \in {"running", "stopping", "stopped"}
  BY <1>1 DEF WriterInv, TypeOK, SourceTypes, RevisionsAreBounded, BufferTypes,
              TaskTypes, sources, buffer, task
<1>4. NothingLost'
  BY <1>1, <1>2 DEF WriterInv, AccountInv, NothingLost, buffer, task, ElementsOf, Stored, RowKey
<1>5. AccountInv'
  BY <1>1, <1>4 DEF WriterInv, AccountInv, buffer, task, ElementsOf
<1> QED BY <1>2, <1>3, <1>5 DEF WriterInv, TypeOK

(* Stopping the service and the writer keeps the invariant. *)
LEMMA ShutdownStep ==
    ASSUME WriterInv, StopService \/ StopWriter
    PROVE  WriterInv'
<1>1. /\ UNCHANGED sources /\ UNCHANGED task /\ UNCHANGED tables /\ UNCHANGED repairs
      /\ UNCHANGED <<queue, unfinished, accepted, throttled>>
      /\ stage' \in {"running", "stopping", "stopped"}
  BY DEF StopService, StopWriter, buffer
<1>2. pending' \in [Putters -> Seq(Event)] /\ pending'["writer"] = pending["writer"]
  <2>1. pending \in [Putters -> Seq(Event)] /\ <<>> \in Seq(Event)
    BY EmptyBatch DEF WriterInv, TypeOK, BufferTypes
  <2>2. CASE StopService
    BY <2>1, <2>2 DEF StopService, Putters
  <2>3. CASE StopWriter
    BY <2>1, <2>3 DEF StopWriter, buffer
  <2> QED BY <2>2, <2>3
<1>3. TypeOK' /\ RevisionsAreBounded'
  BY <1>1, <1>2 DEF WriterInv, TypeOK, SourceTypes, RevisionsAreBounded, BufferTypes,
                    TaskTypes, TableTypes, sources, task, tables
<1>4. NothingLost'
  BY <1>1 DEF WriterInv, AccountInv, NothingLost, task, tables, ElementsOf, Stored, RowKey
<1>5. AccountInv'
  BY <1>1, <1>2, <1>4 DEF WriterInv, AccountInv, task, ElementsOf
<1> QED BY <1>3, <1>5 DEF WriterInv

(* A step that changes nothing keeps the invariant. *)
LEMMA StutterStep ==
    ASSUME WriterInv, UNCHANGED vars
    PROVE  WriterInv'
<1>1. UNCHANGED sources /\ UNCHANGED buffer /\ UNCHANGED task /\ UNCHANGED tables
      /\ UNCHANGED repairs /\ UNCHANGED stage
  BY DEF vars
<1>2. TypeOK' /\ RevisionsAreBounded'
  BY <1>1 DEF WriterInv, TypeOK, SourceTypes, RevisionsAreBounded, BufferTypes,
              TaskTypes, TableTypes, sources, buffer, task, tables
<1>3. NothingLost'
  BY <1>1 DEF WriterInv, AccountInv, NothingLost, buffer, task, tables, ElementsOf, Stored, RowKey
<1>4. AccountInv'
  BY <1>1, <1>3 DEF WriterInv, AccountInv, buffer, task, ElementsOf
<1> QED BY <1>2, <1>4 DEF WriterInv

-----------------------------------------------------------------------------
(* The theorems *)

(***************************************************************************)
(* The accounts of the queue are right at every step.                      *)
(***************************************************************************)
THEOREM WriterInvariant == Spec => []WriterInv
<1>1. Init => WriterInv
  BY InitEstablishes
<1>2. WriterInv /\ [Next]_vars => WriterInv'
  <2> SUFFICES ASSUME WriterInv, [Next]_vars PROVE WriterInv'
    OBVIOUS
  <2>1. ASSUME NEW trade \in Trades, ConsumeTrade(trade) PROVE WriterInv'
    BY <2>1, ConsumeTradeStep
  <2>2. ASSUME NEW trade \in Trades, ConsumeLateTrade(trade) PROVE WriterInv'
    BY <2>2, ConsumeLateTradeStep
  <2>3. ASSUME NEW s \in Seconds, FinalizeDue(s) PROVE WriterInv'
    BY <2>3, FinalizeDueStep
  <2>4. ASSUME NEW s \in Seconds, Repair(s) PROVE WriterInv'
    BY <2>4, RepairStep
  <2>5. ASSUME NEW p \in Putters, Resume(p) PROVE WriterInv'
    BY <2>5, ResumeStep
  <2>6. CASE WriterStep
    BY <2>6, TakeBatchStep, CommitStep, FailStep, RequeueStep, EndRequeueStep DEF WriterStep
  <2>7. CASE StopService \/ StopWriter
    BY <2>7, ShutdownStep
  <2>8. CASE UNCHANGED vars
    BY <2>8, StutterStep
  <2> QED BY <2>1, <2>2, <2>3, <2>4, <2>5, <2>6, <2>7, <2>8 DEF Next
<1> QED BY <1>1, <1>2, PTL DEF Spec

(***************************************************************************)
(* Every variable of the writer keeps its type.                            *)
(***************************************************************************)
THEOREM TypeCorrect == Spec => []TypeOK
<1>1. WriterInv => TypeOK
  BY DEF WriterInv
<1> QED BY <1>1, WriterInvariant, PTL

(***************************************************************************)
(* The queue never overflows and its count of unfinished tasks is exact.   *)
(***************************************************************************)
THEOREM AccountsAreAlwaysRight == Spec => []AccountInv
<1>1. WriterInv => AccountInv
  BY DEF WriterInv
<1> QED BY <1>1, WriterInvariant, PTL

(***************************************************************************)
(* No event that was put is ever lost, whatever fails and is put back.     *)
(***************************************************************************)
THEOREM NothingIsEverLost == Spec => []NothingLost
<1>1. WriterInv => NothingLost
  BY DEF WriterInv, AccountInv
<1> QED BY <1>1, WriterInvariant, PTL

(***************************************************************************)
(* When stop() has joined the queue, everything that was put is stored.    *)
(***************************************************************************)
THEOREM JoinAlwaysMeansStored == Spec => []JoinMeansStored
<1>1. WriterInv => JoinMeansStored
  <2> SUFFICES ASSUME WriterInv, unfinished = 0, NEW e \in accepted PROVE Stored(e)
    BY DEF JoinMeansStored
  <2>1. /\ Len(queue) \in Nat /\ Len(batch) \in Nat /\ Len(queue) + Len(batch) = 0
        /\ queue \in Seq(Event) /\ batch \in Seq(Event)
    BY DEF WriterInv, AccountInv, TypeOK, BufferTypes, TaskTypes
  <2>2. queue = <<>> /\ batch = <<>>
    BY <2>1
  <2>3. ElementsOf(queue) = {} /\ ElementsOf(batch) = {}
    BY <2>2, EmptyBatch
  <2> QED BY <2>3 DEF WriterInv, AccountInv, NothingLost
<1> QED BY <1>1, WriterInvariant, PTL
=============================================================================
