------------------------- MODULE DatabaseRowsProofs -------------------------
(***************************************************************************)
(* Proofs about the table of candles: it keeps exactly one current row for *)
(* every second it has rows of; and until a batch fails or a put has to    *)
(* wait, that row is the newest one and, once all is written, exact.       *)
(***************************************************************************)
EXTENDS DatabaseWriterProofs, FunctionTheorems, SequenceTheorems

OneRow(second) == \E key \in DOMAIN rows : CurrentRows(second) = {key}

RowsInv == \A key \in DOMAIN rows : OneRow(key[1])

(***************************************************************************)
(* The last candle a batch has of a second makes its row the current one.  *)
(***************************************************************************)
LEMMA WriteBatchKeepsRows ==
    ASSUME TaskTypes, TableTypes, RowsInv, WriteBatch
    PROVE  RowsInv'
<1> SUFFICES ASSUME NEW key \in DOMAIN rows' PROVE OneRow(key[1])'
  BY DEF RowsInv
<1> DEFINE s == key[1]
           written == {RowKey(batch[i].value) : i \in CandlesIn(batch)}
           ofSecond == {i \in CandlesIn(batch) : batch[i].value.second = s}
<1>1. /\ DOMAIN rows' = DOMAIN rows \cup written
      /\ \A k \in DOMAIN rows' : rows'[k] = RowAfter(batch, k)
  BY DEF WriteBatch
<1>2. \A i \in CandlesIn(batch) :
          batch[i].value.second = RowKey(batch[i].value)[1]
  BY CandlesInBatch, CandleFields
<1>3. CASE ofSecond = {}
  <2>1. ASSUME NEW k \in DOMAIN rows', k[1] = s
        PROVE  k \in DOMAIN rows /\ rows'[k] = rows[k]
    <3>1. k \notin written
      BY <1>2, <1>3, <2>1
    <3>2. RowAfter(batch, k) = rows[k]
      BY <1>3, <2>1 DEF RowAfter
    <3> QED BY <1>1, <3>1, <3>2
  <2>2. PICK old \in DOMAIN rows : CurrentRows(s) = {old}
    BY <2>1 DEF RowsInv, OneRow
  <2>3. CurrentRows(s)' = CurrentRows(s)
    BY <1>1, <2>1 DEF CurrentRows
  <2> QED BY <1>1, <2>2, <2>3 DEF OneRow
<1>4. CASE ofSecond # {}
  <2>1. Newest(ofSecond) \in ofSecond
    <3>1. ofSecond \in SUBSET DOMAIN batch
      BY DEF CandlesIn
    <3> HIDE DEF ofSecond
    <3> QED BY <1>4, <3>1, NewestIsMember DEF TaskTypes
  <2>2. PICK last \in ofSecond : last = Newest(ofSecond)
    BY <2>1
  <2> DEFINE new == RowKey(batch[last].value)
  <2>3. new \in DOMAIN rows' /\ new[1] = s
    BY <1>1, <1>2
  <2>4. ASSUME NEW k \in DOMAIN rows', k[1] = s
        PROVE  rows'[k].current <=> k = new
    <3> DEFINE ofRow == {i \in ofSecond : RowKey(batch[i].value) = k}
    <3>1. RowAfter(batch, k) =
              IF ofSecond = {} THEN rows[k]
              ELSE [candle  |-> IF ofRow = {} THEN rows[k].candle
                                ELSE batch[Newest(ofRow)].value,
                    current |-> Newest(ofSecond) \in ofRow]
      BY <2>4 DEF RowAfter
    <3>2. rows'[k].current = (last \in ofRow)
      <4> HIDE DEF ofSecond, ofRow
      <4> QED BY <1>1, <1>4, <2>2, <3>1
    <3>3. last \in ofRow <=> k = new
      OBVIOUS
    <3> QED BY <3>2, <3>3
  <2>5. CurrentRows(s)' = {new}
    <3> HIDE DEF new, s, ofSecond
    <3> QED BY <2>3, <2>4 DEF CurrentRows
  <2> QED BY <2>3, <2>5 DEF OneRow
<1> QED BY <1>3, <1>4

(***************************************************************************)
(* A repair makes one row of every second it rebuilds current.             *)
(***************************************************************************)
LEMMA RepairKeepsRows ==
    ASSUME TableTypes, RowsInv, NEW last_due \in Seconds, Repair(last_due)
    PROVE  RowsInv'
<1> DEFINE rolled   == {s \in Seconds : s <= last_due /\ TradesOf(rawTrades, s) # {}}
           repaired == {<<s, RepairedRevision(s)>> : s \in rolled}
           row(key) == [candle |-> [second |-> key[1], revision |-> key[2],
                                    status |-> "complete",
                                    trades |-> TradesOf(rawTrades, key[1])],
                        current |-> TRUE]
<1>1. rows' = [key \in DOMAIN rows \cup repaired |->
                IF key \in repaired THEN row(key)
                ELSE IF key[1] \in rolled THEN [rows[key] EXCEPT !.current = FALSE]
                ELSE rows[key]]
  BY DEF Repair
<1>2. \A s \in rolled : <<s, RepairedRevision(s)>> \in repaired
  OBVIOUS
<1>3. \A key \in repaired : key[1] \in rolled /\ key = <<key[1], RepairedRevision(key[1])>>
  OBVIOUS
<1>4. \A key \in repaired : row(key).current
  OBVIOUS
<1>5. \A key \in DOMAIN rows : ~ [rows[key] EXCEPT !.current = FALSE].current
  BY DEF TableTypes, Row
<1> HIDE DEF rolled, repaired, row
<1>6. /\ DOMAIN rows' = DOMAIN rows \cup repaired
      /\ \A key \in repaired : rows'[key].current
      /\ \A key \in DOMAIN rows \ repaired :
             key[1] \in rolled => ~ rows'[key].current
      /\ \A key \in DOMAIN rows \ repaired :
             key[1] \notin rolled => rows'[key] = rows[key]
  BY <1>1, <1>4, <1>5
<1> SUFFICES ASSUME NEW key \in DOMAIN rows' PROVE OneRow(key[1])'
  BY DEF RowsInv
<1>7. CASE key[1] \in rolled
  <2>1. <<key[1], RepairedRevision(key[1])>> \in DOMAIN rows'
    BY <1>2, <1>6, <1>7
  <2>2. PICK new \in DOMAIN rows' : new = <<key[1], RepairedRevision(key[1])>>
    BY <2>1
  <2>3. new \in repaired /\ new[1] = key[1]
    BY <1>2, <1>7, <2>2
  <2>4. CurrentRows(key[1])' = {new}
    BY <1>3, <1>6, <1>7, <2>2, <2>3 DEF CurrentRows
  <2> QED BY <2>4 DEF OneRow
<1>8. CASE key[1] \notin rolled
  <2>1. key \in DOMAIN rows
    BY <1>3, <1>6, <1>8
  <2>2. PICK old \in DOMAIN rows : CurrentRows(key[1]) = {old}
    BY <2>1 DEF RowsInv, OneRow
  <2>3. CurrentRows(key[1])' = CurrentRows(key[1])
    BY <1>3, <1>6, <1>8 DEF CurrentRows
  <2> QED BY <1>6, <2>2, <2>3 DEF OneRow
<1> QED BY <1>7, <1>8

-----------------------------------------------------------------------------

(* The keys of the candles table and its current rows stay as RowsInv says, through
   _write_batch and the repair statements. *)
LEMMA RowsInvariant == Spec => []RowsInv
<1>1. Init => RowsInv
  BY DEF Init, RowsInv
<1>2. WriterInv /\ RowsInv /\ [Next]_vars => RowsInv'
  <2> SUFFICES ASSUME WriterInv, RowsInv, [Next]_vars PROVE RowsInv'
    OBVIOUS
  <2>1. TaskTypes /\ TableTypes
    BY DEF WriterInv, TypeOK
  <2>2. CASE WriteBatch
    BY <2>1, <2>2, WriteBatchKeepsRows
  <2>3. CASE UNCHANGED tables
    BY <2>3 DEF tables, RowsInv, OneRow, CurrentRows
  <2>4. ASSUME NEW s \in Seconds, Repair(s) PROVE RowsInv'
    BY <2>1, <2>4, RepairKeepsRows
  <2>5. WriteBatch \/ UNCHANGED tables \/ \E s \in Seconds : Repair(s)
    BY DEF Next, WriterStep, ConsumeTrade, ConsumeLateTrade, FinalizeDue, Resume,
           TakeBatch, Commit, Fail, Requeue, EndRequeue, StopService, StopWriter, vars
  <2> QED BY <2>2, <2>3, <2>4, <2>5
<1> QED BY <1>1, <1>2, WriterInvariant, PTL DEF Spec

(***************************************************************************)
(* A second with rows has exactly one current row, however batches, their  *)
(* repetitions and repairs are interleaved.                                *)
(***************************************************************************)
THEOREM ExactlyOneCurrentRow == Spec => []OneCurrentRow
<1>1. RowsInv => OneCurrentRow
  BY FS_Singleton DEF RowsInv, OneRow, OneCurrentRow
<1> QED BY <1>1, RowsInvariant, PTL

-----------------------------------------------------------------------------
(* The order of the writes *)

(***************************************************************************)
(* The events still to be written, oldest first: the batch in hand and     *)
(* what is queued behind it.                                               *)
(***************************************************************************)
Line == batch \o queue

CandlesOf(events, second) ==
    {i \in CandlesIn(events) : events[i].value.second = second}

(* A closed second was published with exactly the trades consumed of it. *)
SourcesAreExact ==
    \A s \in DOMAIN latest : latest[s].trades = TradesOf(consumed, s)

(* Nobody waits, and nothing that failed is put back. *)
NobodyWaits ==
    /\ \A p \in Putters : pending[p] = <<>>
    /\ writer \in {"idle", "writing"}

(* The candles of a second are in the line in the order of their revisions,
   and the last of them is the newest there is. *)
LineIsOrdered ==
    /\ \A s \in Seconds : \A i, j \in CandlesOf(Line, s) :
           i < j => Line[i].value.revision <= Line[j].value.revision
    /\ \A s \in Seconds : \A i \in CandlesOf(Line, s) :
           /\ s \in DOMAIN latest
           /\ Line[i].value.revision <= latest[s].revision
           /\ (\A j \in CandlesOf(Line, s) : j <= i) => Line[i].value = latest[s]

(* No row is newer than a candle that is still to be written. *)
RowsAreOlder ==
    \A key \in DOMAIN rows :
        /\ \A i \in CandlesOf(Line, key[1]) : key[2] <= Line[i].value.revision
        /\ key[2] <= IF key[1] \in DOMAIN latest THEN latest[key[1]].revision ELSE 1

(* Every trade consumed is written or in the line, and of a closed second
   the candle that knows it is in the line behind it. *)
TradesInLine == {i \in DOMAIN Line : Line[i].kind = "trade"}

TradesArePrompt ==
    /\ rawTrades \subseteq consumed
    /\ \A i \in TradesInLine : Line[i].value \in consumed
    /\ \A trade \in consumed \ rawTrades : \E i \in TradesInLine : Line[i].value = trade
    /\ \A i \in TradesInLine : Line[i].value.second \in DOMAIN latest =>
           \E j \in CandlesOf(Line, Line[i].value.second) : i < j

(* The current row of a closed second is exact, unless a newer candle of it
   is still to be written. *)
RowsAreExact ==
    \A s \in DOMAIN latest : CandlesOf(Line, s) = {} =>
        \A key \in CurrentRows(s) : rows[key].candle.trades = latest[s].trades

(***************************************************************************)
(* The inductive invariant.  The newest row alone is not one: that a batch *)
(* makes the right row current rests on the order of the events before it  *)
(* in the line, and that a repair does on every trade of a closed second   *)
(* being written when no candle of it is left in the line.                 *)
(***************************************************************************)
OrderInv ==
    /\ SourcesAreExact
    /\ InOrder => /\ NobodyWaits
                  /\ LineIsOrdered
                  /\ RowsAreOlder
                  /\ TradesArePrompt
                  /\ RowsAreExact
                  /\ CurrentIsNewest

-----------------------------------------------------------------------------
(* The line of events *)

(* A candle event of a sequence of events carries a candle of its second. *)
LEMMA CandleOfLine ==
    ASSUME NEW line \in Seq(Event), NEW s, NEW i \in CandlesOf(line, s)
    PROVE  /\ i \in 1..Len(line) /\ i \in DOMAIN line
           /\ line[i].value \in Candle /\ line[i].value.second = s
           /\ line[i].value.revision \in Nat /\ line[i].value.revision >= 1
<1>1. i \in 1..Len(line) /\ line[i] \in Event /\ line[i].kind = "candle"
      /\ line[i].value.second = s
  BY DEF CandlesOf, CandlesIn
<1>2. line[i].value \in Candle
  BY <1>1, EventValue
<1> QED BY <1>1, <1>2, CardinalityOfTrades DEF Candle, Revision

(* Where the candles of a second are once events are put behind a line. *)
LEMMA CandlesOfPut ==
    ASSUME NEW line \in Seq(Event), NEW events \in Seq(Event), NEW s
    PROVE  /\ line \o events \in Seq(Event)
           /\ Len(line \o events) = Len(line) + Len(events)
           /\ \A i \in 1..Len(line) : (line \o events)[i] = line[i]
           /\ \A k \in 1..Len(events) : (line \o events)[Len(line) + k] = events[k]
           /\ CandlesOf(line \o events, s) =
                  CandlesOf(line, s) \cup {Len(line) + k : k \in CandlesOf(events, s)}
<1> DEFINE both == line \o events
<1>1. /\ both \in Seq(Event) /\ Len(both) = Len(line) + Len(events)
      /\ \A i \in 1..Len(line) : both[i] = line[i]
      /\ \A k \in 1..Len(events) : both[Len(line) + k] = events[k]
  OBVIOUS
<1>2. /\ Len(line) \in Nat /\ Len(events) \in Nat
      /\ DOMAIN line = 1..Len(line) /\ DOMAIN events = 1..Len(events)
  OBVIOUS
<1> HIDE DEF both
<1>3. DOMAIN both = 1..(Len(line) + Len(events))
  BY <1>1
<1>4. ASSUME NEW i \in CandlesOf(both, s)
      PROVE  i \in CandlesOf(line, s) \cup {Len(line) + k : k \in CandlesOf(events, s)}
  <2>1. i \in 1..(Len(line) + Len(events)) /\ both[i].kind = "candle"
        /\ both[i].value.second = s
    BY <1>3 DEF CandlesOf, CandlesIn
  <2>2. CASE i <= Len(line)
    BY <1>1, <1>2, <2>1, <2>2 DEF CandlesOf, CandlesIn
  <2>3. CASE i > Len(line)
    <3>1. PICK k \in 1..Len(events) : i = Len(line) + k
      BY <1>2, <2>1, <2>3
    <3>2. k \in CandlesOf(events, s)
      BY <1>1, <1>2, <2>1, <3>1 DEF CandlesOf, CandlesIn
    <3> QED BY <3>1, <3>2
  <2> QED BY <1>2, <2>1, <2>2, <2>3
<1>5. ASSUME NEW i \in CandlesOf(line, s) PROVE i \in CandlesOf(both, s)
  BY <1>1, <1>2, <1>3 DEF CandlesOf, CandlesIn
<1>6. ASSUME NEW k \in CandlesOf(events, s) PROVE Len(line) + k \in CandlesOf(both, s)
  <2>1. k \in 1..Len(events) /\ events[k].kind = "candle" /\ events[k].value.second = s
    BY <1>2 DEF CandlesOf, CandlesIn
  <2>2. Len(line) + k \in DOMAIN both /\ both[Len(line) + k] = events[k]
    BY <1>1, <1>2, <1>3, <2>1
  <2> QED BY <2>1, <2>2 DEF CandlesOf, CandlesIn
<1> QED BY <1>1, <1>4, <1>5, <1>6 DEF both

(* Whatever a step does, it does not take a failure or a wait back. *)
LEMMA InOrderBefore ==
    ASSUME WriterInv, [Next]_vars, InOrder'
    PROVE  InOrder
<1>1. failures \in Nat /\ (failures' = failures \/ failures' = failures + 1)
  BY DEF WriterInv, TypeOK, TaskTypes, Next, WriterStep, ConsumeTrade, ConsumeLateTrade,
         FinalizeDue, Repair, Resume, TakeBatch, Commit, Fail, Requeue, EndRequeue,
         StopService, StopWriter, vars, task
<1>2. throttled => throttled'
  BY DEF Next, WriterStep, ConsumeTrade, ConsumeLateTrade, FinalizeDue, Repair, Resume,
         TakeBatch, Commit, Fail, Requeue, EndRequeue, StopService, StopWriter, vars,
         buffer, Offer
<1> QED BY <1>1, <1>2 DEF InOrder

(* A put that need not wait puts everything. *)
LEMMA PutGrowsLine ==
    ASSUME WriterInv, ~ throttled', NEW p \in Putters, pending[p] = <<>>,
           NEW events \in Seq(Event), Offer(p, events), UNCHANGED task
    PROVE  Line' = Line \o events /\ UNCHANGED pending /\ Line \in Seq(Event)
<1>1. queue \in Seq(Event) /\ batch \in Seq(Event) /\ pending \in [Putters -> Seq(Event)]
  BY DEF WriterInv, TypeOK, BufferTypes, TaskTypes
<1>2. PICK n : n = IF Len(events) < QueueSize - Len(queue)
                   THEN Len(events) ELSE QueueSize - Len(queue)
  OBVIOUS
<1>3. /\ queue' = queue \o SubSeq(events, 1, n)
      /\ pending' = [pending EXCEPT ![p] = SubSeq(events, n + 1, Len(events))]
      /\ throttled' = (throttled \/ n < Len(events))
  BY <1>2, Zenon DEF Offer
<1>4. n = Len(events) /\ n \in Nat
  <2>1. Len(events) \in Nat /\ Len(queue) \in Nat
    BY <1>1
  <2>2. ~ (n < Len(events))
    BY <1>3, Zenon
  <2> QED BY <1>2, <2>1, <2>2, WriterAssumption
<1>5. SubSeq(events, 1, n) = events /\ SubSeq(events, n + 1, Len(events)) = <<>>
  BY <1>4, SubSeqFull, SubSeqEmpty
<1>6. queue' = queue \o events /\ pending' = pending
  BY <1>1, <1>3, <1>5
<1>7. batch' = batch
  BY DEF task
<1>8. (batch \o queue) \o events = batch \o (queue \o events)
  BY <1>1, ConcatAssociative
<1>9. batch \o queue \in Seq(Event)
  BY <1>1, ConcatProperties
<1> QED BY <1>6, <1>7, <1>8, <1>9 DEF Line

-----------------------------------------------------------------------------
(* Putting *)

(***************************************************************************)
(* What a producer puts says all that it does to the sources: each second  *)
(* it closes or revises is in a candle, behind its trades, and in no more  *)
(* than one.                                                               *)
(***************************************************************************)
TradesAt(events) == {i \in DOMAIN events : events[i].kind = "trade"}

Announces(events) ==
    /\ consumed' = consumed \cup {events[k].value : k \in TradesAt(events)}
    /\ \A s \in DOMAIN latest : s \in DOMAIN latest' /\ latest[s].revision <= latest'[s].revision
    /\ \A s \in DOMAIN latest' :
           CandlesOf(events, s) = {} => s \in DOMAIN latest /\ latest'[s] = latest[s]
    /\ \A s : \A k \in CandlesOf(events, s) :
           /\ s \in DOMAIN latest' /\ events[k].value = latest'[s]
           /\ \A l \in CandlesOf(events, s) : k = l
    /\ \A k \in TradesAt(events) : events[k].value.second \in DOMAIN latest' =>
           \E l \in CandlesOf(events, events[k].value.second) : k < l

(* The newest candle of a closed second has a revision. *)
LEMMA LatestRevisions ==
    ASSUME SourceTypes
    PROVE  \A s \in DOMAIN latest : latest[s].revision \in Nat /\ latest[s].revision >= 1
BY CardinalityOfTrades DEF SourceTypes, Candle, Revision

(* A put keeps the line in order. *)
LEMMA PutKeepsLine ==
    ASSUME WriterInv, SourceTypes', LineIsOrdered, NEW events \in Seq(Event),
           Announces(events), Line \in Seq(Event), Line' = Line \o events
    PROVE  LineIsOrdered'
<1>0. Len(Line) \in Nat /\ SourceTypes
  BY DEF WriterInv, TypeOK
<1>1. \A s \in DOMAIN latest : latest[s].revision \in Nat
  BY <1>0, LatestRevisions
<1>2. \A s \in DOMAIN latest' : latest'[s].revision \in Nat
  BY CardinalityOfTrades DEF SourceTypes, Candle, Revision
<1> SUFFICES ASSUME NEW s \in Seconds, NEW i \in CandlesOf(Line', s)
             PROVE  /\ \A j \in CandlesOf(Line', s) :
                           i < j => Line'[i].value.revision <= Line'[j].value.revision
                    /\ s \in DOMAIN latest'
                    /\ Line'[i].value.revision <= latest'[s].revision
                    /\ (\A j \in CandlesOf(Line', s) : j <= i) => Line'[i].value = latest'[s]
  BY DEF LineIsOrdered, CandlesOf, CandlesIn
<1> DEFINE old == CandlesOf(Line, s)
           new == CandlesOf(events, s)
<1>3. /\ CandlesOf(Line', s) = old \cup {Len(Line) + k : k \in new}
      /\ \A k \in old : k \in 1..Len(Line) /\ Line'[k] = Line[k]
      /\ \A k \in new : k \in 1..Len(events) /\ Line'[Len(Line) + k] = events[k]
  BY CandlesOfPut, CandleOfLine
<1>4. \A k \in old : /\ s \in DOMAIN latest /\ Line[k].value.revision \in Nat
                     /\ Line[k].value.revision <= latest[s].revision
                     /\ (\A j \in old : j <= k) => Line[k].value = latest[s]
                     /\ \A j \in old : k < j => Line[k].value.revision <= Line[j].value.revision
  BY CandleOfLine DEF LineIsOrdered
<1>5. \A k \in new : /\ s \in DOMAIN latest' /\ events[k].value = latest'[s]
                     /\ \A l \in new : k = l
  BY DEF Announces
<1>6. s \in DOMAIN latest =>
          /\ s \in DOMAIN latest' /\ latest[s].revision <= latest'[s].revision
          /\ new = {} => latest'[s] = latest[s]
  BY DEF Announces
<1> HIDE DEF old, new
<1>7. CASE i \in old
  <2>1. s \in DOMAIN latest' /\ Line'[i].value.revision <= latest'[s].revision
    BY <1>1, <1>2, <1>3, <1>4, <1>6, <1>7
  <2>2. ASSUME NEW j \in CandlesOf(Line', s), i < j
        PROVE  Line'[i].value.revision <= Line'[j].value.revision
    <3>1. CASE j \in old
      BY <1>3, <1>4, <1>7, <2>2, <3>1
    <3>2. CASE \E k \in new : j = Len(Line) + k
      BY <1>3, <1>5, <2>1, <3>2
    <3> QED BY <1>3, <3>1, <3>2
  <2>3. ASSUME \A j \in CandlesOf(Line', s) : j <= i PROVE Line'[i].value = latest'[s]
    <3>1. new = {}
      <4> SUFFICES ASSUME NEW k \in new PROVE FALSE
        OBVIOUS
      <4>1. Len(Line) + k \in CandlesOf(Line', s)
        BY <1>3
      <4>2. Len(Line) + k <= i /\ i \in 1..Len(Line) /\ k \in 1..Len(events)
        BY <1>3, <1>7, <2>3, <4>1
      <4> QED BY <1>0, <4>2
    <3> QED BY <1>3, <1>4, <1>6, <1>7, <2>3, <3>1
  <2> QED BY <2>1, <2>2, <2>3
<1>8. CASE i \notin old
  <2>1. PICK k \in new : i = Len(Line) + k
    BY <1>3, <1>8
  <2>2. ASSUME NEW j \in CandlesOf(Line', s) PROVE ~ (i < j)
    BY <1>0, <1>3, <1>5, <2>1
  <2> QED BY <1>2, <1>3, <1>5, <2>1, <2>2
<1> QED BY <1>7, <1>8

(* A put of newer candles leaves the rows the older ones. *)
LEMMA PutKeepsRowsOlder ==
    ASSUME WriterInv, SourceTypes', RowsAreOlder, NEW events \in Seq(Event),
           Announces(events), Line \in Seq(Event), Line' = Line \o events, UNCHANGED tables
    PROVE  RowsAreOlder'
<1>1. \A s \in DOMAIN latest : latest[s].revision \in Nat
  BY LatestRevisions DEF WriterInv, TypeOK
<1>2. \A s \in DOMAIN latest' : latest'[s].revision \in Nat /\ latest'[s].revision >= 1
  BY CardinalityOfTrades DEF SourceTypes, Candle, Revision
<1>3. rows' = rows /\ \A key \in DOMAIN rows : key[2] \in Nat
  BY CardinalityOfTrades DEF tables, WriterInv, TypeOK, TableTypes, Revision
<1> SUFFICES ASSUME NEW key \in DOMAIN rows
             PROVE  /\ \A i \in CandlesOf(Line', key[1]) : key[2] <= Line'[i].value.revision
                    /\ key[2] <= IF key[1] \in DOMAIN latest' THEN latest'[key[1]].revision ELSE 1
  BY <1>3 DEF RowsAreOlder, CandlesOf, CandlesIn
<1> DEFINE s == key[1]
<1>4. /\ \A i \in CandlesOf(Line, s) : key[2] <= Line[i].value.revision
      /\ key[2] <= IF s \in DOMAIN latest THEN latest[s].revision ELSE 1
  BY DEF RowsAreOlder
<1>5. s \in DOMAIN latest => s \in DOMAIN latest' /\ latest[s].revision <= latest'[s].revision
  BY DEF Announces
<1>6. key[2] <= IF s \in DOMAIN latest' THEN latest'[s].revision ELSE 1
  BY <1>1, <1>2, <1>3, <1>4, <1>5
<1>7. ASSUME NEW i \in CandlesOf(Line', s) PROVE key[2] <= Line'[i].value.revision
  <2>1. CASE i \in CandlesOf(Line, s)
    <3>1. i \in 1..Len(Line)
      BY <2>1, CandleOfLine
    <3>2. Line'[i] = Line[i]
      BY <3>1, CandlesOfPut
    <3> QED BY <1>4, <2>1, <3>2
  <2>2. CASE \E k \in CandlesOf(events, s) : i = Len(Line) + k
    <3>1. PICK k \in CandlesOf(events, s) : i = Len(Line) + k
      BY <2>2
    <3>2. Line'[i] = events[k] /\ s \in DOMAIN latest' /\ events[k].value = latest'[s]
      BY <3>1, CandlesOfPut, CandleOfLine DEF Announces
    <3> QED BY <1>6, <3>2
  <2>3. i \in CandlesOf(Line, s) \cup {Len(Line) + k : k \in CandlesOf(events, s)}
    BY CandlesOfPut
  <2> QED BY <2>1, <2>2, <2>3
<1> QED BY <1>6, <1>7

(* A put leaves every trade before the candle that knows it. *)
LEMMA PutKeepsTrades ==
    ASSUME WriterInv, TradesArePrompt, NEW events \in Seq(Event),
           Announces(events), Line \in Seq(Event), Line' = Line \o events, UNCHANGED tables
    PROVE  TradesArePrompt'
<1>0. Len(Line) \in Nat /\ Len(events) \in Nat
      /\ DOMAIN Line = 1..Len(Line) /\ DOMAIN events = 1..Len(events)
  OBVIOUS
<1>1. /\ Line' \in Seq(Event) /\ Len(Line') = Len(Line) + Len(events)
      /\ \A i \in 1..Len(Line) : Line'[i] = Line[i]
      /\ \A k \in 1..Len(events) : Line'[Len(Line) + k] = events[k]
  BY CandlesOfPut
<1>2. \A s : /\ CandlesOf(Line, s) \subseteq CandlesOf(Line', s)
             /\ \A k \in CandlesOf(events, s) : Len(Line) + k \in CandlesOf(Line', s)
  BY CandlesOfPut
<1>3. \A i \in TradesInLine' :
          \/ i \in TradesInLine /\ Line'[i] = Line[i]
          \/ \E k \in TradesAt(events) : i = Len(Line) + k /\ Line'[i] = events[k]
  <2> SUFFICES ASSUME NEW i \in 1..(Len(Line) + Len(events)), Line'[i].kind = "trade"
               PROVE  \/ i \in TradesInLine /\ Line'[i] = Line[i]
                      \/ \E k \in TradesAt(events) : i = Len(Line) + k /\ Line'[i] = events[k]
    BY <1>1 DEF TradesInLine
  <2>1. CASE i <= Len(Line)
    BY <1>0, <1>1, <2>1 DEF TradesInLine
  <2>2. CASE i > Len(Line)
    <3>1. PICK k \in 1..Len(events) : i = Len(Line) + k
      BY <1>0, <2>2
    <3> QED BY <1>0, <1>1, <3>1 DEF TradesAt
  <2> QED BY <1>0, <2>1, <2>2
<1>4. /\ TradesInLine \subseteq TradesInLine'
      /\ \A k \in TradesAt(events) : Len(Line) + k \in TradesInLine'
  BY <1>0, <1>1 DEF TradesInLine, TradesAt
<1>5. rawTrades' = rawTrades /\ rawTrades' \subseteq consumed'
  BY DEF tables, TradesArePrompt, Announces
<1>6. \A i \in TradesInLine' : Line'[i].value \in consumed'
  <2>1. \A i \in TradesInLine : Line[i].value \in consumed
    BY DEF TradesArePrompt
  <2>2. consumed \subseteq consumed' /\ \A k \in TradesAt(events) : events[k].value \in consumed'
    BY DEF Announces
  <2> QED BY <1>3, <2>1, <2>2
<1>7. ASSUME NEW trade \in consumed' \ rawTrades'
      PROVE  \E i \in TradesInLine' : Line'[i].value = trade
  <2>1. CASE trade \in consumed
    <3>1. PICK i \in TradesInLine : Line[i].value = trade
      BY <1>5, <2>1 DEF TradesArePrompt
    <3>2. i \in TradesInLine' /\ Line'[i] = Line[i]
      BY <1>0, <1>1, <1>4 DEF TradesInLine
    <3> QED BY <3>1, <3>2
  <2>2. CASE trade \notin consumed
    <3>1. PICK k \in TradesAt(events) : events[k].value = trade
      BY <2>2 DEF Announces
    <3>2. Len(Line) + k \in TradesInLine' /\ Line'[Len(Line) + k] = events[k]
      BY <1>0, <1>1, <1>4 DEF TradesAt
    <3> QED BY <3>1, <3>2
  <2> QED BY <2>1, <2>2
<1>8. ASSUME NEW i \in TradesInLine', Line'[i].value.second \in DOMAIN latest'
      PROVE  \E j \in CandlesOf(Line', Line'[i].value.second) : i < j
  <2> DEFINE s == Line'[i].value.second
  <2>1. CASE i \in TradesInLine /\ Line'[i] = Line[i]
    <3>1. CASE s \in DOMAIN latest
      BY <1>2, <2>1, <3>1 DEF TradesArePrompt
    <3>2. CASE s \notin DOMAIN latest
      <4>0. CandlesOf(events, s) # {}
        <5>1. s \in DOMAIN latest'
          BY <1>8
        <5> HIDE DEF s
        <5> QED BY <3>2, <5>1 DEF Announces
      <4>1. PICK k \in CandlesOf(events, s) : TRUE
        BY <4>0
      <4>2. k \in 1..Len(events) /\ i \in 1..Len(Line)
        BY <1>0, <2>1, CandleOfLine DEF TradesInLine
      <4> QED BY <1>0, <1>2, <4>1, <4>2
    <3> QED BY <3>1, <3>2
  <2>2. CASE \E k \in TradesAt(events) : i = Len(Line) + k /\ Line'[i] = events[k]
    <3>1. PICK k \in TradesAt(events) : i = Len(Line) + k /\ Line'[i] = events[k]
      BY <2>2
    <3>2. PICK l \in CandlesOf(events, s) : k < l
      BY <1>8, <3>1 DEF Announces
    <3>3. l \in 1..Len(events) /\ k \in 1..Len(events)
      BY <1>0, CandleOfLine DEF TradesAt
    <3> QED BY <1>0, <1>2, <3>1, <3>2, <3>3
  <2> QED BY <1>3, <2>1, <2>2
<1> QED BY <1>5, <1>6, <1>7, <1>8 DEF TradesArePrompt, TradesInLine, CandlesOf, CandlesIn

(***************************************************************************)
(* A put that need not wait keeps the order.                               *)
(***************************************************************************)
LEMMA PutKeepsOrder ==
    ASSUME WriterInv, WriterInv', InOrder, InOrder', OrderInv,
           NEW p \in Putters, NEW events \in Seq(Event), Offer(p, events),
           Announces(events), UNCHANGED <<task, tables>>
    PROVE  /\ NobodyWaits' /\ LineIsOrdered' /\ RowsAreOlder'
           /\ TradesArePrompt' /\ RowsAreExact' /\ CurrentIsNewest'
<1>1. /\ NobodyWaits /\ LineIsOrdered /\ RowsAreOlder
      /\ TradesArePrompt /\ RowsAreExact /\ CurrentIsNewest
  BY DEF OrderInv
<1>2. UNCHANGED task /\ UNCHANGED tables /\ rows' = rows /\ SourceTypes'
  BY DEF tables, WriterInv, TypeOK
<1>3. Line' = Line \o events /\ UNCHANGED pending /\ Line \in Seq(Event)
  BY <1>1, <1>2, PutGrowsLine DEF InOrder, NobodyWaits
<1>4. NobodyWaits'
  BY <1>1, <1>3, <1>2 DEF NobodyWaits, task
<1>5. LineIsOrdered' /\ RowsAreOlder' /\ TradesArePrompt'
  BY <1>1, <1>2, <1>3, PutKeepsLine, PutKeepsRowsOlder, PutKeepsTrades
<1>6. CurrentIsNewest'
  BY <1>1, <1>2 DEF CurrentIsNewest
<1>7. RowsAreExact'
  <2> SUFFICES ASSUME NEW s \in DOMAIN latest', CandlesOf(Line', s) = {},
                      NEW key \in CurrentRows(s)
               PROVE  rows[key].candle.trades = latest'[s].trades
    BY <1>2 DEF RowsAreExact, CurrentRows, CandlesOf, CandlesIn
  <2>1. CandlesOf(Line, s) = {} /\ CandlesOf(events, s) = {}
    <3>1. CandlesOf(Line', s) =
              CandlesOf(Line, s) \cup {Len(Line) + k : k \in CandlesOf(events, s)}
      BY <1>3, CandlesOfPut
    <3>2. \A k \in CandlesOf(events, s) : Len(Line) + k \in CandlesOf(Line', s)
      BY <3>1
    <3> QED BY <3>1, <3>2
  <2>2. s \in DOMAIN latest /\ latest'[s] = latest[s]
    BY <2>1 DEF Announces
  <2> QED BY <1>1, <2>1, <2>2 DEF RowsAreExact
<1> QED BY <1>4, <1>5, <1>6, <1>7

-----------------------------------------------------------------------------
(* The producers *)

(* What one more trade adds to the trades of a second. *)
LEMMA TradesOfConsumed ==
    ASSUME NEW trade, NEW s
    PROVE  TradesOf(consumed \cup {trade}, s) =
               IF trade.second = s THEN TradesOf(consumed, s) \cup {trade}
               ELSE TradesOf(consumed, s)
BY DEF TradesOf

(* A trade of a second that is still open. *)
LEMMA ConsumeTradeKeepsOrder ==
    ASSUME WriterInv, WriterInv', OrderInv, [Next]_vars, NEW trade \in Trades, ConsumeTrade(trade)
    PROVE  OrderInv'
<1> DEFINE events == <<TradeEvent(trade)>>
<1>1. /\ Offer("consumer", events) /\ UNCHANGED latest /\ UNCHANGED task /\ UNCHANGED tables
      /\ consumed' = consumed \cup {trade} /\ trade.second \notin DOMAIN latest
      /\ "consumer" \in Putters
  BY DEF ConsumeTrade, Putters
<1>2. events \in Seq(Event) /\ Len(events) = 1 /\ events[1] = TradeEvent(trade)
  BY TradeEventType
<1>3. SourcesAreExact'
  BY <1>1, TradesOfConsumed DEF OrderInv, SourcesAreExact
<1> HIDE DEF events
<1>4. TradesAt(events) = {1} /\ CandlesIn(events) = {}
  BY <1>2 DEF TradesAt, CandlesIn, TradeEvent
<1>5. \A s : CandlesOf(events, s) = {}
  BY <1>4 DEF CandlesOf
<1>6. events[1].value = trade
  BY <1>2 DEF TradeEvent
<1>7. \A s \in DOMAIN latest : latest[s].revision \in Nat
  BY LatestRevisions DEF WriterInv, TypeOK
<1>8. Announces(events)
  BY <1>1, <1>4, <1>5, <1>6, <1>7 DEF Announces
<1>9. InOrder' => InOrder
  BY InOrderBefore
<1> QED BY <1>1, <1>2, <1>3, <1>8, <1>9, PutKeepsOrder DEF OrderInv

(* A late trade and the revised candle behind it. *)
LEMMA ConsumeLateTradeKeepsOrder ==
    ASSUME WriterInv, WriterInv', OrderInv, [Next]_vars,
           NEW trade \in Trades, ConsumeLateTrade(trade)
    PROVE  OrderInv'
<1> DEFINE events == <<TradeEvent(trade), CandleEvent(Recovered(trade))>>
           second == trade.second
<1>1. /\ Offer("consumer", events) /\ UNCHANGED task /\ UNCHANGED tables
      /\ consumed' = consumed \cup {trade} /\ second \in DOMAIN latest
      /\ latest' = [latest EXCEPT ![second] = Recovered(trade)]
      /\ "consumer" \in Putters /\ trade \notin consumed
  BY DEF ConsumeLateTrade, Putters
<1>2. Recovered(trade) \in Candle /\ Recovered(trade).second = second
  BY <1>1, RecoveredType DEF WriterInv, TypeOK
<1>3. /\ events \in Seq(Event) /\ Len(events) = 2
      /\ events[1] = TradeEvent(trade) /\ events[2] = CandleEvent(Recovered(trade))
  BY <1>2, TradeEventType, CandleEventType
<1>4. \A s \in DOMAIN latest : latest[s].revision \in Nat
  BY LatestRevisions DEF WriterInv, TypeOK
<1>5. /\ DOMAIN latest' = DOMAIN latest /\ latest'[second] = Recovered(trade)
      /\ \A s \in DOMAIN latest \ {second} : latest'[s] = latest[s]
  BY <1>1
<1>6. Recovered(trade).revision = latest[second].revision + 1
      /\ Recovered(trade).trades = latest[second].trades \cup {trade}
  BY DEF Recovered
<1>7. SourcesAreExact'
  <2> SUFFICES ASSUME NEW s \in DOMAIN latest PROVE latest'[s].trades = TradesOf(consumed', s)
    BY <1>5 DEF SourcesAreExact, TradesOf
  <2>1. latest[s].trades = TradesOf(consumed, s)
    BY DEF OrderInv, SourcesAreExact
  <2>2. TradesOf(consumed', s) = IF second = s THEN TradesOf(consumed, s) \cup {trade}
                                 ELSE TradesOf(consumed, s)
    BY <1>1, TradesOfConsumed
  <2> QED BY <1>5, <1>6, <2>1, <2>2
<1> HIDE DEF events
<1>8. TradesAt(events) = {1} /\ CandlesIn(events) = {2} /\ events[1].value = trade
      /\ events[2].value = Recovered(trade)
  BY <1>3 DEF TradesAt, CandlesIn, TradeEvent, CandleEvent
<1>9. \A s : CandlesOf(events, s) = IF s = second THEN {2} ELSE {}
  BY <1>2, <1>8 DEF CandlesOf
<1> HIDE DEF second
<1>10. Announces(events)
  <2>1. consumed' = consumed \cup {events[k].value : k \in TradesAt(events)}
    BY <1>1, <1>8
  <2>2. \A s \in DOMAIN latest : s \in DOMAIN latest' /\ latest[s].revision <= latest'[s].revision
    BY <1>1, <1>4, <1>5, <1>6
  <2>3. \A s \in DOMAIN latest' :
            CandlesOf(events, s) = {} => s \in DOMAIN latest /\ latest'[s] = latest[s]
    BY <1>5, <1>9
  <2>4. \A s : \A k \in CandlesOf(events, s) :
            /\ s \in DOMAIN latest' /\ events[k].value = latest'[s]
            /\ \A l \in CandlesOf(events, s) : k = l
    BY <1>1, <1>5, <1>8, <1>9
  <2>5. \A k \in TradesAt(events) :
            \E l \in CandlesOf(events, events[k].value.second) : k < l
    BY <1>8, <1>9 DEF second
  <2> QED BY <2>1, <2>2, <2>3, <2>4, <2>5 DEF Announces
<1>11. InOrder' => InOrder
  BY InOrderBefore
<1> QED BY <1>1, <1>3, <1>7, <1>10, <1>11, PutKeepsOrder DEF OrderInv

(* The first candles of the seconds that are due. *)
LEMMA FinalizeDueKeepsOrder ==
    ASSUME WriterInv, WriterInv', OrderInv, [Next]_vars,
           NEW last_due \in Seconds, FinalizeDue(last_due)
    PROVE  OrderInv'
<1> DEFINE due == {s \in Seconds : s <= last_due /\ s \notin DOMAIN latest}
           n == Cardinality(due)
<1>1. PICK order \in [1..n -> due] :
          /\ \A i, j \in 1..n : i < j => order[i] < order[j]
          /\ Offer("finalizer", [i \in 1..n |-> CandleEvent(FirstCandle(order[i]))])
  BY DEF FinalizeDue
<1>2. /\ UNCHANGED consumed /\ UNCHANGED task /\ UNCHANGED tables /\ "finalizer" \in Putters
      /\ latest' = [s \in DOMAIN latest \cup due |->
                        IF s \in due THEN FirstCandle(s) ELSE latest[s]]
  BY DEF FinalizeDue, Putters
<1> DEFINE events == [i \in 1..n |-> CandleEvent(FirstCandle(order[i]))]
<1>3. due \subseteq Seconds /\ due \cap DOMAIN latest = {} /\ Seconds \subseteq Nat
      /\ IsFiniteSet(due) /\ n \in Nat
  <2>1. due \in SUBSET Seconds
    OBVIOUS
  <2>2. IsFiniteSet(due)
    BY <2>1, WriterAssumption, FS_Subset
  <2> QED BY <2>2, WriterAssumption, FS_CardinalityType
<1>4. \A s \in due : FirstCandle(s) \in Candle /\ FirstCandle(s).second = s
                    /\ FirstCandle(s).trades = TradesOf(consumed, s)
  BY <1>3, FirstCandleType DEF WriterInv, TypeOK, FirstCandle
<1> HIDE DEF due
<1>5. \A i \in 1..n : CandleEvent(FirstCandle(order[i])) \in Event
  BY <1>1, <1>4, CandleEventType
<1> HIDE DEF n
<1>6. /\ events \in Seq(Event) /\ DOMAIN events = 1..n
      /\ \A i \in 1..n : events[i] = CandleEvent(FirstCandle(order[i]))
  BY <1>3, <1>5
<1>7. \A s \in due : \E i \in 1..n : order[i] = s
  <2>1. order \in Injection(1..n, due)
    <3>1. ASSUME NEW i \in 1..n, NEW j \in 1..n, order[i] = order[j] PROVE i = j
      <4>0. order[i] \in Nat /\ order[j] \in Nat
        BY <1>1, <1>3
      <4>1. ~ (i < j) /\ ~ (j < i)
        BY <1>1, <3>1, <4>0
      <4> QED BY <1>3, <4>1
    <3> QED BY <1>1, <3>1, Fun_IsInj
  <2>2. Cardinality(1..n) = Cardinality(due)
    BY <1>3, FS_Interval DEF n
  <2>3. order \in Surjection(1..n, due)
    BY <1>3, <2>1, <2>2, FS_Injection
  <2> QED BY <2>3 DEF Surjection
<1>8. SourcesAreExact'
  BY <1>2, <1>3, <1>4 DEF OrderInv, SourcesAreExact
<1>9. \A s \in DOMAIN latest : latest[s].revision \in Nat
  BY LatestRevisions DEF WriterInv, TypeOK
<1> HIDE DEF events
<1>10. CandlesIn(events) = 1..n /\ TradesAt(events) = {}
       /\ \A i \in 1..n : events[i].value = FirstCandle(order[i])
  BY <1>6 DEF CandlesIn, TradesAt, CandleEvent
<1>11. \A s : CandlesOf(events, s) = {i \in 1..n : order[i] = s}
  BY <1>1, <1>4, <1>10 DEF CandlesOf
<1>12. Announces(events)
  <2>1. consumed' = consumed \cup {events[k].value : k \in TradesAt(events)}
    BY <1>2, <1>10
  <2>2. \A s \in DOMAIN latest : s \in DOMAIN latest' /\ latest[s].revision <= latest'[s].revision
    BY <1>2, <1>3, <1>9
  <2>3. \A s \in DOMAIN latest' :
            CandlesOf(events, s) = {} => s \in DOMAIN latest /\ latest'[s] = latest[s]
    BY <1>2, <1>7, <1>11
  <2>4. ASSUME NEW s, NEW k \in CandlesOf(events, s)
        PROVE  /\ s \in DOMAIN latest' /\ events[k].value = latest'[s]
               /\ \A l \in CandlesOf(events, s) : k = l
    <3>1. k \in 1..n /\ order[k] = s /\ s \in due
      BY <1>1, <1>11
    <3>2. ASSUME NEW l \in 1..n, order[l] = s PROVE k = l
      <4>1. ~ (k < l) /\ ~ (l < k)
        BY <1>1, <1>3, <3>1, <3>2
      <4> QED BY <1>3, <3>1, <4>1
    <3> QED BY <1>2, <1>10, <1>11, <3>1, <3>2
  <2> QED BY <1>10, <2>1, <2>2, <2>3, <2>4 DEF Announces
<1>13. InOrder' => InOrder
  BY InOrderBefore
<1>14. Offer("finalizer", events)
  BY <1>1 DEF events
<1> QED BY <1>2, <1>6, <1>8, <1>12, <1>13, <1>14, PutKeepsOrder DEF OrderInv

-----------------------------------------------------------------------------
(* The writer task, recovery and shutdown *)

(* A step that leaves the line, the sources and the tables as they are. *)
LEMMA SameLineKeepsOrder ==
    ASSUME OrderInv, InOrder, Line' = Line, UNCHANGED sources, UNCHANGED tables,
           NobodyWaits'
    PROVE  OrderInv'
<1>1. latest' = latest /\ consumed' = consumed /\ rows' = rows /\ rawTrades' = rawTrades
  BY DEF sources, tables
<1>2. SourcesAreExact'
  BY <1>1 DEF OrderInv, SourcesAreExact, TradesOf
<1>3. LineIsOrdered' /\ RowsAreOlder'
  BY <1>1 DEF OrderInv, LineIsOrdered, RowsAreOlder, CandlesOf, CandlesIn
<1>4. TradesArePrompt'
  BY <1>1 DEF OrderInv, TradesArePrompt, TradesInLine, CandlesOf, CandlesIn
<1>5. RowsAreExact' /\ CurrentIsNewest'
  BY <1>1 DEF OrderInv, RowsAreExact, CurrentIsNewest, CurrentRows, CandlesOf, CandlesIn
<1> QED BY <1>2, <1>3, <1>4, <1>5 DEF OrderInv

(* Taking a batch moves the head of the queue into the hand: the line stays. *)
LEMMA TakeBatchKeepsOrder ==
    ASSUME WriterInv, OrderInv, InOrder, TakeBatch
    PROVE  OrderInv'
<1>1. PICK n : n = IF Len(queue) < BatchSize THEN Len(queue) ELSE BatchSize
  OBVIOUS
<1>2. /\ batch' = SubSeq(queue, 1, n) /\ queue' = SubSeq(queue, n + 1, Len(queue))
      /\ writer = "idle" /\ writer' = "writing" /\ UNCHANGED pending
      /\ UNCHANGED sources /\ UNCHANGED tables
  BY <1>1, Zenon DEF TakeBatch
<1>3. queue \in Seq(Event) /\ n \in 0..Len(queue) /\ Len(queue) \in Nat
  BY <1>1, WriterAssumption DEF WriterInv, TypeOK, BufferTypes
<1>4. Line = queue
  BY <1>2, <1>3, ConcatEmptySeq DEF Line, WriterInv, AccountInv
<1>5. Line' = queue
  <2>1. SubSeq(queue, 1, n) \o SubSeq(queue, n + 1, Len(queue)) = SubSeq(queue, 1, Len(queue))
    <3>1. 1 \in 1..Len(queue) + 1 /\ n \in (1 - 1)..Len(queue) /\ Len(queue) \in n..Len(queue)
      BY <1>3
    <3> QED BY <1>3, <3>1, ConcatAdjacentSubSeq
  <2> QED BY <1>2, <1>3, <2>1, SubSeqFull DEF Line
<1>6. NobodyWaits'
  BY <1>2 DEF OrderInv, NobodyWaits
<1> QED BY <1>2, <1>4, <1>5, <1>6, SameLineKeepsOrder

(* The last of some events of a batch comes after the others. *)
LEMMA NewestIsLast ==
    ASSUME NEW events \in Seq(Event), NEW S \in SUBSET (DOMAIN events), S # {}
    PROVE  Newest(S) \in S /\ \A j \in S : j <= Newest(S)
<1>1. Len(events) \in Nat /\ S \in SUBSET (0..Len(events))
  OBVIOUS
<1>2. \E m \in S : \A x \in S : x <= m
  BY <1>1, GreatestExists
<1> QED BY <1>2 DEF Newest

(***************************************************************************)
(* A written batch makes the row of its last candle of a second current,   *)
(* with that candle, and leaves the seconds it has no candle of.           *)
(***************************************************************************)
LEMMA RowsAfterBatch ==
    ASSUME TaskTypes, TableTypes, WriteBatch, NEW key \in DOMAIN rows'
    PROVE  /\ CandlesOf(batch, key[1]) = {} => key \in DOMAIN rows /\ rows'[key] = rows[key]
           /\ CandlesOf(batch, key[1]) # {} =>
                  \E last \in CandlesOf(batch, key[1]) :
                      /\ \A j \in CandlesOf(batch, key[1]) : j <= last
                      /\ rows'[key].current => /\ key = RowKey(batch[last].value)
                                               /\ rows'[key].candle = batch[last].value
           /\ \/ key \in DOMAIN rows
              \/ \E j \in CandlesOf(batch, key[1]) : key[2] = batch[j].value.revision
<1> DEFINE ofSecond == CandlesOf(batch, key[1])
           ofRow    == {i \in ofSecond : RowKey(batch[i].value) = key}
<1>1. /\ DOMAIN rows' = DOMAIN rows \cup {RowKey(batch[i].value) : i \in CandlesIn(batch)}
      /\ rows'[key] = RowAfter(batch, key)
  BY DEF WriteBatch
<1>2. rows'[key] = IF ofSecond = {} THEN rows[key]
                   ELSE [candle  |-> IF ofRow = {} THEN rows[key].candle
                                     ELSE batch[Newest(ofRow)].value,
                         current |-> Newest(ofSecond) \in ofRow]
  BY <1>1 DEF RowAfter, CandlesOf
<1>3. key \in DOMAIN rows \/ \E j \in ofSecond : key = RowKey(batch[j].value)
  <2> SUFFICES ASSUME NEW j \in CandlesIn(batch), key = RowKey(batch[j].value)
               PROVE  j \in ofSecond
    BY <1>1
  <2> QED BY CandlesInBatch, CandleFields DEF CandlesOf
<1>4. ofSecond \in SUBSET DOMAIN batch /\ ofRow \in SUBSET ofSecond
  BY DEF CandlesOf, CandlesIn
<1>5. \A i \in ofRow : RowKey(batch[i].value) = key
  OBVIOUS
<1>6. batch \in Seq(Event)
  BY DEF TaskTypes
<1> HIDE DEF ofSecond, ofRow
<1>7. ASSUME ofSecond # {}
      PROVE  \E last \in ofSecond :
                 /\ \A j \in ofSecond : j <= last
                 /\ rows'[key].current => /\ key = RowKey(batch[last].value)
                                          /\ rows'[key].candle = batch[last].value
  <2>1. PICK last \in ofSecond : last = Newest(ofSecond) /\ \A j \in ofSecond : j <= last
    BY <1>4, <1>6, <1>7, NewestIsLast
  <2>2. ASSUME rows'[key].current
        PROVE  key = RowKey(batch[last].value) /\ rows'[key].candle = batch[last].value
    <3>1. last \in ofRow
      <4>1. rows'[key].current = (last \in ofRow)
        BY <1>2, <1>7, <2>1
      <4> QED BY <2>2, <4>1
    <3>2. Newest(ofRow) \in ofRow /\ \A j \in ofRow : j <= Newest(ofRow)
      BY <1>4, <1>6, <3>1, NewestIsLast
    <3>3. Newest(ofRow) = last
      <4>1. last <= Newest(ofRow) /\ Newest(ofRow) <= last
        BY <1>4, <2>1, <3>1, <3>2
      <4>2. last \in Nat /\ Newest(ofRow) \in Nat
        BY <1>4, <1>6, <2>1, <3>2
      <4> QED BY <4>1, <4>2
    <3>4. rows'[key].candle = batch[Newest(ofRow)].value
      BY <1>2, <1>7, <3>1
    <3> QED BY <1>5, <3>1, <3>3, <3>4
  <2> QED BY <2>1, <2>2
<1>8. key \in DOMAIN rows \/ \E j \in ofSecond : key[2] = batch[j].value.revision
  BY <1>3 DEF RowKey
<1> QED BY <1>2, <1>3, <1>7, <1>8 DEF ofSecond

(***************************************************************************)
(* A written batch leaves the line, and its rows are as new as it was.     *)
(***************************************************************************)
LEMMA CommitKeepsOrder ==
    ASSUME WriterInv, OrderInv, InOrder, Commit
    PROVE  OrderInv'
<1>1. /\ WriteBatch /\ batch' = <<>> /\ queue' = queue /\ writer' = "idle"
      /\ UNCHANGED pending /\ latest' = latest /\ consumed' = consumed
  BY DEF Commit, sources
<1>2. /\ batch \in Seq(Event) /\ queue \in Seq(Event) /\ TaskTypes /\ TableTypes /\ SourceTypes
      /\ LineIsOrdered /\ RowsAreOlder /\ TradesArePrompt /\ RowsAreExact /\ CurrentIsNewest
  BY DEF WriterInv, TypeOK, BufferTypes, TaskTypes, OrderInv
<1>3. Line' = queue
  BY <1>1, <1>2, ConcatEmptySeq DEF Line
<1>4. /\ Len(batch) \in Nat /\ Len(queue) \in Nat /\ Line \in Seq(Event)
      /\ Len(Line) = Len(batch) + Len(queue)
      /\ \A i \in 1..Len(batch) : Line[i] = batch[i]
      /\ \A i \in 1..Len(queue) : Line[Len(batch) + i] = queue[i]
      /\ DOMAIN batch = 1..Len(batch) /\ DOMAIN queue = 1..Len(queue)
  BY <1>2, CandlesOfPut DEF Line
<1>5. \A s : CandlesOf(Line, s) =
               CandlesOf(batch, s) \cup {Len(batch) + k : k \in CandlesOf(queue, s)}
  BY <1>2, CandlesOfPut DEF Line
<1>6. \A s : \A i \in CandlesOf(queue, s) :
          /\ i \in 1..Len(queue) /\ Len(batch) + i \in CandlesOf(Line, s)
          /\ Line[Len(batch) + i] = queue[i]
  BY <1>2, <1>4, <1>5, CandleOfLine
<1>7. \A s : \A j \in CandlesOf(batch, s) :
          /\ j \in 1..Len(batch) /\ j \in CandlesOf(Line, s) /\ Line[j] = batch[j]
          /\ batch[j].value.revision \in Nat
  BY <1>2, <1>4, <1>5, CandleOfLine
<1>8. \A key \in DOMAIN rows' : key[1] \in Seconds
  BY <1>1, <1>2, WriteBatchTypes DEF TableTypes
<1>9. SourcesAreExact'
  BY <1>1 DEF OrderInv, SourcesAreExact, TradesOf
<1>10. NobodyWaits'
  BY <1>1 DEF OrderInv, NobodyWaits
<1>11. LineIsOrdered'
  <2> SUFFICES ASSUME NEW s \in Seconds, NEW i \in CandlesOf(queue, s)
               PROVE  /\ \A j \in CandlesOf(queue, s) :
                             i < j => queue[i].value.revision <= queue[j].value.revision
                      /\ s \in DOMAIN latest
                      /\ queue[i].value.revision <= latest[s].revision
                      /\ (\A j \in CandlesOf(queue, s) : j <= i) => queue[i].value = latest[s]
    BY <1>1, <1>3 DEF LineIsOrdered, CandlesOf, CandlesIn
  <2>1. /\ s \in DOMAIN latest /\ queue[i].value.revision <= latest[s].revision
        /\ (\A j \in CandlesOf(Line, s) : j <= Len(batch) + i) => queue[i].value = latest[s]
    BY <1>2, <1>6 DEF LineIsOrdered
  <2>2. ASSUME NEW j \in CandlesOf(queue, s), i < j
        PROVE  queue[i].value.revision <= queue[j].value.revision
    <3>1. Len(batch) + i < Len(batch) + j
      BY <1>4, <1>6, <2>2
    <3> QED BY <1>2, <1>6, <3>1 DEF LineIsOrdered
  <2>3. ASSUME \A j \in CandlesOf(queue, s) : j <= i PROVE queue[i].value = latest[s]
    <3>1. ASSUME NEW j \in CandlesOf(Line, s) PROVE j <= Len(batch) + i
      <4>1. CASE j \in CandlesOf(batch, s)
        <5>1. j \in 1..Len(batch) /\ i \in 1..Len(queue)
          BY <1>6, <1>7, <4>1
        <5> QED BY <1>4, <5>1
      <4>2. CASE \E k \in CandlesOf(queue, s) : j = Len(batch) + k
        <5>1. PICK k \in CandlesOf(queue, s) : j = Len(batch) + k
          BY <4>2
        <5>2. k \in 1..Len(queue) /\ i \in 1..Len(queue) /\ k <= i
          BY <1>6, <2>3
        <5> QED BY <1>4, <5>1, <5>2
      <4>3. j \in CandlesOf(batch, s) \cup {Len(batch) + k : k \in CandlesOf(queue, s)}
        BY <1>5
      <4> QED BY <4>1, <4>2, <4>3
    <3> QED BY <2>1, <3>1
  <2> QED BY <2>1, <2>2, <2>3
<1>12. RowsAreOlder'
  <2> SUFFICES ASSUME NEW key \in DOMAIN rows'
               PROVE  /\ \A i \in CandlesOf(queue, key[1]) : key[2] <= queue[i].value.revision
                      /\ key[2] <= IF key[1] \in DOMAIN latest
                                   THEN latest[key[1]].revision ELSE 1
    BY <1>1, <1>3 DEF RowsAreOlder, CandlesOf, CandlesIn
  <2>1. CASE key \in DOMAIN rows
    BY <1>2, <1>6, <2>1 DEF RowsAreOlder
  <2>2. CASE \E j \in CandlesOf(batch, key[1]) : key[2] = batch[j].value.revision
    <3>1. PICK j \in CandlesOf(batch, key[1]) : key[2] = batch[j].value.revision
      BY <2>2
    <3>2. key[1] \in DOMAIN latest /\ key[2] <= latest[key[1]].revision
      BY <1>2, <1>7, <1>8, <3>1 DEF LineIsOrdered
    <3>3. ASSUME NEW i \in CandlesOf(queue, key[1]) PROVE key[2] <= queue[i].value.revision
      <4>1. j < Len(batch) + i
        BY <1>4, <1>6, <1>7
      <4> QED BY <1>2, <1>6, <1>7, <1>8, <3>1, <4>1 DEF LineIsOrdered
    <3> QED BY <3>2, <3>3
  <2> QED BY <1>1, <1>2, <2>1, <2>2, RowsAfterBatch
<1>13. CurrentIsNewest'
  <2> SUFFICES ASSUME NEW key \in DOMAIN rows', rows'[key].current,
                      NEW other \in DOMAIN rows', other[1] = key[1]
               PROVE  other[2] <= key[2]
    BY DEF CurrentIsNewest
  <2>1. CASE CandlesOf(batch, key[1]) = {}
    <3>1. key \in DOMAIN rows /\ rows[key].current /\ other \in DOMAIN rows
      BY <1>1, <1>2, <2>1, RowsAfterBatch
    <3> QED BY <1>2, <3>1 DEF CurrentIsNewest
  <2>2. CASE CandlesOf(batch, key[1]) # {}
    <3>1. PICK last \in CandlesOf(batch, key[1]) :
              (\A j \in CandlesOf(batch, key[1]) : j <= last) /\ key = RowKey(batch[last].value)
      BY <1>1, <1>2, <2>2, RowsAfterBatch
    <3>2. key[2] = Line[last].value.revision /\ last \in CandlesOf(Line, key[1])
      BY <1>7, <3>1 DEF RowKey
    <3>3. CASE other \in DOMAIN rows
      BY <1>2, <3>2, <3>3 DEF RowsAreOlder
    <3>4. CASE \E j \in CandlesOf(batch, key[1]) : other[2] = batch[j].value.revision
      <4>1. PICK j \in CandlesOf(batch, key[1]) : other[2] = batch[j].value.revision
        BY <3>4
      <4>2. j \in CandlesOf(Line, key[1]) /\ Line[j] = batch[j] /\ batch[j].value.revision \in Nat
            /\ j \in Nat /\ last \in Nat /\ j <= last
        BY <1>7, <3>1
      <4>3. CASE j = last
        BY <3>2, <4>1, <4>2, <4>3
      <4>4. CASE j < last
        BY <1>2, <1>8, <3>2, <4>1, <4>2, <4>4 DEF LineIsOrdered
      <4> QED BY <4>2, <4>3, <4>4
    <3> QED BY <1>1, <1>2, <3>3, <3>4, RowsAfterBatch
  <2> QED BY <2>1, <2>2
<1>14. RowsAreExact'
  <2> SUFFICES ASSUME NEW s \in DOMAIN latest, CandlesOf(queue, s) = {},
                      NEW key \in DOMAIN rows', key[1] = s, rows'[key].current
               PROVE  rows'[key].candle.trades = latest[s].trades
    BY <1>1, <1>3 DEF RowsAreExact, CurrentRows, CandlesOf, CandlesIn
  <2>1. CandlesOf(Line, s) = CandlesOf(batch, s)
    BY <1>5
  <2>2. CASE CandlesOf(batch, s) = {}
    <3>1. key \in CurrentRows(s) /\ rows'[key] = rows[key]
      BY <1>1, <1>2, <2>2, RowsAfterBatch DEF CurrentRows
    <3> QED BY <1>2, <2>1, <2>2, <3>1 DEF RowsAreExact
  <2>3. CASE CandlesOf(batch, s) # {}
    <3>1. PICK last \in CandlesOf(batch, s) :
              /\ \A j \in CandlesOf(batch, s) : j <= last
              /\ rows'[key].candle = batch[last].value
      BY <1>1, <1>2, <2>3, RowsAfterBatch
    <3>2. s \in Seconds
      BY <1>2 DEF SourceTypes
    <3>3. Line[last].value = latest[s]
      BY <1>2, <1>7, <2>1, <3>1, <3>2 DEF LineIsOrdered
    <3> QED BY <1>7, <3>1, <3>3
  <2> QED BY <2>2, <2>3
<1>15. TradesArePrompt'
  <2>1. rawTrades' = rawTrades \cup {batch[i].value : i \in TradesAt(batch)}
    BY <1>1 DEF WriteBatch, TradesAt
  <2>2. \A i \in TradesAt(batch) : i \in TradesInLine /\ Line[i] = batch[i]
    BY <1>4 DEF TradesAt, TradesInLine
  <2>3. TradesInLine' = TradesAt(queue)
    BY <1>3 DEF TradesInLine, TradesAt
  <2>4. \A i \in TradesAt(queue) : /\ i \in 1..Len(queue) /\ Len(batch) + i \in TradesInLine
                                   /\ Line[Len(batch) + i] = queue[i]
    BY <1>4 DEF TradesAt, TradesInLine
  <2>5. rawTrades' \subseteq consumed
    BY <1>2, <2>1, <2>2 DEF TradesArePrompt
  <2>6. \A i \in TradesAt(queue) : queue[i].value \in consumed
    BY <1>2, <2>4 DEF TradesArePrompt
  <2>7. ASSUME NEW trade \in consumed \ rawTrades'
        PROVE  \E i \in TradesAt(queue) : queue[i].value = trade
    <3>1. trade \in consumed \ rawTrades
      BY <2>1
    <3>2. PICK i \in TradesInLine : Line[i].value = trade
      BY <1>2, <3>1 DEF TradesArePrompt
    <3>3. i \in 1..(Len(batch) + Len(queue)) /\ Line[i].kind = "trade"
      BY <1>4 DEF TradesInLine
    <3>4. CASE i <= Len(batch)
      <4>1. i \in TradesAt(batch) /\ batch[i].value = trade
        BY <1>4, <3>2, <3>3, <3>4 DEF TradesAt
      <4> QED BY <2>1, <4>1
    <3>5. CASE i > Len(batch)
      <4>0. i - Len(batch) \in 1..Len(queue) /\ i = Len(batch) + (i - Len(batch))
        BY <1>4, <3>3, <3>5
      <4>1. PICK k \in 1..Len(queue) : i = Len(batch) + k
        BY <4>0
      <4>2. k \in TradesAt(queue) /\ queue[k].value = trade
        BY <1>4, <3>2, <3>3, <4>1 DEF TradesAt
      <4> QED BY <4>2
    <3> QED BY <1>4, <3>3, <3>4, <3>5
  <2>8. ASSUME NEW i \in TradesAt(queue), queue[i].value.second \in DOMAIN latest
        PROVE  \E j \in CandlesOf(queue, queue[i].value.second) : i < j
    <3> DEFINE s == queue[i].value.second
    <3>1. PICK j \in CandlesOf(Line, s) : Len(batch) + i < j
      BY <1>2, <2>4, <2>8 DEF TradesArePrompt
    <3>2. j \notin CandlesOf(batch, s)
      BY <1>4, <1>7, <2>4, <3>1
    <3>3. j \in CandlesOf(batch, s) \cup {Len(batch) + k : k \in CandlesOf(queue, s)}
      BY <1>5
    <3>4. PICK k \in CandlesOf(queue, s) : j = Len(batch) + k
      BY <3>2, <3>3
    <3>5. k \in 1..Len(queue) /\ i \in 1..Len(queue) /\ Len(batch) + i < Len(batch) + k
      BY <1>6, <2>4, <3>1, <3>4
    <3>6. i < k
      BY <1>4, <3>5
    <3> QED BY <3>4, <3>6
  <2> QED
    BY <1>1, <1>3, <2>3, <2>5, <2>6, <2>7, <2>8 DEF TradesArePrompt, CandlesOf, CandlesIn
<1> QED BY <1>9, <1>10, <1>11, <1>12, <1>13, <1>14, <1>15 DEF OrderInv

(***************************************************************************)
(* The revision that a repair gives a second is the greatest that its rows *)
(* have.                                                                   *)
(***************************************************************************)
LEMMA RepairedIsGreatest ==
    ASSUME TableTypes, NEW s
    PROVE  /\ \A key \in DOMAIN rows : key[1] = s => key[2] <= RepairedRevision(s)
           /\ <<s, RepairedRevision(s)>> \in DOMAIN rows \/ RepairedRevision(s) = 1
<1>1. CASE Revisions(s) = {}
  BY <1>1 DEF RepairedRevision, Revisions
<1>2. CASE Revisions(s) # {}
  <2>1. Cardinality(Trades) + 1 \in Nat
    BY CardinalityOfTrades
  <2>2. Revisions(s) \in SUBSET (0..Cardinality(Trades) + 1)
    BY <2>1 DEF Revisions, TableTypes, Revision
  <2> DEFINE bound == Cardinality(Trades) + 1
  <2> HIDE DEF bound
  <2>3. \E r \in Revisions(s) : \A q \in Revisions(s) : q <= r
    BY <1>2, <2>1, <2>2, GreatestExists DEF bound
  <2>4. RepairedRevision(s) \in Revisions(s)
        /\ \A q \in Revisions(s) : q <= RepairedRevision(s)
    BY <1>2, <2>3 DEF RepairedRevision
  <2>5. \A key \in DOMAIN rows : key = <<key[1], key[2]>>
    BY DEF TableTypes
  <2> QED BY <2>4, <2>5 DEF Revisions
<1> QED BY <1>1, <1>2

(***************************************************************************)
(* A repair overwrites the newest row of each second that it rebuilds, with *)
(* all the trades written of it.                                           *)
(***************************************************************************)
LEMMA RepairKeepsOrder ==
    ASSUME WriterInv, OrderInv, InOrder, NEW last_due \in Seconds, Repair(last_due)
    PROVE  OrderInv'
<1> DEFINE rolled   == {s \in Seconds : s <= last_due /\ TradesOf(rawTrades, s) # {}}
           repaired == {<<s, RepairedRevision(s)>> : s \in rolled}
           row(key) == [candle |-> [second |-> key[1], revision |-> key[2],
                                    status |-> "complete",
                                    trades |-> TradesOf(rawTrades, key[1])],
                        current |-> TRUE]
<1>1. /\ rows' = [key \in DOMAIN rows \cup repaired |->
                IF key \in repaired THEN row(key)
                ELSE IF key[1] \in rolled THEN [rows[key] EXCEPT !.current = FALSE]
                ELSE rows[key]]
      /\ UNCHANGED <<sources, buffer, task, rawTrades>>
  BY DEF Repair
<1>2. \A key \in repaired : /\ key[1] \in rolled /\ key[1] \in Seconds
                            /\ key = <<key[1], RepairedRevision(key[1])>>
  OBVIOUS
<1>3. \A key \in repaired : row(key).candle.trades = TradesOf(rawTrades, key[1])
  OBVIOUS
<1>4. TableTypes /\ SourceTypes /\ Line \in Seq(Event)
  BY ConcatProperties DEF WriterInv, TypeOK, BufferTypes, TaskTypes, Line
<1>5. \A key \in DOMAIN rows : ~ [rows[key] EXCEPT !.current = FALSE].current
  BY <1>4 DEF TableTypes, Row
<1>6. Line' = Line /\ latest' = latest /\ consumed' = consumed /\ rawTrades' = rawTrades
      /\ pending' = pending /\ writer' = writer
  BY <1>1 DEF sources, buffer, task, Line
<1> HIDE DEF rolled, repaired, row
<1>7. /\ DOMAIN rows' = DOMAIN rows \cup repaired
      /\ \A key \in repaired : rows'[key].candle.trades = TradesOf(rawTrades, key[1])
      /\ \A key \in DOMAIN rows \ repaired : key[1] \in rolled => ~ rows'[key].current
      /\ \A key \in DOMAIN rows \ repaired : key[1] \notin rolled => rows'[key] = rows[key]
  BY <1>1, <1>3, <1>5
<1>8. SourcesAreExact' /\ NobodyWaits' /\ LineIsOrdered' /\ TradesArePrompt'
  BY <1>6 DEF OrderInv, SourcesAreExact, TradesOf, NobodyWaits, LineIsOrdered,
              TradesArePrompt, TradesInLine, CandlesOf, CandlesIn
<1>9. LineIsOrdered /\ RowsAreOlder /\ TradesArePrompt /\ RowsAreExact /\ CurrentIsNewest
      /\ SourcesAreExact
  BY DEF OrderInv
<1>10. RowsAreOlder'
  <2> SUFFICES ASSUME NEW key \in DOMAIN rows'
               PROVE  /\ \A i \in CandlesOf(Line, key[1]) : key[2] <= Line[i].value.revision
                      /\ key[2] <= IF key[1] \in DOMAIN latest
                                   THEN latest[key[1]].revision ELSE 1
    BY <1>6 DEF RowsAreOlder, CandlesOf, CandlesIn
  <2>1. CASE key \in DOMAIN rows
    BY <1>9, <2>1 DEF RowsAreOlder
  <2>2. CASE key[2] = 1
    <3>1. \A i \in CandlesOf(Line, key[1]) : 1 <= Line[i].value.revision
      BY <1>4, CandleOfLine
    <3>2. \A s \in DOMAIN latest : 1 <= latest[s].revision
      BY <1>4, LatestRevisions
    <3> QED BY <2>2, <3>1, <3>2
  <2>3. key \in DOMAIN rows \/ key[2] = 1
    <3> SUFFICES ASSUME key \in repaired PROVE key \in DOMAIN rows \/ key[2] = 1
      BY <1>7
    <3> QED BY <1>2, <1>4, RepairedIsGreatest
  <2> QED BY <2>1, <2>2, <2>3
<1>11. CurrentIsNewest'
  <2> SUFFICES ASSUME NEW key \in DOMAIN rows', rows'[key].current,
                      NEW other \in DOMAIN rows', other[1] = key[1]
               PROVE  other[2] <= key[2]
    BY DEF CurrentIsNewest
  <2>1. CASE key[1] \in rolled
    <3>1. key \in repaired
      BY <1>7, <2>1
    <3>2. key[2] = RepairedRevision(key[1])
      BY <1>2, <3>1
    <3>3. CASE other \in DOMAIN rows
      BY <1>4, <3>2, <3>3, RepairedIsGreatest
    <3>4. CASE other \in repaired
      <4>1. other[2] = key[2]
        BY <1>2, <3>2, <3>4
      <4>2. key[2] \in Nat
        <5>1. key[2] \in Revision
          BY <1>2, <1>4, <3>1, <3>2, RepairedRevisionType
        <5> QED BY <5>1, CardinalityOfTrades DEF Revision
      <4> QED BY <4>1, <4>2
    <3> QED BY <1>7, <3>3, <3>4
  <2>2. CASE key[1] \notin rolled
    <3>1. key \in DOMAIN rows /\ rows'[key] = rows[key] /\ other \in DOMAIN rows
      BY <1>2, <1>7, <2>2
    <3> QED BY <1>9, <3>1 DEF CurrentIsNewest
  <2> QED BY <2>1, <2>2
<1>12. RowsAreExact'
  <2> SUFFICES ASSUME NEW s \in DOMAIN latest, CandlesOf(Line, s) = {},
                      NEW key \in DOMAIN rows', key[1] = s, rows'[key].current
               PROVE  rows'[key].candle.trades = latest[s].trades
    BY <1>6 DEF RowsAreExact, CurrentRows, CandlesOf, CandlesIn
  <2>1. CASE s \in rolled
    <3>1. rows'[key].candle.trades = TradesOf(rawTrades, s)
      BY <1>7, <2>1
    <3>2. TradesOf(rawTrades, s) = TradesOf(consumed, s)
      <4>1. ASSUME NEW trade \in consumed, trade.second = s PROVE trade \in rawTrades
        <5>1. CASE trade \notin rawTrades
          <6>1. PICK i \in TradesInLine : Line[i].value = trade
            BY <1>9, <5>1 DEF TradesArePrompt
          <6>2. \E j \in CandlesOf(Line, s) : i < j
            BY <1>9, <4>1, <6>1 DEF TradesArePrompt
          <6> QED BY <6>2
        <5> QED BY <5>1
      <4> QED BY <1>9, <4>1 DEF TradesArePrompt, TradesOf
    <3> QED BY <1>9, <3>1, <3>2 DEF SourcesAreExact
  <2>2. CASE s \notin rolled
    <3>1. key \in CurrentRows(s) /\ rows'[key] = rows[key]
      BY <1>2, <1>7, <2>2 DEF CurrentRows
    <3> QED BY <1>9, <3>1 DEF RowsAreExact
  <2> QED BY <2>1, <2>2
<1> QED BY <1>8, <1>10, <1>11, <1>12 DEF OrderInv

(***************************************************************************)
(* A failure or a wait ends the order; a trade or a candle that comes      *)
(* afterwards is still made of the trades consumed.                        *)
(***************************************************************************)
LEMMA SourcesStayExact ==
    ASSUME WriterInv, OrderInv, UNCHANGED sources, ~ InOrder'
    PROVE  OrderInv'
BY DEF OrderInv, SourcesAreExact, TradesOf, sources

(* The steps of the writer task: with nothing failed, nothing is requeued. *)
LEMMA WriterStepKeepsOrder ==
    ASSUME WriterInv, OrderInv, InOrder, WriterStep
    PROVE  OrderInv'
<1>0. NobodyWaits
  BY DEF OrderInv
<1>1. CASE Fail
  <2>1. ~ InOrder'
    BY <1>1 DEF Fail, InOrder, WriterInv, TypeOK, TaskTypes
  <2> QED BY <1>1, <2>1, SourcesStayExact DEF Fail
<1>2. ~ Requeue /\ ~ EndRequeue
  BY <1>0 DEF NobodyWaits, Requeue, EndRequeue
<1> QED BY <1>1, <1>2, TakeBatchKeepsOrder, CommitKeepsOrder DEF WriterStep

(* Stopping drops no event while nobody waits. *)
LEMMA ShutdownKeepsOrder ==
    ASSUME WriterInv, OrderInv, InOrder, StopService \/ StopWriter \/ UNCHANGED vars
    PROVE  OrderInv'
<1>1. NobodyWaits /\ pending \in [Putters -> Seq(Event)]
  BY DEF OrderInv, WriterInv, TypeOK, BufferTypes
<1>2. Line' = Line /\ UNCHANGED sources /\ UNCHANGED tables /\ writer' = writer
  BY DEF StopService, StopWriter, vars, Line, task, buffer
<1>3. \A p \in Putters : pending'[p] = <<>>
  <2>1. CASE StopService
    BY <1>1, <2>1 DEF StopService, NobodyWaits
  <2>2. CASE pending' = pending
    BY <1>1, <2>2 DEF NobodyWaits
  <2> QED BY <2>1, <2>2 DEF StopWriter, vars, buffer
<1> QED BY <1>1, <1>2, <1>3, SameLineKeepsOrder DEF NobodyWaits

(* No step breaks the order. *)
LEMMA StepKeepsOrder ==
    ASSUME WriterInv, WriterInv', OrderInv, [Next]_vars
    PROVE  OrderInv'
<1>1. ASSUME NEW trade \in Trades, ConsumeTrade(trade) PROVE OrderInv'
  BY <1>1, ConsumeTradeKeepsOrder
<1>2. ASSUME NEW trade \in Trades, ConsumeLateTrade(trade) PROVE OrderInv'
  BY <1>2, ConsumeLateTradeKeepsOrder
<1>3. ASSUME NEW s \in Seconds, FinalizeDue(s) PROVE OrderInv'
  BY <1>3, FinalizeDueKeepsOrder
<1>4. CASE ~ InOrder'
  <2>1. CASE UNCHANGED sources
    BY <1>4, <2>1, SourcesStayExact
  <2>2. CASE ~ UNCHANGED sources
    <3>1. \/ \E trade \in Trades : ConsumeTrade(trade) \/ ConsumeLateTrade(trade)
          \/ \E s \in Seconds : FinalizeDue(s)
      BY <2>2 DEF Next, WriterStep, Repair, Resume, TakeBatch, Commit, Fail, Requeue,
                  EndRequeue, StopService, StopWriter, vars
    <3> QED BY <1>1, <1>2, <1>3, <3>1
  <2> QED BY <2>1, <2>2
<1>5. CASE InOrder'
  <2>1. InOrder
    BY <1>5, InOrderBefore
  <2>2. ASSUME NEW s \in Seconds, Repair(s) PROVE OrderInv'
    BY <2>1, <2>2, RepairKeepsOrder
  <2>3. ASSUME NEW p \in Putters, Resume(p) PROVE FALSE
    BY <2>1, <2>3 DEF OrderInv, NobodyWaits, Resume
  <2>4. CASE WriterStep
    BY <2>1, <2>4, WriterStepKeepsOrder
  <2>5. CASE StopService \/ StopWriter \/ UNCHANGED vars
    BY <2>1, <2>5, ShutdownKeepsOrder
  <2> QED BY <1>1, <1>2, <1>3, <2>2, <2>3, <2>4, <2>5 DEF Next
<1> QED BY <1>4, <1>5

-----------------------------------------------------------------------------
(* The theorems *)

(* In every behaviour of the consumer, the finalizer, the writer and recovery. *)
LEMMA OrderInvariant == Spec => []OrderInv
<1>1. Init => OrderInv
  <2> SUFFICES ASSUME Init PROVE OrderInv
    OBVIOUS
  <2>1. /\ latest = <<>> /\ rows = <<>> /\ consumed = {} /\ rawTrades = {}
        /\ batch = <<>> /\ queue = <<>> /\ pending = [p \in Putters |-> <<>>]
        /\ writer = "idle"
    BY DEF Init
  <2>2. Line = <<>> /\ DOMAIN Line = {} /\ DOMAIN latest = {} /\ DOMAIN rows = {}
    BY <2>1 DEF Line
  <2>3. \A s : CandlesOf(Line, s) = {}
    BY <2>2 DEF CandlesOf, CandlesIn
  <2>4. TradesInLine = {}
    BY <2>2 DEF TradesInLine
  <2> QED BY <2>1, <2>2, <2>3, <2>4
          DEF OrderInv, SourcesAreExact, NobodyWaits, LineIsOrdered, RowsAreOlder,
              TradesArePrompt, RowsAreExact, CurrentIsNewest
<1>2. WriterInv /\ WriterInv' /\ OrderInv /\ [Next]_vars => OrderInv'
  BY StepKeepsOrder
<1> QED BY <1>1, <1>2, WriterInvariant, PTL DEF Spec

(***************************************************************************)
(* Until a batch fails or a put has to wait, the current row of a second   *)
(* is its newest revision: batches and repairs, in whatever order their    *)
(* transactions commit, never put an older candle in front of a newer one. *)
(***************************************************************************)
THEOREM CurrentStaysNewestInOrder == Spec => []NewestWhileInOrder
<1>1. OrderInv => NewestWhileInOrder
  BY DEF OrderInv, NewestWhileInOrder
<1> QED BY <1>1, OrderInvariant, PTL

(***************************************************************************)
(* When everything that was put is written and nothing failed or waited on *)
(* the way, the current row of every closed second summarises exactly its  *)
(* raw trades, and these are all the trades consumed of it.                *)
(***************************************************************************)
THEOREM CurrentIsAlwaysExact == Spec => []CurrentIsExact
<1>1. WriterInv /\ OrderInv => CurrentIsExact
  <2> SUFFICES ASSUME WriterInv, OrderInv, InOrder, unfinished = 0,
                      NEW s \in DOMAIN latest, NEW key \in CurrentRows(s)
               PROVE  /\ rows[key].candle.trades = TradesOf(rawTrades, s)
                      /\ TradesOf(consumed, s) = TradesOf(rawTrades, s)
    BY DEF CurrentIsExact
  <2>1. queue \in Seq(Event) /\ batch \in Seq(Event) /\ unfinished = Len(queue) + Len(batch)
    BY DEF WriterInv, TypeOK, BufferTypes, TaskTypes, AccountInv
  <2>2. Len(queue) = 0 /\ Len(batch) = 0
    BY <2>1
  <2>3. queue = <<>> /\ batch = <<>>
    BY <2>1, <2>2
  <2>4. Line = <<>> /\ DOMAIN Line = {}
    BY <2>3 DEF Line
  <2>5. CandlesOf(Line, s) = {} /\ TradesInLine = {}
    BY <2>4 DEF CandlesOf, CandlesIn, TradesInLine
  <2>6. rawTrades = consumed
    BY <2>5 DEF OrderInv, TradesArePrompt
  <2> QED BY <2>5, <2>6 DEF OrderInv, RowsAreExact, SourcesAreExact
<1> QED BY <1>1, WriterInvariant, OrderInvariant, PTL
=============================================================================
