----------------------- MODULE CandleAggregatorProofs -----------------------
(***************************************************************************)
(* Proofs about the candle aggregator, for every set of streams and trades *)
(* and every size of the caches, lateness and gap list: first the frontier *)
(* between open and closed seconds, then the candles that are handed out   *)
(* (their revisions, the cache they are revised from, the price carried    *)
(* into empty seconds, which trades are late), then, while no cache        *)
(* overflows, that every candle is the OHLCV of exactly its trades, and at *)
(* last which seconds may be left without a candle.                        *)
(***************************************************************************)
EXTENDS CandleAggregator, FiniteSetTheorems, WellFoundedInduction, TLAPS

-----------------------------------------------------------------------------
(* Collections *)

(* Keeping the newest n of a list gives a list. *)
LEMMA NewestType ==
    ASSUME NEW S, NEW seq \in Seq(S), NEW n \in Nat
    PROVE  Newest(seq, n) \in Seq(S)
    BY DEF Newest

(* Moving a key to the end of an order (OrderedDict.move_to_end) gives an order. *)
LEMMA MoveToEndType ==
    ASSUME NEW S, NEW seq \in Seq(S), NEW e \in S
    PROVE  MoveToEnd(seq, e) \in Seq(S)
<1>1. CASE \E i \in DOMAIN seq : seq[i] = e
  <2>1. Position(seq, e) \in DOMAIN seq
    BY <1>1 DEF Position
  <2>2. RemoveAt(seq, Position(seq, e)) \in Seq(S)
    BY <2>1 DEF RemoveAt
  <2> QED BY <1>1, <2>2 DEF MoveToEnd
<1>2. CASE ~ \E i \in DOMAIN seq : seq[i] = e
  BY <1>2 DEF MoveToEnd
<1> QED BY <1>1, <1>2

-----------------------------------------------------------------------------
(* Candles *)

(* The second a time lies in (candle_open_time) is a number. *)
LEMMA OpenTimeType == \A t \in Int : candle_open_time(t) \in Int
    BY SecondMsAssumption DEF candle_open_time

(* The key of a trade (add_trade) is a stream and a second. *)
LEMMA KeyOfType == \A trade \in Trades : KeyOf(trade) \in Key
    BY TradesAssumption, OpenTimeType DEF KeyOf, Key, Trade

(* A candle state started by a trade (from_trade) is a state. *)
LEMMA FromTradeType ==
    \A trade \in Trades : FromTrade(trade) \in State
    BY TradesAssumption DEF FromTrade, State, Trade, TradeOrder, trade_order

(* A flat candle state at a carried price (empty) is a state. *)
LEMMA EmptyStateType ==
    \A t \in Int, p \in Nat : EmptyState(t, p) \in State
    BY DEF EmptyState, State, TradeOrder

(* Adding a trade to a candle state (apply) gives a state. *)
LEMMA ApplyType ==
    ASSUME NEW state \in State, NEW trade \in Trades
    PROVE  Apply(state, trade) \in State
<1>1. FromTrade(trade) \in State
  BY FromTradeType
<1>2. CASE state.count = 0
  BY <1>1, <1>2 DEF Apply, State, FromTrade
<1>3. CASE state.count # 0
  BY <1>3, TradesAssumption DEF Apply, State, Trade, TradeOrder, trade_order
<1> QED BY <1>2, <1>3

(* Finalizing a candle state (finalize) gives a candle. *)
LEMMA FinalizeType ==
    ASSUME NEW state \in State, NEW status \in Status
    PROVE  Finalize(state, status) \in Candle
    BY DEF Finalize, State, Candle, Price

(* The candle without prices (_incomplete_candle) is a candle. *)
LEMMA IncompleteCandleType == IncompleteCandle \in Candle
    BY DEF IncompleteCandle, Candle, Price, Status

-----------------------------------------------------------------------------
(* Type correctness *)

(* Returning a candle keeps what was returned a list of candles per second. *)
LEMMA PublishType ==
    ASSUME TypeOK, NEW key \in Key, NEW candle \in Candle, Publish(key, candle)
    PROVE  /\ DOMAIN candles' \subseteq Key
           /\ \A k \in DOMAIN candles' : candles'[k] \in Seq(Candle)
<1>1. Published(key) \in Seq(Candle)
  BY DEF TypeOK, Published
<1>2. Append(Published(key), candle) \in Seq(Candle)
  BY <1>1
<1> QED BY <1>2 DEF TypeOK, Publish, With

(* _remember_finalized adds one second to the cache, and may evict others. *)
LEMMA RememberType ==
    ASSUME TypeOK, NEW key \in Key, NEW state \in State,
           RememberFinalized(key, state)
    PROVE  /\ finalizedOrder' \in Seq(Key)
           /\ DOMAIN finalized' \subseteq DOMAIN finalized \cup {key}
           /\ DOMAIN finalized' \subseteq Key
           /\ \A k \in DOMAIN finalized' :
                  /\ finalized'[k] \in State
                  /\ finalized'[k] = IF k = key THEN state ELSE finalized[k]
<1>1. finalizedOrder' \in Seq(Key)
  BY MoveToEndType, NewestType, ParameterAssumption DEF TypeOK, RememberFinalized
<1>2. /\ DOMAIN finalized' = (DOMAIN finalized \cup {key}) \cap ToSet(finalizedOrder')
      /\ \A k \in DOMAIN finalized' : finalized'[k] = With(finalized, key, state)[k]
  BY DEF RememberFinalized, Restrict
<1>3. \A k \in DOMAIN finalized' :
          finalized'[k] = IF k = key THEN state ELSE finalized[k]
  BY <1>2 DEF With
<1> QED BY <1>1, <1>2, <1>3 DEF TypeOK

(* A trade that is not a duplicate enters the dedup cache (add_trade). *)
LEMMA DeliverFreshType ==
    ASSUME TypeOK, NEW trade \in Trades, DeliverFresh(trade)
    PROVE  /\ seenTrades' \in Seq(Streams \X Nat)
           /\ deliveries' \in [Trades -> Nat]
           /\ now' = now
           /\ pass = None /\ pass' = None
           /\ KeyOf(trade) \in Key
<1>1. DedupKey(trade) \in Streams \X Nat
  BY TradesAssumption DEF DedupKey, Trade
<1>2. Append(seenTrades, DedupKey(trade)) \in Seq(Streams \X Nat)
  BY <1>1 DEF TypeOK
<1>3. seenTrades' \in Seq(Streams \X Nat)
  BY <1>2, NewestType, ParameterAssumption DEF DeliverFresh
<1> QED BY <1>3, KeyOfType DEF DeliverFresh, Deliver, TypeOK

(* Revising a cached second (add_trade) keeps the types. *)
LEMMA ReviseType ==
    ASSUME TypeOK, NEW trade \in Trades, ReviseCachedSecond(trade)
    PROVE  TypeOK'
<1> DEFINE key == KeyOf(trade)
           applied == Apply(finalized[key], trade)
           revised == [applied EXCEPT !.revision = @ + 1]
<1>1. applied \in State
  BY ApplyType DEF ReviseCachedSecond, TypeOK
<1>2. revised \in State
  BY <1>1 DEF State
<1>3. key \in Key
  BY KeyOfType
<1>4. Finalize(revised, "recovered") \in Candle
  BY <1>2, FinalizeType DEF Status
<1> HIDE DEF applied, revised
<1>5. /\ DeliverFresh(trade)
      /\ RememberFinalized(key, revised)
      /\ CarryClose(key, revised.close)
      /\ Publish(key, Finalize(revised, "recovered"))
      /\ UNCHANGED <<open, lastFinalizedOpen, gaps>>
  BY DEF ReviseCachedSecond, applied, revised
<1> HIDE DEF key
<1>6. lastClose' \in [Streams -> Price]
  BY <1>2, <1>3, <1>5 DEF CarryClose, TypeOK, State, Price
<1>7. /\ DOMAIN candles' \subseteq Key
      /\ \A k \in DOMAIN candles' : candles'[k] \in Seq(Candle)
  BY <1>3, <1>4, <1>5, PublishType
<1>8. /\ finalizedOrder' \in Seq(Key)
      /\ DOMAIN finalized' \subseteq Key
      /\ \A k \in DOMAIN finalized' : finalized'[k] \in State
  BY <1>2, <1>3, <1>5, RememberType
<1>9. /\ seenTrades' \in Seq(Streams \X Nat)
      /\ deliveries' \in [Trades -> Nat]
      /\ now' = now /\ pass' = None
  BY <1>5, DeliverFreshType
<1> QED BY <1>5, <1>6, <1>7, <1>8, <1>9 DEF TypeOK

(* Recovering an evicted second (add_trade) keeps the types. *)
LEMMA RecoverType ==
    ASSUME TypeOK, NEW trade \in Trades, RecoverUncachedSecond(trade)
    PROVE  TypeOK'
<1> DEFINE key == KeyOf(trade)
           recovered == [FromTrade(trade) EXCEPT !.revision = 2]
<1>1. FromTrade(trade) \in State
  BY FromTradeType
<1>2. recovered \in State
  BY <1>1 DEF State, FromTrade
<1>3. key \in Key /\ trade.price \in Nat
  BY KeyOfType, TradesAssumption DEF Trade
<1>4. Finalize(recovered, "recovered") \in Candle
  BY <1>2, FinalizeType DEF Status
<1> HIDE DEF recovered
<1>5. /\ DeliverFresh(trade)
      /\ RememberFinalized(key, recovered)
      /\ CarryClose(key, trade.price)
      /\ Publish(key, Finalize(recovered, "recovered"))
      /\ UNCHANGED <<open, lastFinalizedOpen, gaps>>
  BY DEF RecoverUncachedSecond, recovered
<1> HIDE DEF key
<1>6. lastClose' \in [Streams -> Price]
  BY <1>3, <1>5 DEF CarryClose, TypeOK, Price
<1>7. /\ DOMAIN candles' \subseteq Key
      /\ \A k \in DOMAIN candles' : candles'[k] \in Seq(Candle)
  BY <1>3, <1>4, <1>5, PublishType
<1>8. /\ finalizedOrder' \in Seq(Key)
      /\ DOMAIN finalized' \subseteq Key
      /\ \A k \in DOMAIN finalized' : finalized'[k] \in State
  BY <1>2, <1>3, <1>5, RememberType
<1>9. /\ seenTrades' \in Seq(Streams \X Nat)
      /\ deliveries' \in [Trades -> Nat]
      /\ now' = now /\ pass' = None
  BY <1>5, DeliverFreshType
<1> QED BY <1>5, <1>6, <1>7, <1>8, <1>9 DEF TypeOK

(* Adding a trade to an open second (add_trade) keeps the types. *)
LEMMA AccumulateType ==
    ASSUME TypeOK, NEW trade \in Trades, AccumulateOpenSecond(trade)
    PROVE  TypeOK'
<1> DEFINE key == KeyOf(trade)
           state == IF key \in DOMAIN open THEN Apply(open[key], trade)
                                           ELSE FromTrade(trade)
<1>1. state \in State
  BY ApplyType, FromTradeType DEF TypeOK
<1>2. key \in Key
  BY KeyOfType
<1> HIDE DEF state
<1>3. /\ DeliverFresh(trade)
      /\ open' = With(open, key, state)
      /\ UNCHANGED <<finalized, finalizedOrder, lastFinalizedOpen, lastClose,
                     gaps, candles>>
  BY DEF AccumulateOpenSecond, state
<1> HIDE DEF key
<1>4. DOMAIN open' \subseteq Key /\ \A k \in DOMAIN open' : open'[k] \in State
  BY <1>1, <1>2, <1>3 DEF With, TypeOK
<1>5. /\ seenTrades' \in Seq(Streams \X Nat)
      /\ deliveries' \in [Trades -> Nat]
      /\ now' = now /\ pass' = None
  BY <1>3, DeliverFreshType
<1> QED BY <1>3, <1>4, <1>5 DEF TypeOK

(* add_trade keeps the types. *)
LEMMA AddTradeType ==
    ASSUME TypeOK, NEW trade \in Trades, AddTrade(trade)
    PROVE  TypeOK'
<1>1. CASE AddDuplicateTrade(trade)
  BY <1>1 DEF AddDuplicateTrade, Deliver, aggregator, TypeOK
<1> QED BY <1>1, ReviseType, RecoverType, AccumulateType DEF AddTrade

(* mark_gap keeps the types. *)
LEMMA MarkGapType ==
    ASSUME TypeOK, NEW s \in Streams, NEW start \in Disconnects, MarkGap(s, start)
    PROVE  TypeOK'
<1>1. <<start, now>> \in Int \X Int
  BY ParameterAssumption DEF TypeOK
<1>2. Append(gaps[s], <<start, now>>) \in Seq(Int \X Int)
  BY <1>1 DEF TypeOK
<1>3. Newest(Append(gaps[s], <<start, now>>), MaxGaps) \in Seq(Int \X Int)
  BY <1>2, NewestType, ParameterAssumption
<1> QED BY <1>3 DEF MarkGap, RecordGap, TypeOK, inputs, Price

(* The last due second of a finalizer pass (finalize_due) is a number. *)
LEMMA LastDueType == TypeOK => LastDueOpen \in Int
    BY OpenTimeType, ParameterAssumption DEF LastDueOpen, TypeOK

(* The first due second of a stream (finalize_due) is a number. *)
LEMMA FirstDueType ==
    ASSUME TypeOK, NEW s \in Streams
    PROVE  FirstDueSeconds(s) \subseteq Int
    BY SecondMsAssumption DEF FirstDueSeconds, TypeOK, Key

(***************************************************************************)
(* What every iteration of the finalize_due loop does to the key under the *)
(* cursor.                                                                 *)
(***************************************************************************)
LEMMA IterateType ==
    ASSUME TypeOK, NEW key, IterateOn(key)
    PROVE  /\ pass \in Pass /\ pass.stream \in Streams
           /\ key = <<pass.stream, pass.at>> /\ key \in Key
           /\ pass' \in Pass
           /\ DOMAIN open' = DOMAIN open \ {key}
           /\ \A k \in DOMAIN open' : open'[k] = open[k]
<1>1. pass \in Pass /\ pass.stream \in Streams
  BY DEF TypeOK, IterateOn, Pass
<1>2. key = <<pass.stream, pass.at>> /\ pass' = [pass EXCEPT !.at = @ + SecondMs]
  BY DEF IterateOn
<1>3. pass' \in Pass
  BY <1>1, <1>2, SecondMsAssumption DEF Pass
<1>4. key \in Key
  BY <1>1, <1>2 DEF Key, Pass
<1> QED BY <1>1, <1>2, <1>3, <1>4 DEF IterateOn, Without, Restrict

(* Closing a second (the end of finalize_due's loop body) keeps the types. *)
LEMMA CloseSecondType ==
    ASSUME TypeOK, NEW key, NEW state \in State, IterateOn(key),
           CloseSecond(key, state)
    PROVE  TypeOK'
<1> DEFINE status == IF HasGap(key) THEN "incomplete" ELSE ResolvedStatus(state)
<1>1. Finalize(state, status) \in Candle
  BY FinalizeType DEF ResolvedStatus, Status
<1>2. key \in Key
  BY IterateType
<1>3. /\ Publish(key, Finalize(state, status))
      /\ RememberFinalized(key, state)
      /\ lastFinalizedOpen' = [lastFinalizedOpen EXCEPT ![key[1]] = key[2]]
      /\ \/ lastClose' = lastClose
         \/ lastClose' = [lastClose EXCEPT ![key[1]] = state.close]
      /\ UNCHANGED <<inputs, seenTrades, gaps>>
  BY DEF CloseSecond, MoveFrontier
<1> HIDE DEF status
<1>4. /\ DOMAIN candles' \subseteq Key
      /\ \A k \in DOMAIN candles' : candles'[k] \in Seq(Candle)
  BY <1>1, <1>2, <1>3, PublishType
<1>5. /\ finalizedOrder' \in Seq(Key)
      /\ DOMAIN finalized' \subseteq Key
      /\ \A k \in DOMAIN finalized' : finalized'[k] \in State
  BY <1>2, <1>3, RememberType
<1>6. lastClose' \in [Streams -> Price]
  BY <1>2, <1>3 DEF TypeOK, State, Price
<1>7. lastFinalizedOpen' \in [Streams -> Int \cup {None}]
  BY <1>2, <1>3 DEF TypeOK, Key
<1>8. DOMAIN open' \subseteq Key /\ \A k \in DOMAIN open' : open'[k] \in State
  BY IterateType DEF TypeOK
<1>9. pass' \in Pass
  BY IterateType
<1> QED BY <1>3, <1>4, <1>5, <1>6, <1>7, <1>8, <1>9 DEF TypeOK, inputs

(* Each way finalize_due's loop handles a second keeps the types. *)
LEMMA FinalizeSecondType ==
    ASSUME TypeOK, NEW key, FinalizeSecond(key)
    PROVE  TypeOK'
<1>1. CASE FinalizeGapSecond(key)
  <2>1. IterateOn(key) /\ key \in Key /\ Publish(key, IncompleteCandle)
    BY <1>1, IterateType DEF FinalizeGapSecond
  <2>2. /\ DOMAIN candles' \subseteq Key
        /\ \A k \in DOMAIN candles' : candles'[k] \in Seq(Candle)
    BY <2>1, PublishType, IterateType, IncompleteCandleType
  <2>3. /\ pass' \in Pass
        /\ DOMAIN open' \subseteq Key
        /\ \A k \in DOMAIN open' : open'[k] \in State
    BY <2>1, IterateType DEF TypeOK
  <2>4. lastFinalizedOpen' \in [Streams -> Int \cup {None}]
    BY <1>1, <2>1 DEF FinalizeGapSecond, MoveFrontier, Key, TypeOK
  <2> QED BY <1>1, <2>2, <2>3, <2>4 DEF FinalizeGapSecond, inputs, TypeOK
<1>2. CASE SkipSecond(key)
  BY <1>2, IterateType DEF SkipSecond, inputs, TypeOK
<1>3. CASE FinalizeTradedSecond(key)
  BY <1>3, CloseSecondType DEF FinalizeTradedSecond, TypeOK
<1>4. CASE FinalizeEmptySecond(key)
  <2>1. IterateOn(key) /\ key \in Key
    BY <1>4, IterateType DEF FinalizeEmptySecond
  <2>2. lastClose[key[1]] \in Nat
    BY <1>4, <2>1 DEF FinalizeEmptySecond, Key, Price, TypeOK
  <2>3. EmptyState(key[2], lastClose[key[1]]) \in State
    BY <2>1, <2>2, EmptyStateType DEF Key
  <2> QED BY <1>4, <2>1, <2>3, CloseSecondType DEF FinalizeEmptySecond
<1> QED BY <1>1, <1>2, <1>3, <1>4 DEF FinalizeSecond

(* Every step of a finalizer pass keeps the types. *)
LEMMA PassStepType ==
    ASSUME TypeOK, PassStep
    PROVE  TypeOK'
<1>1. CASE \E s \in Streams : BeginStream(s) \/ PassOverStream(s)
  <2>1. PICK s \in Streams : BeginStream(s) \/ PassOverStream(s)
    BY <1>1
  <2>2. pass' \in Pass
    BY <2>1, FirstDueType DEF BeginStream, PassOverStream, TypeOK, Pass
  <2> QED BY <2>1, <2>2
          DEF BeginStream, PassOverStream, TypeOK, inputs, aggregator
<1>2. CASE pass # None /\ FinalizeSecond(<<pass.stream, pass.at>>)
  BY <1>2, FinalizeSecondType
<1>3. CASE EndStream
  <2>1. pass' \in Pass
    BY <1>3 DEF EndStream, TypeOK, Pass
  <2> QED BY <1>3, <2>1 DEF EndStream, TypeOK, inputs, aggregator
<1>4. CASE EndPass
  BY <1>4 DEF EndPass, TypeOK, inputs, aggregator
<1> QED BY <1>1, <1>2, <1>3, <1>4 DEF PassStep

(* A new aggregator has the types. *)
LEMMA InitType == Init => TypeOK
    BY DEF Init, TypeOK, Price, inputs

(* Every step keeps the types. *)
LEMMA NextType == TypeOK /\ [Next]_vars => TypeOK'
<1> SUFFICES ASSUME TypeOK, [Next]_vars PROVE TypeOK'
  OBVIOUS
<1>1. CASE Tick
  BY <1>1 DEF Tick, TypeOK, aggregator
<1>2. ASSUME NEW active \in SUBSET Streams, FinalizeDue(active) PROVE TypeOK'
  <2>1. pass' \in Pass
    BY <1>2 DEF FinalizeDue, Pass
  <2> QED BY <1>2, <2>1 DEF FinalizeDue, TypeOK, inputs, aggregator
<1>3. CASE UNCHANGED vars
  BY <1>3 DEF vars, inputs, aggregator, TypeOK
<1> QED BY <1>1, <1>2, <1>3, AddTradeType, MarkGapType, PassStepType DEF Next

(***************************************************************************)
(* The variables of the aggregator keep their types in every behaviour.    *)
(***************************************************************************)
THEOREM TypeCorrect == Spec => []TypeOK
    BY InitType, NextType, PTL DEF Spec

-----------------------------------------------------------------------------
(* Seconds are multiples of SecondMs *)

(* Division by the length of a second, which candle_open_time rests on. *)
LEMMA DivMod ==
    \A t \in Int : /\ t % SecondMs \in 0..(SecondMs - 1)
                   /\ t \div SecondMs \in Int
                   /\ t = SecondMs * (t \div SecondMs) + (t % SecondMs)
    BY SecondMsAssumption

(* The boundaries of seconds (candle_open_time) are the multiples of their length. *)
LEMMA AlignedIsMultiple ==
    \A t \in Int : Aligned(t) <=> \E q \in Int : t = q * SecondMs
<1> SUFFICES ASSUME NEW t \in Int
             PROVE  Aligned(t) <=> \E q \in Int : t = q * SecondMs
  OBVIOUS
<1>1. ASSUME Aligned(t) PROVE \E q \in Int : t = q * SecondMs
  <2> DEFINE d == t \div SecondMs
  <2>1. d \in Int /\ t = SecondMs * d + 0
    BY <1>1, DivMod DEF Aligned
  <2> HIDE DEF d
  <2>2. t = d * SecondMs
    BY <2>1, SecondMsAssumption
  <2> QED BY <2>1, <2>2
<1>2. ASSUME NEW q \in Int, t = q * SecondMs PROVE Aligned(t)
  <2> DEFINE d == t \div SecondMs
             r == t % SecondMs
  <2>1. d \in Int /\ r \in 0..(SecondMs - 1) /\ t = SecondMs * d + r
    BY DivMod
  <2> HIDE DEF d, r
  <2>2. (q - d) * SecondMs = r
    BY <1>2, <2>1, SecondMsAssumption
  <2>3. \A n \in Int : n >= 1 => n * SecondMs >= SecondMs
    <3> TAKE n \in Int
    <3> HAVE n >= 1
    <3>1. (n - 1) * SecondMs >= 0
      BY SecondMsAssumption
    <3>2. (n - 1) * SecondMs = n * SecondMs - SecondMs
      BY SecondMsAssumption
    <3> QED BY <3>1, <3>2, SecondMsAssumption
  <2>4. \A n \in Int : n <= -1 => n * SecondMs < 0
    <3> TAKE n \in Int
    <3> HAVE n <= -1
    <3>1. (-n) * SecondMs >= SecondMs
      BY <2>3
    <3>2. (-n) * SecondMs = -(n * SecondMs)
      BY SecondMsAssumption
    <3> QED BY <3>1, <3>2, SecondMsAssumption
  <2>5. q - d = 0
    BY <2>1, <2>2, <2>3, <2>4, SecondMsAssumption
  <2> QED BY <2>2, <2>5, SecondMsAssumption DEF Aligned, r
<1> QED BY <1>1, <1>2

(* Two seconds that differ are at least one length apart. *)
LEMMA NextAligned ==
    ASSUME NEW a \in Int, NEW b \in Int, Aligned(a), Aligned(b), a < b
    PROVE  a + SecondMs <= b
<1>1. PICK p \in Int : a = p * SecondMs
  BY AlignedIsMultiple
<1>2. PICK q \in Int : b = q * SecondMs
  BY AlignedIsMultiple
<1>3. \A n \in Nat : n * SecondMs >= 0
  BY SecondMsAssumption
<1>4. ~ (q <= p)
  <2> SUFFICES ASSUME q <= p PROVE FALSE
    OBVIOUS
  <2>1. (p - q) * SecondMs >= 0
    BY <1>3
  <2>2. (p - q) * SecondMs = p * SecondMs - q * SecondMs
    BY SecondMsAssumption
  <2> QED BY <1>1, <1>2, <2>1, <2>2, SecondMsAssumption
<1>5. (q - p - 1) * SecondMs >= 0
  BY <1>3, <1>4
<1>6. (q - p - 1) * SecondMs = q * SecondMs - p * SecondMs - SecondMs
  BY SecondMsAssumption
<1> QED BY <1>1, <1>2, <1>5, <1>6, SecondMsAssumption

(* finalize_due's loop goes from second to second. *)
LEMMA SuccessorAligned ==
    ASSUME NEW a \in Int, Aligned(a)
    PROVE  Aligned(a + SecondMs)
<1>1. PICK p \in Int : a = p * SecondMs
  BY AlignedIsMultiple
<1>2. a + SecondMs = (p + 1) * SecondMs
  BY <1>1, SecondMsAssumption
<1> QED BY <1>2, AlignedIsMultiple, SecondMsAssumption

(* candle_open_time rounds down to the boundary of a second. *)
LEMMA OpenTimeAligned ==
    \A t \in Int : /\ Aligned(candle_open_time(t))
                   /\ candle_open_time(t) <= t
<1> SUFFICES ASSUME NEW t \in Int
             PROVE  Aligned(candle_open_time(t)) /\ candle_open_time(t) <= t
  OBVIOUS
<1>1. candle_open_time(t) = (t \div SecondMs) * SecondMs
  BY DivMod, SecondMsAssumption DEF candle_open_time
<1>2. candle_open_time(t) <= t
  BY DivMod, SecondMsAssumption DEF candle_open_time
<1> QED BY <1>1, <1>2, DivMod, OpenTimeType, AlignedIsMultiple

-----------------------------------------------------------------------------
(* The frontier *)

(***************************************************************************)
(* add_trade either puts the trade in an open second beyond the frontier,  *)
(* or publishes a second at or before it.                                  *)
(***************************************************************************)
LEMMA AddTradeEffect ==
    ASSUME TypeOK, FrontierSeparates, NEW trade \in Trades, AddTrade(trade)
    PROVE  /\ pass = None /\ pass' = None /\ UNCHANGED lastFinalizedOpen
           /\ KeyOf(trade) \in Key
           /\ \/ UNCHANGED <<open, finalized, candles>>
              \/ /\ ~ IsClosed(KeyOf(trade))
                 /\ DOMAIN open' = DOMAIN open \cup {KeyOf(trade)}
                 /\ UNCHANGED <<finalized, candles>>
              \/ /\ IsClosed(KeyOf(trade))
                 /\ DOMAIN finalized' \subseteq DOMAIN finalized \cup {KeyOf(trade)}
                 /\ DOMAIN candles' = DOMAIN candles \cup {KeyOf(trade)}
                 /\ UNCHANGED open
<1> DEFINE key == KeyOf(trade)
<1>1. key \in Key
  BY KeyOfType
<1> HIDE DEF key
<1>2. ASSUME NEW state, RememberFinalized(key, state)
      PROVE  DOMAIN finalized' \subseteq DOMAIN finalized \cup {key}
  BY <1>2 DEF RememberFinalized, Restrict
<1>3. ASSUME NEW candle, Publish(key, candle)
      PROVE  DOMAIN candles' = DOMAIN candles \cup {key}
  BY <1>3 DEF Publish, With
<1>4. CASE AddDuplicateTrade(trade)
  BY <1>1, <1>4 DEF AddDuplicateTrade, Deliver, aggregator, key
<1>5. CASE ReviseCachedSecond(trade)
  <2>1. IsClosed(key)
    BY <1>5 DEF ReviseCachedSecond, FrontierSeparates, key
  <2>2. /\ \E state : RememberFinalized(key, state)
        /\ \E candle : Publish(key, candle)
        /\ pass = None /\ pass' = None
        /\ UNCHANGED <<open, lastFinalizedOpen>>
    BY <1>5 DEF ReviseCachedSecond, DeliverFresh, Deliver, key
  <2> QED BY <1>1, <1>2, <1>3, <2>1, <2>2 DEF key
<1>6. CASE RecoverUncachedSecond(trade)
  <2>1. /\ \E state : RememberFinalized(key, state)
        /\ \E candle : Publish(key, candle)
        /\ IsClosed(key)
        /\ pass = None /\ pass' = None
        /\ UNCHANGED <<open, lastFinalizedOpen>>
    BY <1>6 DEF RecoverUncachedSecond, DeliverFresh, Deliver, key
  <2> QED BY <1>1, <1>2, <1>3, <2>1 DEF key
<1>7. CASE AccumulateOpenSecond(trade)
  BY <1>1, <1>7 DEF AccumulateOpenSecond, DeliverFresh, Deliver, With, key
<1> QED BY <1>4, <1>5, <1>6, <1>7 DEF AddTrade

(* add_trade keeps the open seconds above the frontier. *)
LEMMA AddTradeFrontier ==
    ASSUME TypeOK, FrontierInv, NEW trade \in Trades, AddTrade(trade)
    PROVE  FrontierInv'
<1>1. FrontierSeparates
  BY DEF FrontierInv
<1>2. Aligned(KeyOf(trade)[2])
  BY OpenTimeAligned, TradesAssumption DEF KeyOf, Trade
<1>3. SecondsAreAligned'
  <2>1. /\ DOMAIN open' \subseteq DOMAIN open \cup {KeyOf(trade)}
        /\ lastFinalizedOpen' = lastFinalizedOpen
    BY <1>1, AddTradeEffect
  <2> QED BY <1>2, <2>1 DEF FrontierInv, SecondsAreAligned
<1>4. CursorPrecedesOpen'
  BY <1>1, AddTradeEffect DEF CursorPrecedesOpen
<1>5. FrontierSeparates'
  BY <1>1, AddTradeEffect DEF FrontierSeparates, IsClosed
<1> QED BY <1>3, <1>4, <1>5 DEF FrontierInv

(* finalize_due starts a stream at or below its first open second. *)
LEMMA BeginStreamFrontier ==
    ASSUME TypeOK, FrontierInv, NEW s \in Streams, BeginStream(s)
    PROVE  FrontierInv'
<1>1. UNCHANGED <<open, finalized, lastFinalizedOpen, candles>>
  BY DEF BeginStream, aggregator
<1>2. SecondsAreAligned' /\ FrontierSeparates'
  BY <1>1 DEF FrontierInv, SecondsAreAligned, FrontierSeparates, IsClosed
<1>3. PICK start \in FirstDueSeconds(s) :
          /\ \A t \in FirstDueSeconds(s) : start <= t
          /\ pass' = [pass EXCEPT !.stream = s, !.at = start]
  BY DEF BeginStream
<1>4. start \in Int
  BY <1>3, FirstDueType
<1>5. pass' \in Pass /\ pass'.stream = s /\ pass'.at = start
  BY <1>3, <1>4 DEF BeginStream, TypeOK, Pass
<1>6. Aligned(start) /\ ~ IsClosed(<<s, start>>)
      /\ \A key \in DOMAIN open : key[1] = s => start <= key[2]
  <2>1. CASE lastFinalizedOpen[s] # None
    <3>1. lastFinalizedOpen[s] \in Int /\ Aligned(lastFinalizedOpen[s])
      BY <2>1 DEF TypeOK, FrontierInv, SecondsAreAligned
    <3>2. start = lastFinalizedOpen[s] + SecondMs
      BY <1>3, <2>1 DEF FirstDueSeconds
    <3>3. Aligned(start) /\ ~ IsClosed(<<s, start>>)
      BY <3>1, <3>2, SuccessorAligned, SecondMsAssumption DEF IsClosed
    <3>4. ASSUME NEW key \in DOMAIN open, key[1] = s PROVE start <= key[2]
      <4>1. key[2] \in Int /\ Aligned(key[2]) /\ lastFinalizedOpen[s] < key[2]
        BY <2>1, <3>1, <3>4
           DEF TypeOK, Key, FrontierInv, SecondsAreAligned, FrontierSeparates, IsClosed
      <4> QED BY <3>1, <3>2, <4>1, NextAligned
    <3> QED BY <3>3, <3>4
  <2>2. CASE lastFinalizedOpen[s] = None
    <3>1. PICK first \in DOMAIN open : first[1] = s /\ first[2] = start
                                       /\ first[2] <= LastDueOpen
      BY <1>3, <2>2 DEF FirstDueSeconds
    <3>2. Aligned(start) /\ ~ IsClosed(<<s, start>>)
      BY <2>2, <3>1 DEF IsClosed, FrontierInv, SecondsAreAligned
    <3>3. ASSUME NEW key \in DOMAIN open, key[1] = s PROVE start <= key[2]
      <4>1. key[2] \in Int
        BY DEF TypeOK, Key
      <4>2. CASE key[2] <= LastDueOpen
        BY <1>3, <2>2, <3>3, <4>2 DEF FirstDueSeconds
      <4>3. CASE ~ (key[2] <= LastDueOpen)
        BY <1>4, <3>1, <4>1, <4>3, LastDueType
      <4> QED BY <4>2, <4>3
    <3> QED BY <3>2, <3>3
  <2> QED BY <2>1, <2>2
<1>7. CursorPrecedesOpen'
  BY <1>1, <1>5, <1>6 DEF CursorPrecedesOpen, IsClosed
<1> QED BY <1>2, <1>7 DEF FrontierInv

(***************************************************************************)
(* One iteration: the key under the cursor leaves the open seconds, and    *)
(* the frontier stays or moves to it.                                      *)
(***************************************************************************)
LEMMA IterateFrontier ==
    ASSUME TypeOK, FrontierInv, NEW key, IterateOn(key),
           \/ UNCHANGED <<lastFinalizedOpen, finalized, candles>>
           \/ /\ MoveFrontier(key)
              /\ DOMAIN finalized' \subseteq DOMAIN finalized \cup {key}
              /\ DOMAIN candles' \subseteq DOMAIN candles \cup {key}
    PROVE  FrontierInv'
<1>1. PICK s \in Streams, at \in Int :
      /\ pass # None /\ pass \in Pass /\ s = pass.stream /\ at = pass.at
      /\ key = <<s, at>>
      /\ pass' = [pass EXCEPT !.at = at + SecondMs]
      /\ DOMAIN open' = DOMAIN open \ {key}
  BY IterateType DEF IterateOn, Pass
<1>2. /\ Aligned(at)
      /\ ~ IsClosed(<<s, at>>)
      /\ \A k \in DOMAIN open : k[1] = s => at <= k[2]
  BY <1>1 DEF FrontierInv, CursorPrecedesOpen, Pass, IterateOn
<1>3. pass'.stream = s /\ pass'.at = at + SecondMs
  BY <1>1 DEF Pass
<1>4. \A k \in DOMAIN open' : k \in Key /\ k \in DOMAIN open
                              /\ (k[1] = s => at + SecondMs <= k[2])
  <2>1. TAKE k \in DOMAIN open'
  <2>2. k \in DOMAIN open /\ k \in Key /\ k # key
    BY <1>1 DEF TypeOK
  <2>3. ASSUME k[1] = s PROVE at + SecondMs <= k[2]
    <3>1. k[2] \in Int /\ at < k[2] /\ Aligned(k[2])
      BY <1>1, <1>2, <2>2, <2>3 DEF Key, FrontierInv, SecondsAreAligned
    <3> QED BY <1>1, <1>2, <3>1, NextAligned
  <2> QED BY <2>2, <2>3
<1>5. CASE UNCHANGED <<lastFinalizedOpen, finalized, candles>>
  <2>1. SecondsAreAligned' /\ FrontierSeparates'
    BY <1>4, <1>5 DEF FrontierInv, SecondsAreAligned, FrontierSeparates, IsClosed
  <2>2. ~ IsClosed(<<s, at + SecondMs>>)'
    BY <1>1, <1>2, <1>5, SecondMsAssumption DEF IsClosed, TypeOK
  <2>3. CursorPrecedesOpen'
    BY <1>1, <1>2, <1>3, <1>4, <2>2, SuccessorAligned DEF CursorPrecedesOpen
  <2> QED BY <2>1, <2>3 DEF FrontierInv
<1>6. CASE /\ MoveFrontier(key)
           /\ DOMAIN finalized' \subseteq DOMAIN finalized \cup {key}
           /\ DOMAIN candles' \subseteq DOMAIN candles \cup {key}
  <2>1. /\ lastFinalizedOpen'[s] = at
        /\ \A t \in Streams \ {s} : lastFinalizedOpen'[t] = lastFinalizedOpen[t]
    BY <1>1, <1>6 DEF MoveFrontier, TypeOK
  <2>2. at # None
    BY <1>1, NoneAssumption
  <2>3. \A k \in Key : IsClosed(k) => IsClosed(k)'
    <3>1. TAKE k \in Key
    <3>2. CASE k[1] = s
      BY <1>1, <1>2, <2>1, <2>2, <3>2 DEF IsClosed, Key, TypeOK
    <3>3. CASE k[1] # s
      BY <2>1, <3>3 DEF IsClosed, Key
    <3> QED BY <3>2, <3>3
  <2>4. IsClosed(key)'
    BY <1>1, <2>1, <2>2 DEF IsClosed
  <2>5. SecondsAreAligned'
    BY <1>2, <1>4, <2>1 DEF FrontierInv, SecondsAreAligned
  <2>6. \A k \in DOMAIN open' : ~ IsClosed(k)'
    <3>1. TAKE k \in DOMAIN open'
    <3>2. CASE k[1] = s
      BY <1>1, <1>4, <2>1, <3>2, SecondMsAssumption DEF IsClosed, Key
    <3>3. CASE k[1] # s
      BY <1>4, <2>1, <3>3 DEF IsClosed, Key, FrontierInv, FrontierSeparates
    <3> QED BY <3>2, <3>3
  <2>7. FrontierSeparates'
    BY <1>6, <2>3, <2>4, <2>6 DEF FrontierInv, FrontierSeparates, TypeOK
  <2>8. ~ IsClosed(<<s, at + SecondMs>>)'
    BY <1>1, <2>1, SecondMsAssumption DEF IsClosed
  <2>9. CursorPrecedesOpen'
    BY <1>1, <1>2, <1>3, <1>4, <2>8, SuccessorAligned DEF CursorPrecedesOpen
  <2> QED BY <2>5, <2>7, <2>9 DEF FrontierInv
<1> QED BY <1>5, <1>6

(* Each way finalize_due handles a second moves the frontier by that second. *)
LEMMA FinalizeSecondFrontier ==
    ASSUME TypeOK, FrontierInv, NEW key, FinalizeSecond(key)
    PROVE  FrontierInv'
<1>1. ASSUME NEW state, CloseSecond(key, state)
      PROVE  /\ MoveFrontier(key)
             /\ DOMAIN finalized' \subseteq DOMAIN finalized \cup {key}
             /\ DOMAIN candles' \subseteq DOMAIN candles \cup {key}
  BY <1>1 DEF CloseSecond, RememberFinalized, Restrict, Publish, With
<1>2. CASE FinalizeGapSecond(key)
  <2>1. /\ IterateOn(key) /\ MoveFrontier(key)
        /\ finalized' = finalized
        /\ DOMAIN candles' \subseteq DOMAIN candles \cup {key}
    BY <1>2 DEF FinalizeGapSecond, Publish, With
  <2> QED BY <2>1, IterateFrontier
<1>3. CASE SkipSecond(key)
  BY <1>3, IterateFrontier DEF SkipSecond
<1>4. CASE FinalizeTradedSecond(key)
  BY <1>1, <1>4, IterateFrontier DEF FinalizeTradedSecond
<1>5. CASE FinalizeEmptySecond(key)
  BY <1>1, <1>5, IterateFrontier DEF FinalizeEmptySecond
<1> QED BY <1>2, <1>3, <1>4, <1>5 DEF FinalizeSecond

(***************************************************************************)
(* A step that changes neither the open seconds, nor the frontier, nor     *)
(* what is cached or published, and leaves no stream under the cursor or   *)
(* the cursor where it is.                                                 *)
(***************************************************************************)
LEMMA IdleFrontier ==
    ASSUME FrontierInv, UNCHANGED <<open, lastFinalizedOpen, finalized, candles>>,
           pass' = pass \/ pass' = None \/ pass'.stream = None
    PROVE  FrontierInv'
<1>1. SecondsAreAligned' /\ FrontierSeparates'
  BY DEF FrontierInv, SecondsAreAligned, FrontierSeparates, IsClosed
<1>2. CursorPrecedesOpen'
  BY DEF FrontierInv, CursorPrecedesOpen, IsClosed
<1> QED BY <1>1, <1>2 DEF FrontierInv

(* Every step keeps the frontier invariant. *)
LEMMA NextFrontier == TypeOK /\ FrontierInv /\ [Next]_vars => FrontierInv'
<1> SUFFICES ASSUME TypeOK, FrontierInv, [Next]_vars PROVE FrontierInv'
  OBVIOUS
<1>1. CASE Tick \/ UNCHANGED vars
  BY <1>1, IdleFrontier DEF Tick, vars, aggregator
<1>2. ASSUME NEW s \in Streams, NEW start \in Disconnects, MarkGap(s, start)
      PROVE  FrontierInv'
  BY <1>2, IdleFrontier DEF MarkGap, RecordGap
<1>3. ASSUME NEW active \in SUBSET Streams, FinalizeDue(active)
      PROVE  FrontierInv'
  BY <1>3, IdleFrontier DEF FinalizeDue, aggregator
<1>4. ASSUME NEW s \in Streams, PassOverStream(s) PROVE FrontierInv'
  <2>1. pass'.stream = None
    BY <1>4 DEF PassOverStream, TypeOK, Pass
  <2> QED BY <1>4, <2>1, IdleFrontier DEF PassOverStream, aggregator
<1>5. CASE EndStream
  <2>1. pass'.stream = None
    BY <1>5 DEF EndStream, TypeOK, Pass
  <2> QED BY <1>5, <2>1, IdleFrontier DEF EndStream, aggregator
<1>6. CASE EndPass
  BY <1>6, IdleFrontier DEF EndPass, aggregator
<1> QED BY <1>1, <1>2, <1>3, <1>4, <1>5, <1>6, AddTradeFrontier,
           BeginStreamFrontier, FinalizeSecondFrontier DEF Next, PassStep

(* A new aggregator satisfies the frontier invariant. *)
LEMMA InitFrontier == Init => FrontierInv
    BY DEF Init, FrontierInv, SecondsAreAligned, CursorPrecedesOpen,
           FrontierSeparates

(* The frontier that finalize_due keeps in _last_finalized_open always separates
   the open seconds from the closed ones, also in the middle of a pass. *)
THEOREM FrontierInvariant == Spec => []FrontierInv
    BY TypeCorrect, InitFrontier, NextFrontier, PTL DEF Spec

(***************************************************************************)
(* Seconds still collecting trades lie beyond the frontier, cached and     *)
(* published ones do not, for every arrival order and cache size.          *)
(***************************************************************************)
THEOREM FrontierSeparatesAlways == Spec => []FrontierSeparates
<1>1. FrontierInv => FrontierSeparates
  BY DEF FrontierInv
<1> QED BY <1>1, FrontierInvariant, PTL

-----------------------------------------------------------------------------
(* Publishing a candle *)

(***************************************************************************)
(* What keeps the last three so: nothing is published empty, the frontier  *)
(* second of a stream is published, and no state is older than revision 1. *)
(***************************************************************************)
FrontierIsPublished ==
    \A s \in Streams :
        /\ lastClose[s] # None => lastFinalizedOpen[s] # None
        /\ lastFinalizedOpen[s] # None => <<s, lastFinalizedOpen[s]>> \in DOMAIN candles

RevisionsArePositive ==
    /\ \A key \in DOMAIN open : open[key].revision >= 1
    /\ \A key \in DOMAIN finalized : finalized[key].revision >= 1

PublicationInv ==
    /\ \A key \in DOMAIN candles : candles[key] # <<>>
    /\ RevisionsArePositive
    /\ FrontierIsPublished
    /\ FirstRevisionComesFirst
    /\ CacheIsPublished
    /\ CarriedPriceIsFrontierClose

(* A returned candle is the last one of its second, and touches no other second. *)
LEMMA PublishEffect ==
    ASSUME TypeOK, NEW key \in Key, NEW candle \in Candle, Publish(key, candle)
    PROVE  /\ DOMAIN candles' = DOMAIN candles \cup {key}
           /\ \A k \in DOMAIN candles : k # key => candles'[k] = candles[k]
           /\ Published(key) \in Seq(Candle)
           /\ candles'[key] = Append(Published(key), candle)
           /\ candles'[key] # <<>>
           /\ Last(candles'[key]) = candle
<1>1. Published(key) \in Seq(Candle)
  BY DEF Published, TypeOK
<1>2. /\ DOMAIN candles' = DOMAIN candles \cup {key}
      /\ \A k \in DOMAIN candles : k # key => candles'[k] = candles[k]
      /\ candles'[key] = Append(Published(key), candle)
  BY DEF Publish, With
<1>3. /\ Append(Published(key), candle) # <<>>
      /\ Last(Append(Published(key), candle)) = candle
  BY <1>1 DEF Last
<1> QED BY <1>1, <1>2, <1>3

(***************************************************************************)
(* Publishing keeps revision 1 first if the candle is a later revision, or *)
(* the first candle of its second.                                         *)
(***************************************************************************)
LEMMA PublishKeepsFirst ==
    ASSUME TypeOK, FirstRevisionComesFirst,
           NEW key \in Key, NEW candle \in Candle, Publish(key, candle),
           key \in DOMAIN candles => candle.revision # 1
    PROVE  FirstRevisionComesFirst'
<1> SUFFICES ASSUME NEW k \in DOMAIN candles', NEW i \in 2..Len(candles'[k])
             PROVE  candles'[k][i].revision # 1
  BY DEF FirstRevisionComesFirst
<1>1. CASE k # key
  <2>1. k \in DOMAIN candles /\ candles'[k] = candles[k]
    BY <1>1, PublishEffect
  <2> QED BY <2>1 DEF FirstRevisionComesFirst
<1>2. CASE k = key
  <2>1. /\ Published(key) \in Seq(Candle)
        /\ candles'[key] = Append(Published(key), candle)
    BY PublishEffect
  <2>2. i \in 2..(Len(Published(key)) + 1)
    BY <1>2, <2>1
  <2>3. CASE key \notin DOMAIN candles
    BY <2>2, <2>3 DEF Published
  <2>4. CASE key \in DOMAIN candles /\ i <= Len(Published(key))
    <3>1. Published(key)[i].revision # 1
      BY <2>2, <2>4 DEF FirstRevisionComesFirst, Published
    <3> QED BY <1>2, <2>1, <2>2, <2>4, <3>1
  <2>5. CASE key \in DOMAIN candles /\ i = Len(Published(key)) + 1
    BY <1>2, <2>1, <2>5
  <2> QED BY <2>1, <2>2, <2>3, <2>4, <2>5
<1> QED BY <1>1, <1>2

(***************************************************************************)
(* A state that is cached as it is published keeps the cache in step.      *)
(***************************************************************************)
LEMMA RememberKeepsCache ==
    ASSUME TypeOK, CacheIsPublished,
           NEW key \in Key, NEW state \in State, NEW status \in Status,
           RememberFinalized(key, state), Publish(key, Finalize(state, status))
    PROVE  CacheIsPublished'
<1>1. Finalize(state, status) \in Candle
  BY FinalizeType
<1>2. Finalize(state, status).status = status
  BY DEF Finalize
<1> SUFFICES ASSUME NEW k \in DOMAIN finalized'
             PROVE  /\ k \in DOMAIN candles'
                    /\ candles'[k] # <<>>
                    /\ Last(candles'[k])
                       = Finalize(finalized'[k], Last(candles'[k]).status)
  BY DEF CacheIsPublished
<1>3. CASE k = key
  <2>1. finalized'[key] = state
    BY <1>3, RememberType
  <2>2. /\ key \in DOMAIN candles' /\ candles'[key] # <<>>
        /\ Last(candles'[key]) = Finalize(state, status)
    BY <1>1, PublishEffect
  <2> QED BY <1>2, <1>3, <2>1, <2>2
<1>4. CASE k # key
  <2>1. k \in DOMAIN finalized /\ finalized'[k] = finalized[k]
    BY <1>4, RememberType
  <2>2. k \in DOMAIN candles'  /\ candles'[k] = candles[k]
    BY <1>1, <1>4, <2>1, PublishEffect DEF CacheIsPublished
  <2> QED BY <2>1, <2>2 DEF CacheIsPublished
<1> QED BY <1>3, <1>4

-----------------------------------------------------------------------------
(* Publication *)

(* apply leaves the revision to its caller. *)
LEMMA ApplyRevision ==
    ASSUME NEW state \in State, NEW trade \in Trades
    PROVE  Apply(state, trade).revision = state.revision
<1>1. CASE state.count = 0
  BY <1>1 DEF Apply, FromTrade
<1>2. CASE state.count # 0
  BY <1>2 DEF Apply
<1> QED BY <1>1, <1>2

(***************************************************************************)
(* A late trade, whether the second was still cached or not.               *)
(***************************************************************************)
LEMMA RecoveredPublication ==
    ASSUME TypeOK, PublicationInv, NEW key \in Key, NEW state \in State,
           state.revision >= 2,
           RememberFinalized(key, state),
           CarryClose(key, state.close),
           Publish(key, Finalize(state, "recovered")),
           UNCHANGED <<open, lastFinalizedOpen>>
    PROVE  PublicationInv'
<1> DEFINE candle == Finalize(state, "recovered")
<1>1. /\ candle \in Candle /\ candle.revision # 1 /\ candle.close = state.close
  <2>1. candle \in Candle
    BY FinalizeType DEF Status
  <2>2. candle.revision = state.revision /\ candle.close = state.close
    BY DEF Finalize
  <2> QED BY <2>1, <2>2 DEF State
<1> HIDE DEF candle
<1>2. Publish(key, candle)
  BY DEF candle
<1>3. /\ DOMAIN candles' = DOMAIN candles \cup {key}
      /\ \A k \in DOMAIN candles : k # key => candles'[k] = candles[k]
      /\ candles'[key] # <<>>
      /\ Last(candles'[key]) = candle
  BY <1>1, <1>2, PublishEffect
<1>4. \A k \in DOMAIN candles' : candles'[k] # <<>>
  BY <1>3 DEF PublicationInv
<1>5. RevisionsArePositive'
  BY RememberType DEF PublicationInv, RevisionsArePositive, State
<1>6. FirstRevisionComesFirst'
  BY <1>1, <1>2, PublishKeepsFirst DEF PublicationInv
<1>7. CacheIsPublished'
  BY RememberKeepsCache DEF PublicationInv, Status
<1>8. ASSUME NEW s \in Streams, lastClose'[s] # None
      PROVE  /\ lastFinalizedOpen'[s] # None
             /\ LET frontier == Last(Published(<<s, lastFinalizedOpen[s]>>))'
                IN  frontier.status = "incomplete" \/ frontier.close = lastClose'[s]
  <2>1. CASE s = key[1] /\ lastFinalizedOpen[s] = key[2]
    <3>1. /\ key = <<s, lastFinalizedOpen'[s]>>
          /\ lastClose'[s] = state.close
      BY <2>1 DEF CarryClose, Key, TypeOK
    <3>2. Published(<<s, lastFinalizedOpen[s]>>)' = candles'[key]
      BY <1>3, <3>1 DEF Published
    <3>3. lastFinalizedOpen[s] # None
      BY <2>1, NoneAssumption DEF Key
    <3> QED BY <1>1, <1>3, <3>1, <3>2, <3>3
  <2>2. CASE ~ (s = key[1] /\ lastFinalizedOpen[s] = key[2])
    <3>1. lastClose'[s] = lastClose[s]
      BY <2>2 DEF CarryClose, TypeOK, Key
    <3>2. /\ lastFinalizedOpen[s] # None
          /\ <<s, lastFinalizedOpen[s]>> \in DOMAIN candles
          /\ <<s, lastFinalizedOpen[s]>> # key
      BY <1>8, <2>2, <3>1 DEF PublicationInv, FrontierIsPublished
    <3>3. Published(<<s, lastFinalizedOpen[s]>>)' = Published(<<s, lastFinalizedOpen[s]>>)
      BY <1>3, <3>2 DEF Published
    <3> QED BY <1>8, <3>1, <3>2, <3>3 DEF PublicationInv, CarriedPriceIsFrontierClose
  <2> QED BY <2>1, <2>2
<1>9. FrontierIsPublished'
  BY <1>3, <1>8 DEF PublicationInv, FrontierIsPublished
<1> QED BY <1>4, <1>5, <1>6, <1>7, <1>8, <1>9
        DEF PublicationInv, CarriedPriceIsFrontierClose

(* add_trade keeps cache, carried price and published candles in agreement. *)
LEMMA AddTradePublication ==
    ASSUME TypeOK, PublicationInv, NEW trade \in Trades, AddTrade(trade)
    PROVE  PublicationInv'
<1> DEFINE key == KeyOf(trade)
<1>1. key \in Key
  BY KeyOfType
<1>2. CASE AddDuplicateTrade(trade)
  BY <1>2 DEF AddDuplicateTrade, aggregator, PublicationInv, RevisionsArePositive,
              FrontierIsPublished, FirstRevisionComesFirst, CacheIsPublished,
              CarriedPriceIsFrontierClose, Published
<1>3. CASE ReviseCachedSecond(trade)
  <2> DEFINE applied == Apply(finalized[key], trade)
             revised == [applied EXCEPT !.revision = @ + 1]
  <2>1. finalized[key] \in State /\ finalized[key].revision >= 1
    BY <1>3 DEF ReviseCachedSecond, TypeOK, PublicationInv, RevisionsArePositive
  <2>2. applied \in State /\ applied.revision >= 1
    BY <2>1, ApplyType, ApplyRevision
  <2>3. revised \in State /\ revised.revision >= 2
    BY <2>2 DEF State
  <2>4. /\ RememberFinalized(key, revised)
        /\ CarryClose(key, revised.close)
        /\ Publish(key, Finalize(revised, "recovered"))
        /\ UNCHANGED <<open, lastFinalizedOpen>>
    BY <1>3 DEF ReviseCachedSecond
  <2> HIDE DEF revised, key
  <2> QED BY <1>1, <2>3, <2>4, RecoveredPublication
<1>4. CASE RecoverUncachedSecond(trade)
  <2> DEFINE recovered == [FromTrade(trade) EXCEPT !.revision = 2]
  <2>1. recovered \in State /\ recovered.revision >= 2
        /\ recovered.close = trade.price
    BY FromTradeType DEF State, FromTrade
  <2>2. /\ RememberFinalized(key, recovered)
        /\ CarryClose(key, trade.price)
        /\ Publish(key, Finalize(recovered, "recovered"))
        /\ UNCHANGED <<open, lastFinalizedOpen>>
    BY <1>4 DEF RecoverUncachedSecond
  <2> HIDE DEF recovered, key
  <2> QED BY <1>1, <2>1, <2>2, RecoveredPublication
<1>5. CASE AccumulateOpenSecond(trade)
  <2>1. UNCHANGED <<finalized, lastFinalizedOpen, lastClose, candles>>
    BY <1>5 DEF AccumulateOpenSecond
  <2>2. \A k \in DOMAIN open' : open'[k].revision >= 1
    <3>1. key \in DOMAIN open => Apply(open[key], trade).revision >= 1
      BY ApplyRevision DEF TypeOK, PublicationInv, RevisionsArePositive
    <3>2. FromTrade(trade).revision >= 1
      BY DEF FromTrade
    <3> QED BY <1>5, <3>1, <3>2
            DEF AccumulateOpenSecond, With, PublicationInv, RevisionsArePositive
  <2> QED BY <2>1, <2>2 DEF PublicationInv, RevisionsArePositive,
              FrontierIsPublished, FirstRevisionComesFirst, CacheIsPublished,
              CarriedPriceIsFrontierClose, Published
<1> QED BY <1>2, <1>3, <1>4, <1>5 DEF AddTrade

(***************************************************************************)
(* A second the finalizer closes has not been published before, and is the *)
(* frontier afterwards.                                                    *)
(***************************************************************************)
LEMMA ClosedPublication ==
    ASSUME TypeOK, FrontierInv, PublicationInv, NEW key, IterateOn(key),
           NEW candle \in Candle, Publish(key, candle), MoveFrontier(key),
           \/ candle.status = "incomplete" /\ lastClose' = lastClose
           \/ lastClose' = [lastClose EXCEPT ![key[1]] = candle.close]
    PROVE  /\ \A k \in DOMAIN candles' : candles'[k] # <<>>
           /\ FirstRevisionComesFirst'
           /\ FrontierIsPublished'
           /\ CarriedPriceIsFrontierClose'
<1>1. key \in Key /\ pass # None /\ pass.stream # None
      /\ key = <<pass.stream, pass.at>>
  BY IterateType DEF IterateOn
<1>2. key \notin DOMAIN candles
  BY <1>1 DEF FrontierInv, CursorPrecedesOpen, FrontierSeparates, IsClosed
<1>3. /\ DOMAIN candles' = DOMAIN candles \cup {key}
      /\ \A k \in DOMAIN candles : candles'[k] = candles[k]
      /\ candles'[key] # <<>>
      /\ Last(candles'[key]) = candle
  BY <1>1, <1>2, PublishEffect
<1>4. \A k \in DOMAIN candles' : candles'[k] # <<>>
  BY <1>3 DEF PublicationInv
<1>5. FirstRevisionComesFirst'
  BY <1>1, <1>2, PublishKeepsFirst DEF PublicationInv
<1>6. /\ key[1] \in Streams /\ key[2] \in Int /\ key = <<key[1], key[2]>>
      /\ lastFinalizedOpen'[key[1]] = key[2]
      /\ \A s \in Streams \ {key[1]} :
             lastFinalizedOpen'[s] = lastFinalizedOpen[s] /\ lastClose'[s] = lastClose[s]
      /\ candle.status = "incomplete" \/ lastClose'[key[1]] = candle.close
  BY <1>1 DEF MoveFrontier, Key, TypeOK
<1>7. FrontierIsPublished'
  BY <1>3, <1>6, NoneAssumption DEF PublicationInv, FrontierIsPublished
<1>8. ASSUME NEW s \in Streams, lastClose'[s] # None
      PROVE  LET frontier == Last(Published(<<s, lastFinalizedOpen[s]>>))'
             IN  frontier.status = "incomplete" \/ frontier.close = lastClose'[s]
  <2>1. CASE s = key[1]
    <3>1. Published(<<s, lastFinalizedOpen[s]>>)' = candles'[key]
      BY <1>3, <1>6, <2>1 DEF Published
    <3> QED BY <1>3, <1>6, <2>1, <3>1
  <2>2. CASE s # key[1]
    <3>1. <<s, lastFinalizedOpen[s]>> \in DOMAIN candles
      BY <1>6, <1>8, <2>2 DEF PublicationInv, FrontierIsPublished
    <3>2. Published(<<s, lastFinalizedOpen[s]>>)' = Published(<<s, lastFinalizedOpen[s]>>)
      BY <1>3, <1>6, <2>2, <3>1 DEF Published
    <3> QED BY <1>6, <1>8, <2>2, <3>2 DEF PublicationInv, CarriedPriceIsFrontierClose
  <2> QED BY <2>1, <2>2
<1> QED BY <1>4, <1>5, <1>7, <1>8 DEF CarriedPriceIsFrontierClose

(* So does closing a second in finalize_due, *)
LEMMA CloseSecondPublication ==
    ASSUME TypeOK, FrontierInv, PublicationInv, NEW key, IterateOn(key),
           NEW state \in State, state.revision >= 1, CloseSecond(key, state)
    PROVE  PublicationInv'
<1> DEFINE status == IF HasGap(key) THEN "incomplete" ELSE ResolvedStatus(state)
           candle == Finalize(state, status)
<1>1. status \in Status
  BY DEF ResolvedStatus, Status
<1>2. candle \in Candle /\ candle.status = status /\ candle.close = state.close
  BY <1>1, FinalizeType DEF Finalize
<1>3. /\ Publish(key, candle) /\ Publish(key, Finalize(state, status))
      /\ RememberFinalized(key, state) /\ MoveFrontier(key)
      /\ lastClose' = IF status = "incomplete" THEN lastClose
                      ELSE [lastClose EXCEPT ![key[1]] = state.close]
  BY DEF CloseSecond
<1>4. key \in Key
  BY IterateType
<1> HIDE DEF status, candle
<1>5. /\ \A k \in DOMAIN candles' : candles'[k] # <<>>
      /\ FirstRevisionComesFirst'
      /\ FrontierIsPublished'
      /\ CarriedPriceIsFrontierClose'
  BY <1>2, <1>3, ClosedPublication
<1>6. CacheIsPublished'
  BY <1>1, <1>3, <1>4, RememberKeepsCache DEF PublicationInv
<1>7. RevisionsArePositive'
  <2>1. \A k \in DOMAIN open' : open'[k].revision >= 1
    BY IterateType DEF PublicationInv, RevisionsArePositive
  <2>2. /\ DOMAIN finalized' \subseteq DOMAIN finalized \cup {key}
        /\ \A k \in DOMAIN finalized' :
               finalized'[k] = IF k = key THEN state ELSE finalized[k]
    BY <1>3, <1>4, RememberType
  <2> QED BY <2>1, <2>2 DEF PublicationInv, RevisionsArePositive
<1> QED BY <1>5, <1>6, <1>7 DEF PublicationInv

(* and each way finalize_due handles a second, *)
LEMMA FinalizeSecondPublication ==
    ASSUME TypeOK, FrontierInv, PublicationInv, NEW key, FinalizeSecond(key)
    PROVE  PublicationInv'
<1>1. CASE FinalizeGapSecond(key)
  <2>1. /\ IterateOn(key) /\ Publish(key, IncompleteCandle) /\ MoveFrontier(key)
        /\ finalized' = finalized /\ lastClose' = lastClose
    BY <1>1 DEF FinalizeGapSecond
  <2>2. IncompleteCandle.status = "incomplete"
    BY DEF IncompleteCandle
  <2>3. /\ \A k \in DOMAIN candles' : candles'[k] # <<>>
        /\ FirstRevisionComesFirst'
        /\ FrontierIsPublished'
        /\ CarriedPriceIsFrontierClose'
    BY <2>1, <2>2, IncompleteCandleType, ClosedPublication
  <2>4. RevisionsArePositive'
    BY <2>1, IterateType DEF PublicationInv, RevisionsArePositive
  <2>5. CacheIsPublished'
    <3>1. key \in Key /\ key \notin DOMAIN candles
      BY <2>1, IterateType DEF IterateOn, FrontierInv, CursorPrecedesOpen,
                               FrontierSeparates, IsClosed
    <3>2. \A k \in DOMAIN candles : k \in DOMAIN candles' /\ candles'[k] = candles[k]
      BY <2>1, <3>1, PublishEffect, IncompleteCandleType
    <3> QED BY <2>1, <3>2 DEF PublicationInv, CacheIsPublished
  <2> QED BY <2>3, <2>4, <2>5 DEF PublicationInv
<1>2. CASE SkipSecond(key)
  <2>1. UNCHANGED <<finalized, lastFinalizedOpen, lastClose, candles>>
        /\ RevisionsArePositive'
    BY <1>2, IterateType DEF SkipSecond, PublicationInv, RevisionsArePositive
  <2> QED BY <2>1 DEF PublicationInv, FrontierIsPublished, FirstRevisionComesFirst,
              CacheIsPublished, CarriedPriceIsFrontierClose, Published
<1>3. CASE FinalizeTradedSecond(key)
  BY <1>3, CloseSecondPublication
     DEF FinalizeTradedSecond, TypeOK, PublicationInv, RevisionsArePositive
<1>4. CASE FinalizeEmptySecond(key)
  <2>1. IterateOn(key) /\ key \in Key
    BY <1>4, IterateType DEF FinalizeEmptySecond
  <2>2. lastClose[key[1]] \in Nat
    BY <1>4, <2>1 DEF FinalizeEmptySecond, Key, Price, TypeOK
  <2>3. /\ EmptyState(key[2], lastClose[key[1]]) \in State
        /\ EmptyState(key[2], lastClose[key[1]]).revision >= 1
    BY <2>1, <2>2, EmptyStateType DEF Key, EmptyState
  <2> QED BY <1>4, <2>1, <2>3, CloseSecondPublication DEF FinalizeEmptySecond
<1> QED BY <1>1, <1>2, <1>3, <1>4 DEF FinalizeSecond

(* and a step that touches none of the four, *)
LEMMA IdlePublication ==
    ASSUME PublicationInv,
           UNCHANGED <<open, finalized, lastFinalizedOpen, lastClose, candles>>
    PROVE  PublicationInv'
    BY DEF PublicationInv, RevisionsArePositive, FrontierIsPublished,
           FirstRevisionComesFirst, CacheIsPublished,
           CarriedPriceIsFrontierClose, Published

(* and mark_gap, which drops the carried price. *)
LEMMA MarkGapPublication ==
    ASSUME TypeOK, PublicationInv, NEW s \in Streams, NEW start \in Disconnects,
           MarkGap(s, start)
    PROVE  PublicationInv'
<1>1. /\ UNCHANGED <<open, finalized, lastFinalizedOpen, candles>>
      /\ \A t \in Streams : lastClose'[t] # None => lastClose'[t] = lastClose[t]
  BY DEF MarkGap, RecordGap, TypeOK
<1> QED BY <1>1 DEF PublicationInv, RevisionsArePositive, FrontierIsPublished,
           FirstRevisionComesFirst, CacheIsPublished,
           CarriedPriceIsFrontierClose, Published

(* Every step keeps the publication invariant. *)
LEMMA NextPublication ==
    TypeOK /\ FrontierInv /\ PublicationInv /\ [Next]_vars => PublicationInv'
<1> SUFFICES ASSUME TypeOK, FrontierInv, PublicationInv, [Next]_vars
             PROVE  PublicationInv'
  OBVIOUS
<1>1. CASE Tick \/ UNCHANGED vars
  BY <1>1, IdlePublication DEF Tick, vars, aggregator
<1>2. ASSUME NEW active \in SUBSET Streams, FinalizeDue(active)
      PROVE  PublicationInv'
  BY <1>2, IdlePublication DEF FinalizeDue, aggregator
<1>3. ASSUME NEW s \in Streams, BeginStream(s) \/ PassOverStream(s)
      PROVE  PublicationInv'
  BY <1>3, IdlePublication DEF BeginStream, PassOverStream, aggregator
<1>4. CASE EndStream \/ EndPass
  BY <1>4, IdlePublication DEF EndStream, EndPass, aggregator
<1> QED BY <1>1, <1>2, <1>3, <1>4, AddTradePublication, MarkGapPublication,
           FinalizeSecondPublication DEF Next, PassStep

(* A new aggregator satisfies the publication invariant. *)
LEMMA InitPublication == Init => PublicationInv
    BY DEF Init, PublicationInv, RevisionsArePositive, FrontierIsPublished,
           FirstRevisionComesFirst, CacheIsPublished, CarriedPriceIsFrontierClose

(* The finalized cache and the carried close of add_trade and finalize_due always
   agree with the candles they have returned. *)
THEOREM PublicationInvariant == Spec => []PublicationInv
    BY TypeCorrect, FrontierInvariant, InitPublication, NextPublication, PTL DEF Spec

(***************************************************************************)
(* Revision 1 of a second is only ever its first candle.                   *)
(***************************************************************************)
THEOREM FirstRevisionAlwaysComesFirst == Spec => []FirstRevisionComesFirst
<1>1. PublicationInv => FirstRevisionComesFirst
  BY DEF PublicationInv
<1> QED BY <1>1, PublicationInvariant, PTL

(***************************************************************************)
(* A cached second is always the last candle published for it.             *)
(***************************************************************************)
THEOREM CacheIsAlwaysPublished == Spec => []CacheIsPublished
<1>1. PublicationInv => CacheIsPublished
  BY DEF PublicationInv
<1> QED BY <1>1, PublicationInvariant, PTL

(***************************************************************************)
(* The carried price is the last published close of the frontier second,   *)
(* unless that second was incomplete.                                      *)
(***************************************************************************)
THEOREM CarriedPriceIsAlwaysFrontierClose == Spec => []CarriedPriceIsFrontierClose
<1>1. PublicationInv => CarriedPriceIsFrontierClose
  BY DEF PublicationInv
<1> QED BY <1>1, PublicationInvariant, PTL

-----------------------------------------------------------------------------
(* Revisions of a cached second *)

NextRevision(key) == Last(candles'[key]).revision = Last(candles[key]).revision + 1

(* Revising a cached second (add_trade) publishes the revision after the last. *)
LEMMA ReviseIncrements ==
    ASSUME TypeOK, PublicationInv, NEW trade \in Trades, ReviseCachedSecond(trade),
           NEW key \in DOMAIN finalized, candles'[key] # candles[key]
    PROVE  NextRevision(key)
<1> DEFINE k == KeyOf(trade)
           applied == Apply(finalized[k], trade)
           revised == [applied EXCEPT !.revision = @ + 1]
           candle == Finalize(revised, "recovered")
<1>1. k \in Key /\ finalized[k] \in State
  BY KeyOfType DEF ReviseCachedSecond, TypeOK
<1>2. applied \in State /\ applied.revision = finalized[k].revision
  BY <1>1, ApplyType, ApplyRevision
<1>3. revised \in State /\ revised.revision = finalized[k].revision + 1
  BY <1>2 DEF State
<1>4. candle \in Candle
  BY <1>3, FinalizeType DEF Status
<1>5. candle.revision = finalized[k].revision + 1
  BY <1>3 DEF Finalize
<1>6. Publish(k, candle) /\ k \in DOMAIN finalized
  BY DEF ReviseCachedSecond
<1> HIDE DEF candle, k
<1>7. /\ key \in DOMAIN candles
      /\ Last(candles[key]) = Finalize(finalized[key], Last(candles[key]).status)
  BY DEF PublicationInv, CacheIsPublished
<1>8. key = k /\ Last(candles'[key]) = candle
  BY <1>1, <1>4, <1>6, <1>7, PublishEffect
<1>9. Last(candles[key]).revision = finalized[key].revision
  BY <1>7 DEF Finalize
<1> QED BY <1>5, <1>8, <1>9 DEF NextRevision

(* Whatever step publishes a candle of a cached second, it is the next revision. *)
LEMMA NextRevises ==
    ASSUME TypeOK, FrontierInv, PublicationInv, [Next]_vars,
           NEW key \in DOMAIN finalized, candles'[key] # candles[key]
    PROVE  NextRevision(key)
<1>1. ASSUME NEW other, NEW candle, Publish(other, candle) PROVE key = other
  <2>1. key \in DOMAIN candles
    BY DEF PublicationInv, CacheIsPublished
  <2> QED BY <1>1, <2>1 DEF Publish, With
<1>2. ASSUME NEW trade \in Trades, AddTrade(trade) PROVE NextRevision(key)
  <2>1. CASE AddDuplicateTrade(trade)
    BY <2>1 DEF AddDuplicateTrade
  <2>2. CASE ReviseCachedSecond(trade)
    BY <2>2, ReviseIncrements
  <2>3. CASE RecoverUncachedSecond(trade)
    BY <1>1, <2>3 DEF RecoverUncachedSecond
  <2>4. CASE AccumulateOpenSecond(trade)
    BY <2>4 DEF AccumulateOpenSecond
  <2> QED BY <1>2, <2>1, <2>2, <2>3, <2>4 DEF AddTrade
<1>3. ASSUME NEW other, FinalizeSecond(other) PROVE FALSE
  <2>1. UNCHANGED candles \/ \E candle : Publish(other, candle)
    BY <1>3 DEF FinalizeSecond, FinalizeGapSecond, SkipSecond,
                FinalizeTradedSecond, FinalizeEmptySecond, CloseSecond
  <2>2. IterateOn(other)
    BY <1>3 DEF FinalizeSecond, FinalizeGapSecond, SkipSecond,
                FinalizeTradedSecond, FinalizeEmptySecond
  <2>3. other \notin DOMAIN finalized
    BY <2>2 DEF IterateOn, FrontierInv, CursorPrecedesOpen, FrontierSeparates, IsClosed
  <2> QED BY <1>1, <2>1, <2>3
<1>4. CASE Tick \/ UNCHANGED vars
  BY <1>4 DEF Tick, vars
<1>5. ASSUME NEW s \in Streams, NEW start \in Disconnects, MarkGap(s, start)
      PROVE  FALSE
  BY <1>5 DEF MarkGap, RecordGap
<1>6. ASSUME NEW active \in SUBSET Streams, FinalizeDue(active) PROVE FALSE
  BY <1>6 DEF FinalizeDue
<1>7. ASSUME NEW s \in Streams, BeginStream(s) \/ PassOverStream(s) PROVE FALSE
  BY <1>7 DEF BeginStream, PassOverStream
<1>8. CASE EndStream \/ EndPass
  BY <1>8 DEF EndStream, EndPass
<1> QED BY <1>2, <1>3, <1>4, <1>5, <1>6, <1>7, <1>8 DEF Next, PassStep

(***************************************************************************)
(* Whatever is evicted meanwhile, a late trade for a cached second         *)
(* publishes its next revision, and nothing else republishes it.           *)
(***************************************************************************)
THEOREM CachedRevisionsAlwaysIncrease == Spec => CachedRevisionsIncrease
<1>1. TypeOK /\ FrontierInv /\ PublicationInv /\ [Next]_vars
      => [\A key \in DOMAIN finalized :
              candles'[key] # candles[key]
              => Last(candles'[key]).revision = Last(candles[key]).revision + 1]_vars
  BY NextRevises DEF NextRevision
<1> QED BY <1>1, TypeCorrect, FrontierInvariant, PublicationInvariant, PTL
        DEF Spec, CachedRevisionsIncrease

-----------------------------------------------------------------------------
(* Late trades *)

(* finalize_due never moves the frontier past the watermark. *)
LEMMA NextBehindWatermark ==
    TypeOK /\ FrontierIsBehindWatermark /\ [Next]_vars => FrontierIsBehindWatermark'
<1> SUFFICES ASSUME TypeOK, FrontierIsBehindWatermark, [Next]_vars
             PROVE  FrontierIsBehindWatermark'
  OBVIOUS
<1>1. ASSUME UNCHANGED lastFinalizedOpen, now' = now \/ now' = now + 1
      PROVE  FrontierIsBehindWatermark'
  BY <1>1, ParameterAssumption DEF FrontierIsBehindWatermark, TypeOK
<1>2. ASSUME NEW key, FinalizeSecond(key) PROVE FrontierIsBehindWatermark'
  <2>1. IterateOn(key) /\ now' = now
        /\ (lastFinalizedOpen' = lastFinalizedOpen \/ MoveFrontier(key))
    BY <1>2 DEF FinalizeSecond, FinalizeGapSecond, SkipSecond, inputs,
                FinalizeTradedSecond, FinalizeEmptySecond, CloseSecond
  <2>2. CASE lastFinalizedOpen' = lastFinalizedOpen
    BY <1>1, <2>1, <2>2
  <2>3. CASE MoveFrontier(key)
    <3>1. key \in Key /\ key[1] \in Streams /\ key[2] \in Int /\ key[2] <= LastDueOpen
      <4>1. key \in Key /\ key = <<pass.stream, pass.at>>
        BY <2>1, IterateType
      <4>2. pass.at <= LastDueOpen
        BY <2>1 DEF IterateOn
      <4> QED BY <4>1, <4>2 DEF Key
    <3>2. now - AllowedLatenessMs - 1 \in Int
      BY ParameterAssumption DEF TypeOK
    <3>3. LastDueOpen \in Int /\ LastDueOpen <= now - AllowedLatenessMs - 1
      BY <3>2, OpenTimeAligned, LastDueType DEF LastDueOpen
    <3>4. key[2] + AllowedLatenessMs < now
      BY <3>1, <3>3, ParameterAssumption DEF TypeOK
    <3>5. \A s \in Streams :
              lastFinalizedOpen'[s] = IF s = key[1] THEN key[2] ELSE lastFinalizedOpen[s]
      BY <2>3 DEF MoveFrontier, TypeOK
    <3> QED BY <2>1, <3>4, <3>5 DEF FrontierIsBehindWatermark
  <2> QED BY <2>1, <2>2, <2>3
<1>3. CASE Tick
  BY <1>1, <1>3 DEF Tick, aggregator
<1>4. CASE UNCHANGED vars
  BY <1>1, <1>4 DEF vars, inputs, aggregator
<1>5. ASSUME NEW trade \in Trades, AddTrade(trade) PROVE FrontierIsBehindWatermark'
  <2>1. UNCHANGED <<now, lastFinalizedOpen>>
    BY <1>5 DEF AddTrade, AddDuplicateTrade, ReviseCachedSecond, RecoverUncachedSecond,
                AccumulateOpenSecond, DeliverFresh, Deliver, aggregator
  <2> QED BY <1>1, <2>1
<1>6. ASSUME NEW s \in Streams, NEW start \in Disconnects, MarkGap(s, start)
      PROVE  FrontierIsBehindWatermark'
  BY <1>1, <1>6 DEF MarkGap, RecordGap, inputs
<1>7. ASSUME NEW active \in SUBSET Streams, FinalizeDue(active)
      PROVE  FrontierIsBehindWatermark'
  BY <1>1, <1>7 DEF FinalizeDue, inputs, aggregator
<1>8. ASSUME NEW s \in Streams, BeginStream(s) \/ PassOverStream(s)
      PROVE  FrontierIsBehindWatermark'
  BY <1>1, <1>8 DEF BeginStream, PassOverStream, inputs, aggregator
<1>9. CASE EndStream \/ EndPass
  BY <1>1, <1>9 DEF EndStream, EndPass, inputs, aggregator
<1> QED BY <1>2, <1>3, <1>4, <1>5, <1>6, <1>7, <1>8, <1>9 DEF Next, PassStep

(* finalize_due never moves a frontier past the watermark of the clock. *)
LEMMA BehindWatermark == Spec => []FrontierIsBehindWatermark
<1>1. Init => FrontierIsBehindWatermark
  BY DEF Init, FrontierIsBehindWatermark
<1> QED BY <1>1, NextBehindWatermark, TypeCorrect, PTL DEF Spec

(* A trade that arrives before its second is due (add_trade) revises nothing. *)
LEMMA PromptIsNotLate ==
    ASSUME TypeOK, FrontierInv, FrontierIsBehindWatermark, [Next]_vars,
           NEW trade \in Trades, deliveries'[trade] > deliveries[trade],
           now <= candle_open_time(trade.time) + AllowedLatenessMs
    PROVE  UNCHANGED candles
<1>1. ASSUME UNCHANGED deliveries PROVE FALSE
  BY <1>1 DEF TypeOK
<1>2. ASSUME NEW other \in Trades, AddTrade(other) PROVE UNCHANGED candles
  <2>1. Deliver(other)
    BY <1>2 DEF AddTrade, AddDuplicateTrade, ReviseCachedSecond,
                RecoverUncachedSecond, AccumulateOpenSecond, DeliverFresh
  <2>2. other = trade
    BY <2>1 DEF Deliver, TypeOK
  <2>3. KeyOf(trade) \in Key /\ KeyOf(trade)[2] = candle_open_time(trade.time)
    BY KeyOfType DEF KeyOf
  <2>4. ~ IsClosed(KeyOf(trade))
    BY <2>3, ParameterAssumption DEF IsClosed, FrontierIsBehindWatermark, TypeOK, Key
  <2>5. KeyOf(trade) \notin DOMAIN finalized
    BY <2>4 DEF FrontierInv, FrontierSeparates
  <2> QED BY <1>2, <2>2, <2>4, <2>5 DEF AddTrade, AddDuplicateTrade,
              ReviseCachedSecond, RecoverUncachedSecond, AccumulateOpenSecond
<1>3. ASSUME NEW key, FinalizeSecond(key) PROVE FALSE
  BY <1>1, <1>3 DEF FinalizeSecond, FinalizeGapSecond, SkipSecond, inputs,
              FinalizeTradedSecond, FinalizeEmptySecond, CloseSecond
<1>4. CASE Tick \/ UNCHANGED vars
  BY <1>1, <1>4 DEF Tick, vars, inputs
<1>5. ASSUME NEW s \in Streams, NEW start \in Disconnects, MarkGap(s, start)
      PROVE  FALSE
  BY <1>1, <1>5 DEF MarkGap, RecordGap, inputs
<1>6. ASSUME NEW active \in SUBSET Streams, FinalizeDue(active) PROVE FALSE
  BY <1>1, <1>6 DEF FinalizeDue, inputs
<1>7. ASSUME NEW s \in Streams, BeginStream(s) \/ PassOverStream(s) PROVE FALSE
  BY <1>1, <1>7 DEF BeginStream, PassOverStream, inputs
<1>8. CASE EndStream \/ EndPass
  BY <1>1, <1>8 DEF EndStream, EndPass, inputs
<1> QED BY <1>2, <1>3, <1>4, <1>5, <1>6, <1>7, <1>8 DEF Next, PassStep

(***************************************************************************)
(* A trade handed over while its whole second lies within the allowed      *)
(* lateness is never late, for every lateness, second length and schedule  *)
(* of the finalizer.                                                       *)
(***************************************************************************)
THEOREM PromptTradesAreNeverLate == Spec => PromptTradesAreNotLate
<1>1. TypeOK /\ FrontierInv /\ FrontierIsBehindWatermark /\ [Next]_vars
      => [\A trade \in Trades :
              (/\ deliveries'[trade] > deliveries[trade]
               /\ now <= candle_open_time(trade.time) + AllowedLatenessMs)
              => UNCHANGED candles]_vars
  BY PromptIsNotLate
<1> QED BY <1>1, TypeCorrect, FrontierInvariant, BehindWatermark, PTL
        DEF Spec, PromptTradesAreNotLate

-----------------------------------------------------------------------------
(* Prices *)

OrderInv == StatesAreOrdered /\ PricesAreOrdered

(* Adding a trade (apply) keeps low <= open, close <= high. *)
LEMMA ApplyOrdered ==
    ASSUME NEW state \in State, Ordered(state), NEW trade \in Trades
    PROVE  Ordered(Apply(state, trade))
<1>1. trade.price \in Nat
  BY TradesAssumption DEF Trade
<1>2. CASE state.count = 0
  BY <1>1, <1>2 DEF Apply, FromTrade, Ordered
<1>3. CASE state.count # 0
  BY <1>1, <1>3 DEF Apply, State, Ordered
<1> QED BY <1>2, <1>3

(* A candle state started by a trade (from_trade) is ordered. *)
LEMMA FromTradeOrdered == \A trade \in Trades : Ordered(FromTrade(trade))
    BY TradesAssumption DEF Trade, FromTrade, Ordered

(* A flat candle state (empty) is ordered. *)
LEMMA EmptyStateOrdered == \A t \in Int, p \in Nat : Ordered(EmptyState(t, p))
    BY DEF EmptyState, Ordered

(* Raising the revision of a state (add_trade) leaves its prices ordered. *)
LEMMA RaisedRevision ==
    ASSUME NEW state \in State, Ordered(state), NEW n \in Nat
    PROVE  /\ [state EXCEPT !.revision = n] \in State
           /\ Ordered([state EXCEPT !.revision = n])
    BY DEF State, Ordered

(* Publishing an ordered candle, or one without prices, keeps all ordered. *)
LEMMA PublishOrdered ==
    ASSUME TypeOK, PricesAreOrdered, NEW key \in Key, NEW candle \in Candle,
           Publish(key, candle), candle # IncompleteCandle => Ordered(candle)
    PROVE  PricesAreOrdered'
<1> SUFFICES ASSUME NEW k \in DOMAIN candles', NEW i \in DOMAIN candles'[k],
                    candles'[k][i] # IncompleteCandle
             PROVE  Ordered(candles'[k][i])
  BY DEF PricesAreOrdered
<1>1. CASE k # key
  <2>1. k \in DOMAIN candles /\ candles'[k] = candles[k]
    BY <1>1, PublishEffect
  <2> QED BY <2>1 DEF PricesAreOrdered
<1>2. CASE k = key
  <2>1. /\ Published(key) \in Seq(Candle)
        /\ candles'[key] = Append(Published(key), candle)
    BY PublishEffect
  <2>2. CASE i = Len(Published(key)) + 1
    BY <1>2, <2>1, <2>2
  <2>3. CASE i # Len(Published(key)) + 1
    <3>1. i \in DOMAIN Published(key) /\ candles'[k][i] = Published(key)[i]
      BY <1>2, <2>1, <2>3
    <3>2. key \in DOMAIN candles /\ Published(key) = candles[key]
      BY <3>1 DEF Published
    <3> QED BY <3>1, <3>2 DEF PricesAreOrdered
  <2> QED BY <2>2, <2>3
<1> QED BY <1>1, <1>2

(***************************************************************************)
(* Caching and publishing a state with ordered prices.                     *)
(***************************************************************************)
LEMMA CandleOrdered ==
    ASSUME TypeOK, OrderInv, NEW key \in Key, NEW state \in State, Ordered(state),
           NEW status \in Status, RememberFinalized(key, state),
           Publish(key, Finalize(state, status)), DOMAIN open' \subseteq DOMAIN open,
           \A k \in DOMAIN open' : open'[k] = open[k]
    PROVE  OrderInv'
<1>1. Finalize(state, status) \in Candle /\ Ordered(Finalize(state, status))
  BY FinalizeType DEF Finalize, Ordered
<1>2. PricesAreOrdered'
  BY <1>1, PublishOrdered DEF OrderInv
<1>3. /\ DOMAIN finalized' \subseteq DOMAIN finalized \cup {key}
      /\ \A k \in DOMAIN finalized' :
             finalized'[k] = IF k = key THEN state ELSE finalized[k]
  BY RememberType
<1>4. StatesAreOrdered'
  BY <1>3 DEF OrderInv, StatesAreOrdered
<1> QED BY <1>2, <1>4 DEF OrderInv

(* add_trade keeps every state and candle ordered. *)
LEMMA AddTradeOrdered ==
    ASSUME TypeOK, OrderInv, NEW trade \in Trades, AddTrade(trade)
    PROVE  OrderInv'
<1> DEFINE key == KeyOf(trade)
<1>1. key \in Key
  BY KeyOfType
<1>2. CASE AddDuplicateTrade(trade)
  BY <1>2 DEF AddDuplicateTrade, aggregator, OrderInv, StatesAreOrdered, PricesAreOrdered
<1>3. CASE ReviseCachedSecond(trade)
  <2> DEFINE applied == Apply(finalized[key], trade)
             revised == [applied EXCEPT !.revision = applied.revision + 1]
  <2>1. finalized[key] \in State /\ Ordered(finalized[key])
    BY <1>3 DEF ReviseCachedSecond, TypeOK, OrderInv, StatesAreOrdered
  <2>2. applied \in State /\ Ordered(applied)
    BY <2>1, ApplyType, ApplyOrdered
  <2>3. applied.revision + 1 \in Nat
    BY <2>2 DEF State
  <2>4. RememberFinalized(key, revised) /\ Publish(key, Finalize(revised, "recovered"))
        /\ open' = open
    BY <1>3 DEF ReviseCachedSecond
  <2> HIDE DEF applied, key
  <2>5. revised \in State /\ Ordered(revised)
    BY <2>2, <2>3, RaisedRevision
  <2> HIDE DEF revised
  <2> QED BY <1>1, <2>4, <2>5, CandleOrdered DEF Status
<1>4. CASE RecoverUncachedSecond(trade)
  <2> DEFINE recovered == [FromTrade(trade) EXCEPT !.revision = 2]
  <2>1. recovered \in State /\ Ordered(recovered)
    BY FromTradeType, FromTradeOrdered, RaisedRevision
  <2>2. RememberFinalized(key, recovered) /\ Publish(key, Finalize(recovered, "recovered"))
        /\ open' = open
    BY <1>4 DEF RecoverUncachedSecond
  <2> HIDE DEF recovered, key
  <2> QED BY <1>1, <2>1, <2>2, CandleOrdered DEF Status
<1>5. CASE AccumulateOpenSecond(trade)
  <2>1. key \in DOMAIN open => Ordered(Apply(open[key], trade))
    BY ApplyOrdered DEF TypeOK, OrderInv, StatesAreOrdered
  <2>2. \A k \in DOMAIN open' : Ordered(open'[k])
    BY <1>5, <2>1, FromTradeOrdered
       DEF AccumulateOpenSecond, With, OrderInv, StatesAreOrdered
  <2> QED BY <1>5, <2>2
          DEF AccumulateOpenSecond, OrderInv, StatesAreOrdered, PricesAreOrdered
<1> QED BY <1>2, <1>3, <1>4, <1>5 DEF AddTrade

(* So does closing a second in finalize_due, *)
LEMMA CloseSecondOrdered ==
    ASSUME TypeOK, OrderInv, NEW key, IterateOn(key), NEW state \in State,
           Ordered(state), CloseSecond(key, state)
    PROVE  OrderInv'
<1>1. PICK status \in Status : /\ Publish(key, Finalize(state, status))
                               /\ RememberFinalized(key, state)
  BY DEF CloseSecond, ResolvedStatus, Status
<1>2. /\ key \in Key
      /\ DOMAIN open' \subseteq DOMAIN open
      /\ \A k \in DOMAIN open' : open'[k] = open[k]
  BY IterateType
<1> QED BY <1>1, <1>2, CandleOrdered

(* and each way finalize_due handles a second. *)
LEMMA FinalizeSecondOrdered ==
    ASSUME TypeOK, OrderInv, NEW key, FinalizeSecond(key)
    PROVE  OrderInv'
<1>1. CASE FinalizeGapSecond(key)
  <2>1. key \in Key /\ Publish(key, IncompleteCandle)
    BY <1>1, IterateType DEF FinalizeGapSecond
  <2>2. PricesAreOrdered'
    BY <2>1, IncompleteCandleType, PublishOrdered DEF OrderInv
  <2>3. StatesAreOrdered'
    BY <1>1, IterateType DEF FinalizeGapSecond, OrderInv, StatesAreOrdered
  <2> QED BY <2>2, <2>3 DEF OrderInv
<1>2. CASE SkipSecond(key)
  BY <1>2, IterateType DEF SkipSecond, OrderInv, StatesAreOrdered, PricesAreOrdered
<1>3. CASE FinalizeTradedSecond(key)
  BY <1>3, CloseSecondOrdered
     DEF FinalizeTradedSecond, TypeOK, OrderInv, StatesAreOrdered
<1>4. CASE FinalizeEmptySecond(key)
  <2>1. IterateOn(key) /\ key \in Key
    BY <1>4, IterateType DEF FinalizeEmptySecond
  <2>2. lastClose[key[1]] \in Nat
    BY <1>4, <2>1 DEF FinalizeEmptySecond, Key, Price, TypeOK
  <2>3. /\ EmptyState(key[2], lastClose[key[1]]) \in State
        /\ Ordered(EmptyState(key[2], lastClose[key[1]]))
    BY <2>1, <2>2, EmptyStateType, EmptyStateOrdered DEF Key
  <2> QED BY <1>4, <2>1, <2>3, CloseSecondOrdered DEF FinalizeEmptySecond
<1> QED BY <1>1, <1>2, <1>3, <1>4 DEF FinalizeSecond

(* Every step keeps every state and candle ordered. *)
LEMMA NextOrdered == TypeOK /\ OrderInv /\ [Next]_vars => OrderInv'
<1> SUFFICES ASSUME TypeOK, OrderInv, [Next]_vars PROVE OrderInv'
  OBVIOUS
<1>1. ASSUME UNCHANGED <<open, finalized, candles>> PROVE OrderInv'
  BY <1>1 DEF OrderInv, StatesAreOrdered, PricesAreOrdered
<1>2. CASE Tick \/ UNCHANGED vars
  BY <1>1, <1>2 DEF Tick, vars, aggregator
<1>3. ASSUME NEW s \in Streams, NEW start \in Disconnects, MarkGap(s, start)
      PROVE  OrderInv'
  BY <1>1, <1>3 DEF MarkGap, RecordGap
<1>4. ASSUME NEW active \in SUBSET Streams, FinalizeDue(active) PROVE OrderInv'
  BY <1>1, <1>4 DEF FinalizeDue, aggregator
<1>5. ASSUME NEW s \in Streams, BeginStream(s) \/ PassOverStream(s) PROVE OrderInv'
  BY <1>1, <1>5 DEF BeginStream, PassOverStream, aggregator
<1>6. CASE EndStream \/ EndPass
  BY <1>1, <1>6 DEF EndStream, EndPass, aggregator
<1> QED BY <1>2, <1>3, <1>4, <1>5, <1>6, AddTradeOrdered, FinalizeSecondOrdered
        DEF Next, PassStep

(***************************************************************************)
(* Every candle with prices has its open and close between low and high,   *)
(* however many trades were applied and in whatever order.                 *)
(***************************************************************************)
THEOREM PricesAreAlwaysOrdered == Spec => []PricesAreOrdered
<1>1. Init => OrderInv
  BY DEF Init, OrderInv, StatesAreOrdered, PricesAreOrdered
<1>2. OrderInv => PricesAreOrdered
  BY DEF OrderInv
<1> QED BY <1>1, <1>2, NextOrdered, TypeCorrect, PTL DEF Spec

-----------------------------------------------------------------------------
(* Volumes *)

Volume(S) == MapThenSumSet(LAMBDA t : t.quantity, S)

(* A nonempty family of subsets of a finite set has a minimal member. *)
LEMMA MinimalMember ==
    ASSUME NEW U, IsFiniteSet(U), NEW B \in SUBSET SUBSET U, B # {}
    PROVE  \E S \in B : \A T \in B : T \subseteq S => T = S
<1>1. \A S \in SUBSET U : IsFiniteSet(S)
  BY FS_Subset
<1>2. B \subseteq FiniteSubsetsOf(U)
  BY <1>1 DEF FiniteSubsetsOf
<1>3. PICK S \in B : \A T \in B : ~ (<<T, S>> \in StrictSubsetOrdering(U))
  BY <1>2, FS_StrictSubsetOrderingWellFounded, WFMin
<1>4. \A T \in B : T \subseteq S => T = S
  BY <1>3 DEF StrictSubsetOrdering
<1> QED BY <1>4

(* The recursive function of MapThenSumSet, on the subsets of V. *)
Pick(S) == CHOOSE t \in S : TRUE

IsSum(f, V) ==
    f = [S \in SUBSET V |-> IF S = {} THEN 0
                            ELSE Pick(S).quantity + f[S \ {Pick(S)}]]

(* The library's sum (MapThenSumSet) is that function's value. *)
LEMMA VolumeDef == \A V : Volume(V) = (CHOOSE f : IsSum(f, V))[V]
    BY DEF Volume, MapThenSumSet, MapThenFoldSet, IsSum, Pick

(* A set with members is picked from. *)
LEMMA PickIsMember == \A S : S # {} => Pick(S) \in S
    BY DEF Pick

(* One step of the recursion. *)
LEMMA SumAt ==
    ASSUME NEW f, NEW V, IsSum(f, V), NEW S \in SUBSET V
    PROVE  f[S] = IF S = {} THEN 0 ELSE Pick(S).quantity + f[S \ {Pick(S)}]
    BY DEF IsSum

(* Two sums agree where both are defined. *)
LEMMA SumsAgree ==
    ASSUME NEW V, NEW W, NEW f, NEW g, IsSum(f, V), IsSum(g, W),
           NEW U, IsFiniteSet(U), U \subseteq V, U \subseteq W
    PROVE  f[U] = g[U]
<1> DEFINE B == {S \in SUBSET U : f[S] # g[S]}
<1> SUFFICES B = {}
  OBVIOUS
<1> SUFFICES ASSUME B # {} PROVE FALSE
  OBVIOUS
<1>1. PICK S \in B : \A T \in B : T \subseteq S => T = S
  <2>1. B \in SUBSET SUBSET U
    OBVIOUS
  <2> HIDE DEF B
  <2> QED BY <2>1, MinimalMember
<1>2. S \in SUBSET V /\ S \in SUBSET W /\ f[S] # g[S]
  BY <1>1
<1>3. S # {}
  <2>1. f[{}] = 0 /\ g[{}] = 0
    BY SumAt
  <2> QED BY <1>2, <2>1
<1>4. Pick(S) \in S
  BY <1>3, PickIsMember
<1>5. f[S \ {Pick(S)}] = g[S \ {Pick(S)}]
  <2>1. S \ {Pick(S)} \notin B
    BY <1>1, <1>4
  <2> QED BY <1>1, <2>1
<1>6. /\ f[S] = Pick(S).quantity + f[S \ {Pick(S)}]
      /\ g[S] = Pick(S).quantity + g[S \ {Pick(S)}]
  BY <1>2, <1>3, SumAt
<1> QED BY <1>2, <1>5, <1>6

(* Every finite set has a sum. *)
LEMMA SumExists ==
    ASSUME NEW U, IsFiniteSet(U)
    PROVE  \E f : IsSum(f, U)
<1> DEFINE B == {V \in SUBSET U : ~ \E f : IsSum(f, V)}
<1> SUFFICES ASSUME B # {} PROVE FALSE
  OBVIOUS
<1>1. PICK V \in B : \A T \in B : T \subseteq V => T = V
  <2>1. B \in SUBSET SUBSET U
    OBVIOUS
  <2> HIDE DEF B
  <2> QED BY <2>1, MinimalMember
<1> DEFINE sum(W) == CHOOSE f : IsSum(f, W)
           Rest(S) == S \ {Pick(S)}
           g == [S \in SUBSET V |-> IF S = {} THEN 0
                                    ELSE Pick(S).quantity + sum(Rest(S))[Rest(S)]]
<1>2. \A W \in SUBSET V : W # V => IsSum(sum(W), W)
  BY <1>1
<1>3. \A S \in SUBSET V : S # {} => Rest(S) \in SUBSET V /\ Rest(S) # V
  BY PickIsMember
<1>4. \A S \in SUBSET V : S # {} => g[Rest(S)] = sum(Rest(S))[Rest(S)]
  <2> SUFFICES ASSUME NEW S \in SUBSET V, S # {}
               PROVE  g[Rest(S)] = sum(Rest(S))[Rest(S)]
    OBVIOUS
  <2> DEFINE R == Rest(S)
  <2>0. R \in SUBSET V /\ R # V /\ R \in SUBSET U
    BY <1>1, <1>3
  <2>1. R \in SUBSET V /\ IsSum(sum(R), R) /\ IsFiniteSet(R)
    <3> HIDE DEF R, sum
    <3> QED BY <1>2, <2>0, FS_Subset
  <2>2. CASE R = {}
    <3>1. sum(R)[R] = 0
      BY <2>1, <2>2, SumAt
    <3>2. g[R] = 0
      BY <2>1, <2>2
    <3> QED BY <3>1, <3>2
  <2>3. CASE R # {}
    <3> DEFINE Q == Rest(R)
    <3>1. Q \in SUBSET V /\ Q \subseteq R /\ IsSum(sum(Q), Q) /\ IsFiniteSet(Q)
      BY <2>1, <2>3, <1>2, <1>3, FS_Subset
    <3>2. sum(R)[R] = Pick(R).quantity + sum(R)[Q]
      BY <2>1, <2>3, SumAt
    <3>3. g[R] = Pick(R).quantity + sum(Q)[Q]
      BY <2>1, <2>3
    <3> HIDE DEF sum, R, Q
    <3>4. sum(R)[Q] = sum(Q)[Q]
      BY <2>1, <3>1, SumsAgree
    <3> QED BY <3>2, <3>3, <3>4 DEF R
  <2> QED BY <2>2, <2>3
<1>5. g = [S \in SUBSET V |-> IF S = {} THEN 0 ELSE Pick(S).quantity + g[Rest(S)]]
  <2> HIDE DEF sum, Rest
  <2> QED BY <1>4
<1>6. IsSum(g, V)
  BY <1>5 DEF IsSum
<1> QED BY <1>1, <1>6

(* The volume of no trades is zero. *)
LEMMA VolumeEmpty == Volume({}) = 0
<1>1. IsFiniteSet({})
  BY FS_EmptySet
<1>2. IsSum(CHOOSE f : IsSum(f, {}), {})
  BY <1>1, SumExists
<1> QED BY <1>2, SumAt, VolumeDef

(* The volume of a set is that of one of its trades and of the others. *)
LEMMA VolumePick ==
    ASSUME NEW S, IsFiniteSet(S), S # {}
    PROVE  Volume(S) = Pick(S).quantity + Volume(S \ {Pick(S)})
<1> DEFINE R == S \ {Pick(S)}
           f == CHOOSE f : IsSum(f, S)
           g == CHOOSE g : IsSum(g, R)
<1>1. IsFiniteSet(R)
  BY FS_Subset
<1>2. IsSum(f, S) /\ IsSum(g, R)
  BY <1>1, SumExists
<1>3. Volume(S) = f[S] /\ Volume(R) = g[R]
  BY VolumeDef
<1> HIDE DEF f, g
<1>4. f[S] = Pick(S).quantity + f[R]
  BY <1>2, SumAt
<1>5. f[R] = g[R]
  <2>1. R \subseteq S
    OBVIOUS
  <2> HIDE DEF R
  <2> QED BY <1>1, <1>2, <2>1, SumsAgree
<1> QED BY <1>3, <1>4, <1>5

(* Volumes are numbers. *)
LEMMA VolumeType ==
    ASSUME NEW U \in SUBSET Trades, IsFiniteSet(U)
    PROVE  Volume(U) \in Nat
<1> DEFINE B == {S \in SUBSET U : Volume(S) \notin Nat}
<1> SUFFICES ASSUME B # {} PROVE FALSE
  OBVIOUS
<1>1. PICK S \in B : \A T \in B : T \subseteq S => T = S
  <2>1. B \in SUBSET SUBSET U
    OBVIOUS
  <2> HIDE DEF B
  <2> QED BY <2>1, MinimalMember
<1>2. IsFiniteSet(S) /\ S # {}
  <2>1. S \in SUBSET U /\ Volume(S) \notin Nat
    BY <1>1
  <2>2. S # {}
    BY <2>1, VolumeEmpty
  <2> QED BY <2>1, <2>2, FS_Subset
<1>3. Pick(S) \in S
  BY <1>2, PickIsMember
<1>4. Volume(S \ {Pick(S)}) \in Nat
  BY <1>1, <1>3
<1>5. Pick(S).quantity \in Nat
  BY <1>1, <1>3, TradesAssumption DEF Trade
<1> QED BY <1>1, <1>2, <1>4, <1>5, VolumePick

(* Any trade may be counted first, since addition does not mind the order. *)
LEMMA VolumeRemove ==
    ASSUME NEW U \in SUBSET Trades, IsFiniteSet(U), NEW t \in U
    PROVE  Volume(U) = t.quantity + Volume(U \ {t})
<1> DEFINE Right(S) == \A u \in S : Volume(S) = u.quantity + Volume(S \ {u})
           B == {S \in SUBSET U : ~ Right(S)}
<1> SUFFICES ASSUME B # {} PROVE FALSE
  OBVIOUS
<1>1. PICK S \in B : \A T \in B : T \subseteq S => T = S
  <2>1. B \in SUBSET SUBSET U
    OBVIOUS
  <2> HIDE DEF B
  <2> QED BY <2>1, MinimalMember
<1>2. PICK u \in S : Volume(S) # u.quantity + Volume(S \ {u})
  BY <1>1
<1> DEFINE p == Pick(S)
<1>3. p \in S /\ IsFiniteSet(S) /\ Volume(S) = p.quantity + Volume(S \ {p})
  BY <1>1, <1>2, PickIsMember, VolumePick, FS_Subset
<1>4. u # p
  BY <1>2, <1>3
<1>5. Right(S \ {p}) /\ Right(S \ {u})
  BY <1>1, <1>2, <1>3
<1> HIDE DEF p
<1>6. Volume(S \ {p}) = u.quantity + Volume((S \ {p}) \ {u})
  BY <1>2, <1>4, <1>5
<1>7. Volume(S \ {u}) = p.quantity + Volume((S \ {u}) \ {p})
  BY <1>3, <1>4, <1>5
<1> DEFINE R == S \ {p, u}
<1>8. (S \ {p}) \ {u} = R /\ (S \ {u}) \ {p} = R
  OBVIOUS
<1>9. /\ p.quantity \in Nat /\ u.quantity \in Nat
      /\ Volume(R) \in Nat
  <2>1. R \in SUBSET Trades /\ IsFiniteSet(R)
    BY <1>1, <1>3, FS_Subset
  <2>2. p \in Trades /\ u \in Trades
    BY <1>1, <1>2, <1>3
  <2> QED BY <2>1, <2>2, VolumeType, TradesAssumption DEF Trade
<1>10. /\ Volume(S \ {p}) = u.quantity + Volume(R)
       /\ Volume(S \ {u}) = p.quantity + Volume(R)
  BY <1>6, <1>7, <1>8
<1> HIDE DEF R
<1>11. Volume(S) = u.quantity + Volume(S \ {u})
  BY <1>3, <1>9, <1>10
<1> QED BY <1>2, <1>11

(* One trade more adds its quantity. *)
LEMMA VolumeAdd ==
    ASSUME NEW S \in SUBSET Trades, IsFiniteSet(S), NEW t \in Trades, t \notin S
    PROVE  Volume(S \cup {t}) = Volume(S) + t.quantity
<1>1. IsFiniteSet(S \cup {t}) /\ S \cup {t} \in SUBSET Trades /\ t \in S \cup {t}
  BY FS_AddElement
<1>2. (S \cup {t}) \ {t} = S
  OBVIOUS
<1>3. Volume(S \cup {t}) = t.quantity + Volume(S)
  BY <1>1, <1>2, VolumeRemove
<1>4. t.quantity \in Nat /\ Volume(S) \in Nat
  BY VolumeType, TradesAssumption DEF Trade
<1> QED BY <1>3, <1>4

-----------------------------------------------------------------------------
(* A state that has applied a set of trades *)

IsFirst(t, S) == \A u \in S \ {t} : Precedes(trade_order(t), trade_order(u))

IsLast(t, S) == \A u \in S \ {t} : Precedes(trade_order(u), trade_order(t))

Tracks(state, S) ==
    /\ state.count = Cardinality(S)
    /\ state.volume = Volume(S)
    /\ S # {} =>
          /\ \E t \in S : IsFirst(t, S) /\ state.first = trade_order(t) /\ state.open = t.price
          /\ \E t \in S : IsLast(t, S) /\ state.last = trade_order(t) /\ state.close = t.price
          /\ (\E t \in S : state.high = t.price) /\ \A t \in S : t.price <= state.high
          /\ (\E t \in S : state.low = t.price) /\ \A t \in S : state.low <= t.price

(* Fields of trades. *)
LEMMA TradeFields ==
    \A t \in Trades : /\ t.stream \in Streams /\ t.id \in Nat /\ t.time \in Nat
                      /\ t.price \in Nat /\ t.quantity \in Nat
                      /\ trade_order(t) \in TradeOrder
    BY TradesAssumption DEF Trade, TradeOrder, trade_order

(* Event-time order (trade_order) is transitive, *)
LEMMA PrecedesTransitive ==
    \A a, b, c \in TradeOrder : Precedes(a, b) /\ Precedes(b, c) => Precedes(a, c)
    BY DEF TradeOrder, Precedes

(* and strict. *)
LEMMA PrecedesIsStrict ==
    \A a, b \in TradeOrder : ~ (Precedes(a, b) /\ Precedes(b, a))
    BY DEF TradeOrder, Precedes

(* What a state tracks does not depend on its revision. *)
LEMMA TracksAnyRevision ==
    ASSUME NEW state \in State, NEW n \in Nat, NEW S, Tracks(state, S)
    PROVE  Tracks([state EXCEPT !.revision = n], S)
<1> DEFINE other == [state EXCEPT !.revision = n]
<1>1. /\ other.count = state.count /\ other.volume = state.volume
      /\ other.first = state.first /\ other.open = state.open
      /\ other.last = state.last /\ other.close = state.close
      /\ other.high = state.high /\ other.low = state.low
  BY DEF State
<1> HIDE DEF other
<1>2. Tracks(other, S)
  BY <1>1 DEF Tracks
<1> QED BY <1>2 DEF other

(* from_trade tracks its trade. *)
LEMMA FromTradeTracks ==
    ASSUME NEW t \in Trades PROVE Tracks(FromTrade(t), {t})
<1>1. /\ FromTrade(t).count = 1 /\ FromTrade(t).volume = t.quantity
      /\ FromTrade(t).first = trade_order(t) /\ FromTrade(t).open = t.price
      /\ FromTrade(t).last = trade_order(t) /\ FromTrade(t).close = t.price
      /\ FromTrade(t).high = t.price /\ FromTrade(t).low = t.price
  BY DEF FromTrade
<1>2. Cardinality({t}) = 1
  BY FS_Singleton
<1>3. Volume({t}) = t.quantity
  <2>1. IsFiniteSet({}) /\ {} \cup {t} = {t}
    BY FS_EmptySet
  <2>2. Volume({} \cup {t}) = Volume({}) + t.quantity
    BY <2>1, VolumeAdd
  <2> QED BY <2>1, <2>2, VolumeEmpty, TradeFields
<1>4. IsFirst(t, {t}) /\ IsLast(t, {t})
  BY DEF IsFirst, IsLast
<1>5. t.price \in Nat
  BY TradeFields
<1> QED BY <1>1, <1>2, <1>3, <1>4, <1>5 DEF Tracks

(* empty tracks no trades. *)
LEMMA EmptyStateTracks ==
    ASSUME NEW time, NEW price PROVE Tracks(EmptyState(time, price), {})
<1>1. EmptyState(time, price).count = 0 /\ EmptyState(time, price).volume = 0
  BY DEF EmptyState
<1> QED BY <1>1, VolumeEmpty, FS_EmptySet DEF Tracks

(***************************************************************************)
(* apply tracks one trade more, whatever its place in the order of events. *)
(***************************************************************************)
LEMMA ApplyTracks ==
    ASSUME NEW state \in State, NEW S \in SUBSET Trades, IsFiniteSet(S),
           Tracks(state, S), NEW t \in Trades, t \notin S,
           \A u \in S : \/ Precedes(trade_order(t), trade_order(u))
                        \/ Precedes(trade_order(u), trade_order(t))
    PROVE  Tracks(Apply(state, t), S \cup {t})
<1> DEFINE T == S \cup {t}
<1>1. Cardinality(T) = Cardinality(S) + 1 /\ Volume(T) = Volume(S) + t.quantity
  BY FS_AddElement, VolumeAdd
<1>2. CASE S = {}
  <2>1. T = {t} /\ state.count = 0
    BY <1>2, FS_EmptySet DEF Tracks
  <2>2. Apply(state, t) = [FromTrade(t) EXCEPT !.revision = state.revision]
    BY <2>1 DEF Apply
  <2>3. FromTrade(t) \in State /\ state.revision \in Nat
    BY TradeFields DEF State, FromTrade
  <2> QED BY <2>1, <2>2, <2>3, FromTradeTracks, TracksAnyRevision
<1>3. CASE S # {}
  <2> DEFINE order  == trade_order(t)
             opens  == Precedes(order, state.first)
             closes == Precedes(state.last, order)
             applied == Apply(state, t)
  <2>1. state.count # 0
    BY <1>3, FS_EmptySet DEF Tracks
  <2>2. /\ applied.open = IF opens THEN t.price ELSE state.open
        /\ applied.first = IF opens THEN order ELSE state.first
        /\ applied.close = IF closes THEN t.price ELSE state.close
        /\ applied.last = IF closes THEN order ELSE state.last
        /\ applied.high = IF t.price > state.high THEN t.price ELSE state.high
        /\ applied.low = IF t.price < state.low THEN t.price ELSE state.low
        /\ applied.volume = state.volume + t.quantity
        /\ applied.count = state.count + 1
    BY <2>1 DEF Apply
  <2>3. order \in TradeOrder /\ \A u \in S : trade_order(u) \in TradeOrder
    BY TradeFields
  <2> HIDE DEF applied, order
  <2>4. \E u \in T : IsFirst(u, T) /\ applied.first = trade_order(u) /\ applied.open = u.price
    <3>1. PICK f \in S : IsFirst(f, S) /\ state.first = trade_order(f) /\ state.open = f.price
      BY <1>3 DEF Tracks
    <3>2. CASE opens
      <4>1. \A u \in S : Precedes(order, trade_order(u))
        BY <2>3, <3>1, <3>2, PrecedesTransitive DEF IsFirst
      <4>2. IsFirst(t, T)
        BY <4>1 DEF IsFirst, order
      <4> QED BY <2>2, <3>2, <4>2 DEF order
    <3>3. CASE ~ opens
      <4>1. Precedes(trade_order(f), order)
        BY <3>1, <3>3 DEF order
      <4>2. IsFirst(f, T)
        BY <3>1, <4>1 DEF IsFirst, order
      <4> QED BY <2>2, <3>1, <3>3, <4>2
    <3> QED BY <3>2, <3>3
  <2>5. \E u \in T : IsLast(u, T) /\ applied.last = trade_order(u) /\ applied.close = u.price
    <3>1. PICK l \in S : IsLast(l, S) /\ state.last = trade_order(l) /\ state.close = l.price
      BY <1>3 DEF Tracks
    <3>2. CASE closes
      <4>1. \A u \in S : Precedes(trade_order(u), order)
        BY <2>3, <3>1, <3>2, PrecedesTransitive DEF IsLast
      <4>2. IsLast(t, T)
        BY <4>1 DEF IsLast, order
      <4> QED BY <2>2, <3>2, <4>2 DEF order
    <3>3. CASE ~ closes
      <4>1. Precedes(order, trade_order(l))
        BY <3>1, <3>3 DEF order
      <4>2. IsLast(l, T)
        BY <3>1, <4>1 DEF IsLast, order
      <4> QED BY <2>2, <3>1, <3>3, <4>2
    <3> QED BY <3>2, <3>3
  <2>6. t.price \in Nat /\ state.high \in Nat /\ state.low \in Nat /\ \A u \in S : u.price \in Nat
    BY TradeFields DEF State
  <2>7. (\E u \in T : applied.high = u.price) /\ \A u \in T : u.price <= applied.high
    BY <1>3, <2>2, <2>6 DEF Tracks
  <2>8. (\E u \in T : applied.low = u.price) /\ \A u \in T : applied.low <= u.price
    BY <1>3, <2>2, <2>6 DEF Tracks
  <2>9. applied.count = Cardinality(T) /\ applied.volume = Volume(T)
    BY <1>1, <2>2 DEF Tracks
  <2>10. Tracks(applied, T)
    <3> HIDE DEF T
    <3> QED BY <2>4, <2>5, <2>7, <2>8, <2>9 DEF Tracks
  <2> QED BY <2>10 DEF applied
<1> QED BY <1>2, <1>3

(* A candle that tracks a set of trades summarises it. *)
LEMMA TracksSummarises ==
    ASSUME NEW state \in State, NEW S \in SUBSET Trades, Tracks(state, S)
    PROVE  Summarises(state, S)
<1>1. state.count = Cardinality(S) /\ state.volume = Volume(S)
  BY DEF Tracks
<1>2. ASSUME S # {}
      PROVE  /\ state.open = Earliest(S).price /\ state.close = Latest(S).price
             /\ state.high = Max({t.price : t \in S}) /\ state.low = Min({t.price : t \in S})
  <2>1. PICK f \in S : IsFirst(f, S) /\ state.open = f.price
    BY <1>2 DEF Tracks
  <2>2. Earliest(S) = f
    <3>1. Earliest(S) \in S /\ IsFirst(Earliest(S), S)
      BY <2>1 DEF Earliest, IsFirst
    <3> QED BY <2>1, <3>1, TradeFields, PrecedesIsStrict DEF IsFirst
  <2>3. PICK l \in S : IsLast(l, S) /\ state.close = l.price
    BY <1>2 DEF Tracks
  <2>4. Latest(S) = l
    <3>1. Latest(S) \in S /\ IsLast(Latest(S), S)
      BY <2>3 DEF Latest, IsLast
    <3> QED BY <2>3, <3>1, TradeFields, PrecedesIsStrict DEF IsLast
  <2> DEFINE prices == {t.price : t \in S}
  <2>5. prices \subseteq Nat
    BY TradeFields
  <2>6. state.high \in prices /\ \A p \in prices : p <= state.high
    BY <1>2 DEF Tracks
  <2>7. state.low \in prices /\ \A p \in prices : state.low <= p
    BY <1>2 DEF Tracks
  <2> HIDE DEF prices
  <2>8. state.high = Max(prices)
    <3>1. Max(prices) \in prices /\ \A p \in prices : Max(prices) >= p
      BY <2>5, <2>6 DEF Max
    <3>2. Max(prices) \in Nat /\ state.high \in Nat
      BY <2>5, <2>6, <3>1
    <3>3. Max(prices) >= state.high /\ Max(prices) <= state.high
      BY <2>6, <3>1
    <3> QED BY <3>2, <3>3
  <2>9. state.low = Min(prices)
    <3>1. Min(prices) \in prices /\ \A p \in prices : Min(prices) <= p
      BY <2>5, <2>7 DEF Min
    <3>2. Min(prices) \in Nat /\ state.low \in Nat
      BY <2>5, <2>7, <3>1
    <3>3. Min(prices) <= state.low /\ Min(prices) >= state.low
      BY <2>7, <3>1
    <3> QED BY <3>2, <3>3
  <2> QED BY <2>1, <2>2, <2>3, <2>4, <2>8, <2>9 DEF prices
<1> QED BY <1>1, <1>2 DEF Summarises, Volume

-----------------------------------------------------------------------------
(* Caches that have not overflowed *)

Distinct(seq) == \A i, j \in DOMAIN seq : seq[i] = seq[j] => i = j

(* A sequence without repetitions is as long as its set is large. *)
LEMMA DistinctLength ==
    ASSUME NEW S, NEW seq \in Seq(S), Distinct(seq)
    PROVE  /\ IsFiniteSet(ToSet(seq))
           /\ Cardinality(ToSet(seq)) = Len(seq)
<1>1. DOMAIN seq = 1..Len(seq) /\ Len(seq) \in Nat
  OBVIOUS
<1>2. seq \in [1..Len(seq) -> ToSet(seq)]
  <2>1. seq = [i \in 1..Len(seq) |-> seq[i]]
    OBVIOUS
  <2> QED BY <1>1, <2>1 DEF ToSet
<1>3. seq \in Bijection(1..Len(seq), ToSet(seq))
  BY <1>1, <1>2 DEF Bijection, Injection, Surjection, IsInjective, ToSet, Distinct
<1>4. IsFiniteSet(1..Len(seq)) /\ Cardinality(1..Len(seq)) = Len(seq)
  BY <1>1, FS_Interval
<1> QED BY <1>3, <1>4, FS_Bijection DEF ExistsBijection

(* Keeping the newest n of a sequence (popitem(last=False) while it is too long). *)
LEMMA NewestEffect ==
    ASSUME NEW S, NEW seq \in Seq(S), Distinct(seq), NEW n \in Nat
    PROVE  /\ Distinct(Newest(seq, n)) /\ ToSet(Newest(seq, n)) \subseteq ToSet(seq)
           /\ Len(seq) <= n => Newest(seq, n) = seq
<1>1. CASE Len(seq) <= n
  BY <1>1 DEF Newest
<1>2. CASE ~ (Len(seq) <= n)
  <2> DEFINE a == Len(seq) - n + 1
             new == SubSeq(seq, a, Len(seq))
  <2>1. /\ Newest(seq, n) = new /\ a \in 1..Len(seq) + 1 /\ Len(seq) \in Nat
    BY <1>2 DEF Newest
  <2>2. /\ DOMAIN new = 1..(Len(seq) - a + 1)
        /\ \A i \in 1..(Len(seq) - a + 1) : new[i] = seq[i + a - 1] /\ i + a - 1 \in DOMAIN seq
    BY <2>1
  <2> HIDE DEF a, new
  <2>3. Distinct(new)
    BY <2>1, <2>2 DEF Distinct
  <2>4. ToSet(new) \subseteq ToSet(seq)
    BY <2>2 DEF ToSet
  <2> QED BY <1>2, <2>1, <2>3, <2>4
<1> QED BY <1>1, <1>2

(* A new element at the end. *)
LEMMA AppendEffect ==
    ASSUME NEW S, NEW seq \in Seq(S), Distinct(seq), NEW e \in S, e \notin ToSet(seq)
    PROVE  /\ Append(seq, e) \in Seq(S) /\ Distinct(Append(seq, e))
           /\ ToSet(Append(seq, e)) = ToSet(seq) \cup {e}
<1> DEFINE new == Append(seq, e)
<1>1. /\ new \in Seq(S) /\ Len(seq) \in Nat
      /\ DOMAIN new = 1..Len(seq) + 1 /\ DOMAIN seq = 1..Len(seq)
      /\ new[Len(seq) + 1] = e /\ \A i \in 1..Len(seq) : new[i] = seq[i]
  OBVIOUS
<1>2. \A i \in 1..Len(seq) : seq[i] # e
  BY <1>1 DEF ToSet
<1> HIDE DEF new
<1>3. Distinct(new)
  BY <1>1, <1>2 DEF Distinct
<1>4. ToSet(new) = ToSet(seq) \cup {e}
  <2>1. \A x \in ToSet(new) : x \in ToSet(seq) \cup {e}
    BY <1>1 DEF ToSet
  <2>2. \A x \in ToSet(seq) : x \in ToSet(new)
    BY <1>1 DEF ToSet
  <2>3. e \in ToSet(new)
    BY <1>1 DEF ToSet
  <2> QED BY <2>1, <2>2, <2>3
<1> QED BY <1>1, <1>3, <1>4 DEF new

(* The elements of a concatenation. *)
LEMMA ConcatAt ==
    ASSUME NEW S, NEW a \in Seq(S), NEW b \in Seq(S)
    PROVE  /\ a \o b \in Seq(S) /\ Len(a \o b) = Len(a) + Len(b)
           /\ DOMAIN (a \o b) = 1..Len(a \o b)
           /\ \A i \in 1..Len(a \o b) :
                  (a \o b)[i] = IF i <= Len(a) THEN a[i] ELSE b[i - Len(a)]
    OBVIOUS

(* Removing an element (pop). *)
LEMMA RemoveEffect ==
    ASSUME NEW S, NEW seq \in Seq(S), Distinct(seq), NEW p \in DOMAIN seq
    PROVE  /\ RemoveAt(seq, p) \in Seq(S) /\ Distinct(RemoveAt(seq, p))
           /\ ToSet(RemoveAt(seq, p)) = ToSet(seq) \ {seq[p]}
<1> DEFINE new == RemoveAt(seq, p)
           n == Len(seq)
           from(i) == IF i < p THEN i ELSE i + 1
<1>1. n \in Nat /\ p \in 1..n /\ DOMAIN seq = 1..n
  OBVIOUS
<1>2. /\ new \in Seq(S) /\ DOMAIN new = 1..n - 1
      /\ \A i \in 1..n - 1 : new[i] = seq[from(i)]
  <2> DEFINE a == SubSeq(seq, 1, p - 1)
             b == SubSeq(seq, p + 1, n)
  <2>1. /\ a \in Seq(S) /\ Len(a) = p - 1 /\ \A i \in 1..p - 1 : a[i] = seq[i]
    BY <1>1
  <2>2. /\ b \in Seq(S) /\ Len(b) = n - p /\ \A i \in 1..n - p : b[i] = seq[i + p]
    BY <1>1
  <2>3. new = a \o b
    BY DEF RemoveAt
  <2> HIDE DEF a, b, new
  <2> HIDE DEF n
  <2>4. /\ new \in Seq(S) /\ Len(new) = Len(a) + Len(b) /\ DOMAIN new = 1..Len(new)
        /\ \A i \in 1..Len(new) : new[i] = IF i <= Len(a) THEN a[i] ELSE b[i - Len(a)]
    BY <2>1, <2>2, <2>3, ConcatAt
  <2>6. Len(new) = n - 1 /\ DOMAIN new = 1..n - 1
    BY <1>1, <2>1, <2>2, <2>4
  <2>5. \A i \in 1..n - 1 : new[i] = seq[from(i)]
    <3> SUFFICES ASSUME NEW i \in 1..n - 1 PROVE new[i] = seq[from(i)]
      OBVIOUS
    <3>1. CASE i < p
      <4>1. i \in 1..p - 1 /\ i <= Len(a) /\ i \in 1..Len(new) /\ from(i) = i
        BY <1>1, <2>1, <2>6, <3>1
      <4> QED BY <2>1, <2>4, <4>1
    <3>2. CASE i >= p
      <4> DEFINE j == i - Len(a)
      <4>1. /\ j \in 1..n - p /\ j + p = i + 1 /\ ~ (i <= Len(a)) /\ i \in 1..Len(new)
            /\ from(i) = i + 1
        BY <1>1, <2>1, <2>6, <3>2
      <4>2. new[i] = b[j]
        BY <2>4, <4>1
      <4> HIDE DEF j
      <4> QED BY <2>2, <4>1, <4>2
    <3> QED BY <1>1, <3>1, <3>2
  <2> QED BY <2>4, <2>5, <2>6
<1>3. /\ \A i \in 1..n - 1 : from(i) \in 1..n /\ from(i) # p
      /\ \A i, j \in 1..n - 1 : from(i) = from(j) => i = j
  BY <1>1
<1>4. \A k \in 1..n : k # p => \E i \in 1..n - 1 : from(i) = k
  <2> SUFFICES ASSUME NEW k \in 1..n, k # p PROVE \E i \in 1..n - 1 : from(i) = k
    OBVIOUS
  <2>1. CASE k < p
    BY <1>1, <2>1
  <2>2. CASE k > p
    <3>1. k - 1 \in 1..n - 1 /\ from(k - 1) = k
      BY <1>1, <2>2
    <3> QED BY <3>1
  <2> QED BY <1>1, <2>1, <2>2
<1> HIDE DEF new, n, from
<1>5. Distinct(new)
  BY <1>1, <1>2, <1>3 DEF Distinct
<1>6. ToSet(new) = ToSet(seq) \ {seq[p]}
  <2>1. \A x \in ToSet(new) : x \in ToSet(seq) \ {seq[p]}
    BY <1>1, <1>2, <1>3 DEF ToSet, Distinct
  <2>2. \A x \in ToSet(seq) \ {seq[p]} : x \in ToSet(new)
    BY <1>1, <1>2, <1>4 DEF ToSet
  <2> QED BY <2>1, <2>2
<1> QED BY <1>2, <1>5, <1>6 DEF new

(* move_to_end of an OrderedDict keeps its keys apart and forgets none. *)
LEMMA MoveToEndEffect ==
    ASSUME NEW S, NEW seq \in Seq(S), Distinct(seq), NEW e \in S
    PROVE  /\ Distinct(MoveToEnd(seq, e))
           /\ ToSet(MoveToEnd(seq, e)) = ToSet(seq) \cup {e}
<1>1. CASE \E i \in DOMAIN seq : seq[i] = e
  <2> DEFINE p == Position(seq, e)
             rest == RemoveAt(seq, p)
  <2>1. p \in DOMAIN seq /\ seq[p] = e
    BY <1>1 DEF Position
  <2> HIDE DEF p
  <2>2. /\ rest \in Seq(S) /\ Distinct(rest) /\ ToSet(rest) = ToSet(seq) \ {e}
    BY <2>1, RemoveEffect
  <2> HIDE DEF rest
  <2>3. Distinct(Append(rest, e)) /\ ToSet(Append(rest, e)) = (ToSet(seq) \ {e}) \cup {e}
    BY <2>2, AppendEffect
  <2>4. MoveToEnd(seq, e) = Append(rest, e)
    BY <1>1 DEF MoveToEnd, rest, p
  <2> QED BY <2>3, <2>4
<1>2. CASE ~ \E i \in DOMAIN seq : seq[i] = e
  <2>1. MoveToEnd(seq, e) = Append(seq, e) /\ e \notin ToSet(seq)
    BY <1>2 DEF MoveToEnd, ToSet
  <2> QED BY <2>1, AppendEffect
<1> QED BY <1>1, <1>2

-----------------------------------------------------------------------------
(* Every revision, while the cache of finalized seconds holds them all *)

CacheHoldsAll == Cardinality(DOMAIN candles) <= FinalizedCacheSize

CacheInv ==
    /\ IsFiniteSet(DOMAIN candles)
    /\ Distinct(finalizedOrder) /\ ToSet(finalizedOrder) = DOMAIN finalized
    /\ CacheHoldsAll =>
          /\ RevisionsIncrease
          /\ \A key \in DOMAIN candles \ DOMAIN finalized : candles[key] = <<IncompleteCandle>>

(* _remember_finalized evicts nothing while the cache holds every second. *)
LEMMA RememberAll ==
    ASSUME TypeOK, CacheIsPublished, CacheInv, NEW key \in Key, NEW state \in State,
           RememberFinalized(key, state), DOMAIN candles' = DOMAIN candles \cup {key}
    PROVE  /\ IsFiniteSet(DOMAIN candles')
           /\ Distinct(finalizedOrder') /\ ToSet(finalizedOrder') = DOMAIN finalized'
           /\ CacheHoldsAll' =>
                 /\ CacheHoldsAll
                 /\ DOMAIN finalized' = DOMAIN finalized \cup {key}
                 /\ \A k \in DOMAIN finalized' :
                        finalized'[k] = IF k = key THEN state ELSE finalized[k]
<1> DEFINE order == MoveToEnd(finalizedOrder, key)
<1>1. /\ IsFiniteSet(DOMAIN candles')
      /\ Cardinality(DOMAIN candles) \in Nat /\ Cardinality(DOMAIN candles') \in Nat
      /\ Cardinality(DOMAIN candles) <= Cardinality(DOMAIN candles')
  <2>1. IsFiniteSet(DOMAIN candles) /\ IsFiniteSet(DOMAIN candles')
    BY FS_AddElement DEF CacheInv
  <2>2. DOMAIN candles \in SUBSET DOMAIN candles'
    OBVIOUS
  <2>3. Cardinality(DOMAIN candles) <= Cardinality(DOMAIN candles')
    BY <2>1, <2>2, FS_Subset
  <2> QED BY <2>1, <2>3, FS_CardinalityType
<1>2. /\ finalizedOrder \in Seq(Key) /\ Distinct(finalizedOrder)
      /\ ToSet(finalizedOrder) = DOMAIN finalized
  BY DEF TypeOK, CacheInv
<1>3. /\ order \in Seq(Key) /\ Distinct(order)
      /\ ToSet(order) = DOMAIN finalized \cup {key}
  BY <1>2, MoveToEndType, MoveToEndEffect
<1>4. /\ finalizedOrder' = Newest(order, FinalizedCacheSize)
      /\ DOMAIN finalized' = (DOMAIN finalized \cup {key}) \cap ToSet(finalizedOrder')
  BY DEF RememberFinalized, Restrict
<1> HIDE DEF order
<1>5. /\ Distinct(finalizedOrder') /\ ToSet(finalizedOrder') \subseteq ToSet(order)
      /\ Len(order) <= FinalizedCacheSize => finalizedOrder' = order
  BY <1>3, <1>4, NewestEffect, ParameterAssumption
<1>6. ASSUME CacheHoldsAll'
      PROVE  /\ CacheHoldsAll
             /\ DOMAIN finalized' = DOMAIN finalized \cup {key}
             /\ \A k \in DOMAIN finalized' :
                    finalized'[k] = IF k = key THEN state ELSE finalized[k]
  <2>1. Cardinality(DOMAIN candles') <= FinalizedCacheSize
    BY <1>6 DEF CacheHoldsAll
  <2>2. CacheHoldsAll
    BY <1>1, <2>1, ParameterAssumption DEF CacheHoldsAll
  <2>3. ToSet(order) \in SUBSET DOMAIN candles'
    BY <1>3 DEF CacheIsPublished
  <2>4. Cardinality(ToSet(order)) <= Cardinality(DOMAIN candles')
    BY <1>1, <2>3, FS_Subset
  <2>5. Cardinality(ToSet(order)) = Len(order) /\ Len(order) \in Nat
    <3>1. order \in Seq(Key) /\ Distinct(order)
      BY <1>3
    <3>2. Cardinality(ToSet(order)) = Len(order)
      BY <3>1, DistinctLength
    <3> QED BY <3>1, <3>2
  <2>6. Len(order) <= FinalizedCacheSize
    BY <1>1, <2>1, <2>4, <2>5, ParameterAssumption
  <2> QED BY <1>3, <1>4, <1>5, <2>2, <2>6, RememberType
<1> QED BY <1>1, <1>3, <1>4, <1>5, <1>6

(* A candle that is newer than the last one of its second keeps revisions increasing. *)
LEMMA PublishIncreases ==
    ASSUME TypeOK, RevisionsIncrease, \A k \in DOMAIN candles : candles[k] # <<>>,
           NEW key \in Key, NEW candle \in Candle, Publish(key, candle),
           key \in DOMAIN candles => candle.revision > Last(candles[key]).revision
    PROVE  RevisionsIncrease'
<1> SUFFICES ASSUME NEW k \in DOMAIN candles', NEW i \in 2..Len(candles'[k])
             PROVE  candles'[k][i].revision > candles'[k][i - 1].revision
  BY DEF RevisionsIncrease
<1>1. CASE k # key
  <2>1. k \in DOMAIN candles /\ candles'[k] = candles[k]
    BY <1>1, PublishEffect
  <2> QED BY <2>1 DEF RevisionsIncrease
<1>2. CASE k = key
  <2> DEFINE old == Published(key)
  <2>1. old \in Seq(Candle) /\ candles'[key] = Append(old, candle)
    BY PublishEffect
  <2> HIDE DEF old
  <2>2. /\ Len(old) \in Nat /\ i \in 2..Len(old) + 1
        /\ \A j \in 1..Len(old) : candles'[key][j] = old[j]
        /\ candles'[key][Len(old) + 1] = candle
    BY <1>2, <2>1
  <2>3. CASE i <= Len(old)
    <3>1. key \in DOMAIN candles /\ old = candles[key]
      BY <2>1, <2>2, <2>3 DEF old, Published
    <3>2. old[i].revision > old[i - 1].revision
      BY <2>2, <2>3, <3>1 DEF RevisionsIncrease
    <3> QED BY <1>2, <2>2, <2>3, <3>2
  <2>4. CASE i = Len(old) + 1
    <3>1. key \in DOMAIN candles /\ old = candles[key]
      BY <2>1, <2>2, <2>4 DEF old, Published
    <3>2. Last(candles[key]) = old[Len(old)]
      BY <3>1 DEF Last
    <3> QED BY <1>2, <2>2, <2>4, <3>1, <3>2
  <2> QED BY <2>2, <2>3, <2>4
<1> QED BY <1>1, <1>2

(* Publishing a candle of a second that is then cached. *)
LEMMA CachedPublication ==
    ASSUME TypeOK, PublicationInv, CacheInv,
           NEW key \in Key, NEW state \in State, NEW status \in Status,
           RememberFinalized(key, state), Publish(key, Finalize(state, status)),
           CacheHoldsAll /\ key \in DOMAIN candles
              => state.revision > Last(candles[key]).revision
    PROVE  CacheInv'
<1> DEFINE candle == Finalize(state, status)
<1>1. candle \in Candle /\ candle.revision = state.revision
  BY FinalizeType DEF Finalize
<1>2. /\ CacheIsPublished /\ \A k \in DOMAIN candles : candles[k] # <<>>
  BY DEF PublicationInv
<1> HIDE DEF candle
<1>3. Publish(key, candle)
  BY DEF candle
<1>4. /\ DOMAIN candles' = DOMAIN candles \cup {key}
      /\ \A k \in DOMAIN candles : k # key => candles'[k] = candles[k]
  BY <1>1, <1>3, PublishEffect
<1>5. /\ IsFiniteSet(DOMAIN candles')
      /\ Distinct(finalizedOrder') /\ ToSet(finalizedOrder') = DOMAIN finalized'
      /\ CacheHoldsAll' => CacheHoldsAll /\ DOMAIN finalized' = DOMAIN finalized \cup {key}
  BY <1>2, <1>4, RememberAll
<1>6. ASSUME CacheHoldsAll' PROVE RevisionsIncrease'
  BY <1>1, <1>2, <1>3, <1>5, <1>6, PublishIncreases DEF CacheInv
<1>7. ASSUME CacheHoldsAll', NEW k \in DOMAIN candles' \ DOMAIN finalized'
      PROVE  candles'[k] = <<IncompleteCandle>>
  BY <1>4, <1>5, <1>7 DEF CacheInv
<1> QED BY <1>5, <1>6, <1>7 DEF CacheInv

(* A step that neither publishes nor caches. *)
LEMMA IdleCache ==
    ASSUME CacheInv, UNCHANGED <<finalized, finalizedOrder, candles>>
    PROVE  CacheInv' /\ (CacheHoldsAll' => CacheHoldsAll)
    BY DEF CacheInv, CacheHoldsAll, RevisionsIncrease

(* add_trade keeps every revision. *)
LEMMA AddTradeCache ==
    ASSUME TypeOK, PublicationInv, CacheInv, NEW trade \in Trades, AddTrade(trade)
    PROVE  CacheInv'
<1> DEFINE key == KeyOf(trade)
<1>1. key \in Key
  BY KeyOfType
<1>2. CASE AddDuplicateTrade(trade)
  BY <1>2, IdleCache DEF AddDuplicateTrade, aggregator
<1>3. CASE ReviseCachedSecond(trade)
  <2> DEFINE applied == Apply(finalized[key], trade)
             revised == [applied EXCEPT !.revision = @ + 1]
  <2>1. key \in DOMAIN finalized /\ finalized[key] \in State
    BY <1>3 DEF ReviseCachedSecond, TypeOK
  <2>2. applied \in State /\ applied.revision = finalized[key].revision
    BY <2>1, ApplyType, ApplyRevision
  <2>3. revised \in State /\ revised.revision = finalized[key].revision + 1
    BY <2>2 DEF State
  <2>4. RememberFinalized(key, revised) /\ Publish(key, Finalize(revised, "recovered"))
    BY <1>3 DEF ReviseCachedSecond
  <2>5. Last(candles[key]).revision = finalized[key].revision
    <3>1. Last(candles[key]) = Finalize(finalized[key], Last(candles[key]).status)
      BY <2>1 DEF PublicationInv, CacheIsPublished
    <3> QED BY <3>1 DEF Finalize
  <2>6. finalized[key].revision \in Nat /\ "recovered" \in Status
    BY <2>1 DEF State, Status
  <2> HIDE DEF revised, key
  <2> QED BY <1>1, <2>3, <2>4, <2>5, <2>6, CachedPublication
<1>4. CASE RecoverUncachedSecond(trade)
  <2> DEFINE recovered == [FromTrade(trade) EXCEPT !.revision = 2]
  <2>1. recovered \in State /\ recovered.revision = 2
    BY FromTradeType DEF State, FromTrade
  <2>2. RememberFinalized(key, recovered) /\ Publish(key, Finalize(recovered, "recovered"))
    BY <1>4 DEF RecoverUncachedSecond
  <2>3. ASSUME CacheHoldsAll, key \in DOMAIN candles
        PROVE  Last(candles[key]).revision = 1
    <3>1. candles[key] = <<IncompleteCandle>>
      BY <1>4, <2>3 DEF RecoverUncachedSecond, CacheInv
    <3> QED BY <3>1 DEF Last, IncompleteCandle
  <2>4. "recovered" \in Status
    BY DEF Status
  <2> HIDE DEF recovered, key
  <2> QED BY <1>1, <2>1, <2>2, <2>3, <2>4, CachedPublication
<1>5. CASE AccumulateOpenSecond(trade)
  BY <1>5, IdleCache DEF AccumulateOpenSecond
<1> QED BY <1>2, <1>3, <1>4, <1>5 DEF AddTrade

(* The second under the cursor of finalize_due was never published. *)
LEMMA CursorIsUnpublished ==
    ASSUME TypeOK, FrontierInv, NEW key, IterateOn(key)
    PROVE  key \in Key /\ key \notin DOMAIN candles \cup DOMAIN finalized
    BY IterateType DEF IterateOn, FrontierInv, CursorPrecedesOpen, FrontierSeparates, IsClosed

(* Closing a second keeps every revision. *)
LEMMA CloseSecondCache ==
    ASSUME TypeOK, FrontierInv, PublicationInv, CacheInv, NEW key, IterateOn(key),
           NEW state \in State, CloseSecond(key, state)
    PROVE  CacheInv'
<1> DEFINE status == IF HasGap(key) THEN "incomplete" ELSE ResolvedStatus(state)
<1>1. status \in Status
  BY DEF ResolvedStatus, Status
<1>2. Publish(key, Finalize(state, status)) /\ RememberFinalized(key, state)
  BY DEF CloseSecond
<1>3. key \in Key /\ key \notin DOMAIN candles
  BY CursorIsUnpublished
<1> HIDE DEF status
<1> QED BY <1>1, <1>2, <1>3, CachedPublication

(* Publishing a gap second keeps every revision. *)
LEMMA GapSecondCache ==
    ASSUME TypeOK, FrontierInv, PublicationInv, CacheInv, NEW key, FinalizeGapSecond(key)
    PROVE  CacheInv' /\ (CacheHoldsAll' => CacheHoldsAll)
<1>1. /\ IterateOn(key) /\ Publish(key, IncompleteCandle)
      /\ UNCHANGED <<finalized, finalizedOrder>>
  BY DEF FinalizeGapSecond
<1>2. key \in Key /\ key \notin DOMAIN candles
  BY <1>1, CursorIsUnpublished
<1>3. /\ DOMAIN candles' = DOMAIN candles \cup {key}
      /\ \A k \in DOMAIN candles : candles'[k] = candles[k]
      /\ candles'[key] = <<IncompleteCandle>>
  <2>1. Published(key) = <<>>
    BY <1>2 DEF Published
  <2>2. /\ DOMAIN candles' = DOMAIN candles \cup {key}
        /\ \A k \in DOMAIN candles : k # key => candles'[k] = candles[k]
        /\ candles'[key] = Append(<<>>, IncompleteCandle)
    BY <1>1, <1>2, <2>1, PublishEffect, IncompleteCandleType
  <2>3. Append(<<>>, IncompleteCandle) = <<IncompleteCandle>>
    OBVIOUS
  <2> QED BY <1>2, <2>2, <2>3
<1>4. /\ IsFiniteSet(DOMAIN candles')
      /\ Cardinality(DOMAIN candles) \in Nat /\ Cardinality(DOMAIN candles') \in Nat
      /\ Cardinality(DOMAIN candles') = Cardinality(DOMAIN candles) + 1
  BY <1>2, <1>3, FS_AddElement, FS_CardinalityType DEF CacheInv
<1>5. CacheHoldsAll' => CacheHoldsAll
  BY <1>4, ParameterAssumption DEF CacheHoldsAll
<1>6. ASSUME CacheHoldsAll' PROVE RevisionsIncrease'
  BY <1>1, <1>2, <1>5, <1>6, IncompleteCandleType, PublishIncreases
     DEF CacheInv, PublicationInv
<1> QED BY <1>1, <1>3, <1>4, <1>5, <1>6 DEF CacheInv

(* Each way finalize_due handles a second keeps every revision, *)
LEMMA FinalizeSecondCache ==
    ASSUME TypeOK, FrontierInv, PublicationInv, CacheInv, NEW key, FinalizeSecond(key)
    PROVE  CacheInv'
<1>1. CASE FinalizeGapSecond(key)
  BY <1>1, GapSecondCache
<1>2. CASE SkipSecond(key)
  BY <1>2, IdleCache DEF SkipSecond
<1>3. CASE FinalizeTradedSecond(key)
  BY <1>3, CloseSecondCache DEF FinalizeTradedSecond, TypeOK
<1>4. CASE FinalizeEmptySecond(key)
  <2>1. IterateOn(key) /\ key \in Key
    BY <1>4, IterateType DEF FinalizeEmptySecond
  <2>2. lastClose[key[1]] \in Nat
    BY <1>4, <2>1 DEF FinalizeEmptySecond, Key, Price, TypeOK
  <2>3. EmptyState(key[2], lastClose[key[1]]) \in State
    BY <2>1, <2>2, EmptyStateType DEF Key
  <2> QED BY <1>4, <2>1, <2>3, CloseSecondCache DEF FinalizeEmptySecond
<1> QED BY <1>1, <1>2, <1>3, <1>4 DEF FinalizeSecond

(* and so does every step. *)
LEMMA NextCache ==
    TypeOK /\ FrontierInv /\ PublicationInv /\ CacheInv /\ [Next]_vars => CacheInv'
<1> SUFFICES ASSUME TypeOK, FrontierInv, PublicationInv, CacheInv, [Next]_vars
             PROVE  CacheInv'
  OBVIOUS
<1>1. CASE Tick \/ UNCHANGED vars
  BY <1>1, IdleCache DEF Tick, vars, aggregator
<1>2. ASSUME NEW active \in SUBSET Streams, FinalizeDue(active)
      PROVE  CacheInv'
  BY <1>2, IdleCache DEF FinalizeDue, aggregator
<1>3. ASSUME NEW s \in Streams, BeginStream(s) \/ PassOverStream(s)
      PROVE  CacheInv'
  BY <1>3, IdleCache DEF BeginStream, PassOverStream, aggregator
<1>4. CASE EndStream \/ EndPass
  BY <1>4, IdleCache DEF EndStream, EndPass, aggregator
<1>5. ASSUME NEW s \in Streams, NEW start \in Disconnects, MarkGap(s, start)
      PROVE  CacheInv'
  BY <1>5, IdleCache DEF MarkGap, RecordGap
<1> QED BY <1>1, <1>2, <1>3, <1>4, <1>5, AddTradeCache, FinalizeSecondCache
        DEF Next, PassStep

(* An empty aggregator caches and publishes nothing. *)
LEMMA InitCache == Init => CacheInv
<1>1. DOMAIN <<>> = {} /\ ToSet(<<>>) = {}
  BY DEF ToSet
<1> QED BY <1>1, FS_EmptySet DEF Init, CacheInv, Distinct, RevisionsIncrease

(* The finalized cache always holds its keys once. *)
LEMMA CacheInvariant == Spec => []CacheInv
    BY TypeCorrect, FrontierInvariant, PublicationInvariant, InitCache, NextCache, PTL
       DEF Spec

(***************************************************************************)
(* While no more seconds were published than the cache holds, the          *)
(* revisions of every second increase, however trades were delayed.        *)
(***************************************************************************)
THEOREM RevisionsAlwaysIncrease == Spec => [](CacheHoldsAll => RevisionsIncrease)
<1>1. CacheInv => (CacheHoldsAll => RevisionsIncrease)
  BY DEF CacheInv
<1> QED BY <1>1, CacheInvariant, PTL

-----------------------------------------------------------------------------
(* Exact candles, while the dedup cache holds all trades as well *)

Delivered == {trade \in Trades : deliveries[trade] > 0}

DedupHoldsAll == Cardinality(Delivered) <= DedupCacheSize

(* An exchange gives each trade of a stream an id of its own, which the duplicate
   test of add_trade relies on. *)
IdsAreUnique == \A t, u \in Trades : DedupKey(t) = DedupKey(u) => t = u

SeenInv ==
    /\ IsFiniteSet(Delivered)
    /\ Distinct(seenTrades)
    /\ DedupHoldsAll => ToSet(seenTrades) = {DedupKey(t) : t \in Delivered}

AllTracked ==
    /\ \A key \in DOMAIN open : Tracks(open[key], DeliveredTo(key))
    /\ \A key \in DOMAIN finalized : Tracks(finalized[key], DeliveredTo(key))
    /\ \A key \in DOMAIN candles \ DOMAIN finalized : DeliveredTo(key) = {}
    /\ \A trade \in Delivered : KeyOf(trade) \in DOMAIN open \cup DOMAIN candles

ExactInv == CacheHoldsAll /\ DedupHoldsAll => AllTracked

(* Handing over a trade adds it to those delivered. *)
LEMMA DeliverEffect ==
    ASSUME TypeOK, SeenInv, NEW trade \in Trades, Deliver(trade)
    PROVE  /\ Delivered' = Delivered \cup {trade}
           /\ IsFiniteSet(Delivered')
           /\ Cardinality(Delivered) \in Nat /\ Cardinality(Delivered') \in Nat
           /\ Cardinality(Delivered') = IF trade \in Delivered THEN Cardinality(Delivered)
                                        ELSE Cardinality(Delivered) + 1
           /\ DedupHoldsAll' => DedupHoldsAll
<1>1. Delivered' = Delivered \cup {trade}
  BY DEF Deliver, Delivered, TypeOK
<1>2. /\ IsFiniteSet(Delivered')
      /\ Cardinality(Delivered') = IF trade \in Delivered THEN Cardinality(Delivered)
                                   ELSE Cardinality(Delivered) + 1
  BY <1>1, FS_AddElement DEF SeenInv
<1>3. Cardinality(Delivered) \in Nat /\ Cardinality(Delivered') \in Nat
  BY <1>2, FS_CardinalityType DEF SeenInv
<1>4. DedupHoldsAll' => DedupHoldsAll
  BY <1>2, <1>3, ParameterAssumption DEF DedupHoldsAll
<1> QED BY <1>1, <1>2, <1>3, <1>4

(* add_trade remembers every trade while the dedup cache holds them all. *)
LEMMA DeliverFreshSeen ==
    ASSUME TypeOK, SeenInv, NEW trade \in Trades, DeliverFresh(trade)
    PROVE  /\ SeenInv'
           /\ DedupHoldsAll' => trade \notin Delivered
<1> DEFINE e == DedupKey(trade)
           keys == {DedupKey(t) : t \in Delivered}
<1>1. /\ Deliver(trade) /\ e \notin ToSet(seenTrades)
      /\ seenTrades' = Newest(Append(seenTrades, e), DedupCacheSize)
  BY DEF DeliverFresh
<1>2. /\ Delivered' = Delivered \cup {trade}
      /\ IsFiniteSet(Delivered')
      /\ Cardinality(Delivered) \in Nat /\ Cardinality(Delivered') \in Nat
      /\ Cardinality(Delivered') = IF trade \in Delivered THEN Cardinality(Delivered)
                                   ELSE Cardinality(Delivered) + 1
      /\ DedupHoldsAll' => DedupHoldsAll
  BY <1>1, DeliverEffect
<1>3. seenTrades \in Seq(Streams \X Nat) /\ Distinct(seenTrades) /\ e \in Streams \X Nat
  BY TradeFields DEF TypeOK, SeenInv, DedupKey
<1> DEFINE new == Append(seenTrades, e)
<1>4. /\ new \in Seq(Streams \X Nat) /\ Distinct(new)
      /\ ToSet(new) = ToSet(seenTrades) \cup {e}
      /\ Len(new) = Len(seenTrades) + 1 /\ Len(seenTrades) \in Nat
  <2> HIDE DEF e
  <2>1. /\ new \in Seq(Streams \X Nat) /\ Distinct(new)
        /\ ToSet(new) = ToSet(seenTrades) \cup {e}
    BY <1>1, <1>3, AppendEffect
  <2>2. Len(new) = Len(seenTrades) + 1 /\ Len(seenTrades) \in Nat
    BY <1>3
  <2> QED BY <2>1, <2>2
<1> HIDE DEF new
<1>5. /\ Distinct(seenTrades')
      /\ Len(new) <= DedupCacheSize => seenTrades' = new
  BY <1>1, <1>4, NewestEffect, ParameterAssumption DEF new
<1>6. ASSUME DedupHoldsAll'
      PROVE  trade \notin Delivered /\ ToSet(seenTrades') = keys \cup {e}
  <2>1. ToSet(seenTrades) = keys
    BY <1>2, <1>6 DEF SeenInv
  <2>2. trade \notin Delivered
    BY <1>1, <2>1
  <2>3. Cardinality(keys) <= Cardinality(Delivered)
    <3> DEFINE f == [t \in Delivered |-> DedupKey(t)]
    <3>1. f \in Surjection(Delivered, keys)
      BY DEF Surjection
    <3>2. IsFiniteSet(Delivered)
      BY DEF SeenInv
    <3> HIDE DEF f, keys
    <3> QED BY <3>1, <3>2, FS_Surjection
  <2>4. Cardinality(keys) = Len(seenTrades)
    BY <1>3, <2>1, DistinctLength
  <2>5. Cardinality(Delivered') <= DedupCacheSize
    BY <1>6 DEF DedupHoldsAll
  <2> HIDE DEF keys
  <2>6. Len(new) <= DedupCacheSize
    BY <1>2, <1>4, <2>2, <2>3, <2>4, <2>5, ParameterAssumption
  <2> QED BY <1>4, <1>5, <2>1, <2>2, <2>6
<1>7. {DedupKey(t) : t \in Delivered'} = keys \cup {e}
  BY <1>2
<1> QED BY <1>2, <1>5, <1>6, <1>7 DEF SeenInv

(* A duplicate changes nothing, not even the set of delivered trades. *)
LEMMA DuplicateSeen ==
    ASSUME TypeOK, SeenInv, NEW trade \in Trades, AddDuplicateTrade(trade)
    PROVE  /\ SeenInv'
           /\ IdsAreUnique /\ DedupHoldsAll' => Delivered' = Delivered
<1>1. /\ Deliver(trade) /\ DedupKey(trade) \in ToSet(seenTrades) /\ seenTrades' = seenTrades
  BY DEF AddDuplicateTrade, aggregator
<1>2. /\ Delivered' = Delivered \cup {trade}
      /\ IsFiniteSet(Delivered')
      /\ DedupHoldsAll' => DedupHoldsAll
  BY <1>1, DeliverEffect
<1>3. DedupHoldsAll' => \E t \in Delivered : DedupKey(t) = DedupKey(trade)
  BY <1>1, <1>2 DEF SeenInv
<1>4. DedupHoldsAll' => ToSet(seenTrades) = {DedupKey(t) : t \in Delivered'}
  BY <1>2, <1>3 DEF SeenInv
<1>5. IdsAreUnique /\ DedupHoldsAll' => trade \in Delivered
  BY <1>3 DEF IdsAreUnique, Delivered
<1> QED BY <1>1, <1>2, <1>4, <1>5 DEF SeenInv

(* Every step keeps the dedup cache right about the delivered trades. *)
LEMMA NextSeen == TypeOK /\ SeenInv /\ [Next]_vars => SeenInv'
<1> SUFFICES ASSUME TypeOK, SeenInv, [Next]_vars PROVE SeenInv'
  OBVIOUS
<1>1. ASSUME UNCHANGED <<deliveries, seenTrades>> PROVE SeenInv'
  BY <1>1 DEF SeenInv, DedupHoldsAll, Delivered
<1>2. ASSUME NEW trade \in Trades, AddTrade(trade) PROVE SeenInv'
  BY <1>2, DuplicateSeen, DeliverFreshSeen
     DEF AddTrade, ReviseCachedSecond, RecoverUncachedSecond, AccumulateOpenSecond
<1>3. ASSUME NEW s \in Streams, NEW start \in Disconnects, MarkGap(s, start)
      PROVE  SeenInv'
  BY <1>1, <1>3 DEF MarkGap, RecordGap, inputs
<1>4. ASSUME NEW active \in SUBSET Streams, FinalizeDue(active)
      PROVE  SeenInv'
  BY <1>1, <1>4 DEF FinalizeDue, inputs, aggregator
<1>5. ASSUME PassStep PROVE SeenInv'
  BY <1>1, <1>5 DEF PassStep, BeginStream, PassOverStream, FinalizeSecond,
     FinalizeGapSecond, SkipSecond, FinalizeTradedSecond, FinalizeEmptySecond,
     CloseSecond, EndStream, EndPass, inputs, aggregator
<1>6. CASE Tick \/ UNCHANGED vars
  BY <1>1, <1>6 DEF Tick, vars, inputs, aggregator
<1> QED BY <1>2, <1>3, <1>4, <1>5, <1>6 DEF Next

(* At first nothing was delivered and nothing was seen. *)
LEMMA InitSeen == Init => SeenInv
<1> SUFFICES ASSUME Init PROVE SeenInv
  OBVIOUS
<1>1. Delivered = {} /\ seenTrades = <<>>
  BY DEF Init, Delivered
<1>2. ToSet(<<>>) = {} /\ Distinct(<<>>)
  BY DEF ToSet, Distinct
<1> QED BY <1>1, <1>2, FS_EmptySet DEF SeenInv

(* The trades delivered for a second: a finite set of comparable trades. *)
LEMMA DeliveredToType ==
    ASSUME SeenInv, NEW key
    PROVE  /\ DeliveredTo(key) \in SUBSET Trades
           /\ DeliveredTo(key) = {t \in Delivered : KeyOf(t) = key}
           /\ IsFiniteSet(DeliveredTo(key))
<1>1. /\ DeliveredTo(key) \in SUBSET Trades
      /\ DeliveredTo(key) = {t \in Delivered : KeyOf(t) = key}
      /\ DeliveredTo(key) \in SUBSET Delivered
  BY DEF DeliveredTo, Delivered
<1> QED BY <1>1, FS_Subset DEF SeenInv

(* Two trades of one second have an order (event time, then id). *)
LEMMA TradesAreComparable ==
    ASSUME IdsAreUnique, NEW t \in Trades, NEW u \in Trades, t # u, KeyOf(t) = KeyOf(u)
    PROVE  \/ Precedes(trade_order(t), trade_order(u))
           \/ Precedes(trade_order(u), trade_order(t))
<1>1. t.id # u.id
  BY DEF IdsAreUnique, DedupKey, KeyOf
<1>2. t.time \in Nat /\ u.time \in Nat /\ t.id \in Nat /\ u.id \in Nat
  BY TradeFields
<1>3. \/ t.time < u.time \/ (t.time = u.time /\ t.id < u.id)
      \/ u.time < t.time \/ (u.time = t.time /\ u.id < t.id)
  BY <1>1, <1>2
<1> QED BY <1>3 DEF Precedes, trade_order

(* A fresh trade is one more for its second and for no other. *)
LEMMA FreshTrade ==
    ASSUME TypeOK, SeenInv, IdsAreUnique, NEW trade \in Trades,
           DeliverFresh(trade), DedupHoldsAll'
    PROVE  LET key == KeyOf(trade)
           IN  /\ DedupHoldsAll
               /\ Delivered' = Delivered \cup {trade}
               /\ trade \notin DeliveredTo(key)
               /\ DeliveredTo(key)' = DeliveredTo(key) \cup {trade}
               /\ \A k : k # key => DeliveredTo(k)' = DeliveredTo(k)
               /\ \A u \in DeliveredTo(key) :
                     \/ Precedes(trade_order(trade), trade_order(u))
                     \/ Precedes(trade_order(u), trade_order(trade))
<1> DEFINE key == KeyOf(trade)
<1>1. /\ DedupHoldsAll /\ Delivered' = Delivered \cup {trade}
      /\ trade \notin Delivered
  BY DeliverEffect, DeliverFreshSeen DEF DeliverFresh
<1>2. \A k : /\ DeliveredTo(k) = {t \in Delivered : KeyOf(t) = k}
             /\ DeliveredTo(k)' = {t \in Delivered' : KeyOf(t) = k}
  BY DEF DeliveredTo, Delivered
<1>3. /\ trade \notin DeliveredTo(key)
      /\ DeliveredTo(key)' = DeliveredTo(key) \cup {trade}
      /\ \A k : k # key => DeliveredTo(k)' = DeliveredTo(k)
  BY <1>1, <1>2
<1>4. ASSUME NEW u \in DeliveredTo(key)
      PROVE  \/ Precedes(trade_order(trade), trade_order(u))
             \/ Precedes(trade_order(u), trade_order(trade))
  <2>1. u \in Trades /\ KeyOf(u) = key /\ u # trade
    BY <1>1, <1>2 DEF Delivered
  <2> QED BY <2>1, TradesAreComparable
<1> QED BY <1>1, <1>3, <1>4

(* A trade that starts a second, of which no trade was delivered before. *)
LEMMA FirstTracks ==
    ASSUME NEW trade \in Trades, NEW S, S = {}, NEW n \in Nat
    PROVE  /\ Tracks(FromTrade(trade), S \cup {trade})
           /\ Tracks([FromTrade(trade) EXCEPT !.revision = n], S \cup {trade})
<1>1. S \cup {trade} = {trade}
  OBVIOUS
<1>2. Tracks(FromTrade(trade), {trade}) /\ FromTrade(trade) \in State
  BY FromTradeTracks, FromTradeType
<1> QED BY <1>1, <1>2, TracksAnyRevision

(* add_trade keeps candles exact. *)
LEMMA AddTradeExact ==
    ASSUME TypeOK, FrontierInv, PublicationInv, CacheInv, SeenInv, ExactInv, IdsAreUnique,
           NEW trade \in Trades, AddTrade(trade)
    PROVE  ExactInv'
<1> SUFFICES ASSUME CacheHoldsAll', DedupHoldsAll' PROVE AllTracked'
  BY DEF ExactInv
<1> DEFINE key == KeyOf(trade)
           S == DeliveredTo(key)
<1>1. key \in Key
  BY KeyOfType
<1>2. CASE AddDuplicateTrade(trade)
  <2>1. Delivered' = Delivered /\ DedupHoldsAll
    BY <1>2, DuplicateSeen DEF DedupHoldsAll
  <2>2. UNCHANGED <<open, finalized, candles>> /\ CacheHoldsAll
    BY <1>2 DEF AddDuplicateTrade, aggregator, CacheHoldsAll
  <2>3. \A k : DeliveredTo(k)' = DeliveredTo(k)
    <3>1. \A k : /\ DeliveredTo(k) = {t \in Delivered : KeyOf(t) = k}
                 /\ DeliveredTo(k)' = {t \in Delivered' : KeyOf(t) = k}
      BY DEF DeliveredTo, Delivered
    <3> QED BY <2>1, <3>1
  <2>4. AllTracked
    BY <2>1, <2>2 DEF ExactInv
  <2> QED BY <2>1, <2>2, <2>3, <2>4 DEF AllTracked
<1>3. ASSUME DeliverFresh(trade)
      PROVE  /\ DedupHoldsAll /\ Delivered' = Delivered \cup {trade}
             /\ trade \notin S /\ DeliveredTo(key)' = S \cup {trade}
             /\ \A k : k # key => DeliveredTo(k)' = DeliveredTo(k)
             /\ \A u \in S : \/ Precedes(trade_order(trade), trade_order(u))
                             \/ Precedes(trade_order(u), trade_order(trade))
             /\ S \in SUBSET Trades /\ IsFiniteSet(S)
  BY <1>3, FreshTrade, DeliveredToType
(* a late trade *)
<1>4. ASSUME DeliverFresh(trade), NEW state \in State, RememberFinalized(key, state),
             Publish(key, Finalize(state, "recovered")), open' = open,
             IsClosed(key),
             CacheHoldsAll /\ AllTracked => Tracks(state, S \cup {trade})
      PROVE  AllTracked'
  <2>1. DOMAIN candles' = DOMAIN candles \cup {key}
    BY <1>4 DEF Publish, With
  <2>2. /\ CacheHoldsAll
        /\ DOMAIN finalized' = DOMAIN finalized \cup {key}
        /\ \A k \in DOMAIN finalized' :
               finalized'[k] = IF k = key THEN state ELSE finalized[k]
    BY <1>1, <1>4, <2>1, RememberAll DEF PublicationInv
  <2>3. AllTracked /\ Tracks(state, S \cup {trade})
    BY <1>3, <1>4, <2>2 DEF ExactInv
  <2>4. key \notin DOMAIN open
    BY <1>4 DEF FrontierInv, FrontierSeparates
  <2> HIDE DEF S
  <2>5. \A k \in DOMAIN open' : Tracks(open'[k], DeliveredTo(k)')
    BY <1>3, <1>4, <2>3, <2>4 DEF AllTracked
  <2>6. \A k \in DOMAIN finalized' : Tracks(finalized'[k], DeliveredTo(k)')
    BY <1>3, <1>4, <2>2, <2>3 DEF AllTracked
  <2>7. \A k \in DOMAIN candles' \ DOMAIN finalized' : DeliveredTo(k)' = {}
    BY <1>3, <1>4, <2>1, <2>2, <2>3 DEF AllTracked
  <2>8. \A t \in Delivered' : KeyOf(t) \in DOMAIN open' \cup DOMAIN candles'
    BY <1>3, <1>4, <2>1, <2>3 DEF AllTracked
  <2> QED BY <2>5, <2>6, <2>7, <2>8 DEF AllTracked
<1>5. CASE ReviseCachedSecond(trade)
  <2> DEFINE applied == Apply(finalized[key], trade)
             revised == [applied EXCEPT !.revision = @ + 1]
  <2>1. key \in DOMAIN finalized /\ finalized[key] \in State
    BY <1>5 DEF ReviseCachedSecond, TypeOK
  <2>2. applied \in State
    BY <2>1, ApplyType
  <2>3. revised \in State /\ revised = [applied EXCEPT !.revision = applied.revision + 1]
        /\ applied.revision + 1 \in Nat
    BY <2>2 DEF State
  <2>4. /\ DeliverFresh(trade) /\ RememberFinalized(key, revised)
        /\ Publish(key, Finalize(revised, "recovered")) /\ open' = open
    BY <1>5 DEF ReviseCachedSecond
  <2>5. IsClosed(key)
    BY <2>1 DEF FrontierInv, FrontierSeparates
  <2>6. ASSUME AllTracked PROVE Tracks(revised, S \cup {trade})
    <3>1. Tracks(finalized[key], S)
      BY <2>1, <2>6 DEF AllTracked
    <3> HIDE DEF S
    <3>2. Tracks(applied, S \cup {trade})
      BY <1>3, <2>1, <2>4, <3>1, ApplyTracks
    <3> HIDE DEF applied, revised
    <3> QED BY <2>2, <2>3, <3>2, TracksAnyRevision
  <2> HIDE DEF revised, applied
  <2> QED BY <1>4, <2>3, <2>4, <2>5, <2>6
<1>6. ASSUME key \notin DOMAIN open, key \notin DOMAIN finalized, AllTracked PROVE S = {}
  BY <1>6, DeliveredToType DEF AllTracked
<1>7. CASE RecoverUncachedSecond(trade)
  <2> DEFINE recovered == [FromTrade(trade) EXCEPT !.revision = 2]
  <2>1. recovered \in State
    BY FromTradeType DEF State, FromTrade
  <2>2. /\ DeliverFresh(trade) /\ RememberFinalized(key, recovered)
        /\ Publish(key, Finalize(recovered, "recovered")) /\ open' = open
        /\ IsClosed(key) /\ key \notin DOMAIN finalized
    BY <1>7 DEF RecoverUncachedSecond
  <2>3. ASSUME AllTracked PROVE Tracks(recovered, S \cup {trade})
    <3>1. key \notin DOMAIN open
      BY <2>2 DEF FrontierInv, FrontierSeparates
    <3>2. S = {}
      BY <1>6, <2>2, <2>3, <3>1
    <3> QED BY <3>2, FirstTracks
  <2> HIDE DEF recovered
  <2> QED BY <1>4, <2>1, <2>2, <2>3
<1>8. CASE AccumulateOpenSecond(trade)
  <2> DEFINE state == IF key \in DOMAIN open THEN Apply(open[key], trade)
                      ELSE FromTrade(trade)
  <2>1. /\ DeliverFresh(trade) /\ open' = With(open, key, state)
        /\ UNCHANGED <<finalized, candles>> /\ key \notin DOMAIN finalized /\ ~ IsClosed(key)
    BY <1>8 DEF AccumulateOpenSecond
  <2>2. AllTracked
    BY <1>3, <2>1 DEF ExactInv, CacheHoldsAll
  <2>3. Tracks(state, S \cup {trade})
    <3>1. CASE key \in DOMAIN open
      <4>1. open[key] \in State /\ Tracks(open[key], S)
        BY <2>2, <3>1 DEF AllTracked, TypeOK
      <4> HIDE DEF S
      <4> QED BY <1>3, <2>1, <3>1, <4>1, ApplyTracks
    <3>2. CASE key \notin DOMAIN open
      <4>1. S = {}
        BY <1>6, <2>1, <2>2, <3>2
      <4> QED BY <3>2, <4>1, FirstTracks
    <3> QED BY <3>1, <3>2
  <2>4. key \notin DOMAIN candles
    BY <2>1 DEF FrontierInv, FrontierSeparates
  <2> HIDE DEF state, S
  <2>5. /\ DOMAIN open' = DOMAIN open \cup {key}
        /\ \A k \in DOMAIN open' : open'[k] = IF k = key THEN state ELSE open[k]
    BY <2>1 DEF With
  <2>6. \A k \in DOMAIN open' : Tracks(open'[k], DeliveredTo(k)')
    BY <1>3, <2>1, <2>2, <2>3, <2>5 DEF AllTracked
  <2>7. \A k \in DOMAIN finalized' : Tracks(finalized'[k], DeliveredTo(k)')
    BY <1>3, <2>1, <2>2 DEF AllTracked
  <2>8. \A k \in DOMAIN candles' \ DOMAIN finalized' : DeliveredTo(k)' = {}
    BY <1>3, <2>1, <2>2, <2>4 DEF AllTracked
  <2>9. \A t \in Delivered' : KeyOf(t) \in DOMAIN open' \cup DOMAIN candles'
    BY <1>3, <2>1, <2>2, <2>5 DEF AllTracked
  <2> QED BY <2>6, <2>7, <2>8, <2>9 DEF AllTracked
<1> QED BY <1>2, <1>5, <1>7, <1>8 DEF AddTrade

(* A step that delivers nothing. *)
LEMMA SameDelivered ==
    ASSUME deliveries' = deliveries
    PROVE  /\ Delivered' = Delivered /\ DedupHoldsAll' = DedupHoldsAll
           /\ \A key : DeliveredTo(key)' = DeliveredTo(key)
    BY DEF Delivered, DedupHoldsAll, DeliveredTo

(* A step that delivers nothing and touches no candle keeps them exact. *)
LEMMA IdleExact ==
    ASSUME ExactInv, UNCHANGED <<deliveries, open, finalized, candles>>
    PROVE  ExactInv'
    BY SameDelivered DEF ExactInv, AllTracked, CacheHoldsAll

(***************************************************************************)
(* Closing a second hands its trades from the open dictionary to the       *)
(* cache; a second without trades has none to hand over.                   *)
(***************************************************************************)
LEMMA CloseSecondExact ==
    ASSUME TypeOK, FrontierInv, PublicationInv, CacheInv, SeenInv, ExactInv,
           NEW key, IterateOn(key), NEW state \in State, CloseSecond(key, state),
           AllTracked => Tracks(state, DeliveredTo(key))
    PROVE  ExactInv'
<1> SUFFICES ASSUME CacheHoldsAll', DedupHoldsAll' PROVE AllTracked'
  BY DEF ExactInv
<1>1. /\ key \in Key /\ DOMAIN open' = DOMAIN open \ {key}
      /\ \A k \in DOMAIN open' : open'[k] = open[k]
  BY IterateType
<1>2. /\ DOMAIN candles' = DOMAIN candles \cup {key}
      /\ RememberFinalized(key, state) /\ deliveries' = deliveries
  BY DEF CloseSecond, Publish, With, inputs
<1>3. /\ CacheHoldsAll
      /\ DOMAIN finalized' = DOMAIN finalized \cup {key}
      /\ \A k \in DOMAIN finalized' :
             finalized'[k] = IF k = key THEN state ELSE finalized[k]
  BY <1>1, <1>2, RememberAll DEF PublicationInv
<1>4. /\ Delivered' = Delivered /\ DedupHoldsAll
      /\ \A k : DeliveredTo(k)' = DeliveredTo(k)
  BY <1>2, SameDelivered
<1>5. AllTracked /\ Tracks(state, DeliveredTo(key))
  BY <1>3, <1>4 DEF ExactInv
<1>6. \A k \in DOMAIN open' : Tracks(open'[k], DeliveredTo(k)')
  BY <1>1, <1>4, <1>5 DEF AllTracked
<1>7. \A k \in DOMAIN finalized' : Tracks(finalized'[k], DeliveredTo(k)')
  BY <1>3, <1>4, <1>5 DEF AllTracked
<1>8. \A k \in DOMAIN candles' \ DOMAIN finalized' : DeliveredTo(k)' = {}
  BY <1>2, <1>3, <1>4, <1>5 DEF AllTracked
<1>9. \A t \in Delivered' : KeyOf(t) \in DOMAIN open' \cup DOMAIN candles'
  BY <1>1, <1>2, <1>4, <1>5 DEF AllTracked
<1> QED BY <1>6, <1>7, <1>8, <1>9 DEF AllTracked

(* A second under the cursor without trades has had none delivered. *)
LEMMA CursorIsUntraded ==
    ASSUME TypeOK, FrontierInv, SeenInv, NEW key, IterateOn(key), key \notin DOMAIN open,
           AllTracked
    PROVE  DeliveredTo(key) = {}
    BY CursorIsUnpublished, DeliveredToType DEF AllTracked

(* Each way finalize_due handles a second keeps candles exact, *)
LEMMA FinalizeSecondExact ==
    ASSUME TypeOK, FrontierInv, PublicationInv, CacheInv, SeenInv, ExactInv,
           NEW key, FinalizeSecond(key)
    PROVE  ExactInv'
<1>1. CASE FinalizeGapSecond(key)
  <2> SUFFICES ASSUME CacheHoldsAll', DedupHoldsAll' PROVE AllTracked'
    BY DEF ExactInv
  <2>1. /\ IterateOn(key) /\ key \notin DOMAIN open /\ finalized' = finalized
        /\ deliveries' = deliveries /\ DOMAIN candles' = DOMAIN candles \cup {key}
    BY <1>1 DEF FinalizeGapSecond, Publish, With, inputs
  <2>2. DOMAIN open' = DOMAIN open /\ \A k \in DOMAIN open' : open'[k] = open[k]
    BY <2>1, IterateType
  <2>3. /\ Delivered' = Delivered /\ DedupHoldsAll
        /\ \A k : DeliveredTo(k)' = DeliveredTo(k)
    BY <2>1, SameDelivered
  <2>4. AllTracked
    BY <1>1, <2>3, GapSecondCache DEF ExactInv
  <2>5. DeliveredTo(key) = {}
    BY <2>1, <2>4, CursorIsUntraded
  <2>6. \A k \in DOMAIN open' : Tracks(open'[k], DeliveredTo(k)')
    BY <2>2, <2>3, <2>4 DEF AllTracked
  <2>7. \A k \in DOMAIN finalized' : Tracks(finalized'[k], DeliveredTo(k)')
    BY <2>1, <2>3, <2>4 DEF AllTracked
  <2>8. \A k \in DOMAIN candles' \ DOMAIN finalized' : DeliveredTo(k)' = {}
    BY <2>1, <2>3, <2>4, <2>5 DEF AllTracked
  <2>9. \A t \in Delivered' : KeyOf(t) \in DOMAIN open' \cup DOMAIN candles'
    BY <2>1, <2>2, <2>3, <2>4 DEF AllTracked
  <2> QED BY <2>6, <2>7, <2>8, <2>9 DEF AllTracked
<1>2. CASE SkipSecond(key)
  <2>1. /\ DOMAIN open' = DOMAIN open /\ \A k \in DOMAIN open' : open'[k] = open[k]
        /\ UNCHANGED <<deliveries, finalized, candles>>
    BY <1>2, IterateType DEF SkipSecond, inputs
  <2> QED BY <2>1, SameDelivered DEF ExactInv, AllTracked, CacheHoldsAll
<1>3. CASE FinalizeTradedSecond(key)
  <2>1. /\ IterateOn(key) /\ CloseSecond(key, open[key])
        /\ key \in DOMAIN open /\ open[key] \in State
    BY <1>3 DEF FinalizeTradedSecond, TypeOK
  <2>2. AllTracked => Tracks(open[key], DeliveredTo(key))
    BY <2>1 DEF AllTracked
  <2> QED BY <2>1, <2>2, CloseSecondExact
<1>4. CASE FinalizeEmptySecond(key)
  <2> DEFINE state == EmptyState(key[2], lastClose[key[1]])
  <2>1. IterateOn(key) /\ key \in Key /\ key \notin DOMAIN open /\ CloseSecond(key, state)
    BY <1>4, IterateType DEF FinalizeEmptySecond
  <2>2. lastClose[key[1]] \in Nat
    BY <1>4, <2>1 DEF FinalizeEmptySecond, Key, Price, TypeOK
  <2>3. state \in State
    BY <2>1, <2>2, EmptyStateType DEF Key
  <2>4. AllTracked => Tracks(state, DeliveredTo(key))
    BY <2>1, CursorIsUntraded, EmptyStateTracks
  <2> HIDE DEF state
  <2> QED BY <2>1, <2>3, <2>4, CloseSecondExact
<1> QED BY <1>1, <1>2, <1>3, <1>4 DEF FinalizeSecond

(* and so does every step. *)
LEMMA NextExact ==
    ASSUME TypeOK, FrontierInv, PublicationInv, CacheInv, SeenInv, ExactInv, IdsAreUnique,
           [Next]_vars
    PROVE  ExactInv'
<1>1. CASE Tick \/ UNCHANGED vars
  BY <1>1, IdleExact DEF Tick, vars, inputs, aggregator
<1>2. ASSUME NEW active \in SUBSET Streams, FinalizeDue(active)
      PROVE  ExactInv'
  BY <1>2, IdleExact DEF FinalizeDue, inputs, aggregator
<1>3. ASSUME NEW s \in Streams, BeginStream(s) \/ PassOverStream(s)
      PROVE  ExactInv'
  BY <1>3, IdleExact DEF BeginStream, PassOverStream, inputs, aggregator
<1>4. CASE EndStream \/ EndPass
  BY <1>4, IdleExact DEF EndStream, EndPass, inputs, aggregator
<1>5. ASSUME NEW s \in Streams, NEW start \in Disconnects, MarkGap(s, start)
      PROVE  ExactInv'
  BY <1>5, IdleExact DEF MarkGap, RecordGap, inputs
<1> QED BY <1>1, <1>2, <1>3, <1>4, <1>5, AddTradeExact, FinalizeSecondExact
        DEF Next, PassStep

(* An empty aggregator is exact. *)
LEMMA InitExact == Init => ExactInv
    BY DEF Init, ExactInv, AllTracked, Delivered

(* Candles that track their trades summarise them. *)
LEMMA TrackedIsExact ==
    ASSUME TypeOK, PublicationInv, CacheInv, SeenInv, ExactInv, CacheHoldsAll, DedupHoldsAll
    PROVE  CandlesAreExact
<1>1. AllTracked /\ CacheIsPublished
  BY DEF ExactInv, PublicationInv
<1>2. \A key \in DOMAIN open : Summarises(open[key], DeliveredTo(key))
  BY <1>1, TracksSummarises, DeliveredToType DEF AllTracked, TypeOK
<1>3. ASSUME NEW key \in DOMAIN candles
      PROVE  Summarises(Last(candles[key]), DeliveredTo(key))
  <2>1. CASE key \in DOMAIN finalized
    <3>1. Summarises(finalized[key], DeliveredTo(key))
      BY <1>1, <2>1, TracksSummarises, DeliveredToType DEF AllTracked, TypeOK
    <3>2. Last(candles[key]) = Finalize(finalized[key], Last(candles[key]).status)
      BY <1>1, <2>1 DEF CacheIsPublished
    <3>3. \A state, status : /\ Finalize(state, status).count = state.count
                             /\ Finalize(state, status).volume = state.volume
                             /\ Finalize(state, status).open = state.open
                             /\ Finalize(state, status).close = state.close
                             /\ Finalize(state, status).high = state.high
                             /\ Finalize(state, status).low = state.low
      BY DEF Finalize
    <3> DEFINE c == Last(candles[key])
    <3>4. /\ c.count = finalized[key].count /\ c.volume = finalized[key].volume
          /\ c.open = finalized[key].open /\ c.close = finalized[key].close
          /\ c.high = finalized[key].high /\ c.low = finalized[key].low
      BY <3>2, <3>3
    <3> HIDE DEF c
    <3>5. Summarises(c, DeliveredTo(key))
      BY <3>1, <3>4 DEF Summarises
    <3> QED BY <3>5 DEF c
  <2>2. CASE key \notin DOMAIN finalized
    <3>1. candles[key] = <<IncompleteCandle>> /\ DeliveredTo(key) = {}
      BY <1>1, <2>2 DEF CacheInv, AllTracked
    <3>2. Last(candles[key]) = IncompleteCandle
      BY <3>1 DEF Last
    <3>3. IncompleteCandle.count = 0 /\ IncompleteCandle.volume = 0
      BY DEF IncompleteCandle
    <3>4. Summarises(IncompleteCandle, {})
      BY <3>3, FS_EmptySet, VolumeEmpty DEF Summarises, Volume
    <3> QED BY <3>1, <3>2, <3>4
  <2> QED BY <2>1, <2>2
<1>4. \A trade \in Trades :
          deliveries[trade] > 0 => KeyOf(trade) \in DOMAIN open \cup DOMAIN candles
  BY <1>1 DEF AllTracked, Delivered
<1> QED BY <1>2, <1>3, <1>4 DEF CandlesAreExact

(***************************************************************************)
(* If trade ids are unique, then while the caches hold all seconds and all *)
(* trades, every second, open or closed, is the OHLCV of exactly the       *)
(* trades delivered for it, in event-time order and each counted once.     *)
(***************************************************************************)
THEOREM CandlesAreAlwaysExact ==
    ASSUME IdsAreUnique
    PROVE  Spec => [](CacheHoldsAll /\ DedupHoldsAll => CandlesAreExact)
<1> DEFINE Inv == TypeOK /\ FrontierInv /\ PublicationInv /\ CacheInv
           Exact == CacheHoldsAll /\ DedupHoldsAll => CandlesAreExact
<1>1. Init => SeenInv /\ ExactInv
  BY InitSeen, InitExact
<1>2. Inv /\ SeenInv /\ ExactInv /\ [Next]_vars => (SeenInv /\ ExactInv)'
  BY NextSeen, NextExact
<1>3. Inv /\ SeenInv /\ ExactInv => Exact
  BY TrackedIsExact
<1>4. Spec => []Inv
  BY TypeCorrect, FrontierInvariant, PublicationInvariant, CacheInvariant, PTL
<1> HIDE DEF Inv, Exact
<1>5. Spec => []Exact
  BY <1>1, <1>2, <1>3, <1>4, PTL DEF Spec
<1> QED BY <1>5 DEF Exact

-----------------------------------------------------------------------------
(* Seconds without a candle *)

(***************************************************************************)
(* What keeps HolesFollowGaps so: the carried price of a stream that closed*)
(* a second with one is only ever taken away by a gap, and a pass whose    *)
(* cursor left seconds behind it has no price to carry.                    *)
(***************************************************************************)
PriceIsKept ==
    \A key \in DOMAIN candles :
        ClosedWithPrice(key) /\ lastClose[key[1]] = None => GapSince(key)

HolesAreExcused ==
    \A key \in DOMAIN candles : ClosedWithPrice(key) =>
        \A t \in key[2]..lastFinalizedOpen[key[1]] :
            Aligned(t) /\ <<key[1], t>> \notin DOMAIN candles => GapSince(key)

CursorIsNext ==
    pass # None => (pass.stream # None => (lastFinalizedOpen[pass.stream] # None =>
        \/ pass.at = lastFinalizedOpen[pass.stream] + SecondMs
        \/ lastClose[pass.stream] = None))

HolesInv == MaxGaps > 0 => PriceIsKept /\ HolesAreExcused /\ CursorIsNext

(***************************************************************************)
(* A step that closes no second, records no gap and takes no price away.   *)
(***************************************************************************)
LEMMA IdleHoles ==
    ASSUME HolesInv, UNCHANGED <<lastFinalizedOpen, gaps>>,
           DOMAIN candles \subseteq DOMAIN candles',
           \A key \in DOMAIN candles' :
               ClosedWithPrice(key)' => key \in DOMAIN candles /\ ClosedWithPrice(key),
           \A key \in DOMAIN candles : lastClose'[key[1]] = None => lastClose[key[1]] = None,
           MaxGaps > 0 => CursorIsNext'
    PROVE  HolesInv'
<1> SUFFICES ASSUME MaxGaps > 0 PROVE PriceIsKept' /\ HolesAreExcused'
  BY DEF HolesInv
<1>1. \A key : GapSince(key)' <=> GapSince(key)
  BY DEF GapSince
<1>2. PriceIsKept'
  BY <1>1 DEF HolesInv, PriceIsKept
<1>3. HolesAreExcused'
  BY <1>1 DEF HolesInv, HolesAreExcused
<1> QED BY <1>2, <1>3

(* A late revision of a second leaves its first candle as it is. *)
LEMMA RevisedKeepsFirst ==
    ASSUME TypeOK, PublicationInv, NEW key \in Key, NEW candle \in Candle,
           Publish(key, candle), candle.status = "recovered",
           key \notin DOMAIN candles => candle.revision # 1
    PROVE  /\ DOMAIN candles \subseteq DOMAIN candles'
           /\ \A k \in DOMAIN candles' :
                  ClosedWithPrice(k)' => k \in DOMAIN candles /\ ClosedWithPrice(k)
<1>1. /\ DOMAIN candles' = DOMAIN candles \cup {key}
      /\ \A k \in DOMAIN candles : k # key => candles'[k] = candles[k]
      /\ Published(key) \in Seq(Candle)
      /\ candles'[key] = Append(Published(key), candle)
  BY PublishEffect
<1>2. ASSUME key \in DOMAIN candles PROVE candles'[key][1] = candles[key][1]
  <2>1. Published(key) = candles[key] /\ candles[key] # <<>>
    BY <1>2 DEF Published, PublicationInv
  <2>2. Len(candles[key]) >= 1
    BY <1>1, <2>1
  <2> QED BY <1>1, <2>1, <2>2
<1>3. ASSUME key \notin DOMAIN candles PROVE candles'[key][1] = candle
  BY <1>1, <1>3 DEF Published
<1>4. ASSUME NEW k \in DOMAIN candles', ClosedWithPrice(k)'
      PROVE  k \in DOMAIN candles /\ ClosedWithPrice(k)
  <2>1. CASE k # key
    BY <1>1, <1>4, <2>1 DEF ClosedWithPrice
  <2>2. CASE k = key
    BY <1>2, <1>3, <1>4, <2>2 DEF ClosedWithPrice
  <2> QED BY <2>1, <2>2
<1> QED BY <1>1, <1>4

(* add_trade leaves the excuses as they are: it takes no price away. *)
LEMMA AddTradeHoles ==
    ASSUME TypeOK, PublicationInv, HolesInv, NEW trade \in Trades, AddTrade(trade)
    PROVE  HolesInv'
<1> DEFINE key == KeyOf(trade)
<1>1. key \in Key
  BY KeyOfType
<1>2. pass' = None /\ UNCHANGED <<lastFinalizedOpen, gaps>>
  BY DEF AddTrade, AddDuplicateTrade, ReviseCachedSecond, RecoverUncachedSecond,
         AccumulateOpenSecond, DeliverFresh, Deliver, aggregator
<1>3. MaxGaps > 0 => CursorIsNext'
  BY <1>2 DEF CursorIsNext
<1> HIDE DEF key
<1>4. ASSUME NEW close \in Nat, CarryClose(key, close), NEW k \in DOMAIN candles,
             lastClose'[k[1]] = None
      PROVE  lastClose[k[1]] = None
  <2>1. k[1] \in Streams /\ close # None
    BY NoneAssumption DEF TypeOK, Key
  <2> QED BY <1>1, <1>4, <2>1 DEF CarryClose, TypeOK
<1>5. ASSUME NEW candle \in Candle, NEW close \in Nat,
             Publish(key, candle), CarryClose(key, close), candle.status = "recovered",
             key \notin DOMAIN candles => candle.revision # 1
      PROVE  HolesInv'
  BY <1>1, <1>2, <1>3, <1>4, <1>5, RevisedKeepsFirst, IdleHoles
<1>6. CASE ReviseCachedSecond(trade)
  <2> DEFINE applied == Apply(finalized[key], trade)
             revised == [applied EXCEPT !.revision = @ + 1]
  <2>1. key \in DOMAIN finalized /\ key \in DOMAIN candles
    BY <1>6 DEF ReviseCachedSecond, PublicationInv, CacheIsPublished, key
  <2>2. revised \in State
    <3>1. applied \in State
      BY <2>1, ApplyType DEF TypeOK
    <3> QED BY <3>1 DEF State
  <2>3. Finalize(revised, "recovered") \in Candle
        /\ Finalize(revised, "recovered").status = "recovered" /\ revised.close \in Nat
    BY <2>2, FinalizeType DEF Finalize, Status, State
  <2>4. Publish(key, Finalize(revised, "recovered")) /\ CarryClose(key, revised.close)
    BY <1>6 DEF ReviseCachedSecond, key
  <2> HIDE DEF revised
  <2> QED BY <1>5, <2>1, <2>3, <2>4
<1>7. CASE RecoverUncachedSecond(trade)
  <2> DEFINE recovered == [FromTrade(trade) EXCEPT !.revision = 2]
  <2>1. recovered \in State /\ recovered.revision = 2
    <3>1. FromTrade(trade) \in State
      BY FromTradeType
    <3> QED BY <3>1 DEF State, FromTrade
  <2>2. Publish(key, Finalize(recovered, "recovered")) /\ CarryClose(key, trade.price)
    BY <1>7 DEF RecoverUncachedSecond, key
  <2> HIDE DEF recovered
  <2>3. Finalize(recovered, "recovered") \in Candle
    BY <2>1, FinalizeType DEF Status
  <2>4. /\ Finalize(recovered, "recovered").status = "recovered"
        /\ Finalize(recovered, "recovered").revision # 1
    BY <2>1 DEF Finalize
  <2>5. trade.price \in Nat
    BY TradesAssumption DEF Trade
  <2> QED BY <1>5, <2>2, <2>3, <2>4, <2>5
<1>8. CASE AddDuplicateTrade(trade) \/ AccumulateOpenSecond(trade)
  <2>1. UNCHANGED <<candles, lastClose>>
    BY <1>8 DEF AddDuplicateTrade, AccumulateOpenSecond, aggregator
  <2> QED BY <1>2, <1>3, <2>1, IdleHoles DEF ClosedWithPrice
<1> QED BY <1>6, <1>7, <1>8 DEF AddTrade

(* The newest gap is the one that was just recorded, if any is remembered. *)
LEMMA NewestLast ==
    ASSUME NEW S, NEW seq \in Seq(S), NEW e \in S, NEW n \in Nat, n > 0
    PROVE  /\ Newest(Append(seq, e), n) # <<>>
           /\ Last(Newest(Append(seq, e), n)) = e
<1> DEFINE all == Append(seq, e)
<1>1. all \in Seq(S) /\ Len(all) = Len(seq) + 1 /\ all[Len(all)] = e /\ Len(seq) \in Nat
  OBVIOUS
<1> HIDE DEF all
<1>2. CASE Len(all) <= n
  <2>1. Newest(all, n) = all
    BY <1>1, <1>2 DEF Newest
  <2> QED BY <1>1, <2>1 DEF Last, all
<1>3. CASE ~ (Len(all) <= n)
  <2> DEFINE a == Len(all) - n + 1
             new == SubSeq(all, a, Len(all))
  <2>1. Newest(all, n) = new /\ a \in 1..Len(all)
    BY <1>1, <1>3 DEF Newest
  <2>2. Len(new) = n /\ new[n] = all[Len(all)]
    BY <1>1, <1>3, <2>1
  <2> HIDE DEF a, new
  <2>3. new # <<>> /\ Last(new) = e
    BY <1>1, <2>2 DEF Last
  <2> QED BY <2>1, <2>3 DEF all
<1> QED BY <1>2, <1>3

(* mark_gap excuses every second its stream has closed so far. *)
LEMMA MarkGapHoles ==
    ASSUME TypeOK, FrontierInv, FrontierIsBehindWatermark, HolesInv,
           NEW s \in Streams, NEW start \in Disconnects, MarkGap(s, start)
    PROVE  HolesInv'
<1> SUFFICES ASSUME MaxGaps > 0 PROVE PriceIsKept' /\ HolesAreExcused' /\ CursorIsNext'
  BY DEF HolesInv
<1>1. /\ pass' = None /\ UNCHANGED <<lastFinalizedOpen, candles>>
      /\ gaps' = [gaps EXCEPT ![s] = Newest(Append(gaps[s], <<start, now>>), MaxGaps)]
      /\ lastClose' = [lastClose EXCEPT ![s] = None]
  BY DEF MarkGap, RecordGap
<1>2. gaps[s] \in Seq(Int \X Int) /\ <<start, now>> \in Int \X Int
  BY ParameterAssumption DEF TypeOK
<1>3. gaps'[s] # <<>> /\ Last(gaps'[s]) = <<start, now>>
  <2> DEFINE gap == <<start, now>>
  <2>1. gaps'[s] = Newest(Append(gaps[s], gap), MaxGaps)
    BY <1>1 DEF TypeOK
  <2>2. gap \in Int \X Int
    BY <1>2
  <2> HIDE DEF gap
  <2>3. gaps'[s] # <<>> /\ Last(gaps'[s]) = gap
    BY <1>2, <2>1, <2>2, NewestLast, ParameterAssumption
  <2> QED BY <2>3 DEF gap
<1>4. ASSUME NEW key \in DOMAIN candles PROVE key[1] = s => GapSince(key)'
  <2>1. key \in Key /\ IsClosed(key)
    BY DEF TypeOK, FrontierInv, FrontierSeparates
  <2>2. ASSUME key[1] = s PROVE key[2] + AllowedLatenessMs < now
    BY <2>1, <2>2, ParameterAssumption DEF IsClosed, FrontierIsBehindWatermark, TypeOK, Key
  <2> QED BY <1>3, <2>1, <2>2, ParameterAssumption DEF GapSince, TypeOK, Key
<1>5. ASSUME NEW key \in DOMAIN candles, key[1] # s
      PROVE  /\ GapSince(key)' <=> GapSince(key)
             /\ lastClose'[key[1]] = lastClose[key[1]]
  <2>1. key[1] \in Streams
    BY DEF TypeOK, Key
  <2>2. gaps'[key[1]] = gaps[key[1]] /\ lastClose'[key[1]] = lastClose[key[1]]
    BY <1>1, <1>5, <2>1 DEF TypeOK
  <2> QED BY <2>2 DEF GapSince
<1>6. PriceIsKept'
  BY <1>1, <1>4, <1>5 DEF HolesInv, PriceIsKept, ClosedWithPrice
<1>7. HolesAreExcused'
  BY <1>1, <1>4, <1>5 DEF HolesInv, HolesAreExcused, ClosedWithPrice
<1>8. CursorIsNext'
  BY <1>1 DEF CursorIsNext
<1> QED BY <1>6, <1>7, <1>8

(***************************************************************************)
(* The second under the cursor gets its first candle and becomes the       *)
(* frontier: no second is left behind it unless there was no price.        *)
(***************************************************************************)
LEMMA ClosedHoles ==
    ASSUME TypeOK, FrontierInv, HolesInv, NEW key, IterateOn(key),
           NEW candle \in Candle, Publish(key, candle), MoveFrontier(key),
           UNCHANGED gaps,
           \/ candle.status = "incomplete" /\ lastClose' = lastClose
           \/ candle.close \in Nat /\ lastClose' = [lastClose EXCEPT ![key[1]] = candle.close]
    PROVE  HolesInv'
<1> SUFFICES ASSUME MaxGaps > 0 PROVE PriceIsKept' /\ HolesAreExcused' /\ CursorIsNext'
  BY DEF HolesInv
<1>1. PICK s \in Streams, at \in Int :
          /\ pass # None /\ pass \in Pass /\ s = pass.stream /\ at = pass.at
          /\ key = <<s, at>> /\ key \in Key
          /\ pass' = [pass EXCEPT !.at = at + SecondMs]
  BY IterateType DEF IterateOn, Pass
<1>2. Aligned(at) /\ ~ IsClosed(key) /\ key \notin DOMAIN candles
  BY <1>1, CursorIsUnpublished DEF FrontierInv, CursorPrecedesOpen, Pass, IterateOn
<1>3. /\ DOMAIN candles' = DOMAIN candles \cup {key}
      /\ \A k \in DOMAIN candles : candles'[k] = candles[k]
      /\ candles'[key] = <<candle>>
  <2>1. /\ DOMAIN candles' = DOMAIN candles \cup {key}
        /\ \A k \in DOMAIN candles : k # key => candles'[k] = candles[k]
        /\ candles'[key] = Append(Published(key), candle)
    BY <1>1, PublishEffect
  <2>2. Published(key) = <<>>
    BY <1>2 DEF Published
  <2> QED BY <1>2, <2>1, <2>2
<1>4. /\ lastFinalizedOpen'[s] = at
      /\ \A o \in Streams \ {s} : /\ lastFinalizedOpen'[o] = lastFinalizedOpen[o]
                                  /\ lastClose'[o] = lastClose[o]
      /\ candle.status = "incomplete" \/ lastClose'[s] # None
      /\ lastClose'[s] = None => lastClose[s] = None
  BY <1>1, NoneAssumption DEF MoveFrontier, TypeOK
<1>5. \A k : GapSince(k)' <=> GapSince(k)
  BY DEF GapSince
<1>6. ASSUME NEW k \in DOMAIN candles
      PROVE  /\ k \in Key /\ IsClosed(k)
             /\ ClosedWithPrice(k)' <=> ClosedWithPrice(k)
             /\ lastClose'[k[1]] = None => lastClose[k[1]] = None
  BY <1>3, <1>4 DEF ClosedWithPrice, TypeOK, FrontierInv, FrontierSeparates, Key
<1>7. ClosedWithPrice(key)' => candle.status # "incomplete"
  BY <1>3 DEF ClosedWithPrice
<1>8. PriceIsKept'
  BY <1>1, <1>3, <1>4, <1>5, <1>6, <1>7 DEF HolesInv, PriceIsKept
<1>9. ASSUME NEW k \in DOMAIN candles', ClosedWithPrice(k)',
             NEW t \in k[2]..lastFinalizedOpen'[k[1]], Aligned(t),
             <<k[1], t>> \notin DOMAIN candles'
      PROVE  GapSince(k)
  <2>1. k # key
    BY <1>1, <1>3, <1>4, <1>9
  <2>2. k \in DOMAIN candles /\ ClosedWithPrice(k) /\ k \in Key /\ IsClosed(k)
    BY <1>3, <1>6, <1>9, <2>1
  <2>3. lastFinalizedOpen[k[1]] \in Int /\ k[2] \in Int /\ t \in Int
    BY <2>2 DEF IsClosed, TypeOK, Key
  <2>4. CASE t <= lastFinalizedOpen[k[1]]
    BY <1>3, <1>9, <2>2, <2>3, <2>4 DEF HolesInv, HolesAreExcused
  <2>5. CASE ~ (t <= lastFinalizedOpen[k[1]])
    <3>1. k[1] = s
      BY <1>4, <1>9, <2>2, <2>3, <2>5 DEF Key
    <3>2. lastFinalizedOpen[s] < t /\ t <= at /\ lastFinalizedOpen[s] # None
      BY <1>4, <1>9, <2>2, <2>3, <2>5, <3>1 DEF IsClosed
    <3>3. t # at
      BY <1>1, <1>3, <1>9, <3>1
    <3>4. lastFinalizedOpen[s] + SecondMs <= t
      BY <1>9, <2>3, <3>1, <3>2, NextAligned DEF FrontierInv, SecondsAreAligned
    <3>5. at # lastFinalizedOpen[s] + SecondMs
      BY <2>3, <3>1, <3>2, <3>3, <3>4, SecondMsAssumption
    <3>6. lastClose[s] = None
      BY <1>1, <3>2, <3>5 DEF HolesInv, CursorIsNext, IterateOn
    <3> QED BY <2>2, <3>1, <3>6 DEF HolesInv, PriceIsKept
  <2> QED BY <2>4, <2>5
<1>10. HolesAreExcused'
  BY <1>5, <1>9 DEF HolesAreExcused
<1>11. CursorIsNext'
  BY <1>1, <1>4 DEF CursorIsNext, Pass
<1> QED BY <1>8, <1>10, <1>11

(* Each way finalize_due handles a second keeps the excuses. *)
LEMMA FinalizeSecondHoles ==
    ASSUME TypeOK, FrontierInv, HolesInv, NEW key, FinalizeSecond(key)
    PROVE  HolesInv'
<1>1. ASSUME NEW state \in State, IterateOn(key), CloseSecond(key, state)
      PROVE  HolesInv'
  <2> DEFINE status == IF HasGap(key) THEN "incomplete" ELSE ResolvedStatus(state)
             candle == Finalize(state, status)
  <2>1. status \in Status
    BY DEF ResolvedStatus, Status
  <2>2. /\ candle \in Candle /\ candle.status = status
        /\ candle.close = state.close /\ state.close \in Nat
    BY <2>1, FinalizeType DEF Finalize, State
  <2>3. /\ Publish(key, candle) /\ MoveFrontier(key) /\ UNCHANGED gaps
        /\ lastClose' = IF status = "incomplete" THEN lastClose
                        ELSE [lastClose EXCEPT ![key[1]] = candle.close]
    BY <1>1, <2>2 DEF CloseSecond
  <2> HIDE DEF candle, status
  <2> QED BY <1>1, <2>2, <2>3, ClosedHoles
<1>2. CASE FinalizeGapSecond(key)
  <2>1. IncompleteCandle.status = "incomplete"
    BY DEF IncompleteCandle
  <2>2. /\ IterateOn(key) /\ Publish(key, IncompleteCandle) /\ MoveFrontier(key)
        /\ UNCHANGED <<gaps, lastClose>>
    BY <1>2 DEF FinalizeGapSecond
  <2> QED BY <2>1, <2>2, IncompleteCandleType, ClosedHoles
<1>3. CASE SkipSecond(key)
  <2>1. /\ pass.stream = key[1] /\ pass'.stream = key[1] /\ lastClose[key[1]] = None
        /\ UNCHANGED <<lastFinalizedOpen, lastClose, gaps, candles>>
    BY <1>3, IterateType DEF SkipSecond, IterateOn, Pass
  <2>2. CursorIsNext'
    BY <2>1 DEF CursorIsNext
  <2> QED BY <2>1, <2>2, IdleHoles DEF ClosedWithPrice
<1>4. CASE FinalizeTradedSecond(key)
  BY <1>1, <1>4 DEF FinalizeTradedSecond, TypeOK
<1>5. CASE FinalizeEmptySecond(key)
  <2>1. IterateOn(key) /\ key \in Key
    BY <1>5, IterateType DEF FinalizeEmptySecond
  <2>2. lastClose[key[1]] \in Nat
    BY <1>5, <2>1 DEF FinalizeEmptySecond, Key, Price, TypeOK
  <2>3. EmptyState(key[2], lastClose[key[1]]) \in State
    BY <2>1, <2>2, EmptyStateType DEF Key
  <2> QED BY <1>1, <1>5, <2>1, <2>3 DEF FinalizeEmptySecond
<1> QED BY <1>2, <1>3, <1>4, <1>5 DEF FinalizeSecond

(* Every step keeps the excuses. *)
LEMMA NextHoles ==
    TypeOK /\ FrontierInv /\ PublicationInv /\ FrontierIsBehindWatermark /\ HolesInv
    /\ [Next]_vars => HolesInv'
<1> SUFFICES ASSUME TypeOK, FrontierInv, PublicationInv, FrontierIsBehindWatermark,
                    HolesInv, [Next]_vars
             PROVE  HolesInv'
  OBVIOUS
<1>1. ASSUME UNCHANGED <<lastFinalizedOpen, lastClose, gaps, candles>>,
             MaxGaps > 0 => CursorIsNext'
      PROVE  HolesInv'
  BY <1>1, IdleHoles DEF ClosedWithPrice
<1>2. CASE Tick \/ UNCHANGED vars
  <2>1. UNCHANGED <<lastFinalizedOpen, lastClose, gaps, candles, pass>>
    BY <1>2 DEF Tick, vars, aggregator
  <2> QED BY <1>1, <2>1 DEF HolesInv, CursorIsNext
<1>3. ASSUME NEW active \in SUBSET Streams, FinalizeDue(active) PROVE HolesInv'
  BY <1>1, <1>3 DEF FinalizeDue, aggregator, CursorIsNext
<1>4. ASSUME NEW s \in Streams, BeginStream(s) PROVE HolesInv'
  <2>1. UNCHANGED <<lastFinalizedOpen, lastClose, gaps, candles>>
    BY <1>4 DEF BeginStream, aggregator
  <2>2. PICK start \in FirstDueSeconds(s) :
            pass' = [pass EXCEPT !.stream = s, !.at = start]
    BY <1>4 DEF BeginStream
  <2>3. pass'.stream = s /\ pass'.at = start
    BY <1>4, <2>2 DEF BeginStream, TypeOK, Pass
  <2>4. lastFinalizedOpen[s] # None => start = lastFinalizedOpen[s] + SecondMs
    BY <2>2 DEF FirstDueSeconds
  <2> QED BY <1>1, <2>1, <2>3, <2>4 DEF CursorIsNext
<1>5. ASSUME NEW s \in Streams, PassOverStream(s) PROVE HolesInv'
  <2>1. pass'.stream = None
    BY <1>5 DEF PassOverStream, TypeOK, Pass
  <2> QED BY <1>1, <1>5, <2>1 DEF PassOverStream, aggregator, CursorIsNext
<1>6. CASE EndStream
  <2>1. pass'.stream = None
    BY <1>6 DEF EndStream, TypeOK, Pass
  <2> QED BY <1>1, <1>6, <2>1 DEF EndStream, aggregator, CursorIsNext
<1>7. CASE EndPass
  BY <1>1, <1>7 DEF EndPass, aggregator, CursorIsNext
<1> QED BY <1>2, <1>3, <1>4, <1>5, <1>6, <1>7, AddTradeHoles, MarkGapHoles,
           FinalizeSecondHoles DEF Next, PassStep

(***************************************************************************)
(* Only an outage leaves a second without a candle after one that was      *)
(* closed with a price, for every lateness, second length, cache size and  *)
(* schedule of the finalizer, as long as any gap is remembered at all.     *)
(***************************************************************************)
THEOREM HolesAlwaysFollowGaps == Spec => []HolesFollowGaps
<1>1. Init => HolesInv
  BY DEF Init, HolesInv, PriceIsKept, HolesAreExcused, CursorIsNext
<1>2. HolesInv => HolesFollowGaps
  BY DEF HolesInv, HolesAreExcused, HolesFollowGaps
<1> QED BY <1>1, <1>2, NextHoles, TypeCorrect, FrontierInvariant, PublicationInvariant,
           BehindWatermark, PTL DEF Spec
=============================================================================
