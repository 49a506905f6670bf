---------------------------- MODULE CandleState ----------------------------
(***************************************************************************)
(* One second of one market: the accumulator `_CandleState` that trades    *)
(* are applied to, and the immutable candle it is finalized into.          *)
(*                                                                         *)
(* A stream stands for the tuple (exchange, market_type, instrument_id).   *)
(* A trade keeps what the candle depends on: its stream, its id (the rank  *)
(* of the exchange's id in the order `trade_order` gives ids), its event   *)
(* time, its price and its quantity.  Quote volume, trade ids and symbols  *)
(* are carried along by the code in the same branches and are left out.    *)
(***************************************************************************)
EXTENDS Integers, Sequences

CONSTANTS Streams,    \* the (exchange, market_type, instrument_id) tuples
          Trades,     \* the trades the exchanges may report
          SecondMs,   \* ticks of the clock in one candle (SECOND_MS)
          None        \* Python's None

ASSUME SecondMsAssumption == SecondMs \in Nat \ {0}
ASSUME NoneAssumption == None \notin Int

Trade == [stream: Streams, id: Nat, time: Nat, price: Nat, quantity: Nat]

ASSUME TradesAssumption == Trades \subseteq Trade

(***************************************************************************)
(* Event-time order of trades: by timestamp, then by id.                   *)
(***************************************************************************)
TradeOrder == Int \X Nat

trade_order(trade) == <<trade.time, trade.id>>

Precedes(a, b) == a[1] < b[1] \/ (a[1] = b[1] /\ a[2] < b[2])

candle_open_time(t) == t - (t % SecondMs)

KeyOf(trade) == <<trade.stream, candle_open_time(trade.time)>>

-----------------------------------------------------------------------------

State == [open: Nat, high: Nat, low: Nat, close: Nat, volume: Nat, count: Nat,
          first: TradeOrder, last: TradeOrder, revision: Nat]

FromTrade(trade) ==
    [open |-> trade.price, high |-> trade.price,
     low |-> trade.price, close |-> trade.price,
     volume |-> trade.quantity, count |-> 1,
     first |-> trade_order(trade), last |-> trade_order(trade), revision |-> 1]

EmptyState(open_time, previous_close) ==
    [open |-> previous_close, high |-> previous_close,
     low |-> previous_close, close |-> previous_close,
     volume |-> 0, count |-> 0,
     first |-> <<open_time, 0>>, last |-> <<open_time, 0>>, revision |-> 1]

(* Mutant of Apply: the trade that arrived last closes the second. *)
ApplyInArrivalOrder(state, trade) ==
    IF state.count = 0
    THEN [FromTrade(trade) EXCEPT !.revision = state.revision]
    ELSE [state EXCEPT !.close = trade.price, !.last = trade_order(trade),
                       !.high = IF trade.price > @ THEN trade.price ELSE @,
                       !.low = IF trade.price < @ THEN trade.price ELSE @,
                       !.volume = @ + trade.quantity, !.count = @ + 1]

(* Mutant of Apply: a trade below the low updates open and close only. *)
ApplyWithoutLow(state, trade) ==
    LET order == trade_order(trade)
    IN  IF state.count = 0
        THEN [FromTrade(trade) EXCEPT !.revision = state.revision]
        ELSE [state EXCEPT
                !.open = IF Precedes(order, state.first) THEN trade.price ELSE @,
                !.close = IF Precedes(state.last, order) THEN trade.price ELSE @,
                !.high = IF trade.price > @ THEN trade.price ELSE @,
                !.volume = @ + trade.quantity, !.count = @ + 1]

(***************************************************************************)
(* Apply a trade in whatever order it arrives.  A state without trades     *)
(* (an empty second) forgets the carried price but keeps its revision.     *)
(***************************************************************************)
Apply(state, trade) ==
    LET order  == trade_order(trade)
        opens  == Precedes(order, state.first)
        closes == Precedes(state.last, order)
    IN  IF state.count = 0
        THEN [FromTrade(trade) EXCEPT !.revision = state.revision]
        ELSE [open  |-> IF opens THEN trade.price ELSE state.open,
              first |-> IF opens THEN order ELSE state.first,
              close |-> IF closes THEN trade.price ELSE state.close,
              last  |-> IF closes THEN order ELSE state.last,
              high  |-> IF trade.price > state.high THEN trade.price ELSE state.high,
              low   |-> IF trade.price < state.low THEN trade.price ELSE state.low,
              volume   |-> state.volume + trade.quantity,
              count    |-> state.count + 1,
              revision |-> state.revision]

-----------------------------------------------------------------------------

Status == {"provisional", "complete", "complete_empty", "incomplete", "recovered"}

Price == Nat \cup {None}

Candle == [status: Status, revision: Nat, open: Price, high: Price,
           low: Price, close: Price, volume: Nat, count: Nat]

Finalize(state, status) ==
    [status |-> status, revision |-> state.revision,
     open |-> state.open, high |-> state.high,
     low |-> state.low, close |-> state.close,
     volume |-> state.volume, count |-> state.count]

(***************************************************************************)
(* The status `finalize` resolves to when the caller gives none.           *)
(***************************************************************************)
ResolvedStatus(state) == IF state.count > 0 THEN "complete" ELSE "complete_empty"

IncompleteCandle ==
    [status |-> "incomplete", revision |-> 1,
     open |-> None, high |-> None, low |-> None, close |-> None,
     volume |-> 0, count |-> 0]
=============================================================================
