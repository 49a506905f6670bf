------------------------ MODULE MCCandleAggregator ------------------------
(***************************************************************************)
(* Small instances of the aggregator.  A second is two ticks long.         *)
(***************************************************************************)
EXTENDS CandleAggregator

CONSTANTS btc, eth

T(s, id, time, price, quantity) ==
    [stream |-> s, id |-> id, time |-> time, price |-> price, quantity |-> quantity]

(***************************************************************************)
(* Two trades of second 0 whose ids tell the order the timestamps leave    *)
(* open, the later one the cheaper, and one trade of second 4, so that an  *)
(* empty second lies between them.                                         *)
(***************************************************************************)
OneStreamTrades == {T(btc, 1, 1, 3, 1), T(btc, 2, 1, 1, 2), T(btc, 3, 4, 2, 4)}

(***************************************************************************)
(* Two markets that share the finalized cache and the dedup cache.         *)
(***************************************************************************)
TwoStreamTrades == {T(btc, 1, 0, 1, 1), T(btc, 2, 1, 2, 1), T(eth, 1, 0, 1, 1)}

(***************************************************************************)
(* Three trades of one second, the last two of which can both be late.     *)
(***************************************************************************)
LateTrades == {T(btc, 1, 0, 1, 1), T(btc, 2, 1, 2, 1), T(btc, 3, 1, 3, 1)}
=============================================================================
