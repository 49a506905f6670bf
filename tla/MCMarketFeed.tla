--------------------------- MODULE MCMarketFeed ---------------------------
(***************************************************************************)
(* Small instances of the market feed.                                     *)
(***************************************************************************)
EXTENDS MarketFeed

CONSTANTS btc, eth

T(s, id, time, price) ==
    [stream |-> s, id |-> id, time |-> time, price |-> price, quantity |-> 1]

(***************************************************************************)
(* A trade of each of two markets.                                         *)
(***************************************************************************)
TwoMarketTrades == {T(btc, 1, 0, 1), T(eth, 1, 1, 2)}

(***************************************************************************)
(* A trade in the first second, and one three seconds later.               *)
(***************************************************************************)
OneMarketTrades == {T(btc, 1, 0, 1), T(btc, 2, 5, 2)}
=============================================================================
