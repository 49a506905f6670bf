------------------------------ MODULE MCHistory ------------------------------
(* A minute is two seconds, the long timeframe two minutes.  One archive is  *)
(* of a market with imported minutes, the other of a market whose older      *)
(* seconds another exchange stands in for; both have seconds without trades  *)
(* and an outage.                                                            *)
EXTENDS History

MCTimeframeSeconds ==
    [tf \in {"1s", "5s", "1m", "5m"} |->
        CASE tf = "1s" -> 1 [] tf = "5m" -> 4 [] OTHER -> 2]
MCPersisted == {"1m", "5m"}

Imported(time, span, source) ==
    [time |-> time, span |-> span, source |-> source, status |-> "complete", traded |-> TRUE]
Live == {LiveRow(2, "complete", TRUE), LiveRow(3, "complete_empty", FALSE),
         LiveRow(4, "incomplete", FALSE), LiveRow(5, "complete", TRUE), LiveRow(6, "complete", TRUE)}
Memory == <<LiveRow(4, "incomplete", FALSE), LiveRow(5, "complete", TRUE), LiveRow(6, "complete", TRUE)>>

MCArchives ==
    {[now |-> 8, live |-> Live, trades |-> {2, 5, 6}, memory |-> Memory,
      imported |-> {Imported(0, 2, "historical_candles")},
      importable |-> {Imported(2, 2, "historical_candles")}],
     [now |-> 8, live |-> Live, trades |-> {5, 6}, memory |-> Memory,
      imported |-> {Imported(0, 1, "binance_proxy_1s"), Imported(1, 1, "binance_proxy_1s")},
      importable |-> {Imported(2, 1, "historical_candles"), Imported(4, 1, "binance_proxy_1s")}]}
=============================================================================
