------------------------- MODULE MCBackfillPrograms -------------------------
(* Two exchanges with one instrument that both list; a minute is two time *)
(* units, and a page two candles.                                          *)
EXTENDS BackfillPrograms

MCExchanges == {"binance", "bybit"}
MCExchangeOrder == <<"binance", "bybit">>
MCInstruments == <<"BTC">>
MCSymbols == [instrument \in {"BTC"} |-> MCExchanges]
MCInterval == [timeframe \in {"1s", "1m"} |-> IF timeframe = "1m" THEN 2 ELSE 1]
MCBaseUrls == [exchange \in MCExchanges |-> IF exchange = "binance" THEN 2 ELSE 1]
MCLookback(seconds) == [timeframe \in {"1s", "1m"} |-> IF timeframe = "1m" THEN 5 ELSE seconds]
MCLookbacks == {MCLookback(0), MCLookback(2)}
MCConcurrency == [exchange \in MCExchanges |-> 1]

\* binance has every minute; bybit has a hole, or no trade yet.
MCListing(bybitMinutes) ==
    [j \in Jobs |-> IF j.timeframe = "1s" THEN {3, 4}
                    ELSE IF j.exchange = "binance" THEN {0, 2, 4} ELSE bybitMinutes]
MCListings == {MCListing({0, 4}), MCListing({})}
=============================================================================
