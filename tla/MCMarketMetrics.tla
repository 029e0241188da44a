---------------------------- MODULE MCMarketMetrics ----------------------------
(* Two markets; one window of a tick within a retention of two. *)
EXTENDS MarketMetrics

CONSTANTS btc, eth

MCMarkets == {btc, eth}
MCWindows == {1}
MCDelays == <<1>>
=============================================================================
