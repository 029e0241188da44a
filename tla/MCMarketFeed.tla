------------------------------ MODULE MCMarketFeed ------------------------------
(* Two endpoints and two streams. *)
EXTENDS MarketFeed

CONSTANTS live, backup, price, volume

MCUrls == {live, backup}
MCStreams == {price, volume}
=============================================================================
