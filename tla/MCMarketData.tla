---------------------------- MODULE MCMarketData ---------------------------
(* MarketData with one thread that syncs windows of two lengths.          *)
EXTENDS MarketData
=============================================================================
