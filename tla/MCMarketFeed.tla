---------------------------- MODULE MCMarketFeed -----------------------------
(* A small instance of MarketFeed for TLC. *)
EXTENDS MarketFeedProperties
=============================================================================
