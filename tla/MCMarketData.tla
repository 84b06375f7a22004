---------------------------- MODULE MCMarketData ----------------------------
(* MarketData on small instances: two instruments of one subscription. *)
EXTENDS MarketData

CONSTANTS i1, i2
=============================================================================
