---------------------------- MODULE MCTradingDay ----------------------------
(* Two trading days, one symbol, two starts. *)
EXTENDS TradingDay
=============================================================================
