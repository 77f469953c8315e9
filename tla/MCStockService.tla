--------------------------- MODULE MCStockService ---------------------------
(* Instantiates StockService for TLC with the brokers, balances and       *)
(* bounds of MCExchange.                                                   *)
EXTENDS StockService, MCExchange

\* Cash for b2 to buy one share at 1 and one at 10.
MCTornCash == (b1 :> 0) @@ (b2 :> 11)
==============================================================================
