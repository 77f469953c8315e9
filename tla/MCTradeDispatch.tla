-------------------------- MODULE MCTradeDispatch --------------------------
(* Instantiates TradeDispatch for TLC with the brokers, balances and       *)
(* bounds of MCExchange.                                                   *)
EXTENDS TradeDispatch, MCExchange
==============================================================================
