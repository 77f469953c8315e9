------------------------ MODULE MCExchangeRefinement ------------------------
(* Instantiates the exchange for TLC with the brokers, balances and bounds *)
(* of MCExchange, carrying both history variables: absSt for the          *)
(* refinement mapping and quoted for the stock service's quotes, so that  *)
(* one run checks the exchange's invariants, the stock service's views    *)
(* and the refinement of AtomicExchange on the same behaviours.            *)
EXTENDS ExchangeRefinement, StockService, MCExchange

CheckInit == RInit /\ quoted = <<>>

CheckNext == RNext /\ RecordQuote

CheckSpec == CheckInit /\ [][CheckNext]_<<vars, absSt, quoted>>
==============================================================================
