---------------------------- MODULE MCBookManager ----------------------------
(* Three goroutines asking for the books of two symbols, and registering  *)
(* one broker whose initial holdings declare one symbol or the other.      *)
EXTENDS BookManager

CONSTANTS t1, t2, t3, s1, s2, b1

HoldingChoices == {{s1}, {s2}}
==============================================================================
