---------------------------- MODULE MCOrderListing ----------------------------
(* Two brokers' orders listed by one goroutine while statuses change.      *)
EXTENDS OrderListing, TLC

CONSTANTS b1, b2, t1
==============================================================================
