----------------------------- MODULE MCWebhooks -----------------------------
(* One broker subscribing two events to two URLs from two request          *)
(* goroutines, with notifications dispatched and delivered concurrently.   *)
EXTENDS Webhooks, TLC

CONSTANTS b1, trade, cancelled, u1, u2, t1, t2

MCSymmetry == Permutations({t1, t2})
==============================================================================
