----------------------------- MODULE MCExchange -----------------------------
(* Instantiates Exchange for TLC: a seller b1 registered with 1 cent and  *)
(* 2 shares of every symbol, a buyer b2 with 2 cents and no shares (both  *)
(* can trade either way), prices {1, 2}, quantities {1, 2}.  Goroutines   *)
(* are interchangeable.                                                    *)
EXTENDS Exchange, TLC

CONSTANTS b1, b2, s1, s2, t1, t2

MCInitCash == (b1 :> 1) @@ (b2 :> 2)
MCInitHold == (b1 :> [s \in Symbols |-> 2]) @@ (b2 :> [s \in Symbols |-> 0])

MCSymmetry == Permutations(Threads)
==============================================================================
