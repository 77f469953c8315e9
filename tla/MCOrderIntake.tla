---------------------------- MODULE MCOrderIntake ----------------------------
(* Instantiates OrderIntake for TLC on MCExchange's brokers and balances.  *)
(* Prices are decimals of four fractional digits.                          *)
EXTENDS OrderIntake, TLC

CONSTANTS b1, b2, s1, s2, t1, t2

MCInitCash == (b1 :> 1) @@ (b2 :> 2)
MCInitHold == (b1 :> [s \in Symbols |-> 2]) @@ (b2 :> [s \in Symbols |-> 0])

MCSymmetry == Permutations(Threads)
==============================================================================
