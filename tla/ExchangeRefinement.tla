-------------------------- MODULE ExchangeRefinement --------------------------
(***************************************************************************)
(* Exchange implements AtomicExchange.  The refinement mapping runs the    *)
(* rest of every matching pass in progress to its end: a pass holds its   *)
(* symbol's write lock from SubmitLimit/SubmitMarket to LimitRest/        *)
(* MarketFinish, and its fill loop reads only the book, so its outcome is *)
(* already determined when it takes the lock.  The step that takes the     *)
(* lock is then the whole atomic pass; the loop's iterations, the unlock, *)
(* the service's steps after the matcher returns, the unlocked status     *)
(* check of CancelOrder and the tick's cut of the horizon are stuttering  *)
(* steps; CancelLocked and ExpireOrder are Cancel and Expire, or stutter  *)
(* when their re-check fails.                                              *)
(***************************************************************************)
EXTENDS Exchange

\* The pure pass operators of the abstract specification.
Pass == INSTANCE AtomicExchange

\* The state record of the concrete variables.
ConcreteSt == [cash |-> cash, rc |-> reservedCash, hold |-> holding,
               rq |-> reservedQty, orders |-> orders, book |-> book,
               trades |-> trades]

\* The orders whose matching pass holds a book lock.
PassesInProgress == {cur[t] : t \in {u \in Threads : pc[u] \in {"limit", "market"}}}

RECURSIVE FinishAll(_, _)
FinishAll(st, P) ==
    IF P = {} THEN st
    ELSE LET o == CHOOSE x \in P : TRUE IN FinishAll(Pass!FinishPass(st, o), P \ {o})

Completed == FinishAll(ConcreteSt, PassesInProgress)

\* A history variable holding the mapped state; it is a function of the
\* concrete state, so the behaviours of RSpec are those of Spec.  The next
\* state's record and passes are bound to values first, so that the passes
\* are run on values rather than on primed expressions.
VARIABLE absSt

RInit == Init /\ absSt = Completed

RNext == Next /\ \E cs \in {ConcreteSt'}, P \in {PassesInProgress'} :
                    absSt' = FinishAll(cs, P)

RSpec == RInit /\ [][RNext]_<<vars, absSt>>

Atomic == INSTANCE AtomicExchange
            WITH cash <- absSt.cash, reservedCash <- absSt.rc,
                 holding <- absSt.hold, reservedQty <- absSt.rq,
                 orders <- absSt.orders, book <- absSt.book,
                 trades <- absSt.trades, now <- now

(* Spec section 5: on a symbol, matching passes, cancellations and        *)
(* expirations behave as indivisible steps, however the steps of the      *)
(* goroutines and the expiry ticker interleave with a pass.               *)
AtomicPasses == Atomic!Spec
==============================================================================
