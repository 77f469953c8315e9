---------------------------- MODULE TradeDispatch ----------------------------
(***************************************************************************)
(* The order service's trade.executed notifications, composed with the    *)
(* exchange.  After MatchLimitOrder or MatchMarketOrder has returned and   *)
(* the book lock is released, the request goroutine runs                   *)
(* dispatchTradeWebhooks (service/order.go): for every trade of its pass,  *)
(* DispatchTradeExecuted for the incoming order and for the resting order  *)
(* (service/webhook.go).  Each builds its payload by reading the order's   *)
(* Status, FilledQuantity and RemainingQuantity, in that order, with no    *)
(* lock, while other goroutines' passes, cancels and expiries keep         *)
(* mutating the order under its book lock.  The read of the status and the *)
(* read of the quantities are two steps; the delivery itself is left to    *)
(* the Webhooks module.                                                    *)
(***************************************************************************)
EXTENDS Exchange

VARIABLES
    jobs,      \* per goroutine, the payloads still to build: [trade, order]
    reading,   \* per goroutine, the status read for the current payload
    payloads   \* trade.executed payloads built: trade, order and order fields

dvars == <<jobs, reading, payloads>>
tvars == <<vars, dvars>>

NoRead == "none"

\* The payloads of order o's pass: each trade of the pass, first for the
\* incoming order, then for its counterpart resting order.
TradeJobs(o) ==
    LET log == trades[orders[o].sym]
        idx == SetToSortSeq({i \in DOMAIN log : log[i].incoming = o}, LAMBDA x, y : x < y)
    IN FlattenSeq([k \in DOMAIN idx |->
                     <<[trade |-> idx[k], order |-> o],
                       [trade |-> idx[k], order |-> log[idx[k]].resting]>>])

\* A request goroutine's step of the exchange.  The request returns only
\* after dispatching, so it takes no new request while it has payloads to
\* build; the step that ends a pass (AddExpiry after a limit pass,
\* MarketFinish after a market pass) hands it the pass's trades.
ServiceStep(t) ==
    /\ jobs[t] = <<>>
    /\ ThreadStep(t)
    /\ jobs' = IF pc[t] \in {"addExpiry", "market"} /\ pc'[t] = "idle"
               THEN [jobs EXCEPT ![t] = TradeJobs(cur[t])] ELSE jobs
    /\ UNCHANGED <<reading, payloads>>

\* DispatchTradeExecuted: the payload literal reads order.Status first.
ReadStatus(t) ==
    /\ jobs[t] # <<>> /\ reading[t] = NoRead
    /\ reading' = [reading EXCEPT ![t] = orders[Head(jobs[t]).order].status]
    /\ UNCHANGED <<vars, jobs, payloads>>

\* ... then FilledQuantity and RemainingQuantity; the payload goes to a
\* delivery goroutine.
BuildPayload(t) ==
    LET j == Head(jobs[t]) IN
    /\ jobs[t] # <<>> /\ reading[t] # NoRead
    /\ payloads' = payloads \cup
         {[trade |-> j.trade, order |-> j.order, status |-> reading[t],
           filled |-> orders[j.order].filled, rem |-> orders[j.order].rem]}
    /\ jobs' = [jobs EXCEPT ![t] = Tail(@)]
    /\ reading' = [reading EXCEPT ![t] = NoRead]
    /\ UNCHANGED vars

TInit == Init /\ jobs = [t \in Threads |-> <<>>]
              /\ reading = [t \in Threads |-> NoRead] /\ payloads = {}

TNext ==
    \/ \E t \in Threads : ServiceStep(t) \/ ReadStatus(t) \/ BuildPayload(t)
    \/ (Tick \/ ExpireOrder \/ AdvanceClock \/ Done) /\ UNCHANGED dvars

TSpec == TInit /\ [][TNext]_tvars

(* Spec section 5 lets only the balance query read shared state without   *)
(* its lock; a trade.executed payload therefore reports a state the order *)
(* was in: a live status (pending, partially_filled) exactly when a       *)
(* remaining quantity is reported.                                          *)
PayloadConsistent ==
    \A p \in payloads : (p.status \in Live) <=> (p.rem > 0)
==============================================================================
