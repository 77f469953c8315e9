------------------------------ MODULE Exchange ------------------------------
(***************************************************************************)
(* The matching core of miniexchange: brokers' balances and reservations, *)
(* the per-symbol order books guarded by a write lock, the matcher's      *)
(* limit, market and cancel passes (src/internal/engine/matcher.go), the  *)
(* order service steps that run after a pass outside the book lock         *)
(* (src/internal/service/order.go) and the expiry manager's horizon and   *)
(* tick (src/internal/engine/expiry.go).                                   *)
(*                                                                         *)
(* Request goroutines are the Threads.  A step of a thread is one critical *)
(* section of the code: taking a book lock together with the reservation  *)
(* under it, one iteration of a fill loop (both orders, buyer and seller  *)
(* settlement, trade append, book removal), the end of a pass with the    *)
(* unlock, and each step the service takes after the matcher returns.     *)
(* Steps of other threads on other symbols interleave between them, which *)
(* is where the brokers' balances are shared.                              *)
(***************************************************************************)
EXTENDS Integers, Sequences, FiniteSets, SequencesExt

CONSTANTS
    Brokers,      \* registered broker ids (model values)
    Symbols,      \* stock symbols (model values)
    Threads,      \* concurrent request goroutines (model values)
    NoThread,     \* the owner of an unlocked book
    Prices,       \* limit prices in cents, a small set of positive integers
    Quantities,   \* order quantities, a small set of positive integers
    InitCash,     \* [Brokers -> Nat]: cash given at registration
    InitHold,     \* [Brokers -> [Symbols -> Nat]]: initial_holdings
    MaxOrders,    \* bound on the number of accepted orders
    MaxTime       \* bound on the clock

ASSUME /\ Prices \subseteq Nat \ {0} /\ Quantities \subseteq Nat \ {0}
       /\ MaxOrders \in Nat /\ MaxTime \in Nat \ {0}
       /\ NoThread \notin Threads

SumOver(S, f(_)) == MapThenSumSet(f, S)

VARIABLES
    cash,          \* Broker.CashBalance
    reservedCash,  \* Broker.ReservedCash
    holding,       \* Holding.Quantity per broker and symbol (absent row = 0)
    reservedQty,   \* Holding.ReservedQuantity
    orders,        \* the order store: order id i is orders[i]
    book,          \* per symbol, the ids of the orders resting on the book
    lock,          \* per symbol, the goroutine holding OrderBook.mu for writing
    trades,        \* the trade store: per symbol, one record per match
    active,        \* ExpiryManager.activeOrders, order ids by expires_at
    expiring,      \* the snapshot toExpire the running tick still has to process
    now,           \* wall clock
    events,        \* order.cancelled / order.expired notifications dispatched
    pc,            \* per goroutine, where it is in its request
    cur            \* per goroutine, the order its request works on

vars == <<cash, reservedCash, holding, reservedQty, orders, book, lock,
          trades, active, expiring, now, events, pc, cur>>

OrderIds == 1..MaxOrders
Statuses == {"pending", "partially_filled", "filled", "cancelled", "expired"}
Live == {"pending", "partially_filled"}

IsLive(o) == orders[o].status \in Live

-----------------------------------------------------------------------------
(* Broker balances (src/internal/domain/broker.go).                        *)

AvailableCash(b) == cash[b] - reservedCash[b]

AvailableQuantity(b, s) == holding[b][s] - reservedQty[b][s]

-----------------------------------------------------------------------------
(* The order book (src/internal/engine/book.go).  Entries are ordered by  *)
(* price, then CreatedAt, then OrderID; ids are assigned under the book   *)
(* lock in creation order, so the id stands for (CreatedAt, OrderID).     *)

BidLess(a, b) == \/ orders[a].price > orders[b].price
                 \/ orders[a].price = orders[b].price /\ a < b

AskLess(a, b) == \/ orders[a].price < orders[b].price
                 \/ orders[a].price = orders[b].price /\ a < b

Bids(s) == {o \in book[s] : orders[o].side = "bid"}
Asks(s) == {o \in book[s] : orders[o].side = "ask"}

\* Min() of a side's B-tree, or 0 when the side is empty.
BestBid(s) == IF Bids(s) = {} THEN 0
              ELSE CHOOSE o \in Bids(s) : \A x \in Bids(s) \ {o} : BidLess(o, x)
BestAsk(s) == IF Asks(s) = {} THEN 0
              ELSE CHOOSE o \in Asks(s) : \A x \in Asks(s) \ {o} : AskLess(o, x)

\* The best entry of the side opposite to order o.
BestOpposite(o) == IF orders[o].side = "bid" THEN BestAsk(orders[o].sym)
                                             ELSE BestBid(orders[o].sym)

\* Mutant: the estimate prices the whole quantity at the best ask.
EstimatedCostAtBest(s, q) == orders[BestAsk(s)].price * q

\* WalkAsks in order, the market bid's cost estimate for quantity q.
RECURSIVE WalkCost(_, _)
WalkCost(seq, q) ==
    IF seq = <<>> \/ q <= 0 THEN 0
    ELSE LET f == IF orders[Head(seq)].rem < q THEN orders[Head(seq)].rem ELSE q
         IN orders[Head(seq)].price * f + WalkCost(Tail(seq), q - f)

EstimatedCost(s, q) == WalkCost(SetToSortSeq(Asks(s), AskLess), q)

-----------------------------------------------------------------------------
(* Order records (src/internal/domain/order.go), as initialised by the    *)
(* matcher once the reservation succeeded; at is CreatedAt, read in the   *)
(* same critical section as the pass's executedAt.                         *)

NewOrder(type, b, side, s, p, q, e) ==
    [type |-> type, broker |-> b, side |-> side, sym |-> s, price |-> p,
     qty |-> q, filled |-> 0, rem |-> q, canc |-> 0, status |-> "pending",
     exp |-> e, at |-> now]

\* The status after a fill leaves rem remaining.
FillStatus(rem) == IF rem = 0 THEN "filled" ELSE "partially_filled"

\* Mutant: the fill takes the incoming remainder whatever rests.
FillQtyIncoming(o, r) == orders[o].rem

\* Step 3c: the fill quantity is the smaller of the two remainders.
FillQty(o, r) == IF orders[r].rem < orders[o].rem THEN orders[r].rem ELSE orders[o].rem

\* One iteration of a fill loop: incoming order o against resting order r
\* at execution price px.  Both orders are updated, the buyer is debited
\* px*f and, for a limit bid, releases its reservation at its own price;
\* the seller is credited px*f and gives up f shares and f reserved shares;
\* the trade is appended to the symbol's log and a filled resting order
\* leaves the book.
Fill(o, r, px) ==
    LET f   == FillQty(o, r)
        bid == IF orders[o].side = "bid" THEN o ELSE r
        ask == IF orders[o].side = "bid" THEN r ELSE o
        by  == orders[bid].broker
        sl  == orders[ask].broker
        s   == orders[o].sym
    IN /\ orders' = [orders EXCEPT
            ![o].rem = @ - f, ![o].filled = @ + f,
            ![o].status = FillStatus(orders[o].rem - f),
            ![r].rem = @ - f, ![r].filled = @ + f,
            ![r].status = FillStatus(orders[r].rem - f)]
       /\ cash' = [cash EXCEPT ![by] = @ - px * f, ![sl] = @ + px * f]
       /\ reservedCash' = IF orders[bid].type = "limit"
                          THEN [reservedCash EXCEPT ![by] = @ - orders[bid].price * f]
                          ELSE reservedCash
       /\ holding' = [holding EXCEPT ![by][s] = @ + f, ![sl][s] = @ - f]
       /\ reservedQty' = [reservedQty EXCEPT ![sl][s] = @ - f]
       /\ trades' = [trades EXCEPT ![s] = Append(@,
                       [incoming |-> o, resting |-> r, price |-> px, qty |-> f,
                        at |-> orders[o].at])]
       /\ book' = IF orders[r].rem = f THEN [book EXCEPT ![s] = @ \ {r}] ELSE book

\* The execution price of a limit match is always the ask's price.
LimitExecutionPrice(o, r) == IF orders[o].side = "bid" THEN orders[r].price
                                                      ELSE orders[o].price

\* Mutants: equal prices do not match; the price check is left out.
CrossesStrict(o, r) == IF orders[o].side = "bid" THEN orders[o].price > orders[r].price
                                                ELSE orders[r].price > orders[o].price
CrossesAlways(o, r) == TRUE

\* Step 3b: a limit order only matches a compatible best opposite.
Crosses(o, r) == IF orders[o].side = "bid" THEN orders[o].price >= orders[r].price
                                          ELSE orders[r].price >= orders[o].price

-----------------------------------------------------------------------------
(* The expiry manager's horizon (src/internal/engine/expiry.go).           *)

\* Add: sort.Search for the first entry expiring strictly after e.
InsertByExpiry(seq, o) ==
    LET e   == orders[o].exp
        idx == CHOOSE i \in 1..Len(seq) + 1 :
                 /\ \A j \in 1..i - 1 : orders[seq[j]].exp <= e
                 /\ i = Len(seq) + 1 \/ orders[seq[i]].exp > e
    IN InsertAt(seq, idx, o)

\* Mutant: only deadlines strictly before now are due.
RECURSIVE DueCountStrict(_, _)
DueCountStrict(seq, t) == IF seq = <<>> \/ orders[Head(seq)].exp >= t THEN 0
                          ELSE 1 + DueCountStrict(Tail(seq), t)

\* tick: the length of the prefix whose expires_at is not after now.
RECURSIVE DueCount(_, _)
DueCount(seq, t) == IF seq = <<>> \/ orders[Head(seq)].exp > t THEN 0
                    ELSE 1 + DueCount(Tail(seq), t)

\* Remove: drop the first entry with the order's id (no-op if absent).
RemoveById(seq, o) == IF \E i \in 1..Len(seq) : seq[i] = o
                      THEN RemoveFirst(seq, o) ELSE seq

\* Mutant: the remainder is zeroed but not recorded as cancelled.
CancelRemainderDropped(rec, status) == [rec EXCEPT !.rem = 0, !.status = status]

\* An order's remainder becomes its cancelled quantity (CancelOrder,
\* expireOrder and the market IOC step).
CancelRemainder(rec, status) ==
    [rec EXCEPT !.canc = rec.rem, !.rem = 0, !.status = status]

\* Mutant: the release uses the original quantity, forgetting fills.
ReleaseWholeQuantity(o, c) ==
    LET b == orders[o].broker IN
    IF orders[o].side = "bid"
    THEN /\ reservedCash' = [reservedCash EXCEPT ![b] = @ - orders[o].price * orders[o].qty]
         /\ UNCHANGED reservedQty
    ELSE /\ reservedQty' = [reservedQty EXCEPT ![b][orders[o].sym] = @ - orders[o].qty]
         /\ UNCHANGED reservedCash

\* Release the reservation of order o after cancelled quantity c.
ReleaseReservation(o, c) ==
    LET b == orders[o].broker IN
    IF orders[o].side = "bid"
    THEN /\ reservedCash' = [reservedCash EXCEPT ![b] = @ - orders[o].price * c]
         /\ UNCHANGED reservedQty
    ELSE /\ reservedQty' = [reservedQty EXCEPT ![b][orders[o].sym] = @ - c]
         /\ UNCHANGED reservedCash

\* Mutant: a status check that always passes.
NoRecheck(o) == TRUE

\* CancelOrder's re-check under the book lock: still pending or
\* partially filled.
StillCancellable(o) == IsLive(o)

\* expireOrder's re-check under the book lock.
StillExpirable(o) == IsLive(o)

\* Mutant: the incoming order is inserted even when it filled completely.
RestsAlways(o) == TRUE

\* Step 4 of MatchLimitOrder: only a remainder rests.
RestsOnBook(o) == orders[o].rem > 0

-----------------------------------------------------------------------------
Init ==
    /\ cash = InitCash
    /\ reservedCash = [b \in Brokers |-> 0]
    /\ holding = InitHold
    /\ reservedQty = [b \in Brokers |-> [s \in Symbols |-> 0]]
    /\ orders = <<>>
    /\ book = [s \in Symbols |-> {}]
    /\ lock = [s \in Symbols |-> NoThread]
    /\ trades = [s \in Symbols |-> <<>>]
    /\ active = <<>>
    /\ expiring = <<>>
    /\ now = 0
    /\ events = <<>>
    /\ pc = [t \in Threads |-> "idle"]
    /\ cur = [t \in Threads |-> 0]

\* Whether a new order may still be accepted (the model's bound).
CanAccept == Len(orders) < MaxOrders

(* MatchLimitOrder, steps 1 and 2: take the book lock, reserve cash        *)
(* (bid) or shares (ask) under the broker's lock, create the order.  An    *)
(* insufficient balance returns before any state changes.  The service     *)
(* has already checked that expires_at is in the future.                   *)
SubmitLimit(t, b, side, s, p, q, e) ==
    /\ pc[t] = "idle" /\ CanAccept /\ lock[s] = NoThread /\ e > now
    /\ IF side = "bid"
       THEN /\ AvailableCash(b) >= p * q
            /\ reservedCash' = [reservedCash EXCEPT ![b] = @ + p * q]
            /\ UNCHANGED reservedQty
       ELSE /\ AvailableQuantity(b, s) >= q
            /\ reservedQty' = [reservedQty EXCEPT ![b][s] = @ + q]
            /\ UNCHANGED reservedCash
    /\ orders' = Append(orders, NewOrder("limit", b, side, s, p, q, e))
    /\ lock' = [lock EXCEPT ![s] = t]
    /\ pc' = [pc EXCEPT ![t] = "limit"]
    /\ cur' = [cur EXCEPT ![t] = Len(orders) + 1]
    /\ UNCHANGED <<cash, holding, book, trades, active, expiring, now, events>>

(* One iteration of MatchLimitOrder's fill loop.                           *)
LimitFill(t) ==
    LET o == cur[t]  r == BestOpposite(cur[t]) IN
    /\ pc[t] = "limit"
    /\ orders[o].rem > 0 /\ r # 0 /\ Crosses(o, r)
    /\ Fill(o, r, LimitExecutionPrice(o, r))
    /\ UNCHANGED <<lock, active, expiring, now, events, pc, cur>>

(* Step 4 of MatchLimitOrder and the unlock: once the loop stops, a        *)
(* remainder rests on the book.                                            *)
LimitRest(t) ==
    LET o == cur[t]  r == BestOpposite(cur[t])  s == orders[cur[t]].sym IN
    /\ pc[t] = "limit"
    /\ ~(orders[o].rem > 0 /\ r # 0 /\ Crosses(o, r))
    /\ book' = IF RestsOnBook(o) THEN [book EXCEPT ![s] = @ \cup {o}] ELSE book
    /\ lock' = [lock EXCEPT ![s] = NoThread]
    /\ pc' = [pc EXCEPT ![t] = "addExpiry"]
    /\ UNCHANGED <<cash, reservedCash, holding, reservedQty, orders, trades,
                   active, expiring, now, events, cur>>

(* submitLimitOrder after MatchLimitOrder returned, outside the book lock: *)
(* an order that reads as still resting is added to the expiry horizon.    *)
AddExpiry(t) ==
    LET o == cur[t] IN
    /\ pc[t] = "addExpiry"
    /\ active' = IF IsLive(o) THEN InsertByExpiry(active, o) ELSE active
    /\ pc' = [pc EXCEPT ![t] = "idle"]
    /\ cur' = [cur EXCEPT ![t] = 0]
    /\ UNCHANGED <<cash, reservedCash, holding, reservedQty, orders, book, lock,
                   trades, expiring, now, events>>

(* MatchMarketOrder, steps 0 to 2: take the book lock; fail with          *)
(* NO_LIQUIDITY on an empty opposite side; a bid needs available cash for  *)
(* the cost of walking the asks but reserves nothing, an ask reserves its  *)
(* shares; create the order.                                               *)
SubmitMarket(t, b, side, s, q) ==
    /\ pc[t] = "idle" /\ CanAccept /\ lock[s] = NoThread
    /\ IF side = "bid" THEN Asks(s) # {} ELSE Bids(s) # {}
    /\ IF side = "bid"
       THEN /\ AvailableCash(b) >= EstimatedCost(s, q)
            /\ UNCHANGED <<reservedCash, reservedQty>>
       ELSE /\ AvailableQuantity(b, s) >= q
            /\ reservedQty' = [reservedQty EXCEPT ![b][s] = @ + q]
            /\ UNCHANGED reservedCash
    /\ orders' = Append(orders, NewOrder("market", b, side, s, 0, q, 0))
    /\ lock' = [lock EXCEPT ![s] = t]
    /\ pc' = [pc EXCEPT ![t] = "market"]
    /\ cur' = [cur EXCEPT ![t] = Len(orders) + 1]
    /\ UNCHANGED <<cash, holding, book, trades, active, expiring, now, events>>

(* One iteration of MatchMarketOrder's fill loop: no price check, the      *)
(* resting order's price is the execution price.                           *)
MarketFill(t) ==
    LET o == cur[t]  r == BestOpposite(cur[t]) IN
    /\ pc[t] = "market"
    /\ orders[o].rem > 0 /\ r # 0
    /\ Fill(o, r, orders[r].price)
    /\ UNCHANGED <<lock, active, expiring, now, events, pc, cur>>

(* Step 4 of MatchMarketOrder and the unlock: immediate-or-cancel.  The    *)
(* remainder is cancelled and a market ask releases its reserved shares.   *)
MarketFinish(t) ==
    LET o == cur[t]  s == orders[cur[t]].sym
        c == orders[cur[t]].rem
    IN
    /\ pc[t] = "market"
    /\ ~(orders[o].rem > 0 /\ BestOpposite(o) # 0)
    /\ orders' = IF c > 0
                 THEN [orders EXCEPT ![o] = CancelRemainder(@,
                         IF orders[o].filled = orders[o].qty THEN "filled"
                                                             ELSE "cancelled")]
                 ELSE orders
    /\ reservedQty' = IF orders[o].side = "ask" /\ c > 0
                      THEN [reservedQty EXCEPT ![orders[o].broker][s] = @ - c]
                      ELSE reservedQty
    /\ lock' = [lock EXCEPT ![s] = NoThread]
    /\ pc' = [pc EXCEPT ![t] = "idle"]
    /\ cur' = [cur EXCEPT ![t] = 0]
    /\ UNCHANGED <<cash, reservedCash, holding, book, trades, active, expiring,
                   now, events>>

(* CancelOrder, steps 1 and 2: the status is checked without the lock.     *)
CancelCheck(t, o) ==
    /\ pc[t] = "idle" /\ o \in 1..Len(orders) /\ IsLive(o)
    /\ pc' = [pc EXCEPT ![t] = "cancel"]
    /\ cur' = [cur EXCEPT ![t] = o]
    /\ UNCHANGED <<cash, reservedCash, holding, reservedQty, orders, book, lock,
                   trades, active, expiring, now, events>>

(* CancelOrder, steps 3 to 6 under the book lock: re-check the status      *)
(* (ORDER_NOT_CANCELLABLE if it moved on), remove the order from the book, *)
(* cancel its remainder and release its reservation.                       *)
CancelLocked(t) ==
    LET o == cur[t]  s == orders[cur[t]].sym IN
    /\ pc[t] = "cancel" /\ lock[s] = NoThread
    /\ IF StillCancellable(o)
       THEN /\ book' = [book EXCEPT ![s] = @ \ {o}]
            /\ orders' = [orders EXCEPT ![o] = CancelRemainder(@, "cancelled")]
            /\ ReleaseReservation(o, orders[o].rem)
            /\ pc' = [pc EXCEPT ![t] = "cancelled"]
            /\ UNCHANGED cur
       ELSE /\ pc' = [pc EXCEPT ![t] = "idle"]
            /\ cur' = [cur EXCEPT ![t] = 0]
            /\ UNCHANGED <<book, orders, reservedCash, reservedQty>>
    /\ UNCHANGED <<cash, holding, lock, trades, active, expiring, now, events>>

(* OrderService.CancelOrder after the matcher returned: remove the order   *)
(* from the expiry horizon and dispatch order.cancelled.                   *)
CancelFinish(t) ==
    LET o == cur[t] IN
    /\ pc[t] = "cancelled"
    /\ active' = RemoveById(active, o)
    /\ events' = Append(events, [kind |-> "cancelled", order |-> o])
    /\ pc' = [pc EXCEPT ![t] = "idle"]
    /\ cur' = [cur EXCEPT ![t] = 0]
    /\ UNCHANGED <<cash, reservedCash, holding, reservedQty, orders, book, lock,
                   trades, expiring, now>>

(* ExpiryManager.tick, under the manager's lock: cut the prefix of the     *)
(* horizon that is due at now and keep it as the work of this tick.        *)
Tick ==
    LET k == DueCount(active, now) IN
    /\ expiring = <<>> /\ k > 0
    /\ expiring' = SubSeq(active, 1, k)
    /\ active' = SubSeq(active, k + 1, Len(active))
    /\ UNCHANGED <<cash, reservedCash, holding, reservedQty, orders, book, lock,
                   trades, now, events, pc, cur>>

(* expireOrder for the next order of the tick: under the book lock,        *)
(* re-check the status, expire the remainder, evict it from the book,      *)
(* release the reservation; after the unlock dispatch order.expired.       *)
ExpireOrder ==
    LET o == Head(expiring)  s == orders[Head(expiring)].sym IN
    /\ expiring # <<>> /\ lock[s] = NoThread
    /\ expiring' = Tail(expiring)
    /\ IF StillExpirable(o)
       THEN /\ orders' = [orders EXCEPT ![o] = CancelRemainder(@, "expired")]
            /\ book' = [book EXCEPT ![s] = @ \ {o}]
            /\ ReleaseReservation(o, orders[o].rem)
            /\ events' = Append(events, [kind |-> "expired", order |-> o])
       ELSE UNCHANGED <<orders, book, reservedCash, reservedQty, events>>
    /\ UNCHANGED <<cash, holding, lock, trades, active, now, pc, cur>>

\* The ticker's clock advances.
AdvanceClock ==
    /\ now < MaxTime
    /\ now' = now + 1
    /\ UNCHANGED <<cash, reservedCash, holding, reservedQty, orders, book, lock,
                   trades, active, expiring, events, pc, cur>>

\* The bounds are exhausted and every request and tick has completed.
Quiescent ==
    /\ \A t \in Threads : pc[t] = "idle"
    /\ expiring = <<>> /\ now = MaxTime
    /\ \A o \in 1..Len(orders) : ~IsLive(o)

Done == Quiescent /\ UNCHANGED vars

ThreadStep(t) ==
    \/ \E b \in Brokers, side \in {"bid", "ask"}, s \in Symbols, p \in Prices,
          q \in Quantities, e \in 1..MaxTime : SubmitLimit(t, b, side, s, p, q, e)
    \/ \E b \in Brokers, side \in {"bid", "ask"}, s \in Symbols, q \in Quantities :
          SubmitMarket(t, b, side, s, q)
    \/ \E o \in OrderIds : CancelCheck(t, o)
    \/ LimitFill(t) \/ LimitRest(t) \/ AddExpiry(t)
    \/ MarketFill(t) \/ MarketFinish(t)
    \/ CancelLocked(t) \/ CancelFinish(t)

Next ==
    \/ \E t \in Threads : ThreadStep(t)
    \/ Tick \/ ExpireOrder \/ AdvanceClock
    \/ Done

(* Goroutines that hold a book lock run; the ticker fires and time passes. *)
(* A step that waits for a book lock is only intermittently enabled, so it *)
(* needs strong fairness (sync.Mutex hands the lock over within 1ms of     *)
(* starvation).                                                            *)
Fairness ==
    /\ \A t \in Threads :
         /\ WF_vars(LimitFill(t) \/ LimitRest(t) \/ AddExpiry(t))
         /\ WF_vars(MarketFill(t) \/ MarketFinish(t) \/ CancelFinish(t))
         /\ SF_vars(CancelLocked(t))
    /\ WF_vars(Tick) /\ SF_vars(ExpireOrder) /\ WF_vars(AdvanceClock)

Spec == Init /\ [][Next]_vars

FairSpec == Spec /\ Fairness

-----------------------------------------------------------------------------
(* Properties.                                                             *)

Placed == 1..Len(orders)

\* The goroutine working on order o inside a matching pass, if any.
InPass(o) == \E t \in Threads : cur[t] = o /\ pc[t] \in {"limit", "market"}

TypeOK ==
    /\ cash \in [Brokers -> Int] /\ reservedCash \in [Brokers -> Int]
    /\ holding \in [Brokers -> [Symbols -> Int]]
    /\ reservedQty \in [Brokers -> [Symbols -> Int]]
    /\ Len(orders) <= MaxOrders
    /\ \A o \in Placed : orders[o].status \in Statuses
                         /\ orders[o].rem \in Nat /\ orders[o].canc \in Nat
    /\ book \in [Symbols -> SUBSET OrderIds]
    /\ lock \in [Symbols -> Threads \cup {NoThread}]
    /\ active \in Seq(OrderIds) /\ expiring \in Seq(OrderIds)
    /\ now \in 0..MaxTime
    /\ pc \in [Threads -> {"idle", "limit", "addExpiry", "market", "cancel",
                           "cancelled"}]
    /\ cur \in [Threads -> 0..MaxOrders]

(* Every broker's ReservedCash is exactly price x remaining over its live *)
(* limit bids, and its ReservedQuantity in a symbol exactly the remaining *)
(* of its live asks there: the reservation taken on submission is given   *)
(* back exactly once by fills, cancel, expiry or the IOC remainder.       *)
ReservationConsistent ==
    \A b \in Brokers :
      /\ reservedCash[b] =
           SumOver({o \in Placed : orders[o].broker = b /\ IsLive(o)
                       /\ orders[o].side = "bid" /\ orders[o].type = "limit"},
                   LAMBDA o : orders[o].price * orders[o].rem)
      /\ \A s \in Symbols :
           reservedQty[b][s] =
             SumOver({o \in Placed : orders[o].broker = b /\ IsLive(o)
                         /\ orders[o].side = "ask" /\ orders[o].sym = s},
                     LAMBDA o : orders[o].rem)

\* Quantity an order has in the trade log of its symbol.
TradedQty(o) ==
    LET log == trades[orders[o].sym] IN
    SumOver({i \in DOMAIN log : log[i].incoming = o \/ log[i].resting = o},
            LAMBDA i : log[i].qty)

(* Each order's quantities add up, its filled quantity is what the trade  *)
(* log records for it, and its status agrees with them (spec section 3).  *)
OrderAccounting ==
    \A o \in Placed :
      LET r == orders[o] IN
      /\ r.filled + r.rem + r.canc = r.qty
      /\ r.filled = TradedQty(o)
      /\ (r.status = "filled") <=> (r.filled = r.qty)
      /\ r.status = "partially_filled" => 0 < r.filled /\ r.rem > 0
      /\ r.status \in {"cancelled", "expired"} => r.rem = 0 /\ r.canc > 0

(* The book holds exactly the live limit orders whose submission pass has *)
(* ended: fills, CancelOrder and expireOrder take an order off the book   *)
(* together with its last live status, and market orders never rest.     *)
BookHoldsLiveLimitOrders ==
    \A s \in Symbols :
      book[s] = {o \in Placed : orders[o].sym = s /\ orders[o].type = "limit"
                                /\ IsLive(o) /\ ~InPass(o)}

(* When no pass holds a symbol's lock its book is not crossed: the best   *)
(* bid is below the best ask.                                              *)
NotCrossed ==
    \A s \in Symbols :
      lock[s] = NoThread /\ BestBid(s) # 0 /\ BestAsk(s) # 0
        => orders[BestBid(s)].price < orders[BestAsk(s)].price

(* No trade executes beyond a limit: a limit bid never pays more, a limit *)
(* ask never receives less, than its price.                               *)
LimitRespected ==
    \A s \in Symbols : \A i \in DOMAIN trades[s] :
      LET tr  == trades[s][i]
          bid == IF orders[tr.incoming].side = "bid" THEN tr.incoming ELSE tr.resting
          ask == IF orders[tr.incoming].side = "bid" THEN tr.resting ELSE tr.incoming
      IN /\ orders[bid].type = "limit" => tr.price <= orders[bid].price
         /\ orders[ask].type = "limit" => tr.price >= orders[ask].price

(* An order is cancelled or expired at most once: order.cancelled and     *)
(* order.expired are each dispatched by the one goroutine whose status    *)
(* re-check under the book lock found the order live, and name the        *)
(* status the order kept.                                                  *)
SingleTermination ==
    /\ \A i, j \in DOMAIN events : i # j => events[i].order # events[j].order
    /\ \A i \in DOMAIN events : orders[events[i].order].status = events[i].kind

(* A filled, cancelled or expired order never changes again, whatever a   *)
(* stale CancelOrder or a stale entry of the expiry horizon does.          *)
TerminalAbsorbing ==
    [][\A o \in Placed : ~IsLive(o) => orders'[o] = orders[o]]_orders

(* Every accepted order eventually reaches a terminal status: a market    *)
(* pass ends, and a resting limit order is filled, cancelled or expired   *)
(* by a tick once its deadline has passed.                                 *)
LiveOrdersTerminate ==
    \A o \in OrderIds :
      (o \in Placed /\ IsLive(o)) ~> (o \in Placed /\ ~IsLive(o))

(* Spec section 3: 0 <= reserved <= total, for cash and for every holding. *)
NoOverdraft ==
    \A b \in Brokers :
      /\ 0 <= reservedCash[b] /\ reservedCash[b] <= cash[b]
      /\ \A s \in Symbols : 0 <= reservedQty[b][s] /\ reservedQty[b][s] <= holding[b][s]

==============================================================================
