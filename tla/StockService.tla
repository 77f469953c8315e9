---------------------------- MODULE StockService ----------------------------
(***************************************************************************)
(* The read side of the exchange: the stock service's reference price    *)
(* (GetPrice, src/internal/service/stock.go), book snapshot (GetBook with *)
(* OrderBook.TopBids/TopAsks, src/internal/engine/book.go) and quote      *)
(* (GetQuote with Matcher.SimulateMarketOrder), evaluated on the states   *)
(* of the Exchange model.                                                  *)
(*                                                                         *)
(* GetBook and GetQuote take the book's read lock, so they observe a      *)
(* symbol only while no pass holds its write lock.  GetPrice reads the    *)
(* trade store under the store's own lock, so it observes every state,    *)
(* passes in progress included.  None of them changes state: they are     *)
(* operators.  The history variable quoted keeps, for every market order, *)
(* the quote GetQuote returns on the book the order's pass starts from    *)
(* (SubmitMarket's pre-state, where the read lock is free).                *)
(***************************************************************************)
EXTENDS Exchange

CONSTANTS
    VWAPWindow,   \* the reference-price window, in clock steps
    MaxDepth      \* the largest depth asked of GetBook

VARIABLE quoted   \* per order id, the quote on the book its pass started from

svars == <<vars, quoted>>

\* The sides of a book in B-tree order (Ascend).
BidSeq(s) == SetToSortSeq(Bids(s), BidLess)
AskSeq(s) == SetToSortSeq(Asks(s), AskLess)

-----------------------------------------------------------------------------
(* OrderBook.topLevels: walk the tree in order, merge an entry into the   *)
(* last level at its price, stop at the first new price once n levels     *)
(* are full.                                                               *)

\* Mutant: the level-count check lets one extra level in.
LevelsFullLate(levels, n) == Len(levels) > n

LevelsFull(levels, n) == Len(levels) >= n

RECURSIVE TopLevelsFrom(_, _, _)
TopLevelsFrom(seq, n, levels) ==
    IF seq = <<>> THEN levels
    ELSE LET e == Head(seq) IN
         IF levels # <<>> /\ Last(levels).price = orders[e].price
         THEN TopLevelsFrom(Tail(seq), n,
                [levels EXCEPT ![Len(levels)].qty = @ + orders[e].rem,
                               ![Len(levels)].count = @ + 1])
         ELSE IF LevelsFull(levels, n) THEN levels
         ELSE TopLevelsFrom(Tail(seq), n,
                Append(levels, [price |-> orders[e].price, qty |-> orders[e].rem,
                                count |-> 1]))

TopLevels(seq, n) == IF n <= 0 THEN <<>> ELSE TopLevelsFrom(seq, n, <<>>)

\* GetBook: depth must be in 1..50; both sides to depth, and the spread
\* when both are non-empty (the empty set for null).
GetBook(s, depth) ==
    LET bids == TopLevels(BidSeq(s), depth)
        asks == TopLevels(AskSeq(s), depth)
    IN IF depth < 1 \/ depth > 50 THEN [error |-> "validation_error"]
       ELSE [bids |-> bids, asks |-> asks,
             spread |-> IF bids # <<>> /\ asks # <<>> THEN {asks[1].price - bids[1].price}
                        ELSE {}]

-----------------------------------------------------------------------------
(* SimulateMarketOrder: walk the opposite side, fill min(remaining, entry) *)
(* from each entry, merge fills at equal prices into one level.            *)

\* Mutant: the walk only stops once remaining is negative.
WalkStopsLate(remaining) == remaining < 0

WalkStops(remaining) == remaining <= 0

\* Merge a fill of q at price px into the last level or append a level.
AddFill(levels, px, q) ==
    IF levels # <<>> /\ Last(levels).price = px
    THEN [levels EXCEPT ![Len(levels)].qty = @ + q]
    ELSE Append(levels, [price |-> px, qty |-> q])

RECURSIVE SimulateWalk(_, _, _)
SimulateWalk(seq, remaining, acc) ==
    IF seq = <<>> \/ WalkStops(remaining) THEN acc
    ELSE LET e  == Head(seq)
             f  == IF orders[e].rem > remaining THEN remaining ELSE orders[e].rem
             px == orders[e].price
         IN SimulateWalk(Tail(seq), remaining - f,
              [avail |-> acc.avail + f, total |-> acc.total + px * f,
               levels |-> AddFill(acc.levels, px, f)])

\* The QuoteResult of a market order of side and quantity q on symbol s;
\* the average price and total are absent ({}) without liquidity.
SimulateMarketOrder(s, side, q) ==
    LET r == SimulateWalk(IF side = "bid" THEN AskSeq(s) ELSE BidSeq(s), q,
                          [avail |-> 0, total |-> 0, levels |-> <<>>])
    IN [avail |-> r.avail, levels |-> r.levels,
        avg   |-> IF r.avail > 0 THEN {r.total \div r.avail} ELSE {},
        total |-> IF r.avail > 0 THEN {r.total} ELSE {},
        full  |-> r.avail >= q]

\* GetQuote: the service validates side and quantity, then simulates.
GetQuote(s, side, q) ==
    IF side \in {"bid", "ask"} /\ q > 0 THEN SimulateMarketOrder(s, side, q)
    ELSE [error |-> "validation_error"]

\* The quote kept for a limit order.
NoQuote == [avail |-> 0, levels |-> <<>>, avg |-> {}, total |-> {}, full |-> FALSE]

\* Order.AveragePrice: the volume-weighted price of the order's own trade
\* records over its filled quantity, absent before any fill.
AveragePrice(o) ==
    LET log == trades[orders[o].sym]
        own == {i \in DOMAIN log : log[i].incoming = o \/ log[i].resting = o}
    IN IF own = {} \/ orders[o].filled = 0 THEN {}
       ELSE {SumOver(own, LAMBDA i : log[i].price * log[i].qty) \div orders[o].filled}

-----------------------------------------------------------------------------
(* GetPrice: the trade store holds two records per match (the incoming    *)
(* and the resting order's), appended in execution order.                 *)

TradeRecords(s) ==
    FlattenSeq([i \in DOMAIN trades[s] |->
      << [order |-> trades[s][i].incoming, price |-> trades[s][i].price,
          qty |-> trades[s][i].qty, at |-> trades[s][i].at],
         [order |-> trades[s][i].resting, price |-> trades[s][i].price,
          qty |-> trades[s][i].qty, at |-> trades[s][i].at] >>])

\* lastTrade := trades[len(trades)-1]
LastTrade(log) == log[Len(log)]

\* Walk back from record i while ExecutedAt is not before windowStart.
RECURSIVE WindowSums(_, _, _, _)
WindowSums(log, i, start, acc) ==
    IF i = 0 \/ log[i].at < start THEN acc
    ELSE WindowSums(log, i - 1, start,
           [spq |-> acc.spq + log[i].price * log[i].qty, sq |-> acc.sq + log[i].qty,
            n |-> acc.n + 1])

\* The PriceResponse computed from a copy of the log: price, trades in
\* window, last trade time ({} = null).
PriceOf(log) ==
    LET w == WindowSums(log, Len(log), now - VWAPWindow, [spq |-> 0, sq |-> 0, n |-> 0]) IN
    IF log = <<>> THEN [price |-> {}, n |-> 0, last |-> {}]
    ELSE [price |-> IF w.sq > 0 THEN {w.spq \div w.sq} ELSE {LastTrade(log).price},
          n |-> w.n, last |-> {LastTrade(log).at}]

(* The pass holding s's lock made the last match: the two records of that *)
(* match are appended by two TradeStore.Append calls, each under the      *)
(* store's lock only, so GetBySymbol can return the log between them.     *)
MidAppend(s) ==
    /\ lock[s] # NoThread /\ trades[s] # <<>>
    /\ Last(trades[s]).incoming = cur[lock[s]]

\* The responses GetPrice can give in this state.
GetPrice(s) ==
    LET log == TradeRecords(s) IN
    {PriceOf(log)} \cup (IF MidAppend(s) THEN {PriceOf(Front(log))} ELSE {})

-----------------------------------------------------------------------------
\* A new market order records the quote of the book it was accepted on.
RecordQuote ==
    quoted' = IF Len(orders') = Len(orders) THEN quoted
              ELSE LET o == orders'[Len(orders')] IN
                   Append(quoted, IF o.type = "market"
                                  THEN GetQuote(o.sym, o.side, o.qty)
                                  ELSE NoQuote)

SInit == Init /\ quoted = <<>>

SNext == Next /\ RecordQuote

SSpec == SInit /\ [][SNext]_svars

-----------------------------------------------------------------------------
(* Properties.                                                             *)

\* The levels a market order actually executed, merged like a quote's.
ExecutedLevels(o) ==
    LET log == trades[orders[o].sym] IN
    FoldLeft(LAMBDA lv, i : AddFill(lv, log[i].price, log[i].qty), <<>>,
             SelectSeq([i \in DOMAIN log |-> i], LAMBDA i : log[i].incoming = o))

(* Spec property 10, quote fidelity: a market order's pass executes       *)
(* exactly what SimulateMarketOrder quoted on the book it started from:   *)
(* the same price levels in order, the same quantity, the same average    *)
(* price, and it is filled iff the quote was fully fillable.               *)
QuoteFidelity ==
    \A o \in Placed :
      orders[o].type = "market" /\ ~InPass(o) =>
        /\ quoted[o].levels = ExecutedLevels(o)
        /\ quoted[o].avail = orders[o].filled
        /\ quoted[o].avg = AveragePrice(o)
        /\ quoted[o].full <=> orders[o].status = "filled"

\* Reference aggregation of a side: its distinct prices in priority order,
\* each with the total remaining and the number of resting orders.
RefLevels(side, better(_, _), n) ==
    LET ps    == {orders[o].price : o \in side}
        order == SetToSortSeq(ps, better)
        at(p) == {o \in side : orders[o].price = p}
    IN [k \in 1..(IF n < Len(order) THEN n ELSE Len(order)) |->
          [price |-> order[k], qty |-> SumOver(at(order[k]), LAMBDA o : orders[o].rem),
           count |-> Cardinality(at(order[k]))]]

(* Spec sections 4.2 and 4.7: a book snapshot taken under the read lock   *)
(* has, for every depth, the top levels of each side (bids descending,    *)
(* asks ascending) with their total remaining and order count, and the    *)
(* spread best ask - best bid when both sides are non-empty.              *)
BookSnapshotMatchesReference ==
    \A s \in Symbols, depth \in 1..MaxDepth :
      lock[s] = NoThread =>
        LET v == GetBook(s, depth) IN
        /\ v.bids = RefLevels(Bids(s), LAMBDA x, y : x > y, depth)
        /\ v.asks = RefLevels(Asks(s), LAMBDA x, y : x < y, depth)
        /\ v.spread = IF BestBid(s) # 0 /\ BestAsk(s) # 0
                      THEN {orders[BestAsk(s)].price - orders[BestBid(s)].price}
                      ELSE {}

\* The matches of log m whose execution time is in the window.
InWindow(m) == {i \in DOMAIN m : m[i].at >= now - VWAPWindow}

\* Spec 4.6: the reference price and last trade time of the matches m.
RefPrice(m) ==
    LET w == InWindow(m) IN
    IF m = <<>> THEN [price |-> {}, last |-> {}]
    ELSE [price |-> IF w = {} THEN {Last(m).price}
                    ELSE {SumOver(w, LAMBDA i : m[i].price * m[i].qty)
                            \div SumOver(w, LAMBDA i : m[i].qty)},
          last |-> {Last(m).at}]

\* The match logs a reader may be said to have observed: all matches, or
\* all but a match whose records are still being appended.
ObservedMatches(s) ==
    {trades[s]} \cup (IF MidAppend(s) THEN {Front(trades[s])} ELSE {})

(* Spec property 11: the reference price is sum(p*q) / sum(q) over the    *)
(* trades in the window, the last trade's price when the window is empty  *)
(* but the log is not, and absent when the log is empty; last_trade_at is *)
(* the last trade's time.  GetPrice walks a log with two records per      *)
(* match, possibly read between the two appends of a running pass, and    *)
(* must still answer as if the match had happened or not.                 *)
VWAPMatchesSpec ==
    \A s \in Symbols : \A v \in GetPrice(s) :
      \E m \in ObservedMatches(s) :
        v.price = RefPrice(m).price /\ v.last = RefPrice(m).last

(* Spec section 4.6: the response carries the count of trades in the      *)
(* window.  A trade is one match; the store holds two records of each.    *)
TradesInWindowCounted ==
    \A s \in Symbols : \A v \in GetPrice(s) :
      \E m \in ObservedMatches(s) : v.n = Cardinality(InWindow(m))
==============================================================================
