---------------------------- MODULE AtomicExchange ----------------------------
(***************************************************************************)
(* What the matcher promises its callers: every matching pass, cancel and *)
(* expiry on a symbol is one indivisible step (spec section 5, "for a     *)
(* single symbol, all matching/cancellation/expiration operations are     *)
(* serialised").  A limit pass reserves, fills while the best opposite    *)
(* order is compatible and rests its remainder; a market pass fills while *)
(* the opposite side has liquidity and cancels the rest; both in one step. *)
(*                                                                         *)
(* A pass is written as a function of a state record st, with fields cash, *)
(* rc (reserved cash), hold, rq (reserved quantity), orders, book and      *)
(* trades, so that a refinement mapping can also run the rest of a pass    *)
(* that is in progress.                                                    *)
(***************************************************************************)
EXTENDS Integers, Sequences, FiniteSets, SequencesExt

CONSTANTS Brokers, Symbols, Prices, Quantities, InitCash, InitHold,
          MaxOrders, MaxTime

VARIABLES cash, reservedCash, holding, reservedQty, orders, book, trades, now

avars == <<cash, reservedCash, holding, reservedQty, orders, book, trades, now>>

St == [cash |-> cash, rc |-> reservedCash, hold |-> holding, rq |-> reservedQty,
       orders |-> orders, book |-> book, trades |-> trades]

Live(st, o) == st.orders[o].status \in {"pending", "partially_filled"}

\* The best resting order opposite to order o: the minimum under bidLess
\* (highest price) or askLess (lowest price), earlier id first; 0 if none.
BestFor(st, o) ==
    LET side == IF st.orders[o].side = "bid" THEN "ask" ELSE "bid"
        S    == {x \in st.book[st.orders[o].sym] : st.orders[x].side = side}
        Better(x, y) == IF side = "bid" THEN st.orders[x].price > st.orders[y].price
                                        ELSE st.orders[x].price < st.orders[y].price
    IN IF S = {} THEN 0
       ELSE CHOOSE x \in S : \A y \in S \ {x} :
              Better(x, y) \/ (st.orders[x].price = st.orders[y].price /\ x < y)

\* One match of o against r at price px (matcher.go, fill loop body).
Match(st, o, r, px) ==
    LET os  == st.orders
        f   == IF os[r].rem < os[o].rem THEN os[r].rem ELSE os[o].rem
        bid == IF os[o].side = "bid" THEN o ELSE r
        ask == IF os[o].side = "bid" THEN r ELSE o
        by  == os[bid].broker
        sl  == os[ask].broker
        s   == os[o].sym
        Upd(x) == [os[x] EXCEPT !.rem = @ - f, !.filled = @ + f,
                      !.status = IF os[x].rem = f THEN "filled" ELSE "partially_filled"]
    IN [st EXCEPT
          !.orders = [os EXCEPT ![o] = Upd(o), ![r] = Upd(r)],
          !.cash   = [@ EXCEPT ![by] = @ - px * f, ![sl] = @ + px * f],
          !.rc     = IF os[bid].type = "limit"
                     THEN [@ EXCEPT ![by] = @ - os[bid].price * f] ELSE @,
          !.hold   = [@ EXCEPT ![by][s] = @ + f, ![sl][s] = @ - f],
          !.rq     = [@ EXCEPT ![sl][s] = @ - f],
          !.trades = [@ EXCEPT ![s] = Append(@, [incoming |-> o, resting |-> r,
                        price |-> px, qty |-> f, at |-> os[o].at])],
          !.book   = IF os[r].rem = f THEN [@ EXCEPT ![s] = @ \ {r}] ELSE @]

\* MatchLimitOrder's loop and step 4: match while the best opposite order
\* is compatible, at the ask's price; rest the remainder.
RECURSIVE LimitLoop(_, _)
LimitLoop(st, o) ==
    LET r  == BestFor(st, o)
        os == st.orders
    IN IF /\ os[o].rem > 0 /\ r # 0
          /\ IF os[o].side = "bid" THEN os[o].price >= os[r].price
                                   ELSE os[r].price >= os[o].price
       THEN LimitLoop(Match(st, o, r, IF os[o].side = "bid" THEN os[r].price
                                                            ELSE os[o].price), o)
       ELSE IF os[o].rem > 0
            THEN [st EXCEPT !.book[os[o].sym] = @ \cup {o}]
            ELSE st

\* MatchMarketOrder's loop and step 4: match at the resting price while
\* there is liquidity; cancel the remainder and release a market ask's
\* reserved shares for it.
RECURSIVE MarketLoop(_, _)
MarketLoop(st, o) ==
    LET r == BestFor(st, o)  os == st.orders  c == os[o].rem IN
    IF c > 0 /\ r # 0 THEN MarketLoop(Match(st, o, r, os[r].price), o)
    ELSE IF c = 0 THEN st
    ELSE [st EXCEPT
            !.orders[o] = [@ EXCEPT !.canc = c, !.rem = 0,
                             !.status = IF os[o].filled = os[o].qty THEN "filled"
                                                                   ELSE "cancelled"],
            !.rq = IF os[o].side = "ask" THEN [@ EXCEPT ![os[o].broker][os[o].sym] = @ - c]
                   ELSE @]

\* The rest of order o's pass, from a state where it is in progress.
FinishPass(st, o) == IF st.orders[o].type = "limit" THEN LimitLoop(st, o)
                     ELSE MarketLoop(st, o)

\* Cost of walking the asks of s for quantity q (the market bid's check).
RECURSIVE AskCost(_, _, _)
AskCost(st, S, q) ==
    IF S = {} \/ q <= 0 THEN 0
    ELSE LET a == CHOOSE x \in S : \A y \in S \ {x} :
                    st.orders[x].price < st.orders[y].price
                    \/ (st.orders[x].price = st.orders[y].price /\ x < y)
             f == IF st.orders[a].rem < q THEN st.orders[a].rem ELSE q
         IN st.orders[a].price * f + AskCost(st, S \ {a}, q - f)

-----------------------------------------------------------------------------
Init ==
    /\ cash = InitCash
    /\ reservedCash = [b \in Brokers |-> 0]
    /\ holding = InitHold
    /\ reservedQty = [b \in Brokers |-> [s \in Symbols |-> 0]]
    /\ orders = <<>>
    /\ book = [s \in Symbols |-> {}]
    /\ trades = [s \in Symbols |-> <<>>]
    /\ now = 0

\* Set the variables from a state record.
Become(st) ==
    /\ cash' = st.cash /\ reservedCash' = st.rc /\ holding' = st.hold
    /\ reservedQty' = st.rq /\ orders' = st.orders /\ book' = st.book
    /\ trades' = st.trades

NewOrder(type, b, side, s, p, q, e) ==
    [type |-> type, broker |-> b, side |-> side, sym |-> s, price |-> p,
     qty |-> q, filled |-> 0, rem |-> q, canc |-> 0, status |-> "pending",
     exp |-> e, at |-> now]

\* A whole limit pass: reserve, create, match, rest.
LimitOrder(b, side, s, p, q, e) ==
    LET o  == Len(orders) + 1
        st == [St EXCEPT
                 !.rc = IF side = "bid" THEN [@ EXCEPT ![b] = @ + p * q] ELSE @,
                 !.rq = IF side = "ask" THEN [@ EXCEPT ![b][s] = @ + q] ELSE @,
                 !.orders = Append(@, NewOrder("limit", b, side, s, p, q, e))]
    IN /\ Len(orders) < MaxOrders /\ e > now
       /\ IF side = "bid" THEN cash[b] - reservedCash[b] >= p * q
                          ELSE holding[b][s] - reservedQty[b][s] >= q
       /\ Become(LimitLoop(st, o))
       /\ UNCHANGED now

\* A whole market pass: liquidity and balance checks, match, IOC.
MarketOrder(b, side, s, q) ==
    LET o    == Len(orders) + 1
        opp  == {x \in book[s] : orders[x].side # side}
        st   == [St EXCEPT
                   !.rq = IF side = "ask" THEN [@ EXCEPT ![b][s] = @ + q] ELSE @,
                   !.orders = Append(@, NewOrder("market", b, side, s, 0, q, 0))]
    IN /\ Len(orders) < MaxOrders /\ opp # {}
       /\ IF side = "bid" THEN cash[b] - reservedCash[b] >= AskCost(St, opp, q)
                          ELSE holding[b][s] - reservedQty[b][s] >= q
       /\ Become(MarketLoop(st, o))
       /\ UNCHANGED now

\* Take a live order off the book, cancel or expire its remainder and
\* release what it still reserves.
Terminate(o, status) ==
    LET r == orders[o]  s == r.sym IN
    /\ Live(St, o)
    /\ orders' = [orders EXCEPT ![o] = [r EXCEPT !.canc = r.rem, !.rem = 0,
                                                 !.status = status]]
    /\ book' = [book EXCEPT ![s] = @ \ {o}]
    /\ IF r.side = "bid"
       THEN /\ reservedCash' = [reservedCash EXCEPT ![r.broker] = @ - r.price * r.rem]
            /\ UNCHANGED reservedQty
       ELSE /\ reservedQty' = [reservedQty EXCEPT ![r.broker][s] = @ - r.rem]
            /\ UNCHANGED reservedCash
    /\ UNCHANGED <<cash, holding, trades, now>>

Cancel(o) == Terminate(o, "cancelled")

\* Only an order whose deadline has passed expires.
Expire(o) == orders[o].exp <= now /\ Terminate(o, "expired")

Tick == now < MaxTime /\ now' = now + 1
        /\ UNCHANGED <<cash, reservedCash, holding, reservedQty, orders, book, trades>>

Next ==
    \/ Tick
    \/ \E o \in 1..Len(orders) : Cancel(o) \/ Expire(o)
    \/ \E b \in Brokers, side \in {"bid", "ask"}, s \in Symbols, p \in Prices,
          q \in Quantities, e \in 1..MaxTime : LimitOrder(b, side, s, p, q, e)
    \/ \E b \in Brokers, side \in {"bid", "ask"}, s \in Symbols, q \in Quantities :
          MarketOrder(b, side, s, q)

Spec == Init /\ [][Next]_avars
==============================================================================
