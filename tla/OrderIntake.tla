----------------------------- MODULE OrderIntake -----------------------------
(***************************************************************************)
(* The exchange with limit prices entering as decimals: POST /orders       *)
(* (handler/order.go) hands the request's float price to                   *)
(* OrderService.submitLimitOrder (service/order.go), which rejects a      *)
(* price <= 0, converts it with DollarsToCents, and passes the cents to   *)
(* the matcher; the response shows the order's price back as              *)
(* CentsToDollars.  The other validations of SubmitOrder (type, ids,      *)
(* side, symbol, quantity > 0, expires_at, broker exists) reject a        *)
(* request before any state changes, and the inputs below are the ones    *)
(* that pass them.                                                         *)
(***************************************************************************)
EXTENDS Exchange, Money

CONSTANT PriceInputs   \* request prices, in 10^-Digits dollars

\* submitLimitOrder: reject *req.Price <= 0; priceCents, err :=
\* DollarsToCents(*req.Price), reject on err; then MatchLimitOrder with
\* Price = priceCents.
IntakeLimit(t, b, side, s, d, q, e) ==
    /\ d > 0
    /\ \E r \in DollarsToCents(d) :
         /\ r.ok
         /\ SubmitLimit(t, b, side, s, r.cents, q, e)

IntakeStep(t) ==
    \/ \E b \in Brokers, side \in {"bid", "ask"}, s \in Symbols, d \in PriceInputs,
          q \in Quantities, e \in 1..MaxTime : IntakeLimit(t, b, side, s, d, q, e)
    \/ \E b \in Brokers, side \in {"bid", "ask"}, s \in Symbols, q \in Quantities :
          SubmitMarket(t, b, side, s, q)
    \/ \E o \in OrderIds : CancelCheck(t, o)
    \/ LimitFill(t) \/ LimitRest(t) \/ AddExpiry(t)
    \/ MarketFill(t) \/ MarketFinish(t)
    \/ CancelLocked(t) \/ CancelFinish(t)

INext ==
    \/ \E t \in Threads : IntakeStep(t)
    \/ Tick \/ ExpireOrder \/ AdvanceClock \/ Done

ISpec == Init /\ [][INext]_vars
IFairSpec == ISpec /\ Fairness
-----------------------------------------------------------------------------
LimitOrders == {o \in Placed : orders[o].type = "limit"}

(* Spec property 13: the price a response shows (CentsToDollars of the    *)
(* order's cents), submitted again, converts back to the same cents,      *)
(* whatever the float error of the conversion's products.                  *)
PriceRoundTrip ==
    \A o \in LimitOrders :
      DollarsToCents(CentsToDollars(orders[o].price)) =
        {[ok |-> TRUE, cents |-> orders[o].price]}

(* Spec section 3: every trade executes at a price > 0 minor units; the   *)
(* service's "price must be greater than 0" check is meant to ensure it.  *)
TradePricePositive ==
    \A s \in Symbols : \A i \in DOMAIN trades[s] : trades[s][i].price > 0
==============================================================================
