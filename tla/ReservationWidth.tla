--------------------------- MODULE ReservationWidth ---------------------------
(***************************************************************************)
(* A broker's cash reservation at the width of Go's int64.  MatchLimitOrder *)
(* computes a limit bid's reservation as order.Price * order.Quantity and  *)
(* CancelOrder releases order.Price * order.CancelledQuantity; both are    *)
(* int64 products, and the service bounds the quantity only from below.   *)
(* Width scales int64 down: arithmetic is two's complement modulo         *)
(* 2^Width, as Go's is modulo 2^64, so a product past the top wraps to a  *)
(* negative value exactly as it does in the code.                          *)
(***************************************************************************)
EXTENDS Integers, Sequences

CONSTANTS
    Width,       \* bits of a signed integer (64 in the code)
    InitCash,    \* the broker's CashBalance, in cents
    Prices,      \* limit prices in cents a request may carry
    Quantities,  \* quantities a request may carry
    MaxOrders    \* bound on submitted bids

ASSUME Width \in Nat \ {0} /\ MaxOrders \in Nat

VARIABLES
    cashBalance,   \* Broker.CashBalance
    reservedCash,  \* Broker.ReservedCash
    bids           \* the broker's limit bids: [price, rem, live]

vars == <<cashBalance, reservedCash, bids>>

\* The signed Width-bit value of the integer x (Go's int64 wrap-around).
Int64(x) == LET m == 2^Width IN ((x + m \div 2) % m) - m \div 2

\* Broker.AvailableCash: CashBalance - ReservedCash, in int64.
AvailableCash == Int64(cashBalance - reservedCash)

Init ==
    /\ cashBalance = InitCash
    /\ reservedCash = 0
    /\ bids = <<>>

\* SubmitOrder's validation (quantity > 0, price > 0), then
\* MatchLimitOrder's step 1 for a bid: required = Price * Quantity, reject
\* when AvailableCash() < required, else ReservedCash += required.
SubmitLimitBid(p, q) ==
    LET required == Int64(p * q) IN
    /\ Len(bids) < MaxOrders
    /\ q > 0 /\ p > 0
    /\ ~(AvailableCash < required)
    /\ reservedCash' = Int64(reservedCash + required)
    /\ bids' = Append(bids, [price |-> p, rem |-> q, live |-> TRUE])
    /\ UNCHANGED cashBalance

\* CancelOrder on a live bid: CancelledQuantity = RemainingQuantity, then
\* ReservedCash -= Price * CancelledQuantity.
CancelBid(o) ==
    /\ bids[o].live
    /\ reservedCash' = Int64(reservedCash - Int64(bids[o].price * bids[o].rem))
    /\ bids' = [bids EXCEPT ![o] = [@ EXCEPT !.rem = 0, !.live = FALSE]]
    /\ UNCHANGED cashBalance

Next ==
    \/ \E p \in Prices, q \in Quantities : SubmitLimitBid(p, q)
    \/ \E o \in DOMAIN bids : CancelBid(o)

Spec == Init /\ [][Next]_vars

(* Spec section 3: a broker's reserved cash is never negative and never   *)
(* exceeds its cash balance, whatever limit bids it submits; this is what *)
(* MatchLimitOrder's AvailableCash check at submission is for.             *)
NoOverdraft == 0 <= reservedCash /\ reservedCash <= cashBalance
==============================================================================
