---------------------------- MODULE OrderListing ----------------------------
(***************************************************************************)
(* Listing a broker's orders: OrderStore's primary index and per-broker   *)
(* append-only index (store/order.go), ListByBroker's newest-first status  *)
(* filter and 1-based pagination, OrderService.ListOrders' validation      *)
(* (service/order.go) and the handler's encoding (handler/broker.go).      *)
(*                                                                         *)
(* ListByBroker reads the orders under the store's read lock; the handler  *)
(* encodes them after it returned.  An order's status is changed by the    *)
(* matcher and the expiry manager under the order's book lock, which the  *)
(* listing never takes, so status changes are steps of their own that may *)
(* fall between the two.                                                   *)
(***************************************************************************)
EXTENDS Naturals, Sequences, FiniteSets, SequencesExt

CONSTANTS
    Brokers,    \* registered brokers
    Threads,    \* request goroutines listing orders
    MaxOrders,  \* bound on created orders
    MaxRequests, \* bound on list requests
    MaxPage,    \* largest page a request may ask for
    LimitCap,   \* largest limit ListOrders accepts (100 in the code)
    NoStatus,   \* the request has no status filter
    Unknown     \* a status filter that is no order status

Statuses == {"pending", "partially_filled", "filled", "cancelled", "expired"}
Live == {"pending", "partially_filled"}

ASSUME NoStatus \notin Statuses /\ Unknown \notin Statuses

VARIABLES
    orders,        \* OrderStore.orders: id -> [broker, status]; ids in creation order
    brokerOrders,  \* OrderStore.brokerOrders: broker -> ids, append-only
    pc,            \* per goroutine: "idle" or "encode"
    req,           \* per goroutine, the request being served
    listed,        \* per goroutine, ListByBroker's result: [ids, total]
    responses,     \* responses written: request, ids, total, encoded statuses
    nreq           \* list requests made so far

vars == <<orders, brokerOrders, pc, req, listed, responses, nreq>>

NoRequest == [broker |-> CHOOSE b \in Brokers : TRUE, status |-> NoStatus,
              page |-> 1, limit |-> 1]
NoList == [ids |-> <<>>, total |-> 0]

Init ==
    /\ orders = <<>>
    /\ brokerOrders = [b \in Brokers |-> <<>>]
    /\ pc = [t \in Threads |-> "idle"]
    /\ req = [t \in Threads |-> NoRequest]
    /\ listed = [t \in Threads |-> NoList]
    /\ responses = {}
    /\ nreq = 0

\* OrderStore.Create, called by the matcher for a new order.
Create(b) ==
    /\ Len(orders) < MaxOrders
    /\ orders' = Append(orders, [broker |-> b, status |-> "pending"])
    /\ brokerOrders' = [brokerOrders EXCEPT ![b] = Append(@, Len(orders) + 1)]
    /\ UNCHANGED <<pc, req, listed, responses, nreq>>

\* A fill, cancel or expiry moves a live order on, under its book lock.
SetStatus(o, st) ==
    /\ orders[o].status \in Live /\ st # orders[o].status
    /\ orders' = [orders EXCEPT ![o].status = st]
    /\ UNCHANGED <<brokerOrders, pc, req, listed, responses, nreq>>

PageStartZeroBased(page, limit) == page * limit

\* start := (page - 1) * limit
PageStart(page, limit) == (page - 1) * limit

\* ListByBroker: the broker's orders newest first, those with the status
\* if one is given, and the page [start, end) of them with the total.
ListByBroker(b, st, page, limit) ==
    LET filtered == Reverse(SelectSeq(brokerOrders[b],
                                      LAMBDA o : st = NoStatus \/ orders[o].status = st))
        total    == Len(filtered)
        start    == PageStart(page, limit)
        end      == IF start + limit > total THEN total ELSE start + limit
    IN IF start >= total THEN [ids |-> <<>>, total |-> total]
       ELSE [ids |-> SubSeq(filtered, start + 1, end), total |-> total]

\* ListOrders' validation: a known status or none, page >= 1, 1 <= limit
\* <= 100.  The broker exists (the handler's other 404 path is not modelled).
Valid(st, page, limit) ==
    /\ st = NoStatus \/ st \in Statuses
    /\ page >= 1
    /\ limit >= 1 /\ limit <= LimitCap

\* The handler parses the query, the service validates it and, if valid,
\* ListByBroker runs under the store's read lock; an invalid request is
\* answered 400 at once.
List(t, b, st, page, limit) ==
    LET r == [broker |-> b, status |-> st, page |-> page, limit |-> limit] IN
    /\ pc[t] = "idle" /\ nreq < MaxRequests
    /\ nreq' = nreq + 1
    /\ IF Valid(st, page, limit)
       THEN /\ listed' = [listed EXCEPT ![t] = ListByBroker(b, st, page, limit)]
            /\ req' = [req EXCEPT ![t] = r]
            /\ pc' = [pc EXCEPT ![t] = "encode"]
            /\ UNCHANGED responses
       ELSE /\ responses' = responses \cup {[req |-> r, error |-> TRUE, ids |-> <<>>,
                                               total |-> 0, statuses |-> <<>>]}
            /\ UNCHANGED <<listed, req, pc>>
    /\ UNCHANGED <<orders, brokerOrders>>

\* The handler builds one summary per order, reading its fields now.
Encode(t) ==
    LET ids == listed[t].ids IN
    /\ pc[t] = "encode"
    /\ responses' = responses \cup
         {[req |-> req[t], error |-> FALSE, ids |-> ids, total |-> listed[t].total,
           statuses |-> [k \in DOMAIN ids |-> orders[ids[k]].status]]}
    /\ pc' = [pc EXCEPT ![t] = "idle"]
    /\ listed' = [listed EXCEPT ![t] = NoList]
    /\ req' = [req EXCEPT ![t] = NoRequest]
    /\ UNCHANGED <<orders, brokerOrders, nreq>>

\* Every bound is used up and every order has reached a final status.
Done ==
    /\ nreq = MaxRequests /\ Len(orders) = MaxOrders
    /\ \A t \in Threads : pc[t] = "idle"
    /\ \A o \in DOMAIN orders : orders[o].status \notin Live
    /\ UNCHANGED vars

Next ==
    \/ \E b \in Brokers : Create(b)
    \/ \E o \in DOMAIN orders, st \in Statuses \ {"pending"} : SetStatus(o, st)
    \/ \E t \in Threads, b \in Brokers, st \in Statuses \cup {NoStatus, Unknown},
          page \in 0..MaxPage, limit \in 1..LimitCap + 1 : List(t, b, st, page, limit)
    \/ \E t \in Threads : Encode(t)
    \/ Done

Spec == Init /\ [][Next]_vars
-----------------------------------------------------------------------------
\* The reference page: the matching orders ranked newest first (rank 1 the
\* newest), those of ranks (page-1)*limit+1 .. page*limit, newest first.
RefPage(b, st, page, limit) ==
    LET all   == brokerOrders[b]
        match == {i \in DOMAIN all : st = NoStatus \/ orders[all[i]].status = st}
        Rank(i) == Cardinality({j \in match : j >= i})
        onPage == {i \in match : Rank(i) > (page - 1) * limit /\ Rank(i) <= page * limit}
    IN [ids |-> SetToSortSeq({all[i] : i \in onPage}, LAMBDA x, y : x > y),
        total |-> Cardinality(match)]

(* A valid list request answers, at the moment ListByBroker runs, with    *)
(* exactly the page of the broker's matching orders that 1-based          *)
(* pagination over the newest-first list defines, and the total of the    *)
(* matching orders before pagination.                                      *)
PaginationMatchesReference ==
    [][\A t \in Threads :
         pc[t] = "idle" /\ pc'[t] = "encode" =>
           listed'[t] = RefPage(req'[t].broker, req'[t].status, req'[t].page, req'[t].limit)]_vars
==============================================================================
