------------------------------ MODULE Webhooks ------------------------------
(***************************************************************************)
(* Event subscriptions of miniexchange: the webhook store with its primary *)
(* index by id and secondary index by (broker, event)                     *)
(* (src/internal/store/webhook.go), the service's upsert, list and delete *)
(* (src/internal/service/webhook.go), the handler that encodes the        *)
(* webhooks it got back (src/internal/handler/webhook.go), and dispatch:  *)
(* a lookup of the subscription, then a delivery goroutine that reads the *)
(* subscription's URL when it runs.                                        *)
(*                                                                         *)
(* A webhook is a heap object: the store hands out pointers, Upsert       *)
(* rewrites an existing object's URL in place, and the handler and the    *)
(* delivery goroutines read URL fields without the store lock.  A Go      *)
(* string is two words, so the in-place write is two steps under the      *)
(* store lock, and a read that falls between them may see either string   *)
(* or a mix of the two (the Torn value).                                   *)
(***************************************************************************)
EXTENDS Integers, Sequences, FiniteSets, SequencesExt

CONSTANTS
    Brokers,      \* registered broker ids
    Events,       \* the event names of validWebhookEvents
    URLs,         \* valid https URLs a request may carry
    Torn,         \* what a read racing the two-word URL write may return
    NoUrl,        \* no URL write in progress
    Threads,      \* request goroutines
    NoThread,     \* the store lock is free
    MaxEvents,    \* bound on the length of a request's events array
    MaxRequests,  \* bound on upsert, list and delete requests
    MaxDispatch   \* bound on dispatched notifications

ASSUME /\ Torn \notin URLs /\ NoUrl \notin URLs /\ NoThread \notin Threads
       /\ MaxEvents \in Nat \ {0} /\ MaxRequests \in Nat /\ MaxDispatch \in Nat

VARIABLES
    objs,       \* allocated webhooks: id i is objs[i] = [broker, event, url]
    primary,    \* WebhookStore.webhooks: the ids in the primary index
    byBroker,   \* WebhookStore.byBroker: broker -> event -> id, 0 if absent
    storeLock,  \* the goroutine holding WebhookStore.mu for writing
    writing,    \* per id, the URL being written in place, or NoUrl
    pc,         \* per request goroutine, where it is
    req,        \* per request goroutine, the request and what it collected
    nreq,       \* requests served so far
    inflight,   \* delivery goroutines started and not yet run
    ndisp,      \* notifications dispatched so far
    posted,     \* deliveries made: webhook id, event, URL posted to
    responses   \* responses written by the handlers

vars == <<objs, primary, byBroker, storeLock, writing, pc, req, nreq,
          inflight, ndisp, posted, responses>>

Ids == 1..Len(objs)

-----------------------------------------------------------------------------
(* The service's event de-duplication (Upsert, lines 79-92): keep the      *)
(* first occurrence of every event, in request order.                      *)
RECURSIVE DedupFrom(_, _)
DedupFrom(s, seen) ==
    IF s = <<>> THEN <<>>
    ELSE IF Head(s) \in seen THEN DedupFrom(Tail(s), seen)
         ELSE <<Head(s)>> \o DedupFrom(Tail(s), seen \cup {Head(s)})

\* Mutant: every event is kept, repeated ones included.
DedupNone(s) == s

Dedup(s) == DedupFrom(s, {})

\* The store's secondary-index lookup for (broker, event).
\* Mutant: the lookup never finds the existing subscription.

Existing(b, e) == byBroker[b][e]

\* Mutant: the flag is overwritten by every event's outcome.
LastCreated(flag, created) == created

\* anyCreated accumulates over the events of one request.
AnyCreated(flag, created) == flag \/ created

\* An unlocked read of webhook id's URL: the stored string, or while a
\* write of it is in progress the old one, the new one or a torn mix.
ReadUrl(id) == IF writing[id] = NoUrl THEN {objs[id].url}
               ELSE {objs[id].url, writing[id], Torn}

\* The upsert handler answers 201 Created when anything was created, else 200.
StatusCode(anyCreated) == IF anyCreated THEN 201 ELSE 200

-----------------------------------------------------------------------------
\* The request record of an idle goroutine.
NoRequest == [broker |-> CHOOSE b \in Brokers : TRUE, url |-> CHOOSE u \in URLs : TRUE,
              events |-> {}, raw |-> <<>>, pending |-> <<>>, resp |-> <<>>, created |-> FALSE,
              ins |-> {}]

Init ==
    /\ objs = <<>>
    /\ primary = {}
    /\ byBroker = [b \in Brokers |-> [e \in Events |-> 0]]
    /\ storeLock = NoThread
    /\ writing = <<>>
    /\ pc = [t \in Threads |-> "idle"]
    /\ req = [t \in Threads |-> NoRequest]
    /\ nreq = 0
    /\ inflight = {}
    /\ ndisp = 0
    /\ posted = {}
    /\ responses = {}

\* The read side of the RWMutex: no writer holds it.
Unlocked == storeLock = NoThread

(* WebhookService.Upsert, validation: the broker exists, the URL is a      *)
(* valid https URL and the events are known and de-duplicated.  A request  *)
(* that fails validation changes nothing.                                  *)
UpsertRequest(t, b, u, raw) ==
    /\ pc[t] = "idle" /\ nreq < MaxRequests
    /\ pc' = [pc EXCEPT ![t] = "upsert"]
    /\ req' = [req EXCEPT ![t] = [broker |-> b, url |-> u, events |-> ToSet(raw),
                                  raw |-> raw, pending |-> Dedup(raw), resp |-> <<>>,
                                  created |-> FALSE, ins |-> {}]]
    /\ nreq' = nreq + 1
    /\ UNCHANGED <<objs, primary, byBroker, storeLock, writing, inflight,
                   ndisp, posted, responses>>

\* The next state of a request goroutine once its head event is done.
NextEvent(t, r) ==
    /\ req' = [req EXCEPT ![t] = [r EXCEPT !.pending = Tail(@)]]
    /\ pc' = [pc EXCEPT ![t] = IF Tail(r.pending) = <<>> THEN "respond" ELSE "upsert"]

(* WebhookStore.Upsert for the request's next event, under the store lock: *)
(* insert a fresh webhook into both indexes, leave a row with the same URL *)
(* alone, or start rewriting the existing row's URL in place.              *)
StoreUpsert(t) ==
    LET r  == req[t]
        e  == Head(req[t].pending)
        ex == Existing(req[t].broker, Head(req[t].pending))
        id == Len(objs) + 1
    IN
    /\ pc[t] = "upsert" /\ Unlocked
    /\ \/ /\ ex = 0
          /\ objs' = Append(objs, [broker |-> r.broker, event |-> e, url |-> r.url])
          /\ writing' = Append(writing, NoUrl)
          /\ primary' = primary \cup {id}
          /\ byBroker' = [byBroker EXCEPT ![r.broker][e] = id]
          /\ NextEvent(t, [r EXCEPT !.resp = Append(@, id), !.ins = @ \cup {id},
                                    !.created = AnyCreated(@, TRUE)])
          /\ UNCHANGED storeLock
       \/ /\ ex # 0 /\ objs[ex].url = r.url
          /\ pc' = [pc EXCEPT ![t] = "get"]
          /\ req' = [req EXCEPT ![t].created = AnyCreated(@, FALSE)]
          /\ UNCHANGED <<objs, writing, primary, byBroker, storeLock>>
       \/ /\ ex # 0 /\ objs[ex].url # r.url
          /\ storeLock' = t
          /\ writing' = [writing EXCEPT ![ex] = r.url]
          /\ pc' = [pc EXCEPT ![t] = "write"]
          /\ req' = [req EXCEPT ![t].created = AnyCreated(@, FALSE)]
          /\ UNCHANGED <<objs, primary, byBroker>>
    /\ UNCHANGED <<nreq, inflight, ndisp, posted, responses>>

(* The rest of existing.URL = w.URL (and UpdatedAt), then the unlock.      *)
FinishUrlWrite(t) ==
    LET ex == byBroker[req[t].broker][Head(req[t].pending)] IN
    /\ pc[t] = "write"
    /\ objs' = [objs EXCEPT ![ex].url = writing[ex]]
    /\ writing' = [writing EXCEPT ![ex] = NoUrl]
    /\ storeLock' = NoThread
    /\ pc' = [pc EXCEPT ![t] = "get"]
    /\ UNCHANGED <<primary, byBroker, req, nreq, inflight, ndisp, posted, responses>>

(* Upsert returned false: fetch the existing webhook with                  *)
(* GetByBrokerEvent, a second store call, and return it if still there.    *)
\* Mutant: the nil check on the lookup's result is dropped.
AppendAlways(resp, id) == Append(resp, id)

\* The webhook is appended only when the lookup found one (0 is nil).
AppendFound(resp, id) == IF id # 0 THEN Append(resp, id) ELSE resp

GetExisting(t) ==
    LET r  == req[t]
        ex == byBroker[req[t].broker][Head(req[t].pending)]
    IN
    /\ pc[t] = "get" /\ Unlocked
    /\ NextEvent(t, [r EXCEPT !.resp = AppendFound(@, ex)])
    /\ UNCHANGED <<objs, primary, byBroker, storeLock, writing, nreq, inflight,
                   ndisp, posted, responses>>

(* WebhookService.List: ListByBroker under the read lock returns the      *)
(* broker's webhooks (map order: any order).                               *)
ListRequest(t, b) ==
    LET ids == {byBroker[b][e] : e \in Events} \ {0} IN
    /\ pc[t] = "idle" /\ nreq < MaxRequests /\ Unlocked
    /\ \E order \in SetToSeqs(ids) :
         req' = [req EXCEPT ![t] = [NoRequest EXCEPT !.broker = b, !.resp = order]]
    /\ pc' = [pc EXCEPT ![t] = "list"]
    /\ nreq' = nreq + 1
    /\ UNCHANGED <<objs, primary, byBroker, storeLock, writing, inflight, ndisp,
                   posted, responses>>

(* buildWebhookResponses, after the service returned and outside the store *)
(* lock: each webhook's URL is read from the shared object.                *)
Respond(t) ==
    LET r == req[t] IN
    /\ pc[t] \in {"respond", "list"}
    /\ \E urls \in [1..Len(r.resp) -> URLs \cup {Torn}] :
         /\ \A i \in 1..Len(r.resp) : urls[i] \in ReadUrl(r.resp[i])
         /\ responses' = responses \cup
             {[kind |-> pc[t], broker |-> r.broker, events |-> r.events,
               status |-> IF pc[t] = "respond" THEN StatusCode(r.created) ELSE 200,
               ins |-> r.ins,
               entries |-> [i \in 1..Len(r.resp) |->
                              [id |-> r.resp[i], event |-> objs[r.resp[i]].event,
                               url |-> urls[i]]]]}
    /\ pc' = [pc EXCEPT ![t] = "idle"]
    /\ req' = [req EXCEPT ![t] = NoRequest]
    /\ UNCHANGED <<objs, primary, byBroker, storeLock, writing, nreq,
                   inflight, ndisp, posted>>

\* Mutant: only the primary index is cleaned up.
DeleteKeepsSecondary(id) ==
    /\ primary' = primary \ {id}
    /\ UNCHANGED byBroker

\* Remove webhook id from the primary and the secondary index.
DeleteFromIndexes(id) ==
    /\ primary' = primary \ {id}
    /\ byBroker' = [byBroker EXCEPT ![objs[id].broker][objs[id].event] = 0]

(* WebhookService.Delete / WebhookStore.Delete under the store lock; an    *)
(* unknown id is WEBHOOK_NOT_FOUND and changes nothing.                    *)
Delete(t, id) ==
    /\ pc[t] = "idle" /\ nreq < MaxRequests /\ Unlocked
    /\ id \in primary
    /\ DeleteFromIndexes(id)
    /\ nreq' = nreq + 1
    /\ UNCHANGED <<objs, storeLock, writing, pc, req, inflight, ndisp, posted,
                   responses>>

(* DispatchTradeExecuted / DispatchOrderExpired / DispatchOrderCancelled:  *)
(* look up the (broker, event) subscription and start a delivery          *)
(* goroutine with the pointer; without a subscription nothing happens.    *)
Dispatch(b, e) ==
    /\ ndisp < MaxDispatch /\ Unlocked
    /\ byBroker[b][e] # 0
    /\ inflight' = inflight \cup {[n |-> ndisp + 1, id |-> byBroker[b][e], event |-> e]}
    /\ ndisp' = ndisp + 1
    /\ UNCHANGED <<objs, primary, byBroker, storeLock, writing, pc, req, nreq,
                   posted, responses>>

(* deliver: the goroutine reads wh.URL, with no lock, and posts to it.     *)
Deliver(d) ==
    /\ d \in inflight
    /\ \E u \in ReadUrl(d.id) :
         posted' = posted \cup {[id |-> d.id, event |-> d.event, url |-> u]}
    /\ inflight' = inflight \ {d}
    /\ UNCHANGED <<objs, primary, byBroker, storeLock, writing, pc, req, nreq,
                   ndisp, responses>>

\* Every request has been answered and every delivery made.
Done ==
    /\ \A t \in Threads : pc[t] = "idle"
    /\ inflight = {}
    /\ UNCHANGED vars

Next ==
    \/ \E t \in Threads :
         \/ \E b \in Brokers, u \in URLs, raw \in SeqOf(Events, MaxEvents) \ {<<>>} :
              UpsertRequest(t, b, u, raw)
         \/ StoreUpsert(t) \/ FinishUrlWrite(t) \/ GetExisting(t) \/ Respond(t)
         \/ \E b \in Brokers : ListRequest(t, b)
         \/ \E id \in Ids : Delete(t, id)
    \/ \E b \in Brokers, e \in Events : Dispatch(b, e)
    \/ \E d \in inflight : Deliver(d)
    \/ Done

Spec == Init /\ [][Next]_vars

-----------------------------------------------------------------------------
(* Properties.                                                             *)

TypeOK ==
    /\ objs \in Seq([broker : Brokers, event : Events, url : URLs])
    /\ primary \subseteq Ids
    /\ byBroker \in [Brokers -> [Events -> {0} \cup Ids]]
    /\ storeLock \in Threads \cup {NoThread}
    /\ writing \in [Ids -> URLs \cup {NoUrl}]
    /\ pc \in [Threads -> {"idle", "upsert", "write", "get", "respond", "list"}]
    /\ req \in [Threads -> [broker : Brokers, url : URLs, events : SUBSET Events,
                            raw : Seq(Events), pending : Seq(Events),
                            resp : Seq(Ids), created : BOOLEAN, ins : SUBSET Ids]]
    /\ nreq \in 0..MaxRequests /\ ndisp \in 0..MaxDispatch

(* The two indexes of the store agree (spec section 9, "Upsert must keep  *)
(* both in sync"): the secondary index names exactly the webhooks of the  *)
(* primary index, each under its own broker and event.                     *)
IndexesInSync ==
    /\ \A b \in Brokers, e \in Events :
         byBroker[b][e] # 0 =>
           /\ byBroker[b][e] \in primary
           /\ objs[byBroker[b][e]].broker = b /\ objs[byBroker[b][e]].event = e
    /\ \A id \in primary : byBroker[objs[id].broker][objs[id].event] = id

(* Spec section 4.8: an upsert answers 201 Created ("any created") iff   *)
(* one of the request's events inserted a row, 200 otherwise.              *)
CreatedFlagExact ==
    \A r \in responses : r.kind = "respond" => ((r.status = 201) <=> r.ins # {})

(* The de-duplication keeps exactly the first occurrence of every event, *)
(* in request order: the events an upsert still has to store are always a *)
(* suffix of the first occurrences of its raw events array.                *)
DedupMatchesReference ==
    \A t \in Threads :
      LET raw    == req[t].raw
          firsts == SetToSortSeq({i \in DOMAIN raw : \A j \in 1..i - 1 : raw[j] # raw[i]},
                                 LAMBDA x, y : x < y)
          ref    == [k \in DOMAIN firsts |-> raw[firsts[k]]]
      IN \E k \in 1..Len(ref) + 1 : req[t].pending = SubSeq(ref, k, Len(ref))

(* Every URL a delivery posts to, or a response reports, is one some      *)
(* request subscribed with.                                                *)
UrlsReadAreSubscribed ==
    /\ \A p \in posted : p.url \in URLs
    /\ \A r \in responses : \A en \in ToSet(r.entries) : en.url \in URLs
==============================================================================
