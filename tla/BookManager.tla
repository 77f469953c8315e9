----------------------------- MODULE BookManager -----------------------------
(***************************************************************************)
(* BookManager.GetOrCreate (engine/book.go) and the lock its callers take. *)
(* Books are created on first use: a read-locked lookup, and on a miss the *)
(* write lock, a second lookup and the creation.  Every matcher pass,      *)
(* cancel, expiry and book read then locks the book it got back, so two    *)
(* goroutines serialise on a symbol only if they got the same book.        *)
(*                                                                         *)
(* BookManager.mu is a sync.RWMutex: Lock first takes the writers' mutex   *)
(* and so announces itself, after which new readers block; it holds the    *)
(* lock once the readers that were already in have left.                   *)
(*                                                                         *)
(* The callers reach GetOrCreate through the registries: SubmitOrder only  *)
(* for a broker the BrokerStore has, GetBook and GetQuote only for a       *)
(* symbol the SymbolRegistry knows; a submission registers its symbol     *)
(* once its reservation succeeded, and BrokerService.Register creates the *)
(* broker and then registers its holdings' symbols, in two steps.         *)
(***************************************************************************)
EXTENDS Naturals, FiniteSets

CONSTANTS
    Threads,    \* goroutines calling GetOrCreate
    Symbols,    \* symbols they ask for
    NoThread,   \* no goroutine
    Brokers,    \* broker ids requests may carry
    HoldingSets, \* the symbol sets a registration may declare
    MaxCalls    \* bound on calls (submissions, reads, registrations)

ASSUME NoThread \notin Threads /\ MaxCalls \in Nat

VARIABLES
    books,      \* BookManager.books: symbol -> book id, 0 if absent
    nbooks,     \* books allocated by NewOrderBook so far (ids 1..nbooks)
    readers,    \* goroutines holding BookManager.mu for reading
    writer,     \* the goroutine that has taken mu's writer mutex, or NoThread
    bookLock,   \* per allocated book, the goroutine holding OrderBook.mu
    pc,         \* per goroutine, where it is
    sym,        \* per goroutine, the symbol of its call
    got,        \* per goroutine, the book GetOrCreate returned, 0 if none yet
    calls,      \* calls made so far
    known,      \* SymbolRegistry.symbols
    registered, \* the broker ids BrokerStore.brokers holds
    declared,   \* per registered broker, the symbols of its initial holdings
    kind,       \* per goroutine, the caller: "submit", "read", "order" or "none"
    brk,        \* per goroutine, the broker of its registration
    asked,      \* history: the symbols submissions have asked GetOrCreate for
    accepted    \* history: the symbols of submissions that passed the reservation

vars == <<books, nbooks, readers, writer, bookLock, pc, sym, got, calls,
          known, registered, declared, kind, brk, asked, accepted>>
regVars == <<known, registered, declared, kind, brk, asked, accepted>>

BookIds == 1..MaxCalls

Init ==
    /\ books = [s \in Symbols |-> 0]
    /\ nbooks = 0
    /\ readers = {} /\ writer = NoThread
    /\ bookLock = [b \in BookIds |-> NoThread]
    /\ pc = [t \in Threads |-> "idle"]
    /\ sym = [t \in Threads |-> CHOOSE s \in Symbols : TRUE]
    /\ got = [t \in Threads |-> 0]
    /\ calls = 0
    /\ known = {} /\ registered = {} /\ declared = [b \in Brokers |-> {}]
    /\ kind = [t \in Threads |-> "none"]
    /\ brk = [t \in Threads |-> CHOOSE b \in Brokers : TRUE]
    /\ asked = {} /\ accepted = {}

\* A caller of kind k asks for the book of s: bm.mu.RLock(), which waits
\* while a writer has announced itself.
RLock(t, s, k) ==
    /\ writer = NoThread
    /\ readers' = readers \cup {t}
    /\ sym' = [sym EXCEPT ![t] = s]
    /\ kind' = [kind EXCEPT ![t] = k]
    /\ pc' = [pc EXCEPT ![t] = "read"]
    /\ UNCHANGED <<books, nbooks, writer, bookLock, got>>

\* A call answered with an error before it reaches GetOrCreate.
Refused(t) == UNCHANGED <<books, nbooks, readers, writer, bookLock, pc, sym, got, kind>>

\* A new call of goroutine t.
Call(t) == pc[t] = "idle" /\ calls < MaxCalls /\ calls' = calls + 1

\* SubmitOrder: brokerStore.Exists(broker), 404 if absent; then
\* MatchLimitOrder or MatchMarketOrder asks for the book first.
SubmitOrder(t, b, s) ==
    /\ Call(t)
    /\ IF b \in registered
       THEN RLock(t, s, "submit") /\ asked' = asked \cup {s}
       ELSE Refused(t) /\ UNCHANGED asked
    /\ UNCHANGED <<known, registered, declared, brk, accepted>>

\* SymbolRegistry.Exists, under the registry's read lock.
SymbolGate(s) == s \in known

\* GetBook and GetQuote: symbols.Exists(symbol), 404 if unknown; then
\* GetOrCreate and the book's read lock.
ReadBook(t, s) ==
    /\ Call(t)
    /\ IF SymbolGate(s) THEN RLock(t, s, "read") ELSE Refused(t)
    /\ UNCHANGED <<known, registered, declared, brk, asked, accepted>>

\* CancelOrder and the expiry manager's expireOrder ask for the book of an
\* order that exists, so of a symbol a submission was accepted for.
OrderCall(t, s) ==
    /\ Call(t) /\ s \in accepted
    /\ RLock(t, s, "order")
    /\ UNCHANGED <<known, registered, declared, brk, asked, accepted>>

\* BrokerService.Register, once the request is valid: store.Create(broker)
\* under the store's lock, ErrBrokerAlreadyExists if the id is taken.
RegisterBroker(t, b, hs) ==
    /\ Call(t)
    /\ IF b \notin registered
       THEN /\ registered' = registered \cup {b}
            /\ declared' = [declared EXCEPT ![b] = hs]
            /\ brk' = [brk EXCEPT ![t] = b]
            /\ pc' = [pc EXCEPT ![t] = "regSymbols"]
       ELSE UNCHANGED <<registered, declared, brk, pc>>
    /\ UNCHANGED <<books, nbooks, readers, writer, bookLock, sym, got,
                   known, kind, asked, accepted>>

\* ... then s.symbols.Register(symbol) for each symbol of its holdings.
RegisterSymbols(t) ==
    /\ pc[t] = "regSymbols"
    /\ known' = known \cup declared[brk[t]]
    /\ pc' = [pc EXCEPT ![t] = "idle"]
    /\ UNCHANGED <<books, nbooks, readers, writer, bookLock, sym, got, calls,
                   registered, declared, kind, brk, asked, accepted>>

\* book, ok := bm.books[symbol]; bm.mu.RUnlock(); a hit returns the book.
ReadUnlock(t) ==
    /\ pc[t] = "read"
    /\ readers' = readers \ {t}
    /\ IF books[sym[t]] # 0
       THEN /\ got' = [got EXCEPT ![t] = books[sym[t]]]
            /\ pc' = [pc EXCEPT ![t] = "lockBook"]
       ELSE /\ pc' = [pc EXCEPT ![t] = "lock"]
            /\ UNCHANGED got
    /\ UNCHANGED <<books, nbooks, writer, bookLock, sym, calls, regVars>>

\* bm.mu.Lock(), first half: take the writers' mutex; readers now block.
Lock(t) ==
    /\ pc[t] = "lock" /\ writer = NoThread
    /\ writer' = t
    /\ pc' = [pc EXCEPT ![t] = "create"]
    /\ UNCHANGED <<books, nbooks, readers, bookLock, sym, got, calls, regVars>>

RecheckNone(s) == 0

\* The second lookup under the write lock.
Recheck(s) == books[s]

WriterKept(t) == t

\* defer bm.mu.Unlock(): the writer's mutex is free again on return.
WriterAfter(t) == NoThread

\* Once the earlier readers have left: double-check, create the book on a
\* second miss, and Unlock (deferred).
CreateUnlock(t) ==
    LET s == sym[t]  found == Recheck(s) IN
    /\ pc[t] = "create" /\ writer = t /\ readers = {}
    /\ IF found # 0
       THEN /\ got' = [got EXCEPT ![t] = found]
            /\ UNCHANGED <<books, nbooks>>
       ELSE /\ nbooks' = nbooks + 1
            /\ books' = [books EXCEPT ![s] = nbooks + 1]
            /\ got' = [got EXCEPT ![t] = nbooks + 1]
    /\ writer' = WriterAfter(t)
    /\ pc' = [pc EXCEPT ![t] = "lockBook"]
    /\ UNCHANGED <<readers, bookLock, sym, calls, regVars>>

\* The caller locks the book it got (book.mu.Lock()) ...
LockBook(t) ==
    /\ pc[t] = "lockBook" /\ bookLock[got[t]] = NoThread
    /\ bookLock' = [bookLock EXCEPT ![got[t]] = t]
    /\ pc' = [pc EXCEPT ![t] = "critical"]
    /\ UNCHANGED <<books, nbooks, readers, writer, sym, got, calls, regVars>>

\* Mutant: the symbol is registered before the reservation is checked.
ReserveEager(t) ==
    /\ pc[t] = "critical" /\ kind[t] = "submit"
    /\ known' = known \cup {sym[t]}
    /\ \E ok \in BOOLEAN : accepted' = IF ok THEN accepted \cup {sym[t]} ELSE accepted
    /\ pc' = [pc EXCEPT ![t] = "matched"]
    /\ UNCHANGED <<books, nbooks, readers, writer, bookLock, sym, got, calls,
                   registered, declared, kind, brk, asked>>

\* A submission under the book lock: the reservation under the broker's
\* lock either fails (insufficient balance or holdings, or no liquidity
\* for a market order) and the pass returns, or succeeds and
\* m.symbols.Register(order.Symbol) follows.  Which one depends on the
\* balances, which this module leaves out.
Reserve(t) ==
    /\ pc[t] = "critical" /\ kind[t] = "submit"
    /\ \E ok \in BOOLEAN :
         /\ known' = IF ok THEN known \cup {sym[t]} ELSE known
         /\ accepted' = IF ok THEN accepted \cup {sym[t]} ELSE accepted
    /\ pc' = [pc EXCEPT ![t] = "matched"]
    /\ UNCHANGED <<books, nbooks, readers, writer, bookLock, sym, got, calls,
                   registered, declared, kind, brk, asked>>

\* The goroutine is inside the book's critical section.
InCritical(t) == pc[t] \in {"critical", "matched"}

\* ... and unlocks the book when its critical section is done.
UnlockBook(t) ==
    /\ \/ pc[t] = "critical" /\ kind[t] # "submit"
       \/ pc[t] = "matched"
    /\ bookLock' = [bookLock EXCEPT ![got[t]] = NoThread]
    /\ pc' = [pc EXCEPT ![t] = "idle"]
    /\ got' = [got EXCEPT ![t] = 0]
    /\ kind' = [kind EXCEPT ![t] = "none"]
    /\ UNCHANGED <<books, nbooks, readers, writer, sym, calls,
                   known, registered, declared, brk, asked, accepted>>

\* All calls are made and have returned.
Done == calls = MaxCalls /\ \A t \in Threads : pc[t] = "idle" /\ UNCHANGED vars

Next ==
    \/ \E t \in Threads :
         \/ \E b \in Brokers, s \in Symbols : SubmitOrder(t, b, s)
         \/ \E s \in Symbols : ReadBook(t, s) \/ OrderCall(t, s)
         \/ \E b \in Brokers, hs \in HoldingSets : RegisterBroker(t, b, hs)
         \/ RegisterSymbols(t)
         \/ ReadUnlock(t) \/ Lock(t) \/ CreateUnlock(t) \/ LockBook(t)
         \/ Reserve(t) \/ UnlockBook(t)
    \/ Done

\* A goroutine that holds or has announced a lock runs on; waiting for a
\* mutex that others keep taking needs strong fairness (Go's mutexes hand
\* over to a starving waiter, and a pending writer blocks new readers).
Fairness ==
    \A t \in Threads :
      /\ WF_vars(ReadUnlock(t)) /\ WF_vars(CreateUnlock(t)) /\ WF_vars(UnlockBook(t))
      /\ WF_vars(Reserve(t)) /\ WF_vars(RegisterSymbols(t))
      /\ SF_vars(Lock(t)) /\ SF_vars(LockBook(t))

Spec == Init /\ [][Next]_vars
FairSpec == Spec /\ Fairness
-----------------------------------------------------------------------------
(* One book per symbol: however the lookups and creations of concurrent  *)
(* GetOrCreate calls interleave, no two goroutines are ever inside the    *)
(* critical section of the same symbol's book at once, and at most one    *)
(* book is allocated per symbol.                                           *)
SymbolsSerialised ==
    /\ \A t, u \in Threads :
         t # u /\ InCritical(t) /\ InCritical(u) => sym[t] # sym[u]
    /\ nbooks <= Cardinality({s \in Symbols : books[s] # 0})

(* Every GetOrCreate call returns, and its caller gets through its        *)
(* critical section, whatever the other goroutines do.                     *)
CallsReturn == \A t \in Threads : pc[t] # "idle" ~> pc[t] = "idle"

\* The symbols of the initial holdings of the brokers in B.
DeclaredBy(B) == UNION {declared[b] : b \in B}

\* The brokers whose Register call has created them and not yet returned.
Registering == {brk[t] : t \in {u \in Threads : pc[u] = "regSymbols"}}

(* Spec section 3: the known symbols are grown only by order submissions *)
(* and by registrations declaring holdings.  A symbol is known only if a  *)
(* registered broker declared it or a submission for it passed its       *)
(* reservation (a rejected order registers nothing, spec 4.4.1 step 1),   *)
(* and every symbol declared by a registration that has returned, or of   *)
(* an accepted submission, is known.                                       *)
KnownSymbolsJustified ==
    /\ DeclaredBy(registered \ Registering) \cup accepted \subseteq known
    /\ known \subseteq DeclaredBy(registered) \cup accepted
==============================================================================
