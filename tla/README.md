# TLA+ models of miniexchange

This directory holds TLA+ models of the in-memory stock exchange in `src/`
and the TLC configurations that check them.

## The system

- **Brokers** (`domain/broker.go`, `service/broker.go`, `store/broker.go`).
  A broker has a cash balance, reserved cash, and per-symbol holdings with a
  reserved quantity. A per-broker mutex guards every balance change.
  Registration creates the broker, then registers its holdings' symbols.
- **Symbol registry** (`domain/symbol.go`). It holds the known symbols. It
  grows with registrations and accepted orders. The stock endpoints answer
  404 for a symbol it does not know.
- **Order books** (`engine/book.go`). There is one book per symbol, with a
  bid tree and an ask tree ordered by price, then `CreatedAt`, then order id.
  Each book carries an `RWMutex`. `BookManager.GetOrCreate` creates books on
  first use.
- **Matcher** (`engine/matcher.go`):
  - `MatchLimitOrder` and `MatchMarketOrder` take the book's write lock for a
    whole pass. They reserve (a limit bid reserves cash, any ask reserves
    shares) or, for a market bid, only check the estimated cost. Then they run
    the fill loop and settle the buyer and seller under their broker locks.
  - A limit remainder rests on the book. A market remainder is cancelled
    (IOC).
  - `CancelOrder` reads the status without the lock, takes the lock,
    re-checks, removes the order from the book and releases the reservation.
- **Expiry manager** (`engine/expiry.go`). It keeps a horizon of resting orders
  sorted by `expires_at`, guarded by its own mutex.
  - A ticker goroutine's `tick` cuts the due prefix under that mutex.
  - `expireOrder` then handles each due order under its book's lock:
    re-check, expire, remove from the book, release the reservation.
  - It dispatches `order.expired` after the unlock.
- **Order service** (`service/order.go`). It validates requests and calls the
  matcher. After the matcher returns and the lock is released, it does the
  following:
  - adds a resting order to the expiry horizon (`expiry.Add`);
  - dispatches trade webhooks;
  - for a cancel, removes the order from the horizon and dispatches
    `order.cancelled`.
- **Stock service** (`service/stock.go`): the VWAP reference price, book
  snapshots under the read lock, and quotes (`SimulateMarketOrder`).
- **Webhooks** (`store/webhook.go`, `service/webhook.go`): subscriptions per
  broker and event, and fire-and-forget delivery goroutines.
- **Handlers, router, config, main**: HTTP parsing, JSON encoding and wiring.

The concurrency that matters comes from three sources:

- Request goroutines run in parallel.
- One expiry goroutine runs beside them.
- Broker balances are shared across books. Two passes on different symbols
  hold different book locks but touch the same broker's cash.

## Modules

### `Exchange.tla`: matcher, books, expiry manager, order service

**State.**

- `cash`, `reservedCash`, `holding` and `reservedQty` are the broker fields.
- `orders` is the order store. Order id `i` is the i-th accepted order.
  Because ids are assigned under the book lock, the id stands for
  `CreatedAt`.
- `book` is the set of resting order ids per symbol. `BestBid`/`BestAsk` take
  the minimum under `BidLess`/`AskLess`, as the B-trees' `Min()` does.
- `lock` is the goroutine holding each book's write lock.
- `trades` is the per-symbol trade log.
- `active` is `ExpiryManager.activeOrders`.
- `expiring` is the tick's `toExpire` snapshot.
- `now` is the clock.
- `events` holds the `order.cancelled`/`order.expired` notifications
  dispatched.
- `pc` and `cur` are each request goroutine's position and current order.

**Actions.** Each action is one critical section of the code:

| Action | Code |
|---|---|
| `SubmitLimit` | `MatchLimitOrder`: lock, reserve, create the order (63-108) |
| `LimitFill` | one iteration of the limit fill loop (110-233) |
| `LimitRest` | rest the remainder and unlock (235-251) |
| `AddExpiry` | `submitLimitOrder` after the matcher: `expiry.Add` if still resting |
| `SubmitMarket` | `MatchMarketOrder`: lock, no-liquidity check, cost estimate or share reservation (262-333) |
| `MarketFill` | one iteration of the market fill loop (335-446) |
| `MarketFinish` | IOC cancel of the remainder, release of a market ask's shares, unlock (448-468) |
| `CancelCheck` | `CancelOrder`'s unlocked status check (477-490) |
| `CancelLocked` | `CancelOrder` under the lock: re-check, remove, cancel, release (492-532) |
| `CancelFinish` | `OrderService.CancelOrder`: `expiry.Remove`, dispatch `order.cancelled` |
| `Tick` | `ExpiryManager.tick`: cut the due prefix of the horizon |
| `ExpireOrder` | `expireOrder` for the next order of the snapshot |
| `AdvanceClock` | the ticker's clock |

- An action that would fail validation (insufficient balance or holdings, no
  liquidity, not cancellable before the lock) changes no state in the code,
  so the model has no step for it.
- `Done` stutters once the bounds are exhausted and everything has settled.
  TLC therefore still reports a lock deadlock, but not the end of the bounded
  run.

`MCExchange.tla` instantiates the module with two brokers:

- `b1`, the seller: 1 cent of cash and 2 shares of each symbol.
- `b2`, the buyer: 2 cents and no shares.

It uses two goroutines, prices {1,2} and quantities {1,2}, and declares
symmetry over the goroutines. The goroutines are interchangeable request
handlers; the brokers are not, since their balances differ.

### `StockService.tla`: quotes, book snapshots, VWAP

The module extends `Exchange`. The stock service's reads change no state, so
they are operators over the exchange's state:

- **`GetBook`** (stock.go 140-191) validates the depth (1..50). It aggregates
  the book with `TopLevels`, a RECURSIVE translation of `topLevels`
  (book.go 118-153), which walks `WalkBids`/`WalkAsks` order. It also
  computes the spread. The operator is evaluated only where the symbol's
  write lock is free, because `GetBook` holds the read lock.
- **`GetQuote`** (stock.go 195-233) validates its input and calls
  `SimulateMarketOrder` (matcher.go 538-589). That is a RECURSIVE walk
  (`SimulateWalk`) that returns the fills per level, the average price and
  whether the quantity is fully available.
- **`GetPrice`** (stock.go 86-137) walks the trade log from its tail
  (`WindowSums`). It stops at the first record older than the window. It takes
  no book lock, only the trade store's lock, so it is evaluated in every
  state. That includes `MidAppend`: the state between the two `Append`
  calls of a match (matcher.go 226-227, 439-440).

A history variable `quoted` records, at each `SubmitMarket`, the quote that
`GetQuote` gives on the book the pass starts from.

### `Webhooks.tla`: subscription store, upsert/list/delete, dispatch

- **State.**
  - `objs` holds the webhooks as heap objects. Ids index the sequence.
  - `primary` is the primary index and `byBroker` the secondary index.
  - `storeLock` is the store's write lock.
  - `writing` is the in-place URL write in progress.
  - `pc`/`req` are each request goroutine's position and request.
  - `inflight`, `posted`, `responses` and the counters track dispatch and
    delivery.
- **Upsert** is split where the code leaves the store lock: the service's
  de-duplication (`Dedup`), one `StoreUpsert` per event, `GetExisting`, then
  `Respond`.
  - A URL rewrite of an existing webhook is two steps, because a Go string is
    two words.
  - An unlocked reader (`ReadUrl`) between them sees the old URL, the new
    URL, or `Torn`.
- **List**, **Delete** (`DeleteFromIndexes`), **Dispatch** and **Deliver**
  are actions of their own. A delivery goroutine reads the URL when it runs,
  not when it is dispatched.

`MCWebhooks.tla` uses one broker, two events, two URLs and two goroutines,
with MaxEvents 2, MaxRequests 3 and MaxDispatch 2. Two events are enough for
an upsert naming both, including a duplicate. Three requests reach an
upsert, a delete and a re-upsert of the same subscription.

### `AtomicExchange.tla` and `ExchangeRefinement.tla`: the matcher's contract

`AtomicExchange` is the abstract specification. Each limit pass, market pass,
cancel and expiry is one step:

- `LimitOrder` reserves, creates the order, matches with the RECURSIVE
  `LimitLoop` and rests the remainder.
- `MarketOrder` checks liquidity and cost, matches with `MarketLoop` and
  cancels the remainder.
- `Cancel`/`Expire` terminate a live order and release its reservation.

A pass is written as a function of a state record, so the mapping can run
the rest of a pass that is in progress.

`ExchangeRefinement` extends `Exchange` and defines the refinement mapping:

- A pass that holds its book's lock (`pc` is `limit` or `market`) is run to
  completion by `FinishPass`. Its loop reads only the locked book, so its
  outcome is fixed once it takes the lock.
- The step that takes the lock is therefore the abstract pass. Fill
  iterations, the unlock, `AddExpiry`, `CancelCheck`, `CancelFinish` and
  `Tick` are stuttering steps.
- `CancelLocked` and `ExpireOrder` are `Cancel` and `Expire`, or a stutter
  when their re-check fails.
- The mapped state is kept in a history variable `absSt`, a function of the
  concrete state. Each step computes it on the next state's values.

`AtomicPasses` (the abstract `Spec` as a PROPERTY) is checked in the
`core_safety` run, on `MCExchange`'s bounds, by `MCExchangeRefinement`.

### `ReservationWidth.tla`: the reservation at int64 width

This module holds one broker's `CashBalance` and `ReservedCash` and its limit
bids:

- `SubmitLimitBid` is the service's validation plus `MatchLimitOrder`'s
  step 1 for a bid.
- `CancelBid` is `CancelOrder`'s release.

All arithmetic goes through `Int64`: two's complement modulo 2^`Width`.
`Width` 8 scales int64 down. A product past the top wraps exactly as Go's
does at 2^64.

### `TradeDispatch.tla`: trade webhooks composed with the exchange

This module extends `Exchange`:

- `ServiceStep` is a goroutine's exchange step. The step that ends its pass
  (`AddExpiry` or `MarketFinish`) hands it the pass's trades as payload jobs
  (`TradeJobs`): the incoming order, then the counterpart resting order, for
  each trade.
- While it has jobs, the goroutine takes no new request, since the request
  returns only after dispatching.
- Each payload is two steps: `ReadStatus`, then `BuildPayload`, which reads
  the quantities. Other goroutines and the ticker interleave freely between
  them.

### `BookManager.tla`: creating books on first use, and the registries

The module covers `BookManager.GetOrCreate` and the book lock its callers
take next:

- `RLock`/`ReadUnlock` are the read-locked lookup.
- `Lock` takes the `RWMutex`'s writer mutex. This announces the writer, and
  new readers block from then on.
- `CreateUnlock` runs once the earlier readers have left. It does the second
  lookup, creates the book on a second miss, and unlocks.
- `LockBook`/`UnlockBook` are the caller's critical section on the book it
  got.

The callers reach `GetOrCreate` through the registries, and the module has
them too:

- `SubmitOrder` checks `brokerStore.Exists` (service/order.go) and answers
  404 for an unknown broker before asking for a book.
- `ReadBook` is `GetBook`/`GetQuote`: `symbols.Exists` first, 404 for an
  unknown symbol (`SymbolGate`), and only then `GetOrCreate`.
- `OrderCall` is `CancelOrder` or `expireOrder`. Each asks for the book of
  an existing order, so of a symbol an accepted submission used.
- `Reserve` is the submission's critical section. The no-liquidity check
  and the reservation either reject the order, or succeed and
  `symbols.Register` the symbol. Which one depends on balances this module
  leaves out, so it is a free choice.
- `RegisterBroker` and `RegisterSymbols` are `BrokerService.Register`'s two
  steps: `store.Create` (fails on a taken id), then one `symbols.Register`
  per declared holding.
- `GetBalance` changes nothing. It reads one broker under its lock, which is
  a state of `Exchange`.
- `known`, `registered` and `declared` are the registries. `asked` and
  `accepted` are history variables recording the symbols submissions asked
  for and were accepted for.

`MCBookManager.tla` uses three goroutines, two symbols, one broker id
declaring `{s1}` or `{s2}`, and four calls. That is enough for two
goroutines to miss the same symbol and race for the write lock while a third
reads. It is also enough for a registration to be followed by a duplicate
one declaring the other symbol, and for a submission to fall between
`store.Create` and the symbol registrations. `FairSpec` takes the following fairness:

- weak fairness for the steps of a goroutine that holds or has announced a
  lock (`Reserve` included), and for `RegisterSymbols`, which is straight-line
  code after `store.Create` returned;
- strong fairness for `Lock` and `LockBook`, which wait for mutexes that
  others take and release. Go's mutex starvation mode justifies this.

`MCBookManager.cfg` checks all four properties and turns deadlock checking off:
once every call has returned, `Done` stutters, and a goroutine blocked
forever is reported by `CallsReturn` itself.

### `OrderListing.tla`: listing a broker's orders

- **State.** `orders` and `brokerOrders` are `OrderStore`'s primary index
  and its per-broker append-only index.
- **Steps.**
  - `Create` is `OrderStore.Create`.
  - `SetStatus` is a fill, cancel or expiry changing a live order's status
    under its book lock.
  - `List` is the handler's query parsing, `ListOrders`' validation, and
    `ListByBroker` under the store's read lock.
  - `Encode` is the handler building the summaries afterwards.
- **Bounds.** `MCOrderListing.cfg` uses three orders of two brokers and one
  request made at any point. Inputs cover every status filter (none, each
  status, an unknown one), pages 0..3 and limits 1..3 with `LimitCap` 2.
  `LimitCap` stands for the code's 100. This reaches an empty page past the
  end, a short last page, and a rejected limit.

### `Money.tla` and `OrderIntake.tla`: prices entering as decimals

`Money` models `domain/money.go`.

- A decimal amount is an integer count of 10^-`Digits` dollars (`Digits` 4).
  The float Go parses it into is taken to be that exact value.
- A float product differs from the exact product by a tiny representation
  error. Only the error's sign can change a rounding, and only at an exact
  boundary. So each product carries a sign in {-1, 0, 1}, chosen freely.
- `Round` is `math.Round` (half away from zero) of such a product.
  `Convert(d, e1, e2)` is `DollarsToCents`: `scaled := Round(f*1000)`,
  reject when its units digit is not 0, else `Round(f*100)`.
  `DollarsToCents(d)` is the set of results over all error signs.
- `CentsToDollars(c)` is c/100, the float a client's decimal parses back to.

`OrderIntake` extends `Exchange` and replaces the limit request.

- `IntakeLimit` is `submitLimitOrder`'s price path: reject a price <= 0,
  convert, reject on error, then `SubmitLimit` with the cents.
- The other validations of `SubmitOrder` reject before any state change. The
  inputs are the requests that pass them.
- `MCOrderIntakeLive.cfg` uses the liveness bounds with the prices 0.0096,
  0.0100, 0.0150 and 0.0200. Two of these are 1 cent (0.0096 wrongly, see
  finding 2), 0.0150 is rejected, and 0.0200 is 2 cents. `MCOrderIntakeZero.cfg` uses 0.0001 and 0.0100.

## Runs

| Run | cfg | Expect | What it shows |
|---|---|---|---|
| `core_safety` | `MCExchangeRefinement.cfg` | pass | On one symbol, over all interleavings of two goroutines and the ticker (MaxOrders 3, MaxTime 1, VWAPWindow 0, MaxDepth 2): the exchange's safety invariants, the stock views (`QuoteFidelity`, `BookSnapshotMatchesReference`), `TerminalAbsorbing`, and `AtomicPasses`, i.e. `Exchange` implements `AtomicExchange` under the completion mapping (about 0.84M distinct states, 1 min). |
| `intake_liveness` | `MCOrderIntakeLive.cfg` | pass | With limit prices entering as decimals (0.0096, 0.0100, 0.0150, 0.0200): `PriceRoundTrip` and `LiveOrdersTerminate` under `IFairSpec` (MaxOrders 2, no symmetry; about 96k states, 50s). |
| `cross_symbol_overdraft` | `MCExchangeCross.cfg` | violation | `NoOverdraft` fails with two symbols (see Findings). |
| `zero_price_trade` | `MCOrderIntakeZero.cfg` | violation | A limit price of 0.0001 becomes 0 cents and a crossing order trades at 0 (see Findings). |
| `trades_in_window_double` | `MCStockServiceCount.cfg` | violation | `trades_in_window` counts each trade twice (see Findings). |
| `vwap_torn_read` | `MCStockServiceTorn.cfg` | violation | `VWAPMatchesSpec` with prices 1 and 10: `GetPrice` reads the log between the two records of a match and answers 7 after trades at 10 and 1, where the spec allows 5 (with the match) or 10 (without). |
| `webhooks_store` | `MCWebhooks.cfg` | pass | `TypeOK`, `IndexesInSync`, `CreatedFlagExact`, `DedupMatchesReference` over concurrent upserts, lists, deletes and deliveries (about 1.5 min). |
| `url_torn_read` | `MCWebhooksTorn.cfg` | violation | An unlocked URL read races the in-place rewrite. |
| `reservation_overflow` | `ReservationWidth.cfg` | violation | A bid with price × quantity past the int64 range reserves a negative amount (Width 8, 3 × 43 = −127). |
| `trade_payload_torn` | `MCTradeDispatch.cfg` | violation | A trade payload reads `partially_filled` and then 0 remaining (MCExchange bounds). |
| `book_manager` | `MCBookManager.cfg` | pass | `SymbolsSerialised`: concurrent first use of a symbol creates one book, so no two goroutines are ever in the same symbol's critical section; `KnownSymbolsJustified`: registrations and submissions leave the symbol registry holding exactly the declared and accepted symbols; `CallsReturn` under `FairSpec`: every call returns and its caller leaves its critical section. |
| `order_listing` | `MCOrderListing.cfg` | pass | `PaginationMatchesReference`: every page and total equals a rank-based reference (0.45M states, 10s). |

### Properties

- **`ReservationConsistent`**. A broker's reserved cash is exactly
  price × remaining over its live limit bids. Its reserved quantity is exactly
  the remaining of its live asks. Reservations are taken at submission and
  given back piecewise by fills, cancel, expiry and IOC.
- **`OrderAccounting`**. For every order, filled + remaining + cancelled =
  quantity. Its filled quantity equals what the trade log records for it, and
  its status agrees with its quantities.
- **`BookHoldsLiveLimitOrders`**. The book is exactly the set of live limit
  orders whose submission pass has ended.
- **`NotCrossed`**. When a book is unlocked, best bid < best ask.
- **`LimitRespected`**. No trade executes beyond a limit price.
- **`SingleTermination`**. Each order gets at most one cancel/expire
  notification, and it names the status the order kept.
- **`TerminalAbsorbing`**. A terminal order never changes again.
- **`NoOverdraft`**. Spec §3: 0 ≤ reserved ≤ total.
- **`QuoteFidelity`**. Spec property 10: a market order fills exactly the
  levels, quantities and average price that `GetQuote` quoted on the book its
  pass started from. It is checked against the trades the order actually
  made.
- **`BookSnapshotMatchesReference`**. `GetBook`'s levels match a reference
  aggregation of the book by price. There are at most `depth` levels, best
  first, and the spread is best ask − best bid when both sides exist.
- **`VWAPMatchesSpec`**. Spec property 11: `GetPrice` returns Σ(p·q)/Σq
  over the matches in the window, or the last trade's price when the window
  is empty, also when it reads between the two appends of a match, as if the
  match had happened or not. Checked only in the violation run: with prices
  1 and 2 a half-appended log floors to the same value, so the run uses 1 and
  10.
- **`IndexesInSync`**, **`CreatedFlagExact`**,
  **`DedupMatchesReference`**. The webhook store's two indexes agree. An upsert answers 201 exactly
  when a row was inserted. De-duplication keeps the first occurrence of each
  event, in order.
- **`SymbolsSerialised`**, **`CallsReturn`**. The double-checked creation
  yields one book per symbol, and no goroutine waits forever on the
  manager's `RWMutex` or a book's mutex.
- **`KnownSymbolsJustified`**. Spec §3: the known symbols are exactly
  what grows them. A known symbol was declared by a registered broker or
  used by an accepted submission. Every symbol of a returned registration or
  of an accepted submission is known. A rejected order registers nothing.
- **`PaginationMatchesReference`**. When `ListByBroker` runs, its page is
  the broker's matching orders of rank (page−1)·limit+1 .. page·limit,
  newest first, with the total before paging.
- **`AtomicPasses`**. Spec §5: the concurrent exchange implements the
  atomic matcher.
- **`LiveOrdersTerminate`**. Every accepted order is eventually filled,
  cancelled or expired.
- **`PriceRoundTrip`**. Spec property 13: the price a response shows
  (`CentsToDollars`), submitted again, converts back to the same cents.
- **`TradePricePositive`**. Spec §3: every trade's price is > 0. Checked
  only in the violation run.

Each property of a passing run is also checked against a mutant of the code,
listed in `PROJECT.json`. Each mutant is a plausible bug: a dropped status
re-check, an off-by-one in the price check or the tick's cutoff, a
reservation released at the original quantity, or a cost estimate at the
best ask only. TLC finds each one.

### Bounds

- **One symbol is enough for the core run.** All races on a book go through
  its lock, and the tick, cancel and both kinds of pass interleave on it.
- **Two goroutines** are enough to put a cancel, or a second pass, between
  the steps of another goroutine.
- **Three orders** reach partial fills across two resting orders, a market
  order walking two levels, and cancel/expire races on a partially filled
  order.
- **MaxTime 1** gives every limit order the one deadline 1. The clock can
  pass it between a submission and its `expiry.Add`, and a tick can fire
  while a goroutine is mid-request.
- **The cross-symbol run** adds the second symbol. This is the only way two
  passes can run at once.

### Fairness

`Exchange`'s `Fairness`, which `IFairSpec` adds to the intake, assumes the following:

- **Weak fairness for a goroutine's steps after it holds the book lock, and
  for its post-matcher service steps.** These are straight-line code with no
  waiting.
- **Strong fairness for `CancelLocked` and `ExpireOrder`.** They wait for a
  book lock that other goroutines repeatedly take and release. Go's
  `sync.Mutex` switches to starvation mode after 1 ms, so a waiter is
  eventually served.
- **Weak fairness for `Tick` and `AdvanceClock`.** The ticker fires
  periodically until shutdown.

Submitting new orders is not fair: clients need not send requests.

## Findings

1. **Cross-symbol overdraft (code bug).**
   - `MatchMarketOrder` checks a market bid's estimated cost against
     available cash but reserves nothing (matcher.go:306).
   - A limit bid on another symbol holds a different book lock. It can
     reserve the same cash before the market fills debit it.
   - The broker then ends with `ReservedCash > CashBalance`.
   - Spec §3 requires reserved ≤ total. Spec §9 open question (c) claims the
     paid amount "cannot exceed the broker's actual available cash"; TLC shows
     it can.
2. **Sub-cent prices pass validation (code bug).**
   - `submitLimitOrder` checks `*req.Price <= 0` on the float
     (service/order.go:122), then converts with `DollarsToCents`.
   - `DollarsToCents(0.0001)` rounds `f*1000` to 0, whose units digit is 0, so
     the precision check (money.go:15-16) passes and the price is 0 cents.
   - The order rests at 0, and a crossing order trades at 0. Spec §3 says a
     trade's price is > 0, and spec §4.1 and property 13 say a decimal with
     more than two fractional digits is rejected. 0.0096 is accepted too, as
     1 cent.

3. **`trades_in_window` is doubled (spec divergence).**
   - `GetPrice` counts trade records (stock.go:122). The matcher appends two
     records per match (matcher.go:226-227, 439-440).
   - So one trade reports `trades_in_window = 2`. The VWAP of a complete log
     is unaffected, because both sums double. The unit test builds one record
     per trade.
4. **Webhook URL data race (code bug).**
   - `WebhookStore.Upsert` rewrites `existing.URL` in place under the store
     lock (store/webhook.go:39).
   - The handler (handler/webhook.go:111) and the delivery goroutine
     (service/webhook.go:258) read it through the shared pointer with no
     lock.
5. **VWAP read between the two records of a match (code bug).**
   - Each match appends its two trade records with two `TradeStore.Append`
     calls (matcher.go:439-440), each under the store's lock only.
     `GetPrice` takes no book lock.
   - A read between them sums three records. After trades at 10 and 1 in
     one market order's pass it answers (10+10+1)/3 = 7.
   - Spec property 11 gives 5 with the second match and 10 without it.
     Spec §5 calls each symbol's trade log an atomic record of execution
     order.

6. **int64 reservation overflow (code bug).**
   - `MatchLimitOrder` computes `required := order.Price * order.Quantity`
     in int64 (matcher.go:77). The service checks only `quantity > 0`.
   - A large quantity wraps `required` to a negative value. The check
     `AvailableCash() < required` then passes, and `ReservedCash` goes
     negative, against spec §3.

7. **Unlocked trade payload reads (code bug).**
   - `dispatchTradeWebhooks` runs after the matcher has released the book
     lock. `DispatchTradeExecuted` then reads the order's `Status`, then
     `FilledQuantity` and `RemainingQuantity` (service/webhook.go:197-199).
   - A concurrent pass can fill the same order between these reads. The
     payload then says `partially_filled` with 0 remaining.
   - Spec §5 says only the balance query reads without the lock.

## Not modelled

Left out:

- HTTP handlers other than the price path of `POST /orders`, the order
  listing and the webhook responses: each decodes JSON, calls one service
  method and encodes its result, with `CentsToDollars` (modelled by `Money`)
  for every amount. Router, config and main: route table, environment
  parsing and process wiring, with no state of their own.
- Spec §8 property 7 ("every trade's price equals the resting order's
  price") contradicts spec §4.4.1, which the code follows: a limit match is
  priced at the ask, so an incoming ask trades at its own price. The models
  check the §4.4.1 rule (`LimitRespected`, `AtomicPasses`) and leave the
  contradiction to the spec's authors.
- Float arithmetic beyond a representation error's sign: amounts are small
  enough that an error can change a rounding only at an exact boundary.
  Amounts near 2^53 / 1000 dollars, where products lose whole units, are out
  of the model's range.
- `formatDuration` in `GetPrice`: a label.
- `GetOrCreate` in the other modules: books exist from the start there, and
  `BookManager` checks the creation on its own.
- The listing's encoding after `ListByBroker` returns: `Encode` reads the
  statuses at that later moment, so a fill in between can list a
  `partially_filled` order under `status=pending` (store/order.go:61). The
  spec does not say which moment a listing reflects, so no property is
  checked on it; it is kept as a hazard in `PROJECT.json`.
- Equal `CreatedAt` values with UUID tie-breaks: the model's ids are
  strictly ordered.
- A market bid's `estimatedCost` (matcher.go:299) is summed in int64 like
  the limit reservation, and wraps the same way. `ReservationWidth` models
  only the limit product. A wrapped market cost would credit the buyer on
  settlement. Stating that needs money conservation across two brokers,
  which the one-broker width model does not have. It is kept as a hazard.
- A rejected order still leaves a book behind. `MatchLimitOrder` and
  `MatchMarketOrder` call `GetOrCreate` before the no-liquidity check and
  the reservation, so the book is created even when the order fails. Spec
  §4.4.2 step 1 says such a rejection mutates nothing. The book is empty and
  never evicted. The read endpoints answer 404 for its unknown symbol, so no
  answer shows it. It only costs memory, and it is kept as a hazard.
- The upsert/delete race: `WebhookService.Upsert` stores, then re-reads
  with `GetByBrokerEvent` (service/webhook.go:115) as two separately locked
  calls, so a delete in between leaves the event out of the response. The
  spec does not say what the response owes in that case, so no run states
  it; it is kept as a hazard.
