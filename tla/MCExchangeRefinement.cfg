\* The exchange on one symbol with two goroutines and the ticker: its
\* invariants, the stock service's views on every state, and the refinement
\* of AtomicExchange (every pass, cancel and expiry is one atomic step).
CONSTANTS
  b1 = b1  b2 = b2  s1 = s1  s2 = s2  t1 = t1  t2 = t2
  NoThread = NoThread
  Brokers = {b1, b2}
  Symbols = {s1}
  Threads = {t1, t2}
  Prices = {1, 2}
  Quantities = {1, 2}
  InitCash <- MCInitCash
  InitHold <- MCInitHold
  MaxOrders = 3
  MaxTime = 1
  VWAPWindow = 0
  MaxDepth = 2
SPECIFICATION CheckSpec
SYMMETRY MCSymmetry
INVARIANT TypeOK
INVARIANT ReservationConsistent
INVARIANT OrderAccounting
INVARIANT BookHoldsLiveLimitOrders
INVARIANT NotCrossed
INVARIANT LimitRespected
INVARIANT SingleTermination
INVARIANT NoOverdraft
INVARIANT QuoteFidelity
INVARIANT BookSnapshotMatchesReference
PROPERTY TerminalAbsorbing
PROPERTY AtomicPasses
