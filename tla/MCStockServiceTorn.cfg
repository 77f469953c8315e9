\* Spec property 11: GetPrice answers as if a match had happened or not,
\* even when it reads the log between the two records of a match.  Prices
\* 1 and 10 make the half-appended log's VWAP differ from both.
CONSTANTS
  b1 = b1  b2 = b2  s1 = s1  s2 = s2  t1 = t1  t2 = t2
  NoThread = NoThread
  Brokers = {b1, b2}
  Symbols = {s1}
  Threads = {t1, t2}
  Prices = {1, 10}
  Quantities = {1, 2}
  InitCash <- MCTornCash
  InitHold <- MCInitHold
  MaxOrders = 3
  MaxTime = 1
  VWAPWindow = 0
  MaxDepth = 2
SPECIFICATION SSpec
SYMMETRY MCSymmetry
INVARIANT VWAPMatchesSpec
