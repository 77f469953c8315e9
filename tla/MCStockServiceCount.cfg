\* Spec section 4.6: trades_in_window counts the trades in the window;
\* the trade store keeps two records of every match.
CONSTANTS
  b1 = b1  b2 = b2  s1 = s1  s2 = s2  t1 = t1  t2 = t2
  NoThread = NoThread
  Brokers = {b1, b2}
  Symbols = {s1}
  Threads = {t1, t2}
  Prices = {1, 2}
  Quantities = {1, 2}
  InitCash <- MCInitCash
  InitHold <- MCInitHold
  MaxOrders = 3
  MaxTime = 1
  VWAPWindow = 0
  MaxDepth = 2
SPECIFICATION SSpec
SYMMETRY MCSymmetry
INVARIANT TradesInWindowCounted
