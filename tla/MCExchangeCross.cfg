CONSTANTS
  b1 = b1  b2 = b2  s1 = s1  s2 = s2  t1 = t1  t2 = t2
  NoThread = NoThread
  Brokers = {b1, b2}
  Symbols = {s1, s2}
  Threads = {t1, t2}
  Prices = {1, 2}
  Quantities = {1, 2}
  InitCash <- MCInitCash
  InitHold <- MCInitHold
  MaxOrders = 3
  MaxTime = 1
SPECIFICATION Spec
SYMMETRY MCSymmetry
INVARIANT NoOverdraft
