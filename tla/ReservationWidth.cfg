\* A limit bid whose price x quantity passes the top of the signed range.
\* Width 8 scales int64 down: 3 x 43 = 129 wraps to -127, as
\* 3 x 3074457345618258603 wraps in int64.
CONSTANTS
  Width = 8
  InitCash = 100
  Prices = {3}
  Quantities = {1, 43}
  MaxOrders = 2
SPECIFICATION Spec
INVARIANT NoOverdraft
