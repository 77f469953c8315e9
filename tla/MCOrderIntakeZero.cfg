\* A limit price of 0.0001 dollars passes "price must be greater than 0"
\* (it is checked on the float) and DollarsToCents (f*1000 rounds to 0,
\* whose units digit is 0), and becomes a price of 0 cents.
CONSTANTS
    b1 = b1  b2 = b2  s1 = s1  s2 = s2  t1 = t1  t2 = t2
    NoThread = NoThread
    Brokers = {b1, b2}
    Symbols = {s1}
    Threads = {t1, t2}
    Prices = {1, 2}
    Quantities = {1, 2}
    InitCash <- MCInitCash
    InitHold <- MCInitHold
    MaxOrders = 3
    MaxTime = 1
    Digits = 4
    PriceInputs = {1, 100}
SPECIFICATION ISpec
SYMMETRY MCSymmetry
INVARIANT TradePricePositive
