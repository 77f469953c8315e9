\* Orders whose limit prices arrive as decimals: 0.0096 and 0.0100 both
\* become 1 cent, 0.0150 is rejected, 0.0200 becomes 2 cents.  Every
\* accepted order eventually terminates, under fairness of the request
\* goroutines, the book locks and the ticker; every price is the request's
\* cent and shows back as the same cents.
CONSTANTS
    b1 = b1  b2 = b2  s1 = s1  s2 = s2  t1 = t1  t2 = t2
    NoThread = NoThread
    Brokers = {b1, b2}
    Symbols = {s1}
    Threads = {t1, t2}
    Prices = {1, 2}
    Quantities = {1, 2}
    InitCash <- MCInitCash
    InitHold <- MCInitHold
    MaxOrders = 2
    MaxTime = 1
    Digits = 4
    PriceInputs = {96, 100, 150, 200}
SPECIFICATION IFairSpec
INVARIANT PriceRoundTrip
PROPERTY LiveOrdersTerminate
