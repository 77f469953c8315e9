\* Concurrent first use of two symbols' books by three goroutines, under
\* the mutexes' fairness, with one broker id registered at most once and
\* read, submit and registration calls interleaved.  A goroutine blocked
\* forever on a mutex is what CallsReturn reports, as a stuttering tail, so
\* deadlock is not checked separately.
CONSTANTS
  t1 = t1  t2 = t2  t3 = t3  s1 = s1  s2 = s2  b1 = b1
  NoThread = NoThread
  Threads = {t1, t2, t3}
  Symbols = {s1, s2}
  Brokers = {b1}
  HoldingSets <- HoldingChoices
  MaxCalls = 4
SPECIFICATION FairSpec
INVARIANT SymbolsSerialised KnownSymbolsJustified
PROPERTY CallsReturn
CHECK_DEADLOCK FALSE
