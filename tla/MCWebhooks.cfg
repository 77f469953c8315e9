\* Store, upsert, list, delete, dispatch and delivery with two goroutines.
CONSTANTS
    b1 = b1  trade = trade  cancelled = cancelled  u1 = u1  u2 = u2
    t1 = t1  t2 = t2
    Torn = Torn  NoUrl = NoUrl  NoThread = NoThread
    Brokers = {b1}
    Events = {trade, cancelled}
    URLs = {u1, u2}
    Threads = {t1, t2}
    MaxEvents = 2
    MaxRequests = 3
    MaxDispatch = 2
SPECIFICATION Spec
SYMMETRY MCSymmetry
INVARIANT TypeOK
INVARIANT IndexesInSync
INVARIANT CreatedFlagExact
INVARIANT DedupMatchesReference
