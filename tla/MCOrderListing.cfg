\* One list request, at any point of up to three orders of two brokers, with
\* limits up to one past the cap and pages from 0 (invalid) to 3.
CONSTANTS
  b1 = b1  b2 = b2  t1 = t1
  NoStatus = NoStatus  Unknown = Unknown
  Brokers = {b1, b2}
  Threads = {t1}
  MaxOrders = 3
  MaxRequests = 1
  MaxPage = 3
  LimitCap = 2
SPECIFICATION Spec
PROPERTY PaginationMatchesReference
