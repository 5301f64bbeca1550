\* A user's request and an administrator's refund of an order of three cents
\* beside refunds made at the provider.
CONSTANTS
  a1 = a1
  a2 = a2
  r1 = r1
  r2 = r2
  Attempts = {a1, a2}
  Requested = {a1}
  Refunds = {r1, r2}
  Announced = {r1}
  Price = 3
  Credits = 3
  None = None
SPECIFICATION RefundSpec
CHECK_DEADLOCK FALSE
INVARIANTS
  BooksAgree
  RequestsTellTruth
  PendingIsClosed
  RefundsStayCountable
PROPERTIES
  RefundsSettleOnce
