SPECIFICATION LiveSpec
CONSTANTS
  Deliveries = {d1, d2}
  Passes = {p1, p2}
  Nobody = nobody
INVARIANTS RetryIsSafe
PROPERTIES AtMostOnce CancelledIsFinal AcknowledgedIsSettled
CHECK_DEADLOCK FALSE
