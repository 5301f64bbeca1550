\* Five transactions and a refund hold; the wallet is complete after them.
CONSTANTS
  MaxTransactions = 5
  MaxHolds = 1
  Amounts = {1, 2}
SPECIFICATION LedgerSpec
CHECK_DEADLOCK FALSE
INVARIANTS
  Consistent
  AccountedFor
  NotResurrected
  ReturnsComplete
