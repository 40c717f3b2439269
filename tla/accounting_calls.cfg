SPECIFICATION Spec
CONSTANTS
  id1 = id1
  id2 = id2
  tx1 = tx1
  tx2 = tx2
  safe1 = safe1
  Id = {id1, id2}
  Tx = {tx1, tx2}
  Safe = {safe1}
  None = None
  Amount = {5, 7}
  Detail = {1, 2}
  MaxCalls = 2
  Requests <- MixedRequests
CHECK_DEADLOCK TRUE
INVARIANT BooksConsistent
PROPERTIES LedgerSpec RetryIsSafe
