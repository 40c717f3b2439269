SPECIFICATION InvoicesSpec
CONSTANTS
  MaxInvoices = 1
  MaxBatches = 1
  BatchMoves = {}
CHECK_DEADLOCK FALSE
INVARIANT RejectedIsUnpaid
