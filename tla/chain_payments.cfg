SPECIFICATION Spec
CONSTANTS
  Payments = {p1, p2}
  Spends = {v1}
  Owners = {o1, o2}
  Threshold = 2
  MaxSafeNonce = 1
  MaxOuter = 2
  MaxSafeCalls = 2
  NoPayment = NoPayment
  Pays = {a, b}
  Required = {s1}
  MaxReviews = 2
  MaxNonce = 1
  MaxCalls = 2
  NoRecord = NoRecord
  GapLimit = 2
  MaxDerived = 5
  NoScan = NoScan
  Sigs = {x, y}
  MaxChecks = 1
  NoAnswer = NoAnswer
  MaxInvoices = 2
  MaxBatches = 2
  BatchMoves <- MCBatchMoves
  Seed = {seed1, seed2}
  Password = {w1, w2}
  MaxAttempts = 2
  NoVault = NoVault
  Deposit = {6, 13, 15}
  Order <- MCOrders
  MaxCells = 4
  MaxBuilt = 2
  MinCapacity = 4
  FeeRate = 1
  InputSize = 1
  OutputSize = 1
  MultisigSize = 1
  JoyIdSize = 2
  Reserve = 4
SYMMETRY MCSymmetry
CHECK_DEADLOCK FALSE
INVARIANTS TypeOK ApprovalsAreGenuine BookedWasExecuted ReceiptWasSent FinalizedBeforeBooked RegressionsAreShown DiscoveryCovers PaidOnce InvoicesFollowBatches VaultIsBackedUp PaymentsBalance
PROPERTY RegressionHolds
