SPECIFICATION Spec
CONSTANTS
  PacketTx = {t1, t2}
  Signers = {k1}
  PacketTexts <- MCPacketTexts
  NoPacket = NoPacket
  Clicks = 2
  Publishes = 1
  MaxIdentities = 2
  ScriptA = a
  ScriptB = b
  Scripts = {a, b}
  MaxRescans = 2
  Made <- MCMade
  Spent <- MCSpent
  MaxTip = 1
  Unwatched = Unwatched
  Networks = {"testnet", "mainnet"}
  Default = "testnet"
  MaxStarts = 3
  Nothing = Nothing
  MaxCaptures = 2
  MaxPairings = 2
  MaxChanges = 1
  Capacity = 2
  Absent = Absent
  OnCkb = c
  OnEvm = e
  Batch = {c, e}
  ChainOf <- MCChainOf
  DayOf <- MCDayOf
  MaxEdits = 2
  NoReport = NoReport
CHECK_DEADLOCK FALSE
INVARIANTS TypeOK SignsWhatWasShown AddressHasKeys NoGaps WatchesSurvive KnownSpendsAreDropped ForeignDbIsFlagged PendingIsDriven QueueKeepsImages HandedOverOnce DigestsVouch ReportIsTheBooks
