SPECIFICATION FairSpec
CONSTANTS
  N = 1
  M = 1
  Digest = {d1}
  NoDigest = NoDigest
  MaxBatches = 1
  MaxSends = 2
  MaxPosts = 1
  ManualMoves <- BookkeepingMoves
  CommSignatures <- AllValid
  TypedSignatures <- SigValue
CHECK_DEADLOCK TRUE
INVARIANTS PostsAreForAcceptedPayments RecordedTxIsAccepted
PROPERTIES OnlyAutoBroadcastLeavesTable PostingAlwaysResolves
