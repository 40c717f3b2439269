SPECIFICATION Spec
CONSTANTS
  N = 2
  M = 2
  Digest = {d1}
  NoDigest = NoDigest
  MaxBatches = 1
  MaxSends = 1
  MaxPosts = 1
  ManualMoves <- OrdinaryMoves
  CommSignatures <- ValidOrJunk
  TypedSignatures <- Slot
CHECK_DEADLOCK TRUE
INVARIANT CommCollectionMerges
