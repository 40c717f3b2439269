SPECIFICATION Spec
CONSTANTS
  N = 1
  M = 1
  Digest = {d1, d2}
  NoDigest = NoDigest
  MaxBatches = 2
  MaxSends = 1
  MaxPosts = 1
  ManualMoves <- ConfirmMoves
  CommSignatures <- AllValid
  TypedSignatures <- Slot
CHECK_DEADLOCK TRUE
INVARIANT OneTransactionThroughout
SYMMETRY DigestSymmetry
