SPECIFICATION Spec
CONSTANTS
  N = 2
  M = 1
  Digest = {d1}
  NoDigest = NoDigest
  MaxBatches = 1
  MaxSends = 2
  MaxPosts = 1
  ManualMoves <- OrdinaryMoves
  CommSignatures <- AllValid
  TypedSignatures <- Slot
CHECK_DEADLOCK TRUE
PROPERTY TerminalIsFinal
