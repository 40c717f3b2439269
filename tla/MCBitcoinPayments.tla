--------------------------- MODULE MCBitcoinPayments ---------------------------
EXTENDS BitcoinPayments, TLC

\* All of them are only compared.
BitcoinSymmetry ==
  Permutations(Raw) \union Permutations(Mapping) \union Permutations(Context)
  \union Permutations(Block) \union Permutations(CallId)
=============================================================================
