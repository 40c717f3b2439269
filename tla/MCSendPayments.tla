---------------------------- MODULE MCSendPayments ----------------------------
EXTENDS SendPayments, TLC
CONSTANTS s1, s2

\* Hashes, values and timestamps are only compared.
DataSymmetry == Permutations(Tx) \union Permutations(Amount) \union Permutations(Detail)
=============================================================================
