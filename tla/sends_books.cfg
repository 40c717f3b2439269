SPECIFICATION SendSpec
CONSTANTS
  s1 = s1
  s2 = s2
  Id = {s1, s2}
  Old = {s1}
  Tx = {t1, t2}
  Safe = {}
  None = None
  Amount = {a1, a2}
  Detail = {d1, d2}
  MaxCalls = 2
  Requests <- SendRecord
CHECK_DEADLOCK TRUE
INVARIANT SendsMatchBooks
SYMMETRY DataSymmetry
