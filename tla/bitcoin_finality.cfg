SPECIFICATION BitcoinSpec
CONSTANTS
  Raw = {t1, t2}
  Mapping = {m1}
  Context = {c1}
  Block = {b1, b2}
  CallId = {k1, k2}
  None = None
CHECK_DEADLOCK TRUE
INVARIANT PaymentsAreFinal
PROPERTY HoldIsKept
SYMMETRY BitcoinSymmetry
