SPECIFICATION PairSpec
CONSTANTS
  a1 = a1 a2 = a2 b1 = b1 b2 = b2 Absent = Absent
  AOperations = {a1, a2}
  BOperations = {b1, b2}
INVARIANT PairNamesVerifiedDispatch
CHECK_DEADLOCK FALSE
