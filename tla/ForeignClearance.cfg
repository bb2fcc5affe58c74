SPECIFICATION Spec
CONSTANTS
  None = None
  leaf = leaf parent = parent
  c1 = c1 c2 = c2 base = base own = own
  pointA = pointA pointB = pointB body = body body2 = body2
  Jtis = {leaf, parent}
  MaxTime = 3
  MaxEpoch = 2
  MaxRestores = 1
  Chain <- MCChain
  Operation = op1
  Other = op2
  Settings <- MCSettings
  PointAge = 1
  DispatchAges = {2}
  ForeignWindow = 3
  NativeWindow = 3
  Counting = {TRUE}
  Nonces = {TRUE}
  MaxGrants = 1
INVARIANTS NoRevocationUnseen ClearAtOneMoment CommittedIsCleared
CHECK_DEADLOCK FALSE
