SPECIFICATION OrderedSpec
CONSTANTS
  o1 = o1 o2 = o2 o3 = o3 f1 = f1 f2 = f2 n1 = n1 n2 = n2 n3 = n3 n4 = n4
  d1 = d1 d2 = d2 a1 = a1 k1 = k1 k2 = k2 r1 = r1 r2 = r2 r3 = r3 r4 = r4
  l1 = l1 None = None
  Ops = {o1, o2}
  NativeOps = {o1}
  Foreign = {f1}
  Proofs <- InstantProofs3
  ForeignDispatches <- InstantDispatches
  Approvals = {}
  Ids = {n1, n2, n3, d1, d2}
  Times = {1}
  Keys = {}
  Reservations = {}
  Amounts = {1}
  Ceilings = {1}
  Variants = {1}
  Bodies = {1}
  LegacyDecisions = {}
  Intents <- AllIntents
  Tokens = {"absent", "genuine"}
  Dependencies <- OneDependency
  Kinds = {"reconciliation", "counterparty_resume"}
SYMMETRY NonceSymmetry
INVARIANTS
  CancellationExcludes CommittedWasDispatched
PROPERTY ImplementsSides
CHECK_DEADLOCK FALSE
