SPECIFICATION Spec
CONSTANTS
  o1 = o1 o2 = o2 o3 = o3 f1 = f1 f2 = f2 n1 = n1 n2 = n2 n3 = n3 n4 = n4
  d1 = d1 d2 = d2 a1 = a1 k1 = k1 k2 = k2 r1 = r1 r2 = r2 r3 = r3 r4 = r4
  l1 = l1 None = None
  Ops = {o1}
  NativeOps = {o1}
  Foreign = {}
  Proofs <- TimedProofs
  ForeignDispatches = {}
  Approvals <- TimedApprovals
  Ids = {n1, n2, n3, a1}
  Times = {1, 2}
  Keys = {k1}
  Reservations = {r1}
  Amounts = {1}
  Ceilings = {1}
  Variants = {1, 2}
  Bodies = {1, 2}
  LegacyDecisions = {l1}
  Intents <- LegacyIntents
  Tokens = {"absent", "forged", "genuine"}
  Kinds = {"retry", "reconciliation", "delegation_issuance", "counterparty_resume"}
INVARIANTS
   ResumesAuthenticated RecoveryDecides FencedCapacityNeedsReceipt
PROPERTY LifecycleOrder
CHECK_DEADLOCK FALSE
