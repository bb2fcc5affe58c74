SPECIFICATION Spec
CONSTANTS
  o1 = o1 o2 = o2 o3 = o3 f1 = f1 f2 = f2 n1 = n1 n2 = n2 n3 = n3 n4 = n4
  d1 = d1 d2 = d2 a1 = a1 k1 = k1 k2 = k2 r1 = r1 r2 = r2 r3 = r3 r4 = r4
  l1 = l1 None = None
  Ops = {o1, o2}
  NativeOps = {}
  Foreign = {}
  Proofs <- InstantProofs3
  ForeignDispatches = {}
  Approvals = {}
  Ids = {n1, n2, n3}
  Times = {1}
  Keys = {k1, k2}
  Reservations = {r1, r2, r3}
  Amounts = {0, 1, 2}
  Ceilings = {2, 3}
  Variants = {1}
  Bodies = {1}
  LegacyDecisions = {}
  Intents <- OwnIntents
  Tokens = {"genuine"}
  Kinds = {"counterparty_resume"}
SYMMETRY BudgetSymmetry
INVARIANTS
  WithinCeiling ReservationsFollowOwner AccountsBalanced
PROPERTY ImplementsBudgets
CHECK_DEADLOCK FALSE
