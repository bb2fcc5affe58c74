SPECIFICATION Spec
CONSTANTS
  b1 = b1 b2 = b2
  None = None Damaged = Damaged Forged = Forged Unrelated = Unrelated
  Bodies = {b1}
  MaxLog = 1
  MaxWitness = 0
  MaxAttacks = 1
  MaxMoves = 1
  AttackCost = 0
  Requests <- CommandRequests
INVARIANT ChainReportedFirst
CHECK_DEADLOCK FALSE
