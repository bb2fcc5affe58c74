SPECIFICATION Spec
CONSTANTS
  b1 = b1 b2 = b2
  None = None Damaged = Damaged Forged = Forged Unrelated = Unrelated
  Bodies = {b1, b2}
  MaxLog = 2
  MaxWitness = 2
  MaxAttacks = 1
  MaxMoves = 4
  AttackCost = 3
  Requests <- AllRequests
SYMMETRY Symmetry
INVARIANTS AttestedOnly WitnessedKept CheckpointKept AccusationsTrue UpToDatePasses
CHECK_DEADLOCK FALSE
