SPECIFICATION Spec
CONSTANTS
  b1 = b1 b2 = b2 None = None Damaged = Damaged
  Bodies = {b1, b2}
  MaxRecords = 2
  want_seq = 1
  MaxLog = 3
  MaxFiles = 3
  MaxTampering = 1
INVARIANTS HeadCommits QuietWalkPasses
PROPERTIES ReadsAtomically WalkProgresses WalkEnds
CHECK_DEADLOCK FALSE
