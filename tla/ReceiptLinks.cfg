SPECIFICATION Spec
CONSTANTS
  q1 = q1 q2 = q2 None = None
  Requests = {q1, q2}
  Policies <- MCPolicies
  Faulty <- MCFaulty
  MaxRecords = 5
  MaxFaults = 1
INVARIANTS ValidIsLinked HonestPasses
PROPERTY BrokenStaysBroken
CHECK_DEADLOCK FALSE
