SPECIFICATION Spec
CONSTANTS
  None = None
  leaf = leaf parent = parent
  issuer = issuer workload = workload pointA = pointA keyA = keyA body = body
  domain = domain ledger = ledger place = place remote = remote
  rootP = rootP rootE = rootE selected = selected entry = entry other = other
  Jtis = {leaf, parent}
  MaxTime = 3
  MaxEpoch = 2
  MaxRestores = 1
  Counting = {TRUE}
  Nonces = {FALSE}
  Caller <- MCCaller
  DefaultProofAge = 2
  Receipts <- MCReceipts
  SignedAge = 2
INVARIANTS AuthorityAtOneMoment RevocationSeen EveryBoundAnswered ForeignOnConsent
CHECK_DEADLOCK FALSE
