SPECIFICATION RatSpec
CONSTANTS
  None = None
  j0 = j0 j1 = j1 j2 = j2
  root = root src = src refs = refs
  web = web mail = mail cat = cat grep = grep
  setA = setA setB = setB pointA = pointA pointB = pointB
  week = week day = day entryA = entryA entryB = entryB
  holder = holder agent = agent issuer = issuer alias = alias keyH = keyH keyI = keyI late = late keyL = keyL
  Within <- MCWithin
  Slips <- MCSlips
  Requests <- MCRequests
  Versions = {"2", "3"}
  MaxDepth = 2
  MaxSupplied = 3
  MaxTime = 2
  Bundles <- MCBundles
  Roots <- MCRoots
  Jtis = {j0, j1, j2}
  SignedAge = 1
  MaxEpoch = 1
  MaxRestores = 1
  Counting = {TRUE, FALSE}
INVARIANTS ChainNarrows DelegatedAtOneMoment DepthWithinEveryGrant AccountsInherited
  GrantWithinRatifier RatifierNotRatified RatifierClearAtOneMoment
CHECK_DEADLOCK FALSE
