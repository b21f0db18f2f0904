SPECIFICATION CiSpec
CONSTANTS
  alpha = alpha
  beta = beta
  core = core
  doc = doc
  caseA = caseA
  caseB = caseB
  caseL = caseL
  Missing = Missing
  Path <- MCPath
  Prose <- MCProse
  Case <- MCCase
  Group <- MCGroup
  GroupOf <- MCGroupOf
  Fixtures <- MCFixtures
  Entry <- MCEntry
  Shared <- MCShared
  Bad <- MCBad
  MaxPushes = 4
INVARIANT
  ReuseIsQualified
CHECK_DEADLOCK FALSE
