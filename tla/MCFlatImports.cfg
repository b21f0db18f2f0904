SPECIFICATION Spec
CONSTANTS
  alpha = alpha
  beta = beta
  core = core
  doc = doc
  caseA = caseA
  caseB = caseB
  caseL = caseL
  Missing = Missing
  None = None
  Path <- MCPath
  Prose <- MCProse
  Case <- MCCase
  Group <- MCGroup
  GroupOf <- MCGroupOf
  Fixtures <- MCFixtures
  Entry <- MCEntry
  Shared <- MCShared
  Bad <- MCBad
  MaxPushes = 3
  Consts = {2}
  SliceSizes = {1, 2}
  Campaigns <- AllCampaigns
  MaxTimeouts = 1
  r1 = r1
  r2 = r2
  Nothing = Nothing
  Runner <- Runners
  Root = Root
  Recipe <- ToolRecipe
  Result <- Results
  MaxRows = 1
  LogSizes = {0, 1}
  MaxRuns = 2
SYMMETRY Alike
INVARIANT ImportsKeyed
CHECK_DEADLOCK FALSE
