SPECIFICATION BuildsSpec
CONSTANTS
  b1 = b1
  b2 = b2
  flat = flat
  bundled = bundled
  x = x
  None = None
  Build <- Builds
  Output <- Outputs
  Bundle <- Bundles
  Input <- OneInput
  Stages = 2
  Salt = {1, 2}
  MaxChanges = 1
  MaxStarts = 2
  r1 = r1
  r2 = r2
  Nothing = Nothing
  Runner <- OneRunner
  Case = {1, 2}
  Root = 0
  Recipe <- FewRecipes
  Result <- FewResults
  MaxRows = 1
  LogSizes = {1, 4}
  MaxRuns = 2
  FileBytes = 2
  TotalBytes = 6
  FileCount = 6
INVARIANTS
  OutputIsComplete
  ReleasesCoherent
  CacheIsTrue
  DiagnosticsUseful
PROPERTIES
  EveryBuildEnds
CHECK_DEADLOCK FALSE
