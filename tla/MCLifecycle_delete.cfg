SPECIFICATION Spec
CONSTANTS
  Creates = {c1}
  Deletes = {d1, d2}
  Names = {n1}
  Namespaces = {s1}
  Counters <- MCCounters
  Presets <- MCOnePreset
  Cost <- MCCost
  DefaultLimit <- MCLimit
  OtherLimits <- MCOtherLimits
  GitHubSource = TRUE
  AutoDeploy = TRUE
  MaxUpdates = 1
  MaxCrashes = 1
INVARIANT DeletedIsClean
SYMMETRY Symmetry
CHECK_DEADLOCK FALSE
