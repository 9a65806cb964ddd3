SPECIFICATION Spec
CONSTANTS
  Creates = {c1}
  Deletes = {d1}
  Names = {n1}
  Namespaces = {s1}
  Counters <- MCCounters
  Presets <- MCOnePreset
  Cost <- MCCost
  DefaultLimit <- MCLimit
  OtherLimits <- MCOtherLimits
  GitHubSource = FALSE
  AutoDeploy = FALSE
  MaxUpdates = 0
  MaxCrashes = 0
INVARIANT ManifestsRemoved
CHECK_DEADLOCK FALSE
