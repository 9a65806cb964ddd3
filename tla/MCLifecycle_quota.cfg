SPECIFICATION Spec
CONSTANTS
  Creates = {c1, c2}
  Deletes = {}
  Names = {n1}
  Namespaces = {s1}
  Counters <- MCCounters
  Presets <- MCPresets
  Cost <- MCCost
  DefaultLimit <- MCLimit
  OtherLimits <- MCOtherLimits
  GitHubSource = FALSE
  AutoDeploy = FALSE
  MaxUpdates = 1
  MaxCrashes = 1
INVARIANT ReadIsFresh
PROPERTY QuotaIsAtomic
CHECK_DEADLOCK FALSE
