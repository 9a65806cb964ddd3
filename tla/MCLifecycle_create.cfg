SPECIFICATION Spec
CONSTANTS
  Creates = {c1, c2}
  Deletes = {d1}
  Names = {n1, n2}
  Namespaces = {s1, s2}
  Counters <- MCCounters
  Presets <- MCOnePreset
  Cost <- MCCost
  DefaultLimit <- MCLimit
  OtherLimits <- MCOtherLimits
  GitHubSource = TRUE
  AutoDeploy = FALSE
  MaxUpdates = 0
  MaxCrashes = 0
INVARIANT TypeOK
INVARIANT QuotaAccounted
INVARIANT Compensated
INVARIANT LiveProjectIsWhole
SYMMETRY Symmetry
CHECK_DEADLOCK FALSE
