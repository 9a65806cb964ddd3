SPECIFICATION Spec
CONSTANTS
  MaxDeployments = 1
  MaxProcesses = 2
  MaxRuns = 2
  MaxTime = 0
  MaxCrashes = 0
  Slack = 0
  BatchLimit = 2
  Hooks = {h1, h2}
  h1 = h1
  h2 = h2
  GitHubSource = TRUE
  AutoDeploy = TRUE
  Rollbacks = FALSE
  ArgoHooks = FALSE
  NamedCommits = FALSE
  DatabaseErrors = FALSE
INVARIANT ExclusionInv
INVARIANT FullExcludesRollout
INVARIANT RunningWasRolledOut
SYMMETRY HookSymmetry
CHECK_DEADLOCK FALSE
