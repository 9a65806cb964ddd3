SPECIFICATION FairSpec
CONSTANTS
  MaxDeployments = 1
  MaxProcesses = 1
  MaxRuns = 1
  MaxTime = 0
  MaxCrashes = 1
  Slack = 0
  BatchLimit = 1
  Hooks = {h1}
  h1 = h1
  GitHubSource = TRUE
  AutoDeploy = TRUE
  Rollbacks = FALSE
  ArgoHooks = FALSE
  NamedCommits = TRUE
  DatabaseErrors = TRUE
PROPERTY BuildingResolves
PROPERTY ProcessTerminates
CHECK_DEADLOCK FALSE
