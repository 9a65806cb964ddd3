SPECIFICATION Spec
CONSTANTS
  MaxDeployments = 2
  MaxProcesses = 1
  MaxRuns = 2
  MaxTime = 1
  MaxCrashes = 1
  Slack = 1
  BatchLimit = 2
  Hooks = {h1}
  h1 = h1
  GitHubSource = TRUE
  AutoDeploy = FALSE
  Rollbacks = FALSE
  ArgoHooks = FALSE
  NamedCommits = TRUE
  DatabaseErrors = TRUE
INVARIANT DeployedImageWasBuilt
PROPERTY KeepsRecords
CHECK_DEADLOCK FALSE
