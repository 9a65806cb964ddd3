SPECIFICATION Spec
CONSTANTS
  MaxDeployments = 2
  MaxProcesses = 2
  MaxRuns = 0
  MaxTime = 0
  MaxCrashes = 1
  Slack = 0
  BatchLimit = 1
  Hooks = {h1}
  h1 = h1
  GitHubSource = FALSE
  AutoDeploy = FALSE
  Rollbacks = TRUE
  ArgoHooks = TRUE
  NamedCommits = TRUE
  DatabaseErrors = TRUE
INVARIANT SucceededIsEarned
PROPERTY KeepsRecords
CHECK_DEADLOCK FALSE
