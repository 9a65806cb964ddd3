SPECIFICATION Spec
CONSTANTS
  MaxDeployments = 2
  MaxProcesses = 2
  MaxRuns = 2
  MaxTime = 0
  MaxCrashes = 0
  Slack = 0
  BatchLimit = 2
  Hooks = {}
  GitHubSource = TRUE
  AutoDeploy = FALSE
  Rollbacks = FALSE
  ArgoHooks = FALSE
  NamedCommits = FALSE
  DatabaseErrors = FALSE
INVARIANT TypeOK
INVARIANT JobsInOrder
INVARIANT SucceededIsEarned
CHECK_DEADLOCK FALSE
