SPECIFICATION PlatformSpec
CONSTANTS
  Writers = {w1, w2}
  Images <- MCImages
  FirstImage <- MCFirstImage
  Shapes <- MCShapes
  MaxRetries = 1
  MaxDisturbances = 1
  Calls = {k1, k2}
  Names = {"a", "b"}
  RemovedFirst <- MCRemovedFirst
  MaxFailures = 1
  Drains = {d1}
  Pods = {p1, p2}
  MaxErrors = 1
  HealthNodes = {"n1"}
  RestartCounts = {3, 6}
  Viewers = {v1, v2}
  TTL = 3
  Timeout = 1
  VersionTimeout = 1
  MaxNow = 7
  TagCalls = {t1, t2}
  MaxTag = 3
  PageSize = 1
  MaxVisits = 3
  MaxPushes = 2
  RobotCalls = {r1, r2, r3}
  RobotOwners <- MCOwners
  NamespaceOf <- MCNamespaceOf
  RobotNameOf <- MCRobotNameOf
  EndsWith <- MCEndsWith
  RobotPage = 2
  MaxMishaps = 1
INVARIANT PlatformTypeOK
INVARIANT DirectoryBuilds
INVARIANT DeploysTheProjectsImage
INVARIANT RulesStay
INVARIANT BindingHasRole
INVARIANT DrainEmpties
INVARIANT HealthAgrees
INVARIANT DashboardFresh
INVARIANT TagsComplete
INVARIANT PullSecretWorks
PROPERTY ObjectsAreAtomic
SYMMETRY Symmetry
CHECK_DEADLOCK FALSE
