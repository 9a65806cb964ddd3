SPECIFICATION AccessSpec
CONSTANTS
  Users = {u1, u2}
  CredCalls = {c1, c2}
  MaxVersion = 3
  MaxProjects = 1
  Requests = {q1, q2}
  TokenTTL = 2
  AuthTimeout = 1
  MaxTime = 5
  Instances <- MCInstances
  SpaceOf <- MCSpaceOf
  Vias = {"instance", "management"}
  MaxErrors = 1
  MaxRestarts = 1
INVARIANT AccessTypeOK
INVARIANT DeletedLeavesNothing
INVARIANT ClientIsCurrent
INVARIANT AcceptedWasValid
INVARIANT RecordsTellTheTruth
SYMMETRY Symmetry
CHECK_DEADLOCK FALSE
