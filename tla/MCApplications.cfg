SPECIFICATION ApplicationsSpec
CONSTANTS
  Documents <- MCDocuments
  Definitions <- MCDefinitions
  Others <- MCOthers
  Additions <- MCAdditions
  Deletions = {r1, r2}
  MaxFailed = 2
  MaxKills = 1
  CredRequests = {c1, c2, c3}
  DbUsers = {u1, u2}
  MaxAttempts = 2
  MaxLost = 1
INVARIANT ApplicationsTypeOK
 
INVARIANT DeletedApplicationIsGone
INVARIANT PasswordWorks
SYMMETRY Symmetry
CHECK_DEADLOCK FALSE
