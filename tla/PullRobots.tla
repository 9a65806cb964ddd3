----------------------------- MODULE PullRobots -----------------------------
(***************************************************************************)
(* Pull secrets: ensureHarborPullRobot replaces the robot of a project in  *)
(* Harbor by a new one, and its caller writes the credentials into the     *)
(* secret of the project's namespace.  Creations of projects, deployments  *)
(* and managed BasaltPass instances do so at any moment.                   *)
(***************************************************************************)
EXTENDS Integers, FiniteSets

CONSTANTS
  RobotCalls,     \* calls of ensureHarborPullRobot with the write that follows
  RobotOwners,    \* projects
  NamespaceOf,    \* NamespaceOf[p]: the namespace of a project
  RobotNameOf,    \* RobotNameOf[p]: harborName("beancs-" + name)
  EndsWith,       \* pairs of names: the first ends with the second, and is another
  RobotPage,      \* robots that one request lists
  MaxMishaps      \* bound on requests that fail

ASSUME RobotAssumption == RobotPage \in Nat \ {0} /\ MaxMishaps \in Nat

VARIABLES
  robots,      \* robots of Harbor: their names and tokens
  lastToken,   \* the last token that Harbor has given
  pullSecret,  \* pullSecret[ns]: the token in the secret of a namespace, or 0
  robotCall,
  robotTrouble \* history: requests that failed, calls that overlapped for one
               \* name of a robot, and robots that two namespaces share

robotVars == <<robots, lastToken, pullSecret, robotCall, robotTrouble>>

RobotNames == {RobotNameOf[p] : p \in RobotOwners}
SecretNamespaces == {NamespaceOf[p] : p \in RobotOwners}

IdleRobotCall ==
  [pc |-> "idle", owner |-> "none", found |-> {}, retried |-> FALSE, token |-> 0]

RobotInit ==
  /\ robots = {} /\ lastToken = 0
  /\ pullSecret = [ns \in SecretNamespaces |-> 0]
  /\ robotCall = [c \in RobotCalls |-> IdleRobotCall]
  /\ robotTrouble = {}

RobotBusy(c) == robotCall[c].pc \notin {"idle", "done", "failed"}
NameOfCall(c) == RobotNameOf[robotCall[c].owner]

\* Variant: the end of the name is enough.
MatchesSuffix(name, wanted) == name = wanted \/ <<name, wanted>> \in EndsWith

\* The name alone, or after one of the separators that Harbor puts.
harborRobotNameMatches(name, wanted) == name = wanted

Overlaps(p) ==
  \E d \in RobotCalls : RobotBusy(d) /\
    (NameOfCall(d) = RobotNameOf[p] \/ NamespaceOf[robotCall[d].owner] = NamespaceOf[p])

\* The name of the robot comes from that of the owner alone: a project and a
\* managed BasaltPass of one name, or names that harborName makes equal, have one
\* robot between them, and a secret each.
SharesRobot(p) ==
  \E q \in RobotOwners :
    /\ RobotNameOf[q] = RobotNameOf[p] /\ NamespaceOf[q] # NamespaceOf[p]
    /\ pullSecret[NamespaceOf[q]] # 0

BeginRobot(c, p) ==
  /\ robotCall[c].pc = "idle"
  /\ robotCall' = [robotCall EXCEPT ![c].pc = "list", ![c].owner = p]
  /\ robotTrouble' = robotTrouble \cup (IF Overlaps(p) THEN {"overlap"} ELSE {})
                                 \cup (IF SharesRobot(p) THEN {"shared"} ELSE {})
  /\ UNCHANGED <<robots, lastToken, pullSecret>>

\* deleteHarborProjectRobots: one page of all robots, whichever Harbor gives.
ListRobots(c) ==
  /\ robotCall[c].pc = "list"
  /\ \E page \in SUBSET robots :
       /\ Cardinality(page) = IF Cardinality(robots) < RobotPage THEN Cardinality(robots) ELSE RobotPage
       /\ LET found == {r \in page : harborRobotNameMatches(r.name, NameOfCall(c))} IN
          robotCall' = [robotCall EXCEPT ![c].found = found,
                          ![c].pc = IF found = {} THEN "create" ELSE "delete"]
  /\ UNCHANGED <<robots, lastToken, pullSecret, robotTrouble>>

DeleteRobot(c) ==
  /\ robotCall[c].pc = "delete"
  /\ \E r \in robotCall[c].found :
       /\ robots' = robots \ {r}
       /\ robotCall' = [robotCall EXCEPT ![c].found = @ \ {r},
                          ![c].pc = IF robotCall[c].found = {r} THEN "create" ELSE "delete"]
  /\ UNCHANGED <<lastToken, pullSecret, robotTrouble>>

\* createHarborPullRobot.  A name that is taken is a conflict, after which all
\* is done once more.
CreateRobot(c) ==
  LET taken == \E r \in robots : r.name = NameOfCall(c) IN
  /\ robotCall[c].pc = "create"
  /\ \/ /\ ~taken /\ lastToken' = lastToken + 1
        /\ robots' = robots \cup {[name |-> NameOfCall(c), token |-> lastToken + 1]}
        /\ robotCall' = [robotCall EXCEPT ![c].pc = "secret", ![c].token = lastToken + 1]
        /\ UNCHANGED robotTrouble
     \/ /\ taken /\ ~robotCall[c].retried
        /\ robotCall' = [robotCall EXCEPT ![c].pc = "list", ![c].retried = TRUE]
        /\ UNCHANGED <<robots, lastToken, robotTrouble>>
     \/ /\ taken /\ robotCall[c].retried
        /\ robotCall' = [robotCall EXCEPT ![c] = [IdleRobotCall EXCEPT !.pc = "failed"]]
        /\ robotTrouble' = robotTrouble \cup {"failed"}
        /\ UNCHANGED <<robots, lastToken>>
  /\ UNCHANGED pullSecret

\* UpsertRegistryPullSecretWithCredentials: one secret for a namespace.
WriteSecret(c) ==
  /\ robotCall[c].pc = "secret"
  /\ pullSecret' = [pullSecret EXCEPT ![NamespaceOf[robotCall[c].owner]] = robotCall[c].token]
  /\ robotCall' = [robotCall EXCEPT ![c].pc = "done", ![c].token = 0]
  /\ UNCHANGED <<robots, lastToken, robotTrouble>>

\* Any request may fail; a robot or its deletion may have come about.
RobotFailure(c) ==
  /\ RobotBusy(c) /\ Cardinality({d \in RobotCalls : robotCall[d].pc = "failed"}) < MaxMishaps
  /\ robotCall' = [robotCall EXCEPT ![c] = [IdleRobotCall EXCEPT !.pc = "failed"]]
  /\ robotTrouble' = robotTrouble \cup {"failed"}
  /\ \/ UNCHANGED <<robots, lastToken>>
     \/ /\ robotCall[c].pc = "create" /\ \A r \in robots : r.name # NameOfCall(c)
        /\ lastToken' = lastToken + 1
        /\ robots' = robots \cup {[name |-> NameOfCall(c), token |-> lastToken + 1]}
  /\ UNCHANGED pullSecret

RobotNext ==
  \E c \in RobotCalls :
    \/ \E p \in RobotOwners : BeginRobot(c, p)
    \/ ListRobots(c) \/ DeleteRobot(c) \/ CreateRobot(c) \/ WriteSecret(c) \/ RobotFailure(c)

RobotSpec == RobotInit /\ [][RobotNext]_robotVars
-----------------------------------------------------------------------------
RobotTypeOK ==
  /\ \A r \in robots : r.name \in RobotNames /\ r.token \in 1..lastToken
  /\ \A ns \in SecretNamespaces : pullSecret[ns] \in 0..lastToken
  /\ robotTrouble \subseteq {"failed", "overlap", "shared"}

\* When no call is under way, the secret of a namespace, once written, holds the
\* token of a robot that exists, so that its pods can pull: unless a call has
\* failed between the deletion of the old robot and the secret, two calls for
\* one robot or one namespace have overlapped, or a call has replaced the robot
\* of another namespace.
PullSecretWorks ==
  robotTrouble = {} /\ (\A c \in RobotCalls : ~RobotBusy(c)) =>
    \A ns \in SecretNamespaces : pullSecret[ns] # 0 =>
      \E r \in robots : r.token = pullSecret[ns]
=============================================================================
