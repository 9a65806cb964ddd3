----------------------------- MODULE MCPlatform -----------------------------
(* Model checking of the parts of the platform below the projects.  They    *)
(* share no state: one of them, the focus, is drawn at the beginning and    *)
(* moves, the others stay as they are at the start.                         *)
EXTENDS GitOpsFiles, ClusterObjects, NodeDrain, ClusterHealth, DashboardCache, ImageTags,
        PullRobots, TLC

VARIABLES
  focus,
  sample    \* what the manager lists, for the functions of ClusterHealth

platformVars ==
  <<gitVars, clusterVars, drainVars, dashVars, tagVars, robotVars, focus, sample>>

\* Two tags of one image, and another image.
MCImages == {<<"a", 1>>, <<"a", 2>>, <<"b", 1>>}
MCFirstImage == <<"a", 1>>
MCShapes == {{}, {"pvc"}}

\* Two projects share a namespace; the name of one robot ends with another's; a
\* managed BasaltPass has the name of a project.
MCOwners == {"web", "mail", "beancs-web", "managed web"}
MCNamespaceOf ==
  [p \in MCOwners |-> CASE p = "beancs-web" -> "ns2" [] p = "managed web" -> "bp-web" [] OTHER -> "ns1"]
MCRobotNameOf == [p \in MCOwners |-> <<"beancs", IF p = "managed web" THEN "web" ELSE p>>]
MCEndsWith == {<<<<"beancs", "beancs-web">>, <<"beancs", "web">>>>}

\* Calls of GitOpsService are interchangeable.
Symmetry == Permutations(Writers)

\* The policy, the role and the binding of a deleted namespace go at any moment,
\* the rest one after the other.
Rest ==
  <<"deployment", "service", "deny", "secret", "quota", "limits", "claim", "ingress", "issuer">>
MCRemovedFirst == {<<Rest[i], Rest[i + 1]>> : i \in 1..8}

AnyDrainStart ==
  [p \in Pods |-> [kind |-> "replica", emptyDir |-> FALSE, place |-> "none"]]
AnyListing ==
  [node |-> [n \in HealthNodes |-> [ready |-> "True", trouble |-> FALSE]],
   pods |-> <<>>, warnings |-> 0, metrics |-> TRUE]

\* A component that is not in focus has one initial state.
PlatformInit ==
  /\ focus \in {"git", "cluster", "drain", "health", "dashboard", "tags", "robots"}
  /\ GitInit /\ (focus # "git" => project.shape = {} /\ ~Exists("overlay"))
  /\ ClusterInit /\ (focus # "cluster" => ~There("namespace"))
  /\ IF focus = "drain" THEN DrainInit
     ELSE /\ cordoned = FALSE /\ errors = 0 /\ pod = AnyDrainStart
          /\ drain = [d \in Drains |-> IdleDrain([force |-> TRUE, ignoreDaemonSets |-> TRUE,
                                                   deleteEmptyDirData |-> TRUE])]
  /\ IF focus = "health" THEN sample \in Listings ELSE sample = AnyListing
  /\ DashInit
  /\ TagInit /\ (focus # "tags" => remote = {} /\ ~private /\ readable)
  /\ RobotInit

PlatformNext ==
  /\ \/ focus = "git" /\ GitNext
        /\ UNCHANGED <<clusterVars, drainVars, dashVars, tagVars, robotVars>>
     \/ focus = "cluster" /\ ClusterNext
        /\ UNCHANGED <<gitVars, drainVars, dashVars, tagVars, robotVars>>
     \/ focus = "drain" /\ DrainNext
        /\ UNCHANGED <<gitVars, clusterVars, dashVars, tagVars, robotVars>>
     \/ focus = "dashboard" /\ DashNext
        /\ UNCHANGED <<gitVars, clusterVars, drainVars, tagVars, robotVars>>
     \/ focus = "tags" /\ TagNext
        /\ UNCHANGED <<gitVars, clusterVars, drainVars, dashVars, robotVars>>
     \/ focus = "robots" /\ RobotNext
        /\ UNCHANGED <<gitVars, clusterVars, drainVars, dashVars, tagVars>>
  /\ UNCHANGED <<focus, sample>>

PlatformSpec == PlatformInit /\ [][PlatformNext]_platformVars

\* Every variable of these components has its type.
PlatformTypeOK ==
  GitTypeOK /\ ClusterTypeOK /\ DrainTypeOK /\ DashTypeOK /\ TagTypeOK /\ RobotTypeOK

\* The page of a node and the dashboard agree on whatever is listed.
HealthAgrees == HealthViewsAgree(sample)
=============================================================================
