--------------------------- MODULE ClusterHealth ---------------------------
(***************************************************************************)
(* What the Kubernetes manager concludes from the nodes and pods it lists: *)
(* the health of one node for its page, and that of the cluster for the    *)
(* dashboard.  Pure functions of what is listed.                           *)
(***************************************************************************)
EXTENDS Integers, Sequences, FiniteSets

CONSTANTS
  HealthNodes,   \* names of nodes
  RestartCounts  \* restarts of a container, on both sides of the threshold

\* A pod that is not scheduled names no node; one may name a node that has been
\* removed, or was not listed yet.
NoNode == ""
OtherNode == "removed"

\* The manager runs on a node of the cluster that it lists.
ASSUME HealthAssumption ==
  HealthNodes # {} /\ HealthNodes \cap {NoNode, OtherNode} = {} /\ RestartCounts \subseteq Nat

\* A condition that is not there counts as absent; trouble is any other
\* condition that is true.
NodeStates == [ready : {"True", "False", "absent"}, trouble : BOOLEAN]

\* The kubelet calls no container ready that does not run.
ContainerStatuses ==
  {s \in [state : {"running", "creating", "waiting", "failed", "completed"},
          ready : BOOLEAN, restarts : RestartCounts] : s.ready => s.state = "running"}

Phases == {"Pending", "Running", "Succeeded", "Failed", "Unknown"}

\* statuses is shorter than the number of containers of the specification
\* while the kubelet has not reported all of them, and empty before a pod is
\* scheduled.
PodStates ==
  {p \in [node : HealthNodes \cup {NoNode, OtherNode}, phase : Phases, total : 1..2,
          statuses : UNION {[1..n -> ContainerStatuses] : n \in 0..2}] :
     /\ Len(p.statuses) <= p.total
     /\ p.node = NoNode => p.phase \in {"Pending", "Failed"} /\ p.statuses = <<>>}

Listings ==
  [node : [HealthNodes -> NodeStates], pods : {<<>>} \cup {<<p>> : p \in PodStates},
   warnings : 0..1, metrics : BOOLEAN]

-----------------------------------------------------------------------------
(* NodeDetail and NodeHealth.                                              *)

Statuses(p) == {p.statuses[i] : i \in DOMAIN p.statuses}
CountReady(p) == Cardinality({i \in DOMAIN p.statuses : p.statuses[i].ready})
Restarts(p) ==
  LET Sum[n \in 0..Len(p.statuses)] ==
        IF n = 0 THEN 0 ELSE Sum[n - 1] + p.statuses[n].restarts
  IN Sum[Len(p.statuses)]

AbnormalOnNode(p) ==
  p.phase # "Running" \/ CountReady(p) < p.total \/ Restarts(p) > 5

\* A condition other than Ready is a warning when true.
NodeConditionsHealthy(n) == n.ready # "False" /\ ~n.trouble

NodeHealth(listing, name) ==
  LET abnormal ==
        {i \in DOMAIN listing.pods : listing.pods[i].node = name /\ AbnormalOnNode(listing.pods[i])}
      healthy == NodeConditionsHealthy(listing.node[name]) /\ abnormal = {} IN
  [healthy  |-> healthy,
   status   |-> IF healthy THEN "Healthy" ELSE "Degraded",
   \* Missing metrics add a warning and leave the node healthy.
   warnings |-> (~healthy \/ ~listing.metrics)]

-----------------------------------------------------------------------------
(* ClusterDashboard.                                                       *)

nodeReadyStatus(n) ==
  CASE n.ready = "True" -> "Ready" [] n.ready = "False" -> "NotReady" [] OTHER -> "Unknown"

\* Variant: a lower threshold for restarts than on the page of a node.
PodAbnormalSoon(p) ==
  \/ p.phase \in {"Failed", "Unknown", "Pending"}
  \/ \E s \in Statuses(p) : s.state \in {"waiting", "failed"} \/ s.restarts > 2

podAbnormal(p) ==
  \/ p.phase \in {"Failed", "Unknown", "Pending"}
  \/ \E s \in Statuses(p) : s.state \in {"waiting", "failed"} \/ s.restarts > 5

Dashboard(listing) ==
  LET nodes == DOMAIN listing.node
      ready == {n \in nodes : nodeReadyStatus(listing.node[n]) = "Ready"}
      abnormal == {i \in DOMAIN listing.pods : podAbnormal(listing.pods[i])}
      alerts == Cardinality(abnormal) + listing.warnings IN
  [healthy |-> ready = nodes /\ abnormal = {} /\ ready # {},
   status  |-> IF ready = {} THEN "NotReady"
               ELSE IF ready # nodes \/ alerts > 0 THEN "Degraded" ELSE "Healthy",
   running |-> Cardinality({i \in DOMAIN listing.pods : listing.pods[i].phase = "Running"})]

-----------------------------------------------------------------------------
\* A node that has not reported whether it is ready, and a pod that no page of a
\* node lists, are the business of the dashboard alone.
OnDashboardOnly(listing) ==
  \/ \E n \in HealthNodes : listing.node[n].ready = "absent"
  \/ \E i \in DOMAIN listing.pods :
       listing.pods[i].node \notin HealthNodes /\ podAbnormal(listing.pods[i])

\* The two views are computed apart, by different rules over counts, phases
\* and container states.  When the page of every node calls it healthy, the
\* dashboard calls the cluster healthy exactly if there is nothing that only
\* the dashboard looks at.
HealthViewsAgree(listing) ==
  (\A n \in HealthNodes : NodeHealth(listing, n).healthy)
    => (Dashboard(listing).healthy <=> ~OnDashboardOnly(listing))
=============================================================================
