--------------------------- MODULE ClusterObjects ---------------------------
(***************************************************************************)
(* The operations of the Kubernetes manager on single objects: nodes,      *)
(* namespaces, deployments, services, network policies, secrets, roles.    *)
(* Each reads the object and writes it back whole under the resource       *)
(* version it has read, or creates it first and falls back to that.  Some  *)
(* operations write several objects, one after the other: the policies of  *)
(* a namespace, a permission with its role and its binding, an issuer of   *)
(* certificates with its secret, the access to the controller, BasaltPass. *)
(*                                                                         *)
(* An object is a record of sets of names.  A namespace that is deleted     *)
(* takes no new objects; the cluster removes those it has, one by one and  *)
(* in any order, and then the namespace (external to the program).         *)
(***************************************************************************)
EXTENDS Integers, Sequences, FiniteSets

CONSTANTS
  Calls,        \* calls of the manager's operations
  Names,        \* labels, images, ports, rules, keys, subjects
  RemovedFirst, \* bound on the order in which the cluster removes the objects of a
                \* namespace: pairs of a kind and one that is removed later
  MaxFailures   \* bound on requests to the cluster that fail

ASSUME ClusterAssumption == MaxFailures \in Nat

VARIABLES
  object,     \* the cluster: the value and the resource version of every object
  version,    \* the last resource version that the cluster has given
  call,       \* calls of operations
  failures,
  granted,    \* history: the rules that successful calls of
              \* ApplyNetworkPoliciesForPorts have asked for
  overlapped  \* history: two changes of the permission have overlapped, or the
              \* cluster has removed the role under one of them

clusterVars == <<object, version, call, failures, granted, overlapped>>

-----------------------------------------------------------------------------
(* Objects and writes.                                                     *)

Fields ==
  [node       |-> {"labels", "taints", "cordoned"},
   namespace  |-> {"labels", "deleted"},
   deployment |-> {"image", "replicas", "restarted"},
   service    |-> {"ports", "type", "notes"},
   deny       |-> {"rules"},
   allow      |-> {"rules"},
   secret     |-> {"data"},
   quota      |-> {"hard"},
   limits     |-> {"items"},
   claim      |-> {"request"},
   ingress    |-> {"spec", "annotations"},
   issuer     |-> {"solvers"},
   application |-> {"source"},
   repository |-> {"data"},
   traefik    |-> {"hostNetwork", "args"},
   role       |-> {"rules"},
   binding    |-> {"subjects"}]

ObjectKeys == DOMAIN Fields
InNamespace ==
  {"deployment", "service", "deny", "allow", "secret", "quota", "limits", "claim", "ingress",
   "issuer", "role", "binding"}
Gone == [gone |-> {}]
Empty(o) == [f \in Fields[o] |-> {}]

\* A write: its operation, its object, the names it brings and, for labels,
\* the names it gives a blank value.
Change(op, key, names) == [op |-> op, key |-> key, names |-> names, blank |-> {}]
Delete(key) == Change("Delete", key, {})
Key(w) == w.key

ApplyNetworkPoliciesForPorts(names) ==
  <<Change("upsertNetworkPolicy", "deny", {}), Change("upsertNetworkPolicy", "allow", names)>>

UpsertNamespacePermission(names) ==
  <<Change("upsertRole", "role", names), Change("upsertRoleBinding", "binding", names)>>

ApplyProjectCertificateIssuer(names) ==
  <<Change("UpsertSecret", "secret", names), Change("upsertCertManagerIssuer", "issuer", names)>>

ApplyControllerAccess(names) ==
  <<Change("ApplyServicePorts", "service", names), Change("applyIngress", "ingress", names)>>

ApplyBasaltPass(names) ==
  <<Change("CreateNamespace", "namespace", names), Change("UpsertSecret", "secret", names),
    Change("ApplyProjectDeployment", "deployment", names),
    Change("ApplyServicePorts", "service", names), Change("applyIngress", "ingress", names)>>

\* Variant: the role goes first.
DeletePermissionRoleFirst == <<Delete("role"), Delete("binding")>>

DeleteNamespacePermission == <<Delete("binding"), Delete("role")>>

\* What a call may ask for: a sequence of writes.
Requests ==
  UNION {
    {<<Change(x[1], x[2], {n})>> : n \in Names, x \in
       {<<"UpdateNodeTaints", "node">>, <<"CreateNamespace", "namespace">>,
        <<"ApplyProjectDeployment", "deployment">>, <<"RestartDeployment", "deployment">>,
        <<"ScaleDeployment", "deployment">>, <<"ApplyServicePorts", "service">>,
        <<"UpsertService", "service">>, <<"UpsertNetworkPolicy", "allow">>,
        <<"UpsertSecret", "secret">>, <<"UpsertResourceQuota", "quota">>,
        <<"UpsertLimitRange", "limits">>, <<"reconcilePVC", "claim">>,
        <<"applyIngress", "ingress">>, <<"UpsertIngress", "ingress">>,
        <<"ApplyArgoCDApplication", "application">>,
        <<"ApplyArgoCDRepository", "repository">>}},
    {<<Change("EnsureTraefikPodNetwork", "traefik", {})>>},
    {<<[op |-> "PatchLabels", key |-> o, names |-> {n}, blank |-> Names \ {n}]>> :
       n \in Names, o \in {"node", "namespace"}},
    {<<Change("Cordon", "node", {})>>, <<Change("Uncordon", "node", {})>>},
    {<<Delete(o)>> :
       o \in {"node", "deployment", "service", "deny", "allow", "quota", "limits",
              "ingress", "application"}},
    {<<Change("DeleteNamespace", "namespace", {})>>},
    {ApplyNetworkPoliciesForPorts({n}) : n \in Names},
    {UpsertNamespacePermission({n}) : n \in Names},
    {ApplyProjectCertificateIssuer({n}) : n \in Names},
    {ApplyControllerAccess({n}) : n \in Names},
    {ApplyBasaltPass({n}) : n \in Names},
    {DeleteNamespacePermission}}

Writes == UNION {{request[i] : i \in DOMAIN request} : request \in Requests}

\* What the cluster itself removes with a namespace.
Collections == {Delete(o) : o \in InNamespace \cup {"namespace"}}

\* Operations that create what is not there.
Creating ==
  {"CreateNamespace", "ApplyProjectDeployment", "ApplyServicePorts", "UpsertService",
   "upsertNetworkPolicy", "UpsertNetworkPolicy", "UpsertSecret", "UpsertResourceQuota",
   "upsertRole", "upsertRoleBinding", "UpsertLimitRange", "reconcilePVC", "applyIngress",
   "UpsertIngress", "upsertCertManagerIssuer", "ApplyArgoCDApplication",
   "ApplyArgoCDRepository"}
\* Those that create first, and read only what is there already.
CreateFirst ==
  {"CreateNamespace", "ApplyProjectDeployment", "ApplyServicePorts", "upsertNetworkPolicy",
   "UpsertSecret", "reconcilePVC", "applyIngress", "upsertCertManagerIssuer"}

\* Labels with a blank value are removed, the others kept.
PatchLabels(v, w) == [v EXCEPT !.labels = (@ \cup w.names) \ w.blank]
\* The cluster marks the namespace, and removes it later.
DeleteNamespace(v) == [v EXCEPT !.deleted = {"yes"}]
UpdateNodeTaints(v, w) == [v EXCEPT !.taints = w.names]
SetNodeSchedulable(v, yes) == [v EXCEPT !.cordoned = IF yes THEN {} ELSE {"yes"}]

\* The whole specification is replaced, with what RestartDeployment noted in
\* it and with the replicas of ScaleDeployment.
ApplyProjectDeployment(v, w) ==
  [image |-> w.names, replicas |-> {"project"}, restarted |-> {}]
RestartDeployment(v, w) == [v EXCEPT !.restarted = w.names]
ScaleDeployment(v, w) == [v EXCEPT !.replicas = w.names]

\* For a project: the type stays what it is.
ApplyServicePorts(v, w) == [v EXCEPT !.ports = w.names, !.notes = {"nativelb"}]
\* For an administrator: the annotations stay.
UpsertService(v, w) == [v EXCEPT !.ports = w.names, !.type = w.names]

\* Variant: the rules of the other projects of the namespace are replaced.
ReplaceRules(v, w) == [v EXCEPT !.rules = w.names]

\* mergeNetworkPolicyIngress: the policy of a namespace keeps the rules it has.
MergeRules(v, w) == [v EXCEPT !.rules = @ \cup w.names]

\* The cluster merges the keys of StringData into those of the secret.
UpsertSecret(v, w) == [v EXCEPT !.data = @ \cup w.names]

\* These replace the specification, and leave what else the object has.
CreateNamespace(v, w) == [v EXCEPT !.labels = w.names]
UpsertNetworkPolicy(v, w) == [v EXCEPT !.rules = w.names]
UpsertResourceQuota(v, w) == [v EXCEPT !.hard = w.names]
UpsertLimitRange(v, w) == [v EXCEPT !.items = w.names]
upsertRole(v, w) == [v EXCEPT !.rules = w.names]
upsertRoleBinding(v, w) == [v EXCEPT !.subjects = w.names]
reconcilePVC(v, w) == [v EXCEPT !.request = w.names]
applyIngress(v, w) == [spec |-> w.names, annotations |-> w.names]
UpsertIngress(v, w) == [spec |-> w.names, annotations |-> w.names]
upsertCertManagerIssuer(v, w) == [v EXCEPT !.solvers = w.names]
ApplyArgoCDApplication(v, w) == [v EXCEPT !.source = w.names]
\* Unlike UpsertSecret it keeps no key that it does not bring.
ApplyArgoCDRepository(v, w) == [v EXCEPT !.data = w.names]
EnsureTraefikPodNetwork(v, w) ==
  [v EXCEPT !.hostNetwork = {}, !.args = @ \cup {"nativelb"}]

Written(w, v) ==
  CASE w.op = "PatchLabels"            -> PatchLabels(v, w)
    [] w.op = "CreateNamespace"        -> CreateNamespace(v, w)
    [] w.op = "DeleteNamespace"        -> DeleteNamespace(v)
    [] w.op = "UpdateNodeTaints"       -> UpdateNodeTaints(v, w)
    [] w.op = "Cordon"                 -> SetNodeSchedulable(v, FALSE)
    [] w.op = "Uncordon"               -> SetNodeSchedulable(v, TRUE)
    [] w.op = "ApplyProjectDeployment" -> ApplyProjectDeployment(v, w)
    [] w.op = "RestartDeployment"      -> RestartDeployment(v, w)
    [] w.op = "ScaleDeployment"        -> ScaleDeployment(v, w)
    [] w.op = "ApplyServicePorts"      -> ApplyServicePorts(v, w)
    [] w.op = "UpsertService"          -> UpsertService(v, w)
    [] w.op = "upsertNetworkPolicy"    -> MergeRules(v, w)
    [] w.op = "UpsertSecret"           -> UpsertSecret(v, w)
    [] w.op = "UpsertNetworkPolicy"    -> UpsertNetworkPolicy(v, w)
    [] w.op = "UpsertResourceQuota"    -> UpsertResourceQuota(v, w)
    [] w.op = "UpsertLimitRange"       -> UpsertLimitRange(v, w)
    [] w.op = "upsertRole"             -> upsertRole(v, w)
    [] w.op = "upsertRoleBinding"      -> upsertRoleBinding(v, w)
    [] w.op = "reconcilePVC"           -> reconcilePVC(v, w)
    [] w.op = "applyIngress"           -> applyIngress(v, w)
    [] w.op = "UpsertIngress"          -> UpsertIngress(v, w)
    [] w.op = "upsertCertManagerIssuer"-> upsertCertManagerIssuer(v, w)
    [] w.op = "ApplyArgoCDApplication" -> ApplyArgoCDApplication(v, w)
    [] w.op = "ApplyArgoCDRepository"  -> ApplyArgoCDRepository(v, w)
    [] w.op = "EnsureTraefikPodNetwork"-> EnsureTraefikPodNetwork(v, w)
    [] OTHER                           -> Gone

\* What a write makes of an object that may not be there.
Applied(w, v) ==
  IF w.op = "Delete" THEN Gone
  ELSE IF v = Gone THEN IF w.op \in Creating THEN Written(w, Empty(w.key)) ELSE Gone
  ELSE IF w.op = "CreateNamespace" THEN v ELSE Written(w, v)

-----------------------------------------------------------------------------
(* Calls.                                                                  *)

FirstPc(w) ==
  IF w.op \in {"Delete", "DeleteNamespace"} THEN "delete"
  ELSE IF w.op \in CreateFirst THEN "create" ELSE "get"

Idle == [pc |-> "idle", todo |-> <<>>, seen |-> 0, base |-> Gone]

\* The cluster at the beginning: new, with an empty namespace, or with every
\* object.
Starts ==
  {[o \in ObjectKeys |-> Gone],
   [o \in ObjectKeys |-> IF o = "namespace" THEN Empty(o) ELSE Gone],
   [o \in ObjectKeys |-> Empty(o)]}

ClusterInit ==
  /\ \E start \in Starts : object = [o \in ObjectKeys |-> [value |-> start[o], rv |-> 0]]
  /\ version = 0
  /\ call = [c \in Calls |-> Idle]
  /\ failures = 0 /\ granted = {} /\ overlapped = FALSE

Working(c) == call[c].pc \notin {"idle", "done", "failed"}
Now(c) == Head(call[c].todo)
There(o) == object[o].value # Gone
Permission(o) == o \in {"role", "binding"}
Terminating == There("namespace") /\ object["namespace"].value.deleted # {}
Accepts(o) == o \in InNamespace => There("namespace") /\ ~Terminating

\* A write that changes nothing leaves the resource version as it is.
Store(o, value) ==
  IF object[o].value = value THEN UNCHANGED <<object, version>>
  ELSE /\ version' = version + 1
       /\ object' = [object EXCEPT ![o] = [value |-> value, rv |-> version + 1]]

Erase(o) == object' = [object EXCEPT ![o] = [value |-> Gone, rv |-> 0]] /\ UNCHANGED version

Advance(c) ==
  LET rest == Tail(call[c].todo) IN
  /\ call' = [call EXCEPT ![c] =
       [pc |-> IF rest = <<>> THEN "done" ELSE FirstPc(Head(rest)),
        todo |-> rest, seen |-> 0, base |-> Gone]]
  /\ granted' = IF Now(c).key # "allow" THEN granted
                ELSE IF Now(c).op = "upsertNetworkPolicy" THEN granted \cup Now(c).names
                ELSE {}
  /\ UNCHANGED <<failures, overlapped>>

GoTo(c, pc) ==
  /\ call' = [call EXCEPT ![c].pc = pc]
  /\ UNCHANGED <<object, version, failures, granted, overlapped>>

\* A call that ends with an error, with or without what it has written.
Stop(c) ==
  call' = [call EXCEPT ![c] = [Idle EXCEPT !.pc = "failed"]]

Refused(c) == Stop(c) /\ UNCHANGED <<object, version, failures, granted, overlapped>>

Begin(c) ==
  /\ call[c].pc = "idle"
  /\ \E request \in Requests :
       /\ call' = [call EXCEPT ![c] = [Idle EXCEPT
                     !.pc = FirstPc(Head(request)), !.todo = request]]
       /\ overlapped' = (overlapped \/ (Permission(Head(request).key) /\
            \E d \in Calls : Working(d) /\ Permission(Now(d).key)))
  /\ UNCHANGED <<object, version, failures, granted>>

CreateEffect(c) ==
  /\ ~There(Now(c).key) /\ Accepts(Now(c).key)
  /\ Store(Now(c).key, Written(Now(c), Empty(Now(c).key)))

\* What is there already is read, or left as it is, or a refusal.
Create(c) ==
  /\ call[c].pc = "create"
  /\ \/ ~Accepts(Now(c).key) /\ Refused(c)
     \/ CreateEffect(c) /\ Advance(c)
     \/ /\ There(Now(c).key) /\ Now(c).op = "CreateNamespace"
        /\ Advance(c) /\ UNCHANGED <<object, version>>
     \/ /\ There(Now(c).key) /\ Accepts(Now(c).key)
        /\ \/ Now(c).op \in CreateFirst \ {"CreateNamespace"} /\ GoTo(c, "get")
           \/ Now(c).op \notin CreateFirst /\ Refused(c)

Get(c) ==
  /\ call[c].pc = "get"
  /\ \/ /\ There(Now(c).key)
        /\ call' = [call EXCEPT ![c].pc = "put", ![c].seen = object[Now(c).key].rv,
                                ![c].base = object[Now(c).key].value]
        /\ UNCHANGED <<object, version, failures, granted, overlapped>>
     \/ ~There(Now(c).key) /\ Now(c).op \in Creating \ CreateFirst /\ GoTo(c, "create")
     \/ ~There(Now(c).key) /\ Now(c).op \notin Creating \ CreateFirst /\ Refused(c)

\* Variant: the resource version is not sent.
PutAnyVersion(c) == There(Now(c).key) /\ Store(Now(c).key, Written(Now(c), call[c].base))

\* The cluster takes an update only under the version it is at.
PutEffect(c) ==
  /\ There(Now(c).key) /\ object[Now(c).key].rv = call[c].seen
  /\ Store(Now(c).key, Written(Now(c), call[c].base))

Put(c) ==
  /\ call[c].pc = "put"
  /\ \/ PutEffect(c) /\ Advance(c)
     \/ (~There(Now(c).key) \/ object[Now(c).key].rv # call[c].seen) /\ Refused(c)

\* What is not there counts as deleted.
DeleteEffect(c) ==
  IF Now(c).op = "Delete" THEN Erase(Now(c).key)
  ELSE Store(Now(c).key, Applied(Now(c), object[Now(c).key].value))
Remove(c) == call[c].pc = "delete" /\ DeleteEffect(c) /\ Advance(c)

\* The cluster empties a deleted namespace, and removes it when it is empty.
Collect(o) ==
  /\ Terminating /\ There(o)
  /\ \A p \in InNamespace : There(p) => o # "namespace" /\ <<p, o>> \notin RemovedFirst
  /\ Erase(o)
  /\ granted' = IF o = "allow" THEN {} ELSE granted
  /\ overlapped' = (overlapped \/
       (o = "role" /\ \E c \in Calls : Working(c) /\ Permission(Now(c).key)))
  /\ UNCHANGED <<call, failures>>

\* A request without an answer, or with an error, may have been carried out.
Failure(c) ==
  /\ failures < MaxFailures /\ failures' = failures + 1
  /\ Working(c) /\ Stop(c)
  /\ \/ UNCHANGED <<object, version, granted>>
     \/ /\ \/ call[c].pc = "create" /\ CreateEffect(c)
           \/ call[c].pc = "put" /\ PutEffect(c)
           \/ call[c].pc = "delete" /\ DeleteEffect(c)
        /\ granted' = IF Now(c).key = "allow" /\ Now(c).op # "upsertNetworkPolicy"
                      THEN {} ELSE granted
  /\ UNCHANGED overlapped

ClusterNext ==
  \/ \E c \in Calls : Begin(c) \/ Create(c) \/ Get(c) \/ Put(c) \/ Remove(c) \/ Failure(c)
  \/ \E o \in InNamespace \cup {"namespace"} : Collect(o)

ClusterSpec == ClusterInit /\ [][ClusterNext]_clusterVars
-----------------------------------------------------------------------------
(* Properties.                                                             *)


ClusterTypeOK ==
  /\ \A o \in ObjectKeys : object[o].rv \in 0..version
       /\ (There(o) => DOMAIN object[o].value = Fields[o])
  /\ \A c \in Calls :
       /\ call[c].pc \in {"idle", "create", "get", "put", "delete", "done", "failed"}
       /\ Working(c) <=> call[c].todo # <<>>
       /\ call[c].seen \in 0..version
  /\ failures \in 0..MaxFailures /\ granted \subseteq Names /\ overlapped \in BOOLEAN

\* Whatever the operations of other calls do between its requests, a call that
\* writes an object changes it as it is at that moment: nothing that another
\* call has written is lost but by the meaning of the operation.
Atomic ==
  INSTANCE AtomicObjects WITH value <- [o \in ObjectKeys |-> object[o].value],
                              Writes <- Writes \cup Collections

ObjectsAreAtomic == Atomic!Spec

\* The rules that the deployments of a namespace's projects have asked for stay
\* in its policy, until an administrator writes or deletes that policy itself, or
\* the policy goes with its namespace.
RulesStay == granted # {} => There("allow") /\ granted \subseteq object["allow"].value.rules

\* A permission names a role that exists, at every moment and after every
\* failure, unless two changes of the same permission overlap, or the namespace
\* is being deleted.
BindingHasRole == ~overlapped /\ ~Terminating => (There("binding") => There("role"))
=============================================================================
