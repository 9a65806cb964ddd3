# Formal verification of the BeanCS controller

TLA+ modules for the core of `beancs-controller`, configurations that check them
with TLC on small instances, and theorems about them checked by TLAPS. Paths
below are relative to `src/beancs-controller/internal/` unless they start with `src/`.

    tlc -config MCPipeline_build.cfg MCDeploymentPipeline     # one run; see "Runs"
    tlapm DeploymentPipelineProofs.tla                        # about 4 minutes
    tlapm ProjectSagaProofs.tla                               # about 7 minutes
    tlapm PlatformProofs.tla                                  # about 3 minutes

## The system

BeanCS is a self-hosted platform: an API controller in Go (Fiber, GORM on
PostgreSQL) that creates projects in a Kubernetes cluster, builds their images
with GitHub Actions and rolls them out, by itself or through a GitOps repository
and Argo CD. Users reach it through a web console and the `beanctl` command line.

| Component | State it keeps | Operations | How it meets the others |
|---|---|---|---|
| Deployment pipeline (`service/deployment_service.go`, `github_build_service.go`, `process_service.go`) | tables `deployments`, `processes`, `process_jobs`; goroutines in memory | create, rollback, build start, process worker, reconciler ticker, build watcher, GitHub and Argo CD callbacks | calls GitHub, the cluster, GitOps; five kinds of goroutine write the same rows without a lock |
| Project lifecycle (`service/project_service.go`) | table `projects`, `dns_records`; an undo list in memory | create, update, delete | quota, BasaltPass, cluster, Cloudflare, GitOps, GitHub; starts builds |
| Quota (`service/quota_service.go`, `handler/admin_handler.go`) | one row of `resource_quotas` per team | reserve, release, set limits | called by the project lifecycle; row lock |
| GitOps repository (`service/gitops_service.go`) | files of a GitHub repository | commit manifests, change image tag, delete manifests | contents API with optimistic `sha`, conflict retries |
| Applications and specifications (`service/application_*.go`, `application/spec`) | tables `applications`, `application_components` | parse, validate, plan, apply, delete | creates several projects and dependencies |
| Dependencies (`service/dependency_*.go`) | tables `managed_dependencies`, `dependency_credentials` | create, attach a shared one, create a credential, deploy alone | jobs in the cluster set passwords, variables of projects |
| Credentials and sharing (`service/credential_service.go`) | encrypted tokens, roles of users | create, update, share, revoke, delete; managed deployments of BasaltPass | everyone who calls outside |
| API keys and authentication (`service/api_key_service.go`, `middleware`) | `api_keys`, cached introspections | issue, verify, revoke, role checks | every request |
| BasaltPass client (`basaltpass`) | registry of clients | register and delete applications, introspection | project lifecycle, authentication |
| Container registry (`service/container_registry_service.go`, `beancs_registry.go`, `image_copy.go`) | tables `container_registries`, `container_images` | list tags, replace a pull robot, copy an image | Harbor, cluster secrets |
| Kubernetes manager (`k8s`) | none of its own | create-or-update of objects, runtime administration | called by all |
| Middleware, start-up, migration, web console, `beanctl` | audit rows; tokens of a user | - | - |

What is hard here: rows written by several goroutines without a lock; reads whose
result is used some statements later; sagas over five external systems with an
undo list that lives in memory only; callbacks that arrive late, twice or never;
goroutines that nothing restarts after the controller does; optimistic retries.

What makes each part correct:

* pipeline: a deployment is `running` only if somebody rolled it out; only images
  that were built reach the cluster; `building` does not last for ever; a process
  runs its jobs in order and its verdict is what they say; a building process and
  a callback's rollout do not work on one deployment together;
* project lifecycle and quota: a reservation never passes a limit, is kept exactly
  as long as what it was made for, and comes back once; a creation that fails
  leaves nothing; one that succeeds keeps what it has; a deletion leaves nothing;
* GitOps: a commit is never lost to a concurrent one and a tag change touches only
  the tag;
* applications: what is applied is what was planned, or says that it is not; what is
  deleted is gone; dependencies: a credential that is ready can be used;
* credentials, keys: nobody uses what was revoked, expired or not shared;
* BasaltPass client, registry: a cached client is never used after it was
  replaced; an image can be pulled by everything deployed from it.

None of these holds of the code without exception. A property below states the exact
conditions, and "What the runs show" lists them.

## Modules

| Module | What it is |
|---|---|
| `ProcessRecords` | abstract specification: what the processes tables promise a reader of the API |
| `DeploymentPipeline` | the pipeline of one project, statement by statement; implements `ProcessRecords` |
| `MCDeploymentPipeline` | its model-checking instance (symmetry of callbacks) |
| `DeploymentPipelineProofs` | theorems about it: types, references, exclusion |
| `PipelineRecordsProofs` | theorems about it: order of jobs, verdicts, built images, the refinement of `ProcessRecords` |
| `Quota` | abstract specification: reservations in one indivisible step |
| `ProjectLifecycle` | creations, updates and deletions of the projects of one team with the quota row; implements `Quota` |
| `MCProjectLifecycle` | its model-checking instance (costs, limits, symmetry) |
| `ProjectLifecycleProofs` | theorems about it: types, the refinement of `Quota` |
| `ProjectSagaProofs` | theorems about it: what creations, undos and deletions keep and leave |
| `GitOpsFiles` | the directory of one name in the GitOps repository, request by request |
| `AtomicObjects` | abstract specification: writes that take effect at one moment |
| `ClusterObjects` | the operations of the Kubernetes manager on objects, request by request; implements `AtomicObjects` |
| `ClusterObjectsProofs` | theorems about it |
| `NodeDrain` | `DrainNode` for one node, with scheduler and other administrators |
| `ClusterHealth` | the judgements of a node's page and of the dashboard, as functions of what is listed |
| `DashboardCache` | the cache, the mutex and the refresh in front of the dashboard |
| `ImageTags` | rows of the container registry and the paged listing of tags |
| `PullRobots` | Harbor's pull robots and the pull secrets made from them |
| `MCPlatform` | model checking of the eight modules before |
| `PlatformProofs` | theorems about the directory, drains, health, the dashboard, tags, robots, and the composition |
| `Credentials` | one credential: row, roles, references of projects, cached client |
| `RequestAuth` | authentication of requests by token (cached) or API key |
| `ManagedBasaltPass` | deployments of BasaltPass that the controller manages |
| `MCAccess` | model checking of the three parts before |
| `AccessProofs` | theorems about them and their composition |
| `Applications` | validation, planning, creation and deletion of an application from its document |
| `DependencyCredentials` | credentials of a dependency and the jobs that set their passwords |
| `MCApplications` | model checking of the two parts before |
| `ApplicationsProofs` | theorems about them and their composition |

### DeploymentPipeline

An action is one database statement, or one external call with the statements
that belong to it. State and code:

* `dep`, `proc`, `job` are the tables `deployments`, `processes`, `process_jobs`;
  `projImage` is `projects.image_reference`, `gitImage` the image in the overlay of
  the GitOps repository, `clusterImage` the image of the Kubernetes Deployment,
  `argoApp` whether there is an Argo CD application;
* `worker[p]` is the goroutine of `runDeploymentProcess`: its program counter, the
  job, the image and the run it found (fields of `processRun`);
* `recon[0]` is the ticker of `StartReconciler`, `recon[d]` the `watchBuild` of
  deployment `d`; `todo` is what `ReconcileBuilding` still has to look at;
* `hook[h]` are requests in `HandleGitHubWebhook`, each between two of its
  statements; `builder` is `Start` between the dispatch and its row; `creating` is
  `DeploymentService.Create` between the deployment and its process;
* `requests`, `run` are GitHub: accepted dispatches that have not started, runs,
  and whether a callback was sent, lost or taken. They are external.

`Boot` to `Connectivity` are the jobs of `processRun.run` in order, `ReconLoad` to
`ReconFail` are `reconcileDeployment` and `waitForRun`, `HookMatch` to `HookStart`
the callback up to `shouldStartWebhookRollout` and the rollout process, `Crash`
forgets every goroutine and keeps every row. An image is its tag: an odd number
for a tag made from the clock, an even one for the tag of a commit, so that two
tags of the same second are equal, as in `buildImageReference`. With `DatabaseErrors` the
database may refuse what a worker needs: without its own row it returns and the process
stays `running` (`service/process_service.go:124`), without those of the deployment or the
project, or when `startJob` or `finishJob` fails, the process fails with no job that did
(`:128-136`, `:161-166`). With `NamedCommits` a callback also matches a building row by its
commit (`service/deployment_service.go:199`). Two things are left out: an error of `hasJob`
(`service/process_service.go:237`), with which a process would leave its build out, and callbacks
that name no image, which end with the row of their deployment. One action stands for
several statements where a job ends and the next one starts, and where a call outside is
followed by rows; the rows of `deployments` that `argocd` and `rollout` write after such a call, and
the end of their jobs, are actions of their own (`ArgoMark`, `RolloutMark`, `FinishRollout`).

### ProjectLifecycle

* `limit`, `used` are the row of `resource_quotas`, `lock` is who holds it by
  `SELECT ... FOR UPDATE`; `project` is the table `projects` with the deployment and
  DNS rows that come and go with a project;
* `ext` is everything outside of the database, by kind: applications of BasaltPass
  and DNS records by their own identifier, namespaces by name, cluster resources by
  project and namespace, manifests, workflows and Argo CD applications by project
  name. That several projects may mean the same thing by a name is what makes
  the model interesting;
* `create[c]` is a call of `CreateProject`: what it was asked for, the next step, the
  undo list `rollbacks`, and what `Reserve` read; `delete[d]` is a call of
  `DeleteProject`: the row its guard loaded and whether an error was collected;
  `toggle` is `UpdateProject` between its row and the workflow it writes.

`Begin` is `ensureProjectNameAvailable`, `ReserveLock` and `ReserveCommit` the
transaction of `Reserve`, `Make` one external step with its success, its failure
and a failure after it had its effect, `InsertProject` and `InsertDeployment` the
rows, `Undo` one entry of the rollback, whose error nobody looks at. `DeleteLoad` is
the route guard, `DeleteCleanup` one clean-up with success, collected error or, for
DNS records and manifests, silence; `DeleteCommit` is the last transaction.

Steps of one kind that follow each other without a decision (secrets, policies,
service, issuer) are one step `cluster`. The name of a preset, a namespace, a
project is a member of a small set. A database statement has its effect or fails;
it never does both.

`Held` is the amount that all creations that hold a reservation keep together; its
parts are pairs of a creation and a number, so that a sum over creations is the
number of elements of a set, about which the theorems on finite sets can speak.

`mishaps` is a history variable: the kinds of accident that have happened so far.
A property that the code only gives under a condition names that condition, so
that its exceptions say exactly where the code stops protecting:

| Kind | What happened | Where |
|---|---|---|
| `lost` | a call failed after it had its effect; no undo is registered for it | `service/project_service.go:432` |
| `undo` | an undo failed; the error is dropped | `:307`, `:447`, `:460`, `:514` |
| `orphan` | the project row is in, the deployment row fails, and the row has no undo yet | `:553` |
| `shared` | a namespace that exists is taken, and the undo would delete it | `k8s/namespace.go:84` |
| `rival` | a name is asked for while another call is busy with it | `service/project_service.go:265` |
| `early` | a project is deleted while it is being created | `:651` |
| `twice` | two deletions of one project both give the quota back | `:717` |
| `preset` | the preset changes and the quota does not | `:612` |
| `late` | an update writes the workflow of a project whose deletion has begun, or is over | `:638` |
| `skipped` | a clean-up is given up without an error | `:661`, `service/gitops_service.go:207` |

### GitOpsFiles

`repo` maps every file of `apps/<name>/` to its content, which stands for its SHA too;
`writer[w]` is a call of `GitOpsService`. `StartCommit`, `StartTag`, `StartDependency`,
`StartDelete` read the project row as `CommitProjectManifests`, `UpdateImageTag`,
`CommitDependencyManifests` and `DeleteProjectManifests` do; the steps after them are
the single requests of `putFile` (read the SHA, write under it, retry on a conflict up
to `maxRetries`) and of the deletion, folder by folder. A manifest is abstracted to the
names in it that others refer to: the image of a container, the entries of a
kustomization. `accidents` is a history variable like `mishaps` above: what has failed,
which deletion was written into, which image was overtaken or renamed.

### ClusterObjects, AtomicObjects

`object[o]` is an object of the cluster, a record of sets of names, with its resource
version; `call[c]` what an operation has still to write, and what it read. `Create`, `Get`,
`Put`, `Remove` are the requests; which comes first and what an operation does when the
object is there or is not follows each function of `k8s/`. `Written` has one operator per
operation: some replace (`UpsertNetworkPolicy`), some merge (`upsertNetworkPolicy`,
`PatchLabels`), some keep what they do not know (`ApplyServicePorts`). Operations of
several objects are sequences of writes. A namespace that is deleted (`DeleteNamespace`)
is marked, refuses new objects (`Accepts`), and loses those it has one by one (`Collect`), which
Kubernetes does and no operation: policies, roles, bindings and secrets go with it. `AtomicObjects` says that each write takes
effect at one moment on the object as it is then.

### NodeDrain, ClusterHealth, DashboardCache

`NodeDrain`: `Cordon`, `List`, `Evict` are the loop of `DrainNode`, with the pods by name
between them placed, ended and re-created under the same name by others.
`ClusterHealth` has no state: `NodeHealth` and `Dashboard` are the functions with these
names; `Listings` enumerates what they may be given, among it pods that are not scheduled,
or on a node that is not listed, and are on no page of a node. `DashboardCache`: the first look at
cache and time without a lock, `TryLock`, the second look, the requests to the cluster
with their timeouts (the one for the version has no context), and the two writes.

### ImageTags, PullRobots

`ImageTags`: `Track` and `RefreshImage` begin a listing, `Follow` is one request of
`TagsLister` with its link to the next page, while `Push` changes the registry; `readable` is
whether `parseNextLink` understands the links of the registry, without which a listing ends with its first page.
`PullRobots`: `ListRobots` (one page), `DeleteRobot`, `CreateRobot` with its one retry on a
conflict, `WriteSecret`; two projects share a namespace and so a secret, and a robot's name
comes from that of its owner, so that a managed BasaltPass may share it with a project.
`robotTrouble` is a history variable: a call failed, two calls overlapped, or a robot was taken
over from the secret of another namespace (`shared`).

### Credentials, RequestAuth, ManagedBasaltPass

`Credentials`: contents of a row are numbered; `credCall[c]` is a handler between two of
its statements, so that the check of a role, the read of a row and its use are apart.
`client` is the entry of `ClientRegistry`. `RequestAuth`: `entry` is until when the cached
introspection is good; the end of a token, its revocation and those of a key are moments.
`ManagedBasaltPass`: `worker[d]` goes through the six jobs; a record that cannot be written is
ignored, as the callers of `finishBasaltPassProcessJob` do; `runtime[ns]` is whose objects a namespace holds.

### Applications, DependencyCredentials

`Applications`: a document is a record of dependencies and components; `Validate`,
`envNamesForDependency` and `resolveComponentSecrets` are pure operators. `creator` is the
request in `CreateMonorepo`, one dependency and one component at a time: `FindApplication` is
the read of `DependencyService.Create`, `CreateDependency` its transaction or the insertion of
`attachExisting`. `creator.known` is the map `depsByName` with both of its keys, the name of the row and that
of the document (`service/application_service.go:55-56`). `BeginAddition` and `EndAddition` are
`POST /applications/:id/dependencies`, whose read and write are as far apart; any number of
additions and of deletions (`remover[r]`) may be under way. `late` says that a row was written
for an application that was gone. In `attachExisting` the read of the application and that of the shared row
are one step.

`DependencyCredentials`: one database, in the cluster or an external one that is controlled, and
a controller with or without a client of the cluster. `InsertCredential` is `CreateCredential`,
which always goes on to the server; `StoreCredential` is the credential stored with the
dependency, which only goes there for an external database, and not if it cannot be found
again (`FindCredential`). The row is `ready` before the job that sets the password is created; pods of
the job retry on their own. `passedOver` are the credentials whose server was not asked.

### MCPlatform, MCAccess, MCApplications

The components checked by each of these share no state, and an interleaving of two of
them shows nothing that each alone does not. One of them, the `focus`, is drawn in the
initial state and moves; the others stay as they are in one initial state. The states of
a run are therefore the sum and not the product of those of its components, and every
invariant is checked on every state of its own component. Only interchangeable calls,
users and requests are symmetric. That of applications has two focuses, `documents` (many
documents, one addition and one deletion at a time) and `deletions` (one document,
all of them at once): both together would multiply.

## Runs

| Run | Question | Bounds | Properties |
|---|---|---|---|
| `build` | Do two concurrent builds of users keep the order of their jobs and earn their verdicts? | 2 deployments, 2 processes, 2 runs, no callbacks, one tag | `TypeOK`, `JobsInOrder`, `SucceededIsEarned` |
| `callbacks` | Who works on a deployment that two callbacks, a push, `Start` and a process meet on? | 1 created deployment, 2 processes, 2 runs, 2 callbacks | `ExclusionInv`, `FullExcludesRollout`, `RunningWasRolledOut` |
| `restart` | Does everything that waits end, with a restart at any moment? | 1 deployment, process, run, callback; 1 restart; a database that fails | `BuildingResolves`, `ProcessTerminates` |
| `registry` | The short plan of an image from a registry, with rollbacks and Argo CD notifications | 2 deployments, 2 processes, 1 restart, a database that fails | `SucceededIsEarned`, `KeepsRecords` |
| `manual` | What is deployed, and what do the tables tell, while the clock goes on and tags differ or not? | 2 deployments, 1 process, 2 runs, 1 callback by image or commit, clock 0..1 with skew, 1 restart, a database that fails | `DeployedImageWasBuilt`, `KeepsRecords` |
| `create` | What do failing, competing creations and a deletion leave? | 2 creations, 1 deletion, 2 names, 2 namespaces | `TypeOK`, `QuotaAccounted`, `Compensated`, `LiveProjectIsWhole` |
| `delete` | What does a deletion that succeeds leave, after failed ones, an update, a restart? | 1 creation, 2 deletions, 1 update, 1 restart | `DeletedIsClean` |
| `quota` | Is `Reserve` indivisible while limits change, reservations come back and the controller restarts? | 2 creations, 2 presets, 2 counters, 1 change of limits, 1 restart | `ReadIsFresh`, `QuotaIsAtomic` |
| `manifests` | Does `DeleteProjectManifests` remove what its comment says? | 1 creation, 1 deletion | `ManifestsRemoved`, violated |
| `platform`, git | Can Argo CD build the directory, and does it deploy the project's image, whoever wrote meanwhile? | 2 calls of any kind, 1 retry, 1 disturbance, 3 images of 2 names, with and without a volume | `DirectoryBuilds`, `DeploysTheProjectsImage` |
| `platform`, cluster | Is anything lost between a read and a write of an object? | 2 calls of any operation, 2 names, 1 failed request, cluster new, with an empty namespace or full; 9 of the objects of a deleted namespace go in a fixed order (`RemovedFirst`) | `ObjectsAreAtomic`, `RulesStay`, `BindingHasRole` |
| `platform`, drain | Is a drained node empty? | 1 drain, 2 pods of every kind, every option, 1 failed eviction | `DrainEmpties` |
| `platform`, health | Do two pages agree on the same cluster? | 1 node, up to 1 pod of up to 2 containers in every state, on the node, another or none, restarts 3 and 6 | `HealthAgrees` |
| `platform`, dashboard | How old is an answer that is not flagged? | 2 requests, cache of 3, timeouts of 1, clock to 7 | `DashboardFresh` |
| `platform`, tags | Does a paged listing see what was there throughout? | 2 calls, 3 tags, pages of 1, 3 requests, 2 pushes or removals, links that can be read or not | `TagsComplete` |
| `platform`, robots | Can the pods of a namespace pull? | 3 calls for 4 owners, 2 of them in one namespace and 2 of one name, pages of 2, 1 failure | `PullSecretWorks` |
| `access`, credentials | What does a deletion leave, which client is handed out? | 2 users, 2 calls, 3 contents, 1 project | `DeletedLeavesNothing`, `ClientIsCurrent` |
| `access`, auth | What passes after expiry and revocation? | 2 requests, memory of 2, timeout of 1, clock to 5 | `AcceptedWasValid` |
| `access`, managed | What do the records of a managed deployment tell? | 2 deployments into one namespace, 1 lost record, 1 restart | `RecordsTellTheTruth` |
| `applications`, documents | Is an active application what was planned? | 8 documents that are valid, 3 of them with a shared row that has the name of a dependency, 7 that are not; 1 addition, 1 deletion at a time, 2 failures, 1 restart | `ApplyFollowsPlan` |
| `applications`, deletions | What is left of an application that is gone? | 1 document with 2 dependencies and 2 components, 2 additions and 2 deletions at a time, 2 failures, 1 restart | `DeletedApplicationIsGone` |
| `applications`, credentials | Has the user of a ready credential its password? | 3 requests, 2 users, 2 attempts per job, 1 lost answer, a database in the cluster or outside, with and without a client | `PasswordWorks` |

The last three runs (`platform`, `access`, `applications`) check several components each,
one row per focus, and one type invariant each (`PlatformTypeOK`, `AccessTypeOK`,
`ApplicationsTypeOK`).

Two actors of each kind are enough for the races listed under "hazards" in
`PROJECT.json`: each needs one actor between two of its statements and another that
runs meanwhile. Two deployments are the least for a tag, a run or a callback to be
taken for that of the other; two names and namespaces for every way in which two
projects may share or not; two counters and two presets for one counter to bind
when the other does not. `GitHubSource` and `AutoDeploy` choose the plan of the
pipeline and the steps of a creation; between them the runs cover each value.
Limits leave room for two small projects or one large one, and are set below the
use and above. A clock to 7 with a cache of 3 lets an answer age, be refreshed and age
again; a clock to 5 lets an introspection be remembered past a revocation and past
its own end; pages of 1 with 3 tags make three requests with a change between any two;
restart counts of 3 and 6 lie on both sides of the threshold 5; two pods for a
job are the least for one that fails after it has set the password. The invalid documents break
one rule of validation each. Two deletions are the least of which one ends while the
other goes on. In a deleted namespace only the policy, the role and the binding, of which
properties speak, go in any order; `RemovedFirst` is a bound of the run, and the theorems hold for every one. `CHECK_DEADLOCK FALSE`: every model ends when its bounds are used up.
`Slack` and `BatchLimit` scale the 15 seconds of `waitForRun` and the 20 rows of
`ReconcileBuilding`.

Each property was also checked against a variant of the model with a plausible
mistake (`PROJECT.json`, "mutants"); the definitions marked `Variant` are these.

### What the runs show

Several properties name exceptions, and for some of the hazards the exception is
the hazard itself: such a property says that nothing else goes wrong, and not that the code
protects against it. These are the exceptions:

* pipeline: `misattributed`, Argo CD's notifications, restarts for `ProcessTerminates`; a process that the
  database fails may be `failed` with no failed job, or stay `running`, and `ProcessRecords` says so;
* lifecycle: the mishaps of the table above, for each property those it lists;
* git: a call that failed or raced, an image of another name (`accidents`);
* cluster: `overlapped` changes of a permission and a namespace being deleted, for bindings; a
  policy that an administrator writes or that goes with its namespace, for rules;
* health: nodes that have not reported, pods on no page; tags: links that cannot be read;
* robots: `robotTrouble`; credentials: `overlapped` and `late`; managed BasaltPass: records that
  could not be written;
* applications: `disturbed`, `late`, references that are not `Plain`; credentials of
  dependencies: `unmarked`, `passedOver`.

The exclusion of a building process and a callback's rollout holds although check
and insertion are separate statements, because a deployment is unknown to callbacks
until its process exists. `DeployedImageWasBuilt` holds until a run, or its callback, is
taken for that of another dispatch (`misattributed`). There are two ways to it.
`waitForRun` takes the newest dispatched run, whoever dispatched it. And a callback is matched by
image or by tag, whichever the row has: two callbacks of two runs may match one building
deployment, one by its image, the other, of a failed run, by a tag that is no longer
current; the first decides to start a rollout, the second writes its image, which
was never built, before that rollout reads the row. `misattributed` is a history variable
because the row alone forgets: the ticker may overwrite the run of a deployment that
another writer has taken wrongly. `RunningWasRolledOut` holds without Argo CD notifications;
`HandleArgoCDWebhook` can revive a failed row.

The quota row is safe: `Reserve` is indivisible. What it counts is exact until a
reservation is given back twice, without the row, or for another preset; a restart
in the middle of a creation leaks it. `LiveProjectIsWhole` holds until a namespace is
shared or a name asked for twice at a time: then the failure of one project can
remove what another one, live, is using.

Git: a commit and a deletion, or two commits with different images, interleave
file by file, and the directory builds in the end unless a call failed or wrote during a
deletion. `UpdateImageTag` with an image of another name changes the overlay only, whose
entry then selects no container: `DeploysTheProjectsImage` names this as `renamed`.
Cluster: every write is under the version that was read, so that operations are atomic
per object (`ObjectsAreAtomic`); two objects of one permission are not, and overlapping
changes can leave a binding without its role. The merge of policy rules is never undone
by a concurrent merge; it also never removes the rules of a project that is gone. All of
them go with their namespace.
Health: the two pages differ on a node without a `Ready` condition (healthy on
its own page, not ready on the dashboard), and on an abnormal pod that no page of a node lists, as
one that cannot be scheduled; `HealthAgrees` says that they differ on nothing else as long as the
pages of the nodes are good. Tags: a link that cannot be read ends a listing without an error.
Dashboard: an unflagged answer can be as old as the cache, the timeout and the request for
the version together, since `ServerVersion` has no context.
Robots: the old robot is deleted before the secret has the new password; a failure in
between, or two calls for one name or namespace, leave a secret without a robot. So does
a project and a managed BasaltPass with one name: `robotName` (`service/beancs_registry.go:172`)
is made from that name alone, and each call deletes the other's robot.

Credentials: `Save` in an update re-inserts a credential that was deleted after it was
read, and a client built from a row read before an update is stored after the
invalidation; both are the named exceptions of the properties. A token is accepted for as
long as its introspection is remembered after a revocation; `AcceptedWasValid` bounds that.
Managed deployments: nothing resumes one after a restart; with the management client the
tenant is created outside of the deployed runtime, whose credential is stored all the same.
Applications: a reference to a preset that no definition has, or to a dependency that
failed, is passed over and the application becomes active without its variables; `Plain`
names the references for which the plan is kept. A shared row that has the name of a
dependency of the document takes its place in `depsByName` (`service/application_service.go:55`): a
reference to the dependency then gets the presets of another definition, or is passed over (`Shadowed`).
A dependency that is added while the application is deleted, by its creation or by the user, is inserted
after its application is gone, since no foreign key is in the way (`service/dependency_service.go:106`, `:166`);
`DeletedApplicationIsGone` says that only such rows are left. A shared dependency that is not there fails
every time, without a fault of anything else, and makes the application partly failed. A dependency of another application
may be deleted under a reference to it. Rows of credentials of an application's
dependencies stay in `dependency_credentials`, which has no foreign key.
`DependencyCredentials`: the row is ready before the password is set, and a job that the
request no longer waits for may set it later. A credential that is stored with its dependency in the
cluster, with whatever password the request gave, stays ready although no user has it
(`service/dependency_service.go:170-175`, `:188`); so does one of an external database that cannot be
found again, and any without a client of the cluster.

### The disagreement found

`service/gitops_service.go:192` says that `DeleteProjectManifests` "removes the
entire apps/<project>/ directory from the gitops repo". When the directory cannot
be listed it returns no error (`:206-209`), although `listGitOpsFiles` has already
turned "not found" into an empty list (the inline comment "skip silently" admits it), and `DeleteProject` goes on to drop the row;
so it does when the credential or its token cannot be loaded
(`service/project_service.go:688-689`). The manifests stay and the "database record
retained for retry" of `:706` is gone. Run `manifests` shows a trace.

## Fairness

`restart` checks `FairSpec`. Weak fairness of each worker, of the ticker and of each
watcher is what the Go scheduler and the `time.Ticker` give a goroutine; that GitHub
ends the run a worker polls is assumed of GitHub, since `githubDispatch` polls
without a deadline. Nothing is assumed of callbacks, pushes or users; a callback may
be lost. A process is only promised to end without a restart: nothing in the code
resumes it. `building` resolves with restarts too, by the ticker. The other
specifications have no fairness and check safety only.

## Proofs

Theorems hold for every value of the constants, under assumptions that are named in the
module that declares the constants and that TLC evaluates. Most say what kind of value
a constant is and that a bound is not zero. Four say more:

* `FiniteAssumption`: a team creates finitely many projects; sums over them exist;
* `DashboardAssumption`: the cache lives longer than zero (ten seconds, `handler/runtime_handler.go:336`);
* `HealthAssumption`: the cluster has a node, since the controller runs on one; without
  nodes the page of every node is good and the dashboard says "not ready";
* `ApplicationAssumption`: dependencies and components of a document are lists
  (`IsDocument`), no component is named `generate`, the word that asks for a new secret, and a shared
  dependency has a type that has a definition.

Every invariant that a run checks is stated by a theorem. An invariant that says what
can be seen is seldom inductive; each of the following is proved from one that is, which
was first checked by TLC on the instance of the run. There is one lemma per conjunct,
with a step for each action or for each kind of action that can disturb it.

### DeploymentPipelineProofs

* `ExclusionInvariant`: `Spec => []ExclusionInv`. `FullExcludesRollout` is not
  inductive: a callback that has passed `shouldStartWebhookRollout` would insert its
  rollout next to a process created since, and a worker of an ended process could
  start again. The invariant adds that a deployment whose `Create` is still under
  way is unknown to everybody and not `building` (`PendingUnknown`), that workers
  work on active processes (`WorkersOfActive`), that what the check of a callback
  saw stays true until it acts (`CheckStaysTrue`), and that nobody refers to a row
  that does not exist (`NoDanglingReferences`).
* `TypeCorrect`, `References`, `Exclusion` are its corollaries.

### PipelineRecordsProofs

* `RecordInvariant`: `Spec => []RecordInv`. What a table shows of a process says nothing
  about where its goroutine is, so `JobsInOrder` and `SucceededIsEarned` are not
  inductive. The invariant adds `Progress(p)`: the jobs before the worker's step have
  succeeded, those after it are queued, the one at hand is as the program counter says,
  and a step past the last one is what `end` and `succeeded` mean; `Earned(p)`: past the
  dispatch the worker's run has ended well, and runs never change again; and
  `CountInv`: rows come without gaps, a row that is not there has no job. Every
  action of a worker is one of five kinds (boots, fails, succeeds, moves on, ends:
  `WorkerCases`); all others hand a process in, or touch no record, or are a restart.
* `JobsAreOrdered`, `VerdictIsEarned`, `RunningIsRolledOut` are its corollaries. The last one
  rests on `WhoMarksRunning` (only `Rollout` and `Connectivity` write `running` without
  Argo CD's notifications) and `RolloutKept`.
* `PipelineKeepsRecords`: `Spec => KeepsRecords`, the refinement of `ProcessRecords`. A process
  handed in is `Submit`, the five kinds are `Begin`, `JobFailure`, `Advance`, a stutter and
  `Verdict`, everything else stutters. Where the database fails a worker, `Begin` and
  `Advance` start nothing and the `Verdict` follows.
* `DeployedWasBuilt`: `Spec => []DeployedImageWasBuilt`. An image on its way to the cluster is
  in one of five places, and `TracedInv` says of each that it is the image of a run:
  the row of a deployment that builds or knows its run (`DepTraced`), a worker that
  has found its run (`FoundRun`), a rollout (`RollsOut`), a reconciliation (`ReconTraced`), a
  callback (`HookTraced`). None of these would stay true if the image of a deployment could
  still change, hence `Final`: no worker that may yet write another image works on it; and
  a deployment has one process that builds (`OneBuilder`).

### ProjectLifecycleProofs

* `LifecycleTypeCorrect`: `Spec => []TypeOK`, one lemma per action, each showing that
  the record it writes is a record of its set; in particular `used` never becomes
  negative and an undo list holds undos only.
* `FreshRead`: `Spec => []ReadIsFresh`. Between `SELECT ... FOR UPDATE` and the commit
  the creation has the lock and what it read is what the row says, since `Release`
  and the other creations wait.
* `QuotaAtomicity`: `Spec => QuotaIsAtomic`, the refinement of `Quota`. `granted` of the
  abstract specification is the set of creations past their reservation. With
  `ReadIsFresh` the commit is `Reserve` of `Quota`, every release is its `Release`,
  `updateQuota` its `SetLimit`, and every other step a stutter.

### ProjectSagaProofs

`SagaInv` is one invariant for the four properties of the saga, because each part needs others:

* `RowsTrue`: a row is what was asked for, and a deletion has loaded one;
* `UndoLists`: the undo list of a creation is a beginning of quota, application,
  namespace, DNS records, project, and its length follows from the step; so that an
  undo that runs is known to be of something that the creation has made;
* `Stages`: from which step on a project has its row; `Owned`: an application and DNS
  records of a creation that is not over have an undo;
* `UniqueNames`, `NamesApart`, `SpacesApart`: without a `rival` nobody else under way has the
  name, without `shared` nobody else the namespace, so that what one creation undoes
  and one deletion cleans up is not another's;
* `Whole`: what the steps so far have made is there; `Clean`: what a deletion without errors
  has passed is gone; and `QuotaAccounted` itself, where `used` is compared with
  the size of a set to which one step adds or takes away the units of one creation.

From it follow `QuotaIsAccounted`, `FailedCreationIsCompensated`, `LiveProjectStaysWhole` and `DeletionIsClean`. The
proof showed that `late` had been recorded too seldom: an update that reads its project before a
deletion ends may write the workflow after that end as well.

### ClusterObjectsProofs

* `ClusterImplementsAtomic`: `ClusterSpec => ObjectsAreAtomic`. `ClusterInv` says that an object
  that still has the version a call has read still has the value it has read
  (versions are given once, and only with a change), so that `Put` is `Write` on the value
  of that moment, and that the create-first operations find what they expect.
* `GrantedRulesStay`, `BindingsHaveRoles`: from `SharedInv`, which adds what the calls under
  way have still to write (`TodoInv`): a binding is written after its role and deleted
  before it, and what puts the policy has read the rules that were granted.
* `ClusterTyped`: every operation writes the fields of the kind of its object and no others.

### PlatformProofs

* `DirectoriesBuild`, `ProjectsImageIsDeployed`, from `GitInv`. A directory that is being written does
  not build; the invariant says what is still to come. `FilesCovered`: a file that
  another one names is there or on the list of a commit; `WritesAll`: what a commit has
  rendered is there or on its list; `DeletesAlone`, `DeletesAll`: a deletion shares the
  directory with nobody and knows, or will list, every file. For the image: who has to
  bring it to the overlay still (`OverlayIsCurrent`), or the deployment under its name
  (`DeploymentIsNamed`), and that the calls under way have that name (`SameNames`).
* `DrainedIsEmpty`, from `DrainInv`: while nobody has undone the cordon, a pod on the node is
  on the list, was skipped, or came by its own means.
* `HealthIsAgreed`: a theorem about pure functions. Restarts are the sum of a
  recursive function over at most two containers, which can be written out.
* `DashboardIsFresh`, from `DashInv`: who holds the mutex is alone, a refresh lasts no longer than
  its timeouts, and the time of the cache is not long after what it shows.
* `ListingsAreComplete`, from `TagInv`: up to the last tag that was read a listing has what was there
  throughout. The proof found that a listing that used up its requests had to be
  refused in the model as it is in the code.
* `SecretsWork`, from `RobotInv`: a call deletes robots of its own name, its new robot is there
  until it is in the secret, and a secret's robot has the name of an owner of its
  namespace. The case of two owners of one name was found by this proof.
* `PlatformTyped`: the composition; each component of it takes its own steps only
  (`PartsOnTheirOwn`).

### AccessProofs

* `CredentialTyped`, `RegistryIsCurrent`, `DeletionLeavesNothing`, from `CredentialInv`: which
  step belongs to which kind of call, that a call that stores a client has read the row as
  it is unless `late`, that a deletion that nothing has overlapped is alone, and that
  there is nothing before the credential is created.
* `AuthTyped`, `AcceptedIsValid`, from `AuthInv`: a request under way is younger than its
  timeout, an answer was true when it was given, and the cache's entry ends with the
  token and not later than a timeout and its own life after the revocation. For every
  choice of the durations, not only those of the run.
* `ManagedTyped`, `RecordsAreTrue`, from `ManagedInv`: where the worker is, how each of the six jobs
  stands as long as every record could be written, when the credential is stored, and
  that a runtime that was replaced does not come back.
* `AccessTyped`: the composition.

### ApplicationsProofs

* `AppliesAsPlanned`, `DeletedIsGone`, `AppTyped`, from `AppInv`: a request knows every dependency it is
  through with, unless a shared row has taken its name, and its credential is there, unless
  something failed (`KnownInv`); the components
  behind it are as planned and linked (`PlannedInv`), those ahead are untouched
  (`ProjectsInv`), which needs that their names differ; what makes an application partly
  failed is still missing (`MissingInv`); a deletion that has found its projects knows every
  one that is linked (`GoneInv`); and without an overlap a creation and a deletion each
  have the application to themselves (`Alone`).
* The secrets are the values of a recursive function over the components. That its
  equation holds at all (`SecretsResolve`) would be an induction; it is proved by the
  least number of components for which there is no solution.
* `ReadyPasswordWorks`, from `DependencyInv`: rows come before jobs, a user holds the
  password of a credential of that user whose job has run, and a request that ends
  without marking its credential has seen the job succeed or has passed the server over, which
  with a client only the request that stored the dependency can do.
* `ApplicationsTyped`: the composition. The proofs found three places where the model was wrong: it
  stopped when a shared dependency had gone, it counted an empty preset as one, and it
  did not say that a dependency may be missing from the start.

Only model-checked: liveness under fairness (`BuildingResolves`, `ProcessTerminates`), which is
out of the prover's reach, and `ManifestsRemoved`, which is violated.

## Not modelled

* Logs, tracking, history, analysis of repositories, listings of the cluster: they read
  and compute, they do not change the state above.
* Request validation (`validateProjectSource`, `validateProjectPorts`): the requests of
  the model are the ones that pass.
* Scopes of API keys, administrators, webhook signatures: pure predicates over one
  request. Two details met on the way: `api_key_service.go:322` splits a key at `_`, so
  that one whose base64url part holds that character does not parse; a key asked for
  without scopes gets the preset.
* GitHub's installation tokens, Cloudflare's zones, the encryption of secrets: calls and
  conversions without state of the controller.
* `LinkProject` and `UpdateBasaltPass`: single reads and saves of a row, whose lost updates are of
  the kind shown in `Credentials`.
* Standalone deployment of a dependency (`CreateStandalone`): it writes an application and, through
  `Create`, one dependency, commits the files of `GitOpsFiles`, and leaves the rows when the commit fails.
  What the chart of a database makes of the default credential in these files belongs
  to the chart. Credentials of dependencies for which nothing is done on a server (uncontrolled, or of a
  type without a job) are left out too.
* An error of `hasJob` and callbacks that name no image, in the pipeline.
* A running deployment worker while its project is deleted: the two modules are not
  composed.
* Of these nothing in the code promises anything, and no property speaks: a restart between a
  deployment and its process (`service/deployment_service.go:44`) leaves a row that nobody moves,
  and `validate` leaves the untagged image when a later job fails (`service/process_service.go:260`). The
  starving of young building rows behind 20 old ones (`service/github_build_service.go:234`) would need
  more deployments than the run about liveness has.
* Web console, `beanctl`, start-up, migration, configuration: presentation, a client of
  the API, and straight-line wiring.

## What is left

In this order:

1. `GitOpsFiles` as a refinement of an atomic file, with a proof, as `ClusterObjects` is one
   of `AtomicObjects`.
2. Composition of `DeploymentPipeline` and `ProjectLifecycle`: deletion of a project while
   its process runs.
3. The tokens of `beanctl` and their refresh.
