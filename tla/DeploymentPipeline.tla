------------------------- MODULE DeploymentPipeline -------------------------
(***************************************************************************)
(* How one project of the BeanCS controller gets a new image into the      *)
(* cluster.  The rows of the deployments, processes and process_jobs       *)
(* tables are written by five kinds of goroutine that share no lock:       *)
(*                                                                         *)
(*   worker       runs a deployment process, one job after the other;      *)
(*   ticker       the reconciler that polls "building" deployments;        *)
(*   watcher      the same reconciliation, once, after Start;              *)
(*   hook         a handler of GitHub's "workflow finished" callback;      *)
(*   API handler  Create, Start, rollback, the Argo CD callback.           *)
(*                                                                         *)
(* An action is one database statement, or one external call with the      *)
(* statements that belong to it; the end of a job and the start of the     *)
(* next one, rows that only their worker touches, are one action.          *)
(* Database errors are left out except where the code reacts to one by     *)
(* giving up or by writing another row, which a worker does whose process  *)
(* cannot be read or whose jobs cannot be recorded (DatabaseErrors);       *)
(* errors of GitHub, of the cluster and of the registry may happen at      *)
(* every call.  Left out are an error of hasJob, which makes a process     *)
(* leave its build out, and callbacks that name no image: these end with   *)
(* the row of their deployment.                                            *)
(***************************************************************************)
EXTENDS Integers, Sequences, FiniteSets

CONSTANTS
  MaxDeployments,  \* bound on the rows of deployments
  MaxProcesses,    \* bound on the rows of processes
  MaxRuns,         \* bound on the workflow runs GitHub starts
  MaxTime,         \* bound on the clock
  MaxCrashes,      \* bound on the restarts of the controller
  Slack,           \* clock skew waitForRun tolerates (15 s in the code)
  BatchLimit,      \* deployments one reconciler pass looks at (20 in the code)
  Hooks,           \* slots for concurrently handled GitHub callbacks
  GitHubSource,    \* project.BuildSource = "github"
  AutoDeploy,      \* project.AutoDeploy
  Rollbacks,       \* users call the rollback endpoint
  ArgoHooks,       \* Argo CD notifications are configured
  NamedCommits,    \* users name the commit a deployment is to build
  DatabaseErrors   \* the database may refuse a worker what its process fails for

ASSUME BoundsAssumption ==
  /\ MaxDeployments \in Nat /\ MaxProcesses \in Nat /\ MaxRuns \in Nat
  /\ MaxTime \in Nat /\ MaxCrashes \in Nat /\ Slack \in Nat
  /\ BatchLimit \in Nat \ {0}

ASSUME FlagsAssumption ==
  /\ GitHubSource \in BOOLEAN /\ AutoDeploy \in BOOLEAN
  /\ Rollbacks \in BOOLEAN /\ ArgoHooks \in BOOLEAN
  /\ NamedCommits \in BOOLEAN /\ DatabaseErrors \in BOOLEAN

Deployments == 1 .. MaxDeployments
Processes   == 1 .. MaxProcesses
Runs        == 1 .. MaxRuns
Time        == 0 .. MaxTime

\* An image reference is its tag: 0 is the untagged base (or no image yet), an
\* odd number the tag made from the clock, an even one the tag of a commit.
\* Two tags made while the clock shows the same second are equal.
Images           == Nat
ClockImage(t)    == 2 * t + 1
CommitImage(t)   == 2 * t + 2
UserImage        == 1

JobNames == {"validate", "network", "github_workflow", "github_dispatch",
             "argocd", "rollout", "connectivity"}
DepStatus  == {"absent", "queued", "building", "deploying", "running", "failed"}
ProcStatus == {"absent", "queued", "running", "succeeded", "failed"}
JobStatus  == {"absent", "queued", "running", "succeeded", "failed"}

VARIABLES
  now,        \* the clock
  crashes,    \* restarts so far
  misattributed, \* history: a run was taken for that of another dispatch
  depCount,   \* deployments created so far
  dep,        \* deployments table
  procCount,  \* processes created so far
  proc,       \* processes table
  job,        \* process_jobs table
  projImage,  \* projects.image_reference
  gitImage,   \* image in the overlay of the GitOps repository
  argoApp,    \* the project has an Argo CD application
  clusterImage, \* image of the Kubernetes Deployment
  requests,   \* workflow dispatches GitHub accepted and has not started
  runCount,   \* workflow runs started so far
  run,        \* workflow runs
  creating,   \* deployments whose Create call has not made the process yet
  worker,     \* goroutine of each process
  recon,      \* reconciliations: 0 is the ticker, d the watcher of d
  todo,       \* deployments the ticker has still to look at in this pass
  hook,       \* handlers of GitHub callbacks
  builder     \* a call of Start between the dispatch and the row

depVars    == <<depCount, dep>>
procVars   == <<procCount, proc, job>>
imageVars  == <<projImage, gitImage, argoApp, clusterImage>>
githubVars == <<requests, runCount, run>>
clockVars  == <<now, crashes>>
envVars    == <<clockVars, misattributed>>
vars == <<envVars, depVars, procVars, imageVars, githubVars, creating, worker,
          recon, todo, hook, builder>>

-----------------------------------------------------------------------------

NoDep    == [status |-> "absent", image |-> 0, tag |-> 0, run |-> 0, at |-> 0]
NoProc   == [status |-> "absent", dep |-> 0, kind |-> "full"]
NoRun    == [state |-> "absent", image |-> 0, at |-> 0, event |-> "push", call |-> "none"]
NoWorker == [pc |-> "none", step |-> 1, image |-> 0, run |-> 0, since |-> 0]
IdleRec  == [pc |-> "idle", dep |-> 0, run |-> 0, image |-> 0, since |-> 0]
IdleHook == [pc |-> "idle", image |-> 0, ok |-> FALSE, dep |-> 0]
IdleBuilder == [pc |-> "idle", image |-> 0, since |-> 0]

WorkerPc == {"none", "boot", "body", "wait", "poll", "commit", "mark", "rolled", "finish",
             "failing", "closing", "end", "gone"}
ReconPc  == {"idle", "load", "wait", "poll", "tag", "mark", "fail"}
HookPc   == {"idle", "match", "write", "project", "tag", "check", "start"}

Init ==
  /\ now = 0 /\ crashes = 0 /\ misattributed = FALSE
  /\ depCount = 0 /\ dep = [d \in Deployments |-> NoDep]
  /\ procCount = 0 /\ proc = [p \in Processes |-> NoProc]
  /\ job = [p \in Processes |-> [n \in JobNames |-> "absent"]]
  /\ projImage = (IF GitHubSource THEN 0 ELSE UserImage)
  /\ gitImage = projImage /\ clusterImage = 0
  /\ argoApp = (~GitHubSource /\ AutoDeploy)
  /\ requests = {} /\ runCount = 0 /\ run = [r \in Runs |-> NoRun]
  /\ creating = {}
  /\ worker = [p \in Processes |-> NoWorker]
  /\ recon = [a \in {0} \cup Deployments |-> IdleRec]
  /\ todo = {}
  /\ hook = [h \in Hooks |-> IdleHook]
  /\ builder = IdleBuilder

-----------------------------------------------------------------------------
(* Rows.                                                                   *)

\* INSERT of a deployment row.
InsertDep(status, image) ==
  /\ depCount < MaxDeployments
  /\ depCount' = depCount + 1
  /\ dep' = [dep EXCEPT ![depCount + 1] =
               [status |-> status, image |-> image, tag |-> image, run |-> 0, at |-> now]]

\* UPDATE of a deployment row to "failed".
FailDep(d) ==
  /\ dep' = [dep EXCEPT ![d].status = "failed"]
  /\ UNCHANGED depCount

\* The jobs a process has rows for, and the ones run() goes through, in order.
JobRows(kind) ==
  IF kind = "full" THEN JobNames ELSE JobNames \ {"github_workflow", "github_dispatch"}

Plan(p) ==
  IF GitHubSource /\ proc[p].kind = "full"
  THEN <<"validate", "network", "github_workflow", "github_dispatch",
         "argocd", "rollout", "connectivity">>
  ELSE <<"validate", "network", "argocd", "rollout", "connectivity">>

\* The transaction that inserts a process and its jobs.
InsertProcess(d, kind) ==
  /\ procCount < MaxProcesses
  /\ procCount' = procCount + 1
  /\ proc' = [proc EXCEPT ![procCount + 1] =
                [status |-> "queued", dep |-> d, kind |-> kind]]
  /\ job' = [job EXCEPT ![procCount + 1] =
               [n \in JobNames |-> IF n \in JobRows(kind) THEN "queued" ELSE "absent"]]

StartWorker(p, pc) == worker' = [worker EXCEPT ![p].pc = pc]

Active(p) == proc[p].status \in {"queued", "running"}

-----------------------------------------------------------------------------
(* API: Create, rollback.                                                  *)

\* The deployment row; the process comes in a transaction of its own.
CreateDeployment ==
  /\ InsertDep("queued", IF GitHubSource THEN ClockImage(now) ELSE 0)
  /\ creating' = creating \cup {depCount + 1}
  /\ UNCHANGED <<envVars, procVars, imageVars, githubVars, worker, recon, todo, hook, builder>>

\* CreateDeploymentProcess and Start.  When reading the new process back fails
\* the process stays queued without a goroutine.
CreateProcess(d) ==
  /\ d \in creating
  /\ creating' = creating \ {d}
  /\ \/ /\ InsertProcess(d, "full")
        /\ StartWorker(procCount + 1, "boot")
        /\ UNCHANGED depVars
     \/ /\ InsertProcess(d, "full")
        /\ StartWorker(procCount + 1, "gone")
        /\ FailDep(d)
     \/ /\ FailDep(d)
        /\ UNCHANGED <<procVars, worker>>
  /\ UNCHANGED <<envVars, imageVars, githubVars, recon, todo, hook, builder>>

\* The handler inserts a "deploying" row for the rollback and starts nothing.
Rollback ==
  /\ Rollbacks /\ depCount > 0
  /\ InsertDep("deploying", 0)
  /\ UNCHANGED <<envVars, procVars, imageVars, githubVars, creating, worker, recon, todo, hook, builder>>

-----------------------------------------------------------------------------
(* GitHubBuildService.Start, called when a project that deploys            *)
(* automatically is created or activated: dispatch, row, watcher.  Two     *)
(* equal requests that GitHub has not started yet count as one.            *)

StartDispatch ==
  /\ GitHubSource /\ AutoDeploy /\ builder.pc = "idle" /\ depCount < MaxDeployments
  /\ requests' = requests \cup {[image |-> ClockImage(now), by |-> 0]}
  /\ builder' = [pc |-> "record", image |-> ClockImage(now), since |-> now]
  /\ UNCHANGED <<envVars, depVars, procVars, imageVars, runCount, run, creating, worker, recon, todo, hook>>

StartRecord ==
  /\ builder.pc = "record"
  /\ InsertDep("building", builder.image)
  /\ recon' = [recon EXCEPT ![depCount + 1] =
                 [pc |-> "load", dep |-> depCount + 1, run |-> 0, image |-> 0,
                  since |-> builder.since]]
  /\ builder' = IdleBuilder
  /\ UNCHANGED <<envVars, procVars, imageVars, githubVars, creating, worker, todo, hook>>

-----------------------------------------------------------------------------
(* GitHub.                                                                 *)

InsertRun(image, event) ==
  /\ runCount < MaxRuns
  /\ runCount' = runCount + 1
  /\ run' = [run EXCEPT ![runCount + 1] =
               [state |-> "started", image |-> image, at |-> now,
                event |-> event, call |-> "none"]]

RunStarts == \E q \in requests :
  /\ InsertRun(q.image, "dispatch")
  /\ requests' = requests \ {q}
  /\ UNCHANGED <<envVars, depVars, procVars, imageVars, creating, worker, recon, todo, hook, builder>>

RunLost == \E q \in requests :
  /\ requests' = requests \ {q}
  /\ UNCHANGED <<envVars, depVars, procVars, imageVars, runCount, run, creating, worker, recon, todo, hook, builder>>

\* With AutoDeploy the workflow also runs on a push.
Push ==
  /\ GitHubSource /\ AutoDeploy
  /\ InsertRun(CommitImage(now), "push")
  /\ UNCHANGED <<envVars, depVars, procVars, imageVars, requests, creating, worker, recon, todo, hook, builder>>

\* A run ends and its last step calls the controller back, once; the call is
\* lost when the secrets are not set up or the controller does not answer.
RunConcludes(r) == \E state \in {"success", "failure"}, call \in {"sent", "lost"} :
  /\ run[r].state = "started"
  /\ run' = [run EXCEPT ![r].state = state, ![r].call = call]
  /\ UNCHANGED <<envVars, depVars, procVars, imageVars, requests, runCount, creating, worker, recon, todo, hook, builder>>

\* What waitForRun accepts: dispatched runs that are recent enough.  The list is
\* newest first, so it returns the last one.
Recent(since) ==
  {r \in Runs : /\ run[r].state # "absent" /\ run[r].event = "dispatch"
                /\ run[r].at + Slack >= since}

NewestRecent(r, since) == r \in Recent(since) /\ \A q \in Recent(since) : q <= r

-----------------------------------------------------------------------------
(* The worker of process p: runDeploymentProcess and processRun.run.       *)

CurrentJob(p) == Plan(p)[worker[p].step]
AtBody(p, name) == worker[p].pc = "body" /\ CurrentJob(p) = name

GoTo(p, pc) == worker' = [worker EXCEPT ![p].pc = pc]

\* Variant: the error of a job is recorded and not returned.
JobFailsAndGoesOn(p) ==
  /\ job' = [job EXCEPT ![p][CurrentJob(p)] = "failed"]
  /\ worker' = [worker EXCEPT ![p].step = worker[p].step + 1,
       ![p].pc = IF worker[p].step < Len(Plan(p)) THEN "body" ELSE "end"]
  /\ UNCHANGED <<procCount, proc>>

JobFails(p) ==
  /\ job' = [job EXCEPT ![p][CurrentJob(p)] = "failed"]
  /\ worker' = [worker EXCEPT ![p].pc = "failing"]
  /\ UNCHANGED <<procCount, proc>>

\* finishJob, and startJob of the next one; image is the one the worker goes on with.
JobSucceeds(p, image) ==
  LET next == worker[p].step + 1
      more == next <= Len(Plan(p))
  IN
  /\ job' = [job EXCEPT ![p] = [n \in JobNames |->
       CASE n = CurrentJob(p)          -> "succeeded"
         [] more /\ n = Plan(p)[next] -> "running"
         [] OTHER                      -> job[p][n]]]
  /\ worker' = [worker EXCEPT ![p].step = next, ![p].image = image,
                              ![p].pc = IF more THEN "body" ELSE "end"]
  /\ UNCHANGED <<procCount, proc>>

\* startJob of the next one fails: it is left as it was.
NextJobFails(p) ==
  /\ DatabaseErrors /\ worker[p].step < Len(Plan(p))
  /\ job' = [job EXCEPT ![p][CurrentJob(p)] = "succeeded"]
  /\ worker' = [worker EXCEPT ![p].step = worker[p].step + 1, ![p].pc = "failing"]
  /\ UNCHANGED <<procCount, proc>>

\* The job has done its work; when its end cannot be recorded the process fails.
JobDone(p, image) ==
  \/ JobSucceeds(p, image)
  \/ NextJobFails(p)
  \/ DatabaseErrors /\ GoTo(p, "failing") /\ UNCHANGED procVars

\* A run, or its callback, that built one image is taken for that of another one.
TakenFor(built, image) == misattributed' = (misattributed \/ built # image)

workerRest == <<envVars, creating, recon, todo, hook, builder>>

\* The process is running; its own row is read, without which the worker just
\* returns, then those of the deployment and of the project, once.  When these
\* cannot be read, or the first job not be started, the process fails.
Boot(p) ==
  /\ worker[p].pc = "boot"
  /\ proc' = [proc EXCEPT ![p].status = "running"]
  /\ \/ DatabaseErrors /\ GoTo(p, "gone") /\ UNCHANGED job
     \/ DatabaseErrors /\ GoTo(p, "failing") /\ UNCHANGED job
     \/ /\ job' = [job EXCEPT ![p][CurrentJob(p)] = "running"]
        /\ worker' = [worker EXCEPT ![p].pc = "body",
             ![p].image = LET img == dep[proc[p].dep].image
                          IN  IF img = 0 /\ ~GitHubSource THEN projImage ELSE img]
  /\ UNCHANGED <<workerRest, depVars, procCount, imageVars, githubVars>>

\* validate puts the untagged base into projects.image_reference, may fail before
\* or after that, and resolves the image: a full process makes a new tag.
Validate(p) ==
  /\ AtBody(p, "validate")
  /\ \/ /\ JobFails(p)
        /\ \/ UNCHANGED projImage
           \/ GitHubSource /\ projImage' = 0
     \/ LET image == IF GitHubSource /\ proc[p].kind = "full"
                     THEN ClockImage(now) ELSE worker[p].image
        IN  /\ projImage' = (IF GitHubSource THEN 0 ELSE projImage)
            /\ IF image = 0
               THEN JobFails(p)
               ELSE JobDone(p, image)
  /\ UNCHANGED <<workerRest, depVars, gitImage, argoApp, clusterImage, githubVars>>

\* network and githubWorkflow only touch the cluster, DNS and the repository.
NetworkOrWorkflow(p) ==
  /\ AtBody(p, "network") \/ AtBody(p, "github_workflow")
  /\ \/ JobFails(p)
     \/ JobDone(p, worker[p].image)
  /\ UNCHANGED <<workerRest, depVars, imageVars, githubVars>>

Dispatch(p) ==
  /\ AtBody(p, "github_dispatch")
  /\ \/ /\ JobFails(p)
        /\ UNCHANGED requests
     \/ /\ requests' = requests \cup {[image |-> worker[p].image, by |-> p]}
        /\ worker' = [worker EXCEPT ![p].pc = "wait", ![p].since = now]
        /\ UNCHANGED procVars
  /\ UNCHANGED <<workerRest, depVars, imageVars, runCount, run>>

\* The run is found and recorded in the deployment row, or it is not and the
\* job fails (API error, five minutes without a run).
WaitForRun(p) ==
  /\ worker[p].pc = "wait"
  /\ \/ /\ JobFails(p)
        /\ UNCHANGED <<dep, misattributed>>
     \/ \E r \in Runs :
        /\ NewestRecent(r, worker[p].since)
        /\ TakenFor(run[r].image, worker[p].image)
        /\ dep' = [dep EXCEPT ![proc[p].dep].status = "building",
                              ![proc[p].dep].image = worker[p].image,
                              ![proc[p].dep].run = r]
        /\ worker' = [worker EXCEPT ![p].pc = "poll", ![p].run = r, ![p].since = 0]
        /\ UNCHANGED procVars
  /\ UNCHANGED <<clockVars, creating, recon, todo, hook, builder, depCount, imageVars, githubVars>>

\* Variants: the conclusion of the run is not looked at; only a run that ended
\* well ends the loop.
PollRunAnyEnd(p) ==
  /\ worker[p].pc = "poll"
  /\ \/ JobFails(p)
     \/ /\ run[worker[p].run].state # "started"
        /\ JobDone(p, worker[p].image)
  /\ UNCHANGED <<workerRest, depVars, imageVars, githubVars>>

PollRunForSuccess(p) ==
  /\ worker[p].pc = "poll"
  /\ run[worker[p].run].state = "success"
  /\ JobDone(p, worker[p].image)
  /\ UNCHANGED <<workerRest, depVars, imageVars, githubVars>>

PollRun(p) ==
  /\ worker[p].pc = "poll"
  /\ \/ JobFails(p)
     \/ /\ run[worker[p].run].state = "success"
        /\ JobDone(p, worker[p].image)
  /\ UNCHANGED <<workerRest, depVars, imageVars, githubVars>>

-----------------------------------------------------------------------------
(* argocd, rollout, connectivity.                                          *)

\* Without GitHub the argocd job has nothing to do.
ArgoNothing(p) ==
  /\ AtBody(p, "argocd") /\ ~GitHubSource
  /\ JobDone(p, worker[p].image)
  /\ UNCHANGED <<workerRest, depVars, imageVars, githubVars>>

ArgoProject(p) ==
  /\ AtBody(p, "argocd") /\ GitHubSource
  /\ \/ /\ JobFails(p)
        /\ UNCHANGED projImage
     \/ /\ projImage' = worker[p].image
        /\ GoTo(p, "commit")
        /\ UNCHANGED procVars
  /\ UNCHANGED <<workerRest, depVars, gitImage, argoApp, clusterImage, githubVars>>

\* CommitProjectManifests, then ApplyArgoCDApplication.
ArgoCommit(p) ==
  /\ worker[p].pc = "commit"
  /\ \/ /\ JobFails(p)
        /\ gitImage' \in {gitImage, worker[p].image}
        /\ UNCHANGED argoApp
     \/ /\ gitImage' = worker[p].image
        /\ argoApp' = TRUE
        /\ GoTo(p, "mark")
        /\ UNCHANGED procVars
  /\ UNCHANGED <<workerRest, depVars, projImage, clusterImage, githubVars>>

\* The rows processRun writes when a step of the rollout is through.
\* Variant: the status of a process in the row of a deployment.
MarkDepAsProcess(d, status, image) ==
  /\ dep' = [dep EXCEPT ![d].status = "succeeded", ![d].image = image]
  /\ UNCHANGED depCount

MarkDep(d, status, image) ==
  /\ dep' = [dep EXCEPT ![d].status = status, ![d].image = image]
  /\ UNCHANGED depCount

ArgoMark(p) ==
  /\ worker[p].pc = "mark"
  /\ MarkDep(proc[p].dep, "deploying", worker[p].image)
  /\ JobDone(p, worker[p].image)
  /\ UNCHANGED <<workerRest, imageVars, githubVars>>

Rollout(p) ==
  /\ AtBody(p, "rollout")
  /\ \/ /\ JobFails(p)
        /\ UNCHANGED clusterImage
     \/ /\ clusterImage' = worker[p].image
        /\ GoTo(p, "rolled")
        /\ UNCHANGED procVars
  /\ UNCHANGED <<workerRest, depVars, projImage, gitImage, argoApp, githubVars>>

RolloutMark(p) ==
  /\ worker[p].pc = "rolled"
  /\ MarkDep(proc[p].dep, "running", worker[p].image)
  /\ GoTo(p, "finish")
  /\ UNCHANGED <<workerRest, procVars, imageVars, githubVars>>

FinishRollout(p) ==
  /\ worker[p].pc = "finish"
  /\ JobDone(p, worker[p].image)
  /\ UNCHANGED <<workerRest, depVars, imageVars, githubVars>>

Connectivity(p) ==
  /\ AtBody(p, "connectivity")
  /\ \/ /\ FailDep(proc[p].dep)
        /\ JobFails(p)
     \/ /\ MarkDep(proc[p].dep, "running", dep[proc[p].dep].image)
        /\ JobDone(p, worker[p].image)
  /\ UNCHANGED <<workerRest, imageVars, githubVars>>

EndProcess(p, status, pc) ==
  /\ proc' = [proc EXCEPT ![p].status = status]
  /\ GoTo(p, pc)
  /\ UNCHANGED <<workerRest, depVars, procCount, job, imageVars, githubVars>>

SucceedProcess(p) == worker[p].pc = "end" /\ EndProcess(p, "succeeded", "gone")

\* failProcess: the process, and then the job that still runs, if there is one.
FailProcess(p) ==
  /\ worker[p].pc = "failing"
  /\ EndProcess(p, "failed", IF job[p][CurrentJob(p)] = "running" THEN "closing" ELSE "gone")

CloseJob(p) ==
  /\ worker[p].pc = "closing"
  /\ job' = [job EXCEPT ![p][CurrentJob(p)] = "failed"]
  /\ GoTo(p, "gone")
  /\ UNCHANGED <<workerRest, depVars, procCount, proc, imageVars, githubVars>>

WorkerStep(p) ==
  \/ Boot(p) \/ Validate(p) \/ NetworkOrWorkflow(p)
  \/ Dispatch(p) \/ WaitForRun(p) \/ PollRun(p)
  \/ ArgoNothing(p) \/ ArgoProject(p) \/ ArgoCommit(p) \/ ArgoMark(p)
  \/ Rollout(p) \/ RolloutMark(p) \/ FinishRollout(p) \/ Connectivity(p)
  \/ SucceedProcess(p) \/ FailProcess(p) \/ CloseJob(p)

-----------------------------------------------------------------------------
(* reconcileDeployment, run by the ticker (agent 0) and by watchers.       *)

reconRest == <<envVars, procVars, requests, runCount, run, creating, worker, hook, builder>>

Building == {d \in Deployments : dep[d].status = "building"}

\* A pass looks at the oldest deployments that are building when it begins.
TickerScan ==
  /\ recon[0].pc = "idle" /\ todo = {} /\ Building # {}
  /\ todo' = {d \in Building : Cardinality({e \in Building : e < d}) < BatchLimit}
  /\ UNCHANGED <<reconRest, depVars, imageVars, recon>>

TickerNext ==
  /\ recon[0].pc = "idle"
  /\ \E d \in todo :
       /\ \A e \in todo : d <= e
       /\ recon' = [recon EXCEPT ![0] =
            [pc |-> "load", dep |-> d, run |-> 0, image |-> 0, since |-> dep[d].at]]
       /\ todo' = todo \ {d}
  /\ UNCHANGED <<reconRest, depVars, imageVars>>

ReconTo(a, pc)  == recon' = [recon EXCEPT ![a].pc = pc]
ReconDone(a)    == recon' = [recon EXCEPT ![a] = IdleRec]

\* The row is read; anything but "building" is left alone.
ReconLoad(a) ==
  LET d == recon[a].dep IN
  /\ recon[a].pc = "load"
  /\ \/ dep[d].status # "building" /\ ReconDone(a)
     \/ dep[d].status = "building" /\ ReconTo(a, "fail")
     \/ /\ dep[d].status = "building"
        /\ recon' = [recon EXCEPT ![a].run = dep[d].run, ![a].image = dep[d].image,
                       ![a].pc = IF dep[d].run = 0 THEN "wait" ELSE "poll"]
  /\ UNCHANGED <<reconRest, depVars, imageVars, todo>>

ReconWait(a) ==
  /\ recon[a].pc = "wait"
  /\ \/ ReconTo(a, "fail") /\ UNCHANGED <<dep, misattributed>>
     \/ \E r \in Runs :
        /\ NewestRecent(r, recon[a].since)
        /\ TakenFor(run[r].image, recon[a].image)
        /\ recon' = [recon EXCEPT ![a].pc = "poll", ![a].run = r, ![a].since = 0]
        /\ dep' = [dep EXCEPT ![recon[a].dep].run = r]
  /\ UNCHANGED <<clockVars, procVars, githubVars, creating, worker, hook, builder,
                 depCount, imageVars, todo>>

\* Variants: the conclusion of the run is not looked at; a run that failed is
\* treated as one that goes on.
ReconPollAnyEnd(a) ==
  /\ recon[a].pc = "poll"
  /\ \/ run[recon[a].run].state = "started" /\ ReconDone(a) /\ UNCHANGED projImage
     \/ ReconTo(a, "fail") /\ UNCHANGED projImage
     \/ /\ run[recon[a].run].state # "started"
        /\ projImage' = recon[a].image
        /\ ReconTo(a, "tag")
  /\ UNCHANGED <<reconRest, depVars, gitImage, argoApp, clusterImage, todo>>

ReconPollForSuccess(a) ==
  /\ recon[a].pc = "poll"
  /\ \/ run[recon[a].run].state # "success" /\ ReconDone(a) /\ UNCHANGED projImage
     \/ /\ run[recon[a].run].state = "success"
        /\ projImage' = recon[a].image
        /\ ReconTo(a, "tag")
  /\ UNCHANGED <<reconRest, depVars, gitImage, argoApp, clusterImage, todo>>

\* One look at the run; a run that goes on is left for the next pass.
ReconPoll(a) ==
  /\ recon[a].pc = "poll"
  /\ \/ run[recon[a].run].state = "started" /\ ReconDone(a) /\ UNCHANGED projImage
     \/ ReconTo(a, "fail") /\ UNCHANGED projImage
     \/ /\ run[recon[a].run].state = "success"
        /\ projImage' = recon[a].image
        /\ ReconTo(a, "tag")
  /\ UNCHANGED <<reconRest, depVars, gitImage, argoApp, clusterImage, todo>>

\* UpdateImageTag.
ReconTag(a) ==
  /\ recon[a].pc = "tag"
  /\ \/ ReconTo(a, "fail") /\ UNCHANGED gitImage
     \/ ReconTo(a, "mark") /\ gitImage' = recon[a].image
  /\ UNCHANGED <<reconRest, depVars, projImage, argoApp, clusterImage, todo>>

\* Variant: the image is in the repository, so the deployment counts as running.
ReconMarkRunning(a) ==
  /\ recon[a].pc = "mark"
  /\ MarkDep(recon[a].dep, "running", recon[a].image)
  /\ ReconDone(a)
  /\ UNCHANGED <<reconRest, imageVars, todo>>

ReconMark(a) ==
  /\ recon[a].pc = "mark"
  /\ MarkDep(recon[a].dep, "deploying", recon[a].image)
  /\ ReconDone(a)
  /\ UNCHANGED <<reconRest, imageVars, todo>>

ReconFail(a) ==
  /\ recon[a].pc = "fail"
  /\ FailDep(recon[a].dep)
  /\ ReconDone(a)
  /\ UNCHANGED <<reconRest, imageVars, todo>>

ReconStep(a) ==
  \/ ReconLoad(a) \/ ReconWait(a) \/ ReconPoll(a) \/ ReconTag(a)
  \/ ReconMark(a) \/ ReconFail(a)

Ticker == TickerScan \/ TickerNext

-----------------------------------------------------------------------------
(* HandleGitHubWebhook.                                                    *)

hookRest == <<envVars, requests, runCount, creating, recon, todo, builder>>

HookTo(h, pc)   == hook' = [hook EXCEPT ![h].pc = pc]
HookReturns(h)  == hook' = [hook EXCEPT ![h] = IdleHook]

\* Variant: the status in the callback is not looked at.
DeliverAsSuccess(h, r) ==
  /\ hook[h].pc = "idle" /\ run[r].call = "sent"
  /\ run' = [run EXCEPT ![r].call = "taken"]
  /\ hook' = [hook EXCEPT ![h] = [pc |-> "match", image |-> run[r].image,
                ok |-> TRUE, dep |-> 0]]
  /\ UNCHANGED <<hookRest, depVars, procVars, imageVars, worker>>

Deliver(h, r) ==
  /\ hook[h].pc = "idle" /\ run[r].call = "sent"
  /\ run' = [run EXCEPT ![r].call = "taken"]
  /\ hook' = [hook EXCEPT ![h] = [pc |-> "match", image |-> run[r].image,
                ok |-> run[r].state = "success", dep |-> 0]]
  /\ UNCHANGED <<hookRest, depVars, procVars, imageVars, worker>>

\* The rows in which a user may have named the commit of a callback are Create's.
Named ==
  {d \in Building : NamedCommits /\ \E p \in Processes : proc[p].dep = d /\ proc[p].kind = "full"}

\* The newest building deployment of that image or commit; without one, a project
\* that does not deploy automatically ignores the call.
HookMatch(h) == \E sameCommit \in SUBSET Named :
  LET found == sameCommit \cup {d \in Building : hook[h].image \in {dep[d].image, dep[d].tag}}
  IN
  /\ hook[h].pc = "match"
  /\ \/ /\ found = {} /\ ~AutoDeploy
        /\ HookReturns(h)
        /\ UNCHANGED misattributed
     \/ /\ found = {} /\ AutoDeploy
        /\ HookTo(h, "write")
        /\ UNCHANGED misattributed
     \/ \E d \in found :
        /\ \A e \in found : e <= d
        /\ TakenFor(hook[h].image, dep[d].image)
        /\ hook' = [hook EXCEPT ![h].pc = "write", ![h].dep = d]
  /\ UNCHANGED <<clockVars, githubVars, creating, recon, todo, builder, depVars, procVars,
                 imageVars, worker>>

\* The row found is updated, or a new one inserted.
HookWrite(h) ==
  LET d == hook[h].dep
      status == IF hook[h].ok THEN "deploying" ELSE "failed"
      target == IF d = 0 THEN depCount + 1 ELSE d
  IN
  /\ hook[h].pc = "write"
  /\ \/ /\ d # 0
        /\ dep' = [dep EXCEPT ![d].status = status, ![d].image = hook[h].image,
                     ![d].tag = hook[h].image]
        /\ UNCHANGED depCount
     \/ d = 0 /\ InsertDep(status, hook[h].image)
  /\ IF hook[h].ok
     THEN hook' = [hook EXCEPT ![h].pc = "project", ![h].dep = target]
     ELSE HookReturns(h)
  /\ UNCHANGED <<hookRest, run, procVars, imageVars, worker>>

\* The project's image; the call may end here when no GitHub token is to be had.
HookProject(h) ==
  /\ hook[h].pc = "project"
  /\ projImage' = hook[h].image
  /\ HookTo(h, "tag") \/ HookReturns(h)
  /\ UNCHANGED <<hookRest, run, depVars, procVars, gitImage, argoApp, clusterImage, worker>>

HookTag(h) ==
  /\ hook[h].pc = "tag"
  /\ \/ /\ gitImage' = hook[h].image
        /\ HookTo(h, "check")
        /\ UNCHANGED depVars
     \/ /\ FailDep(hook[h].dep)
        /\ HookReturns(h)
        /\ UNCHANGED gitImage
  /\ UNCHANGED <<hookRest, run, procVars, projImage, argoApp, clusterImage, worker>>

\* Variant: every successful callback starts a rollout.
HookCheckNothing(h) ==
  /\ hook[h].pc = "check"
  /\ HookTo(h, "start")
  /\ UNCHANGED <<hookRest, run, depVars, procVars, imageVars, worker>>

\* shouldStartWebhookRollout.
HookCheck(h) ==
  /\ hook[h].pc = "check"
  /\ IF \E p \in Processes : Active(p) /\ proc[p].dep = hook[h].dep
     THEN HookReturns(h)
     ELSE HookTo(h, "start")
  /\ UNCHANGED <<hookRest, run, depVars, procVars, imageVars, worker>>

\* CreateWebhookRolloutProcess and Start, with the outcomes of CreateProcess.
HookStart(h) ==
  /\ hook[h].pc = "start"
  /\ HookReturns(h)
  /\ \/ /\ InsertProcess(hook[h].dep, "rollout")
        /\ StartWorker(procCount + 1, "boot")
        /\ UNCHANGED depVars
     \/ /\ InsertProcess(hook[h].dep, "rollout")
        /\ StartWorker(procCount + 1, "gone")
        /\ FailDep(hook[h].dep)
     \/ /\ FailDep(hook[h].dep)
        /\ UNCHANGED <<procVars, worker>>
  /\ UNCHANGED <<hookRest, run, imageVars>>

HookStep(h) ==
  \/ HookMatch(h) \/ HookWrite(h) \/ HookProject(h) \/ HookTag(h)
  \/ HookCheck(h) \/ HookStart(h)

-----------------------------------------------------------------------------
(* Argo CD notifications, time, restarts.                                  *)

\* One UPDATE ordered by age and limited to one row; an SQL dialect that has no
\* ORDER BY and LIMIT in UPDATE applies it to every row of the project.
ArgoNotifies ==
  /\ ArgoHooks /\ depCount > 0
  /\ \E status \in {"running", "deploying"}, rows \in {{depCount}, 1 .. depCount} :
       dep' = [d \in Deployments |->
                 IF d \in rows THEN [dep[d] EXCEPT !.status = status] ELSE dep[d]]
  /\ UNCHANGED <<envVars, depCount, procVars, imageVars, githubVars, creating,
                 worker, recon, todo, hook, builder>>

\* Argo CD syncs its applications by itself ("automated", "selfHeal").
ArgoSync ==
  /\ argoApp /\ gitImage # 0
  /\ clusterImage' = gitImage
  /\ UNCHANGED <<envVars, depVars, procVars, projImage, gitImage, argoApp, githubVars,
                 creating, worker, recon, todo, hook, builder>>

Tick ==
  /\ now < MaxTime
  /\ now' = now + 1
  /\ UNCHANGED <<crashes, misattributed, depVars, procVars, imageVars, githubVars, creating,
                 worker, recon, todo, hook, builder>>

\* A restart of the controller: rows survive, goroutines do not.  Nothing picks
\* up the processes that were queued or running.
Crash ==
  /\ crashes < MaxCrashes
  /\ crashes' = crashes + 1
  /\ creating' = {}
  /\ worker' = [p \in Processes |->
       IF worker[p].pc = "none" THEN worker[p] ELSE [worker[p] EXCEPT !.pc = "gone"]]
  /\ recon' = [a \in {0} \cup Deployments |-> IdleRec]
  /\ todo' = {}
  /\ hook' = [h \in Hooks |-> IdleHook]
  /\ builder' = IdleBuilder
  /\ UNCHANGED <<now, misattributed, depVars, procVars, imageVars, githubVars>>

-----------------------------------------------------------------------------

Next ==
  \/ CreateDeployment \/ Rollback \/ StartDispatch \/ StartRecord
  \/ \E d \in Deployments : CreateProcess(d)
  \/ RunStarts \/ RunLost \/ Push \/ \E r \in Runs : RunConcludes(r)
  \/ \E p \in Processes : WorkerStep(p)
  \/ Ticker \/ \E a \in {0} \cup Deployments : ReconStep(a)
  \/ \E h \in Hooks : HookStep(h) \/ \E r \in Runs : Deliver(h, r)
  \/ ArgoNotifies \/ ArgoSync \/ Tick \/ Crash

Spec == Init /\ [][Next]_vars

\* Goroutines run, and GitHub ends every run it started (it stops a job after
\* six hours).  Nothing is assumed of users, pushes, the clock or callbacks, and
\* a worker that polls a run is not promised an error that would end its loop.
Waiting(p) == worker[p].pc = "poll" /\ run[worker[p].run].state = "started"

Fairness ==
  /\ \A p \in Processes : WF_vars(WorkerStep(p) /\ ~Waiting(p))
  /\ WF_vars(Ticker)
  /\ \A a \in {0} \cup Deployments : WF_vars(ReconStep(a))
  /\ \A r \in Runs : WF_vars(RunConcludes(r))

FairSpec == Spec /\ Fairness

-----------------------------------------------------------------------------
(* Properties.                                                             *)

Actors == {0} \cup Deployments

EnvTypeOK == now \in Nat /\ crashes \in Nat /\ misattributed \in BOOLEAN

DepTypeOK ==
  /\ depCount \in 0 .. MaxDeployments
  /\ dep \in [Deployments -> [status : DepStatus, image : Images, tag : Images,
                              run : {0} \cup Runs, at : Nat]]

ProcTypeOK ==
  /\ procCount \in 0 .. MaxProcesses
  /\ proc \in [Processes -> [status : ProcStatus, dep : Actors, kind : {"full", "rollout"}]]
  /\ job \in [Processes -> [JobNames -> JobStatus]]

ImageTypeOK ==
  projImage \in Images /\ gitImage \in Images /\ clusterImage \in Images /\ argoApp \in BOOLEAN

GitHubTypeOK ==
  /\ requests \subseteq [image : Images, by : {0} \cup Processes]
  /\ runCount \in 0 .. MaxRuns
  /\ run \in [Runs -> [state : {"absent", "started", "success", "failure"},
                       image : Images, at : Nat, event : {"push", "dispatch"},
                       call : {"none", "sent", "lost", "taken"}]]

WorkerTypeOK ==
  /\ creating \subseteq Deployments
  /\ worker \in [Processes -> [pc : WorkerPc, step : Nat, image : Images,
                               run : {0} \cup Runs, since : Nat]]

ReconTypeOK ==
  /\ recon \in [Actors -> [pc : ReconPc, dep : Actors, run : {0} \cup Runs,
                           image : Images, since : Nat]]
  /\ todo \subseteq Deployments

HookTypeOK ==
  /\ hook \in [Hooks -> [pc : HookPc, image : Images, ok : BOOLEAN, dep : Actors]]
  /\ builder \in [pc : {"idle", "record"}, image : Images, since : Nat]

\* Every variable holds values of its type.
TypeOK ==
  /\ EnvTypeOK /\ DepTypeOK /\ ProcTypeOK /\ ImageTypeOK /\ GitHubTypeOK
  /\ WorkerTypeOK /\ ReconTypeOK /\ HookTypeOK

\* Nobody works on a deployment that has not been inserted, and no row is written
\* before it exists: processes, reconciliations and callbacks hold numbers of
\* deployments across many statements and restarts.
Inserted == 1 .. depCount

NoDanglingReferences ==
  /\ \A d \in Deployments : d > depCount => dep[d].status = "absent"
  /\ creating \subseteq Inserted /\ todo \subseteq Inserted
  /\ \A p \in Processes : proc[p].status # "absent" => proc[p].dep \in Inserted
  /\ \A a \in Actors : recon[a].pc # "idle" => recon[a].dep \in Inserted
  /\ \A h \in Hooks :
       \/ hook[h].pc = "idle" \/ hook[h].dep \in Inserted
       \/ hook[h].pc \in {"match", "write"} /\ hook[h].dep = 0

\* A deployment is never worked on by the process that builds it and by a rollout
\* that a callback started at the same time: shouldStartWebhookRollout looks for
\* active processes, and Create makes its process before anyone else can see a
\* deployment that is building.
FullExcludesRollout ==
  \A p, q \in Processes :
    (Active(p) /\ Active(q) /\ proc[p].kind = "full" /\ proc[q].kind = "rollout")
      => proc[p].dep # proc[q].dep

\* Why it holds, as an inductive invariant.  A deployment whose Create has not
\* made the process yet is unknown to everyone else and not "building" ...
PendingUnknown ==
  \A d \in creating :
    /\ dep[d].status # "building"
    /\ \A p \in Processes : proc[p].status # "absent" => proc[p].dep # d
    /\ \A h \in Hooks : hook[h].pc # "idle" => hook[h].dep # d

\* ... a worker only works on an active process, or closes the job of one it failed ...
WorkersOfActive ==
  \A p \in Processes :
    /\ worker[p].pc = "boot" => proc[p].status = "queued"
    /\ worker[p].pc \notin {"none", "boot", "closing", "gone"} => proc[p].status = "running"
    /\ worker[p].pc = "closing" => proc[p].status = "failed"

\* ... and what a callback has seen in shouldStartWebhookRollout stays true.
CheckStaysTrue ==
  \A h \in Hooks : hook[h].pc = "start" =>
    \A p \in Processes :
      (Active(p) /\ proc[p].dep = hook[h].dep) => proc[p].kind = "rollout"

ExclusionInv ==
  /\ TypeOK /\ NoDanglingReferences /\ WorkersOfActive
  /\ PendingUnknown /\ CheckStaysTrue /\ FullExcludesRollout

\* The jobs of a process are attempted in the order of run(): what a worker, a
\* failure or a restart leaves behind never shows a job that began before the
\* one it needs had succeeded.
JobsInOrder ==
  \A p \in Processes : proc[p].status # "absent" =>
    \A j \in 2 .. Len(Plan(p)) :
      job[p][Plan(p)[j]] # "queued" => job[p][Plan(p)[j - 1]] = "succeeded"

\* A process is "succeeded" only when each of its jobs is and, if it builds, when
\* the workflow run it took for its own ended well: whatever the other writers
\* of the deployment did meanwhile.
SucceededIsEarned ==
  \A p \in Processes : proc[p].status = "succeeded" =>
    /\ \A j \in 1 .. Len(Plan(p)) : job[p][Plan(p)[j]] = "succeeded"
    /\ GitHubSource /\ proc[p].kind = "full" =>
         worker[p].run # 0 /\ run[worker[p].run].state = "success"

\* Without Argo CD's notifications, a deployment is "running" only if a process
\* of that deployment got as far as its rollout, everything before it done,
\* whichever of the five writers wrote last.
RunningWasRolledOut ==
  ~ArgoHooks => \A d \in Deployments : dep[d].status = "running" =>
    \E p \in Processes :
      /\ proc[p].dep = d /\ job[p]["argocd"] = "succeeded"
      /\ job[p]["rollout"] \in {"running", "succeeded", "failed"}

Built(image) == \E r \in Runs : run[r].state = "success" /\ run[r].image = image

\* The cluster and the GitOps repository only ever get an image that a workflow
\* run built to the end, through workers, reconciliations, callbacks, Argo CD
\* and restarts, until a run, or its callback, is taken for that of another
\* dispatch (waitForRun goes by the time, a callback by image and tag).
DeployedImageWasBuilt ==
  GitHubSource /\ ~misattributed =>
    \A image \in {gitImage, clusterImage} \ {0} : Built(image)

\* A deployment does not stay "building": its worker, the watcher or the ticker
\* sees the end of the run, restarts included.
BuildingResolves ==
  \A d \in Deployments : dep[d].status = "building" ~> dep[d].status # "building"

\* A process that runs ends, unless the controller is restarted or its worker
\* could not even read the row of the process.
NeverRead(p) == worker[p].pc = "gone" /\ \A n \in JobNames : job[p][n] \in {"absent", "queued"}

ProcessTerminates ==
  \A p \in Processes :
    proc[p].status = "running" ~>
      (proc[p].status \in {"succeeded", "failed"} \/ crashes > 0 \/ NeverRead(p))

\* The tables of processes keep the promises of ProcessRecords.
Records == INSTANCE ProcessRecords WITH
  Processes <- Processes,
  JobNames  <- JobNames,
  Plans     <- {<<"validate", "network", "argocd", "rollout", "connectivity">>,
                <<"validate", "network", "github_workflow", "github_dispatch",
                  "argocd", "rollout", "connectivity">>},
  status    <- [p \in Processes |-> proc[p].status],
  plan      <- [p \in Processes |-> IF proc[p].status = "absent" THEN <<>> ELSE Plan(p)],
  jobs      <- job

KeepsRecords == Records!Spec
=============================================================================
