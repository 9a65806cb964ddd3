------------------------- MODULE ManagedBasaltPass -------------------------
(***************************************************************************)
(* The deployment of a BasaltPass that the controller manages: a process   *)
(* with six jobs whose worker applies the runtime to the cluster, waits    *)
(* for it, creates a tenant in it and stores the credential of the tenant. *)
(* Deployments may share a namespace; errors of the database are ignored   *)
(* in the records of the process; a restart ends a worker.                 *)
(***************************************************************************)
EXTENDS Integers, Sequences, FiniteSets

CONSTANTS
  Instances,      \* deployments that are asked for
  SpaceOf,        \* SpaceOf[d]: the namespace of a deployment
  Vias,           \* who creates the tenant: "instance" (a service token or the
                  \* platform administrator) or "management"
  MaxErrors,      \* bound on writes of records that fail
  MaxRestarts     \* bound on restarts

ASSUME ManagedAssumption == MaxErrors \in Nat /\ MaxRestarts \in Nat

Steps == <<"validate", "runtime", "dns", "health", "tenant", "store">>

VARIABLES
  via,        \* via[d]: how the request lets the tenant be created
  process,    \* process[d]: the status of the process
  jobs,       \* jobs[d][i]: the status of job i
  worker,     \* worker[d]: the step at hand, the job in `active`, what comes next
  runtime,    \* runtime[ns]: the deployment that the objects of ns come from
  tenants,    \* pairs: the tenant of the first is in the database of the second
  stored,     \* deployments whose credential and owner are stored
  recordErrors,
  restarts

managedVars ==
  <<via, process, jobs, worker, runtime, tenants, stored, recordErrors, restarts>>

NoWorker == [pc |-> "none", step |-> 1, active |-> 0]
Spaces == {SpaceOf[d] : d \in Instances}

ManagedInit ==
  /\ via \in [Instances -> Vias]
  /\ process = [d \in Instances |-> "absent"]
  /\ jobs = [d \in Instances |-> [i \in 1..Len(Steps) |-> "absent"]]
  /\ worker = [d \in Instances |-> NoWorker]
  /\ runtime = [ns \in Spaces |-> "none"]
  /\ tenants = {} /\ stored = {} /\ recordErrors = 0 /\ restarts = 0

\* A write of a record takes effect, or fails and is ignored.
Recorded(ok) ==
  /\ ok \/ recordErrors < MaxErrors
  /\ recordErrors' = recordErrors + (IF ok THEN 0 ELSE 1)

Turns(d, pc) == worker' = [worker EXCEPT ![d].pc = pc]
At(d, pc) == worker[d].pc = pc
In(d, step) == At(d, "work") /\ Steps[worker[d].step] = step

\* CreateBasaltPassDeploymentProcess: the process and its jobs in one transaction.
CreateProcessOf(d) ==
  /\ process[d] = "absent"
  /\ process' = [process EXCEPT ![d] = "queued"]
  /\ jobs' = [jobs EXCEPT ![d] = [i \in 1..Len(Steps) |-> "queued"]]
  /\ worker' = [worker EXCEPT ![d].pc = "boot"]
  /\ UNCHANGED <<via, runtime, tenants, stored, recordErrors, restarts>>

BootDeployment(d) ==
  /\ At(d, "boot")
  /\ \E ok \in BOOLEAN :
       /\ Recorded(ok)
       /\ process' = [process EXCEPT ![d] = IF ok THEN "running" ELSE @]
  /\ Turns(d, "start")
  /\ UNCHANGED <<via, jobs, runtime, tenants, stored, restarts>>

\* log: another step begins: the job at hand has succeeded ...
FinishJob(d) ==
  /\ At(d, "finish")
  /\ \E ok \in BOOLEAN :
       /\ Recorded(ok \/ worker[d].active = 0)
       /\ jobs' = IF ok /\ worker[d].active # 0
                  THEN [jobs EXCEPT ![d][worker[d].active] = "succeeded"] ELSE jobs
  /\ Turns(d, "start")
  /\ UNCHANGED <<via, process, runtime, tenants, stored, restarts>>

\* Variant: the job that is started is the one that follows.
StartJobAfter(d) ==
  /\ At(d, "start")
  /\ jobs' = [jobs EXCEPT ![d] = [i \in DOMAIN @ |-> IF i = worker[d].step + 1 THEN "running" ELSE @[i]]]
  /\ worker' = [worker EXCEPT ![d].pc = "work", ![d].active = worker[d].step + 1]
  /\ UNCHANGED <<via, process, runtime, tenants, stored, recordErrors, restarts>>

\* ... and the next is started.  When it cannot be, the work goes on without a
\* job of its own.
StartJob(d) ==
  /\ At(d, "start")
  /\ \E ok \in BOOLEAN :
       /\ Recorded(ok)
       /\ jobs' = IF ok THEN [jobs EXCEPT ![d][worker[d].step] = "running"] ELSE jobs
       /\ worker' = [worker EXCEPT ![d].pc = "work",
                       ![d].active = IF ok THEN worker[d].step ELSE @]
  /\ UNCHANGED <<via, process, runtime, tenants, stored, restarts>>

NextStep(d) ==
  worker' = [worker EXCEPT ![d].pc = "finish", ![d].step = @ + 1]

\* The request is normalised and the database credential is one of the user's.
CheckRequest(d) ==
  /\ In(d, "validate") /\ NextStep(d)
  /\ UNCHANGED <<via, process, jobs, runtime, tenants, stored, recordErrors, restarts>>

\* The images are copied to the registry and the pull secret is written: what
\* that leaves is the matter of PullRobots.
PrepareImages(d) ==
  /\ In(d, "runtime") /\ Turns(d, "apply")
  /\ UNCHANGED <<via, process, jobs, runtime, tenants, stored, recordErrors, restarts>>

\* The record of the host, when the request asks for one.
WriteDNS(d) ==
  /\ In(d, "dns") /\ NextStep(d)
  /\ UNCHANGED <<via, process, jobs, runtime, tenants, stored, recordErrors, restarts>>

\* The objects of the namespace become those of this deployment, with its
\* database.
ApplyRuntime(d) ==
  /\ At(d, "apply")
  /\ runtime' = [runtime EXCEPT ![SpaceOf[d]] = d]
  /\ NextStep(d)
  /\ UNCHANGED <<via, process, jobs, tenants, stored, recordErrors, restarts>>

\* waitForBasaltPassHealth: whatever answers in the namespace.
HealthAnswers(d) ==
  /\ In(d, "health") /\ runtime[SpaceOf[d]] # "none"
  /\ NextStep(d)
  /\ UNCHANGED <<via, process, jobs, runtime, tenants, stored, recordErrors, restarts>>

\* Where the tenant comes about.
TenantIn(d) == IF via[d] = "instance" THEN runtime[SpaceOf[d]] ELSE "management"

\* createBasaltPassTenant: a code can be taken once in a database.
CreateTenant(d) ==
  /\ In(d, "tenant") /\ <<d, TenantIn(d)>> \notin tenants
  /\ tenants' = tenants \cup {<<d, TenantIn(d)>>}
  /\ NextStep(d)
  /\ UNCHANGED <<via, process, jobs, runtime, stored, recordErrors, restarts>>

\* The credential and the role of its owner in one transaction.
StoreInstance(d) ==
  /\ In(d, "store")
  /\ stored' = stored \cup {d}
  /\ Turns(d, "succeed")
  /\ UNCHANGED <<via, process, jobs, runtime, tenants, recordErrors, restarts>>

\* Variant: a tenant that cannot be created is no reason to stop.
StepFailsGoesOn(d) ==
  /\ At(d, "work") \/ At(d, "apply")
  /\ IF In(d, "tenant") THEN NextStep(d) ELSE Turns(d, "fail")
  /\ UNCHANGED <<via, process, jobs, runtime, tenants, stored, recordErrors, restarts>>

\* Any step may fail; objects may have been applied and a tenant created by a
\* request whose answer is lost or that names no token.
StepFails(d) ==
  /\ At(d, "work") \/ At(d, "apply")
  /\ \/ UNCHANGED <<runtime, tenants>>
     \/ At(d, "apply") /\ runtime' = [runtime EXCEPT ![SpaceOf[d]] = d] /\ UNCHANGED tenants
     \/ In(d, "tenant") /\ tenants' = tenants \cup {<<d, TenantIn(d)>>} /\ UNCHANGED runtime
  /\ Turns(d, "fail")
  /\ UNCHANGED <<via, process, jobs, stored, recordErrors, restarts>>

\* The end: the job at hand, and then the process.
EndJob(d) ==
  /\ At(d, "fail") \/ At(d, "succeed")
  /\ LET status == IF At(d, "fail") THEN "failed" ELSE "succeeded" IN
     \E ok \in BOOLEAN :
       /\ Recorded(ok \/ worker[d].active = 0)
       /\ jobs' = IF ok /\ worker[d].active # 0
                  THEN [jobs EXCEPT ![d][worker[d].active] = status] ELSE jobs
       /\ Turns(d, IF At(d, "fail") THEN "failed" ELSE "succeeded")
  /\ UNCHANGED <<via, process, runtime, tenants, stored, restarts>>

EndProcessOf(d) ==
  /\ worker[d].pc \in {"failed", "succeeded"}
  /\ \E ok \in BOOLEAN :
       /\ Recorded(ok)
       /\ process' = [process EXCEPT ![d] = IF ok THEN worker[d].pc ELSE @]
  /\ worker' = [worker EXCEPT ![d] = NoWorker]
  /\ UNCHANGED <<via, jobs, runtime, tenants, stored, restarts>>

\* Nothing takes up a process again.
RestartController ==
  /\ restarts < MaxRestarts /\ \E d \in Instances : ~At(d, "none")
  /\ restarts' = restarts + 1
  /\ worker' = [d \in Instances |-> NoWorker]
  /\ UNCHANGED <<via, process, jobs, runtime, tenants, stored, recordErrors>>

ManagedNext ==
  \/ RestartController
  \/ \E d \in Instances :
       \/ CreateProcessOf(d) \/ BootDeployment(d) \/ FinishJob(d) \/ StartJob(d)
       \/ CheckRequest(d) \/ PrepareImages(d) \/ ApplyRuntime(d) \/ WriteDNS(d)
       \/ HealthAnswers(d) \/ CreateTenant(d)
       \/ StoreInstance(d) \/ StepFails(d) \/ EndJob(d) \/ EndProcessOf(d)

ManagedSpec == ManagedInit /\ [][ManagedNext]_managedVars
-----------------------------------------------------------------------------
ManagedTypeOK ==
  /\ via \in [Instances -> Vias]
  /\ process \in [Instances -> {"absent", "queued", "running", "failed", "succeeded"}]
  /\ jobs \in [Instances -> [1..Len(Steps) ->
                {"absent", "queued", "running", "failed", "succeeded"}]]
  /\ worker \in [Instances ->
       [pc : {"none", "boot", "start", "work", "apply", "finish", "fail", "failed", "succeed", "succeeded"},
        step : 1..Len(Steps), active : 0..Len(Steps)]]
  /\ runtime \in [Spaces -> Instances \cup {"none"}]
  /\ tenants \subseteq Instances \X (Instances \cup {"management"})
  /\ stored \subseteq Instances
  /\ recordErrors \in 0..MaxErrors /\ restarts \in 0..MaxRestarts

\* How the jobs of a process stand: succeeded ones, then at most one that runs
\* or has failed, then queued ones.
InOrder(d) ==
  \E n \in 0..Len(Steps) :
    /\ \A i \in 1..n : jobs[d][i] = "succeeded"
    /\ \A i \in n + 2 .. Len(Steps) : jobs[d][i] = "queued"

\* What the record of a deployment says is so.  A process that has succeeded has
\* stored the credential, one that has failed has not.  While every record could
\* be written, the jobs went one after another, all of them in a process that
\* has succeeded, and one has failed in a process that has failed.  A stored
\* credential is about a tenant of its own BasaltPass, as long as no other
\* deployment has been applied to the namespace since, and provided that the
\* tenant was not created through the management client.
RecordsTellTheTruth ==
  \A d \in Instances :
    /\ process[d] = "succeeded" => d \in stored
    /\ process[d] = "failed" => d \notin stored
    /\ recordErrors = 0 /\ process[d] # "absent" =>
         /\ InOrder(d)
         /\ process[d] = "succeeded" => \A i \in 1..Len(Steps) : jobs[d][i] = "succeeded"
         /\ process[d] = "failed" => \E i \in 1..Len(Steps) : jobs[d][i] = "failed"
    /\ d \in stored /\ via[d] = "instance" /\ runtime[SpaceOf[d]] = d => <<d, d>> \in tenants
=============================================================================
