---------------------- MODULE DeploymentPipelineProofs ----------------------
(***************************************************************************)
(* Theorems about DeploymentPipeline, for every value of its constants.    *)
(***************************************************************************)
EXTENDS DeploymentPipeline, TLAPS

(* How the rows and goroutines are written.                                *)

LEMMA ImageFacts ==
  ASSUME NEW t \in Nat
  PROVE  ClockImage(t) \in Images /\ CommitImage(t) \in Images
  BY DEF ClockImage, CommitImage, Images

LEMMA InsertDepType ==
  ASSUME EnvTypeOK, DepTypeOK, NEW status \in DepStatus, NEW image \in Images,
         InsertDep(status, image)
  PROVE  DepTypeOK' /\ depCount + 1 \in Deployments
  BY BoundsAssumption DEF EnvTypeOK, DepTypeOK, InsertDep, Deployments

LEMMA FailDepType ==
  ASSUME DepTypeOK, NEW d, FailDep(d)
  PROVE  DepTypeOK'
  BY DEF DepTypeOK, FailDep, DepStatus

LEMMA MarkDepType ==
  ASSUME DepTypeOK, NEW d, NEW status \in DepStatus, NEW image \in Images,
         MarkDep(d, status, image)
  PROVE  DepTypeOK'
  BY DEF DepTypeOK, MarkDep

LEMMA InsertProcessType ==
  ASSUME ProcTypeOK, NEW d \in Actors, NEW kind \in {"full", "rollout"},
         InsertProcess(d, kind)
  PROVE  ProcTypeOK' /\ procCount + 1 \in Processes
  <1>1. procCount' \in 0 .. MaxProcesses /\ procCount + 1 \in Processes
    BY BoundsAssumption DEF ProcTypeOK, InsertProcess, Processes
  <1>2. proc' \in [Processes -> [status : ProcStatus, dep : Actors, kind : {"full", "rollout"}]]
    BY DEF ProcTypeOK, InsertProcess, ProcStatus
  <1>3. [n \in JobNames |-> IF n \in JobRows(kind) THEN "queued" ELSE "absent"]
          \in [JobNames -> JobStatus]
    BY DEF JobStatus
  <1>4. job' \in [Processes -> [JobNames -> JobStatus]]
    BY <1>3 DEF ProcTypeOK, InsertProcess
  <1>5. QED
    BY <1>1, <1>2, <1>4 DEF ProcTypeOK

LEMMA StartWorkerType ==
  ASSUME WorkerTypeOK, NEW p, NEW pc \in WorkerPc, StartWorker(p, pc), creating' \subseteq creating
  PROVE  WorkerTypeOK'
  BY DEF WorkerTypeOK, StartWorker

LEMMA GoToType ==
  ASSUME WorkerTypeOK, NEW p, NEW pc \in WorkerPc, GoTo(p, pc), creating' = creating
  PROVE  WorkerTypeOK'
  BY DEF WorkerTypeOK, GoTo

LEMMA JobSucceedsType ==
  ASSUME ProcTypeOK, WorkerTypeOK, NEW p \in Processes, NEW image \in Images,
         JobSucceeds(p, image), creating' = creating
  PROVE  ProcTypeOK' /\ WorkerTypeOK'
  <1>1. \A n \in JobNames : job'[p][n] \in JobStatus
    BY DEF ProcTypeOK, JobSucceeds, JobStatus
  <1>2. job' \in [Processes -> [JobNames -> JobStatus]]
    BY <1>1 DEF ProcTypeOK, JobSucceeds, JobStatus
  <1>3. ProcTypeOK'
    BY <1>2 DEF ProcTypeOK, JobSucceeds
  <1>4. WorkerTypeOK'
    <2> DEFINE more == worker[p].step + 1 <= Len(Plan(p))
               pc == IF more THEN "body" ELSE "end"
    <2>1. pc \in WorkerPc /\ worker[p].step + 1 \in Nat
      BY DEF WorkerTypeOK, WorkerPc
    <2>2. worker' = [worker EXCEPT ![p].step = worker[p].step + 1, ![p].image = image,
                                   ![p].pc = pc]
      BY DEF JobSucceeds
    <2> HIDE DEF pc
    <2>3. QED
      BY <2>1, <2>2 DEF WorkerTypeOK
  <1>5. QED
    BY <1>3, <1>4

LEMMA JobDoneType ==
  ASSUME ProcTypeOK, WorkerTypeOK, NEW p \in Processes, NEW image \in Images,
         JobDone(p, image), creating' = creating
  PROVE  ProcTypeOK' /\ WorkerTypeOK'
  <1>1. CASE JobSucceeds(p, image)
    BY <1>1, JobSucceedsType
  <1>2. CASE NextJobFails(p)
    <2>1. ProcTypeOK'
      BY <1>2 DEF ProcTypeOK, NextJobFails, JobStatus
    <2>2. WorkerTypeOK'
      <3>1. worker[p].step + 1 \in Nat /\ "failing" \in WorkerPc
        BY DEF WorkerTypeOK, WorkerPc
      <3>2. QED
        BY <1>2, <3>1 DEF WorkerTypeOK, NextJobFails
    <2>3. QED
      BY <2>1, <2>2
  <1>3. CASE GoTo(p, "failing") /\ UNCHANGED procVars
    BY <1>3, GoToType DEF ProcTypeOK, procVars, WorkerPc
  <1>4. QED
    BY <1>1, <1>2, <1>3 DEF JobDone

LEMMA JobFailsType ==
  ASSUME ProcTypeOK, WorkerTypeOK, NEW p \in Processes, JobFails(p), creating' = creating
  PROVE  ProcTypeOK' /\ WorkerTypeOK'
  <1>1. ProcTypeOK'
    BY DEF ProcTypeOK, JobFails, JobStatus
  <1>2. WorkerTypeOK'
    BY DEF WorkerTypeOK, JobFails, WorkerPc
  <1>3. QED
    BY <1>1, <1>2

LEMMA ReconToType ==
  ASSUME ReconTypeOK, NEW a, NEW pc \in ReconPc, ReconTo(a, pc), todo' = todo
  PROVE  ReconTypeOK'
  <1> DEFINE Rec == [pc : ReconPc, dep : Actors, run : {0} \cup Runs, image : Images, since : Nat]
  <1>1. \A r \in Rec : [r EXCEPT !.pc = pc] \in Rec
    OBVIOUS
  <1>2. recon \in [Actors -> Rec] /\ recon' = [recon EXCEPT ![a] = [recon[a] EXCEPT !.pc = pc]]
    BY DEF ReconTypeOK, ReconTo
  <1> HIDE DEF Rec
  <1>3. recon' \in [Actors -> Rec]
    BY <1>1, <1>2
  <1>4. QED
    BY <1>3 DEF ReconTypeOK, Rec

LEMMA ReconDoneType ==
  ASSUME ReconTypeOK, NEW a, ReconDone(a), todo' = todo
  PROVE  ReconTypeOK'
  <1>1. IdleRec \in [pc : ReconPc, dep : Actors, run : {0} \cup Runs, image : Images, since : Nat]
    BY DEF IdleRec, ReconPc, Actors, Images
  <1>2. QED
    BY <1>1 DEF ReconTypeOK, ReconDone

LEMMA HookToType ==
  ASSUME HookTypeOK, NEW h, NEW pc \in HookPc, HookTo(h, pc), builder' = builder
  PROVE  HookTypeOK'
  BY DEF HookTypeOK, HookTo

LEMMA HookReturnsType ==
  ASSUME HookTypeOK, NEW h, HookReturns(h), builder' = builder
  PROVE  HookTypeOK'
  BY DEF HookTypeOK, HookReturns, IdleHook, HookPc, Actors, Images

LEMMA KeptTypes ==
  /\ EnvTypeOK /\ UNCHANGED envVars => EnvTypeOK'
  /\ DepTypeOK /\ UNCHANGED depVars => DepTypeOK'
  /\ ProcTypeOK /\ UNCHANGED procVars => ProcTypeOK'
  /\ ImageTypeOK /\ UNCHANGED imageVars => ImageTypeOK'
  /\ GitHubTypeOK /\ UNCHANGED githubVars => GitHubTypeOK'
  /\ WorkerTypeOK /\ UNCHANGED <<creating, worker>> => WorkerTypeOK'
  /\ ReconTypeOK /\ UNCHANGED <<recon, todo>> => ReconTypeOK'
  /\ HookTypeOK /\ UNCHANGED <<hook, builder>> => HookTypeOK'
  BY DEF EnvTypeOK, DepTypeOK, ProcTypeOK, ImageTypeOK, GitHubTypeOK, WorkerTypeOK,
     ReconTypeOK, HookTypeOK, clockVars, envVars, depVars, procVars, imageVars, githubVars

\* Whatever run is taken for whose, the clock and the history keep their types.
LEMMA TakenForType ==
  ASSUME EnvTypeOK, UNCHANGED clockVars, NEW built, NEW image,
         TakenFor(built, image)
  PROVE  EnvTypeOK'
  BY DEF EnvTypeOK, clockVars, TakenFor

-----------------------------------------------------------------------------
(* Every action keeps the types.                                           *)

LEMMA ApiTypes ==
  ASSUME TypeOK
  PROVE  /\ CreateDeployment => TypeOK'
         /\ \A d \in Deployments : CreateProcess(d) => TypeOK'
         /\ Rollback => TypeOK'
         /\ StartDispatch => TypeOK'
         /\ StartRecord => TypeOK'
  <1>1. CreateDeployment => TypeOK'
    <2> SUFFICES ASSUME CreateDeployment PROVE TypeOK'
      OBVIOUS
    <2>1. "queued" \in DepStatus /\ (IF GitHubSource THEN ClockImage(now) ELSE 0) \in Images
      BY ImageFacts DEF TypeOK, EnvTypeOK, DepStatus, Images
    <2>2. DepTypeOK' /\ depCount + 1 \in Deployments
      BY <2>1, InsertDepType DEF TypeOK, CreateDeployment
    <2>3. WorkerTypeOK'
      BY <2>2 DEF TypeOK, CreateDeployment, WorkerTypeOK
    <2>4. QED
      BY <2>2, <2>3, KeptTypes DEF TypeOK, CreateDeployment
  <1>2. ASSUME NEW d \in Deployments, CreateProcess(d) PROVE TypeOK'
    <2>1. "full" \in {"full", "rollout"} /\ {"boot", "gone"} \subseteq WorkerPc
          /\ d \in Actors /\ creating' \subseteq creating
      BY <1>2 DEF WorkerPc, Actors, CreateProcess
    <2>2. ProcTypeOK'
      BY <1>2, <2>1, InsertProcessType, KeptTypes DEF TypeOK, CreateProcess
    <2>3. WorkerTypeOK'
      <3>1. CASE UNCHANGED worker
        BY <2>1, <3>1 DEF TypeOK, WorkerTypeOK
      <3>2. CASE \E pc \in {"boot", "gone"} : StartWorker(procCount + 1, pc)
        BY <2>1, <3>2, StartWorkerType DEF TypeOK
      <3>3. QED
        BY <1>2, <3>1, <3>2 DEF CreateProcess
    <2>4. DepTypeOK'
      BY <1>2, FailDepType, KeptTypes DEF TypeOK, CreateProcess
    <2>5. QED
      BY <1>2, <2>2, <2>3, <2>4, KeptTypes DEF TypeOK, CreateProcess
  <1>3. Rollback => TypeOK'
    <2> SUFFICES ASSUME Rollback PROVE TypeOK'
      OBVIOUS
    <2>1. "deploying" \in DepStatus /\ 0 \in Images
      BY DEF DepStatus, Images
    <2>2. DepTypeOK'
      BY <2>1, InsertDepType DEF TypeOK, Rollback
    <2>3. QED
      BY <2>2, KeptTypes DEF TypeOK, Rollback
  <1>4. StartDispatch => TypeOK'
    <2> SUFFICES ASSUME StartDispatch PROVE TypeOK'
      OBVIOUS
    <2>1. ClockImage(now) \in Images /\ now \in Nat
      BY ImageFacts DEF TypeOK, EnvTypeOK
    <2>2. GitHubTypeOK'
      BY <2>1 DEF TypeOK, GitHubTypeOK, StartDispatch
    <2>3. HookTypeOK'
      BY <2>1 DEF TypeOK, HookTypeOK, StartDispatch
    <2>4. QED
      BY <2>2, <2>3, KeptTypes DEF TypeOK, StartDispatch
  <1>5. StartRecord => TypeOK'
    <2> SUFFICES ASSUME StartRecord PROVE TypeOK'
      OBVIOUS
    <2>1. "building" \in DepStatus /\ builder.image \in Images /\ builder.since \in Nat
      BY DEF TypeOK, HookTypeOK, DepStatus
    <2>2. DepTypeOK' /\ depCount + 1 \in Deployments
      BY <2>1, InsertDepType DEF TypeOK, StartRecord
    <2>3. [pc |-> "load", dep |-> depCount + 1, run |-> 0, image |-> 0, since |-> builder.since]
            \in [pc : ReconPc, dep : Actors, run : {0} \cup Runs, image : Images, since : Nat]
      BY <2>1, <2>2 DEF ReconPc, Actors, Images
    <2>4. ReconTypeOK'
      BY <2>3 DEF TypeOK, ReconTypeOK, StartRecord
    <2>5. HookTypeOK'
      BY DEF TypeOK, HookTypeOK, StartRecord, IdleBuilder, Images
    <2>6. QED
      BY <2>2, <2>4, <2>5, KeptTypes DEF TypeOK, StartRecord
  <1>6. QED
    BY <1>1, <1>2, <1>3, <1>4, <1>5

LEMMA InsertRunType ==
  ASSUME EnvTypeOK, GitHubTypeOK, NEW image \in Images, NEW event \in {"push", "dispatch"},
         InsertRun(image, event), requests' \subseteq requests
  PROVE  GitHubTypeOK'
  <1>1. [state |-> "started", image |-> image, at |-> now, event |-> event, call |-> "none"]
          \in [state : {"absent", "started", "success", "failure"}, image : Images, at : Nat,
               event : {"push", "dispatch"}, call : {"none", "sent", "lost", "taken"}]
    BY DEF EnvTypeOK
  <1>2. runCount' \in 0 .. MaxRuns
    BY BoundsAssumption DEF GitHubTypeOK, InsertRun
  <1>3. QED
    BY <1>1, <1>2 DEF GitHubTypeOK, InsertRun

LEMMA GitHubTypes ==
  ASSUME TypeOK
  PROVE  /\ RunStarts => TypeOK'
         /\ RunLost => TypeOK'
         /\ Push => TypeOK'
         /\ \A r \in Runs : RunConcludes(r) => TypeOK'
  <1>1. RunStarts => TypeOK'
    <2> SUFFICES ASSUME NEW q \in requests, InsertRun(q.image, "dispatch"), RunStarts,
                        requests' \subseteq requests
                 PROVE  TypeOK'
      BY DEF RunStarts
    <2>1. q.image \in Images
      BY DEF TypeOK, GitHubTypeOK
    <2>2. GitHubTypeOK'
      BY <2>1, InsertRunType DEF TypeOK
    <2>3. QED
      BY <2>2, KeptTypes DEF TypeOK, RunStarts
  <1>2. RunLost => TypeOK'
    <2> SUFFICES ASSUME RunLost PROVE TypeOK'
      OBVIOUS
    <2>1. GitHubTypeOK'
      BY DEF TypeOK, GitHubTypeOK, RunLost
    <2>2. QED
      BY <2>1, KeptTypes DEF TypeOK, RunLost
  <1>3. Push => TypeOK'
    <2> SUFFICES ASSUME Push PROVE TypeOK'
      OBVIOUS
    <2>1. CommitImage(now) \in Images
      BY ImageFacts DEF TypeOK, EnvTypeOK
    <2>2. GitHubTypeOK'
      BY <2>1, InsertRunType DEF TypeOK, Push
    <2>3. QED
      BY <2>2, KeptTypes DEF TypeOK, Push
  <1>4. ASSUME NEW r \in Runs, RunConcludes(r) PROVE TypeOK'
    <2> PICK state \in {"success", "failure"}, call \in {"sent", "lost"} :
           run' = [run EXCEPT ![r].state = state, ![r].call = call]
      BY <1>4 DEF RunConcludes
    <2>1. run' \in [Runs -> [state : {"absent", "started", "success", "failure"},
                             image : Images, at : Nat, event : {"push", "dispatch"},
                             call : {"none", "sent", "lost", "taken"}]]
      <3>1. run' = [run EXCEPT ![r] = [run[r] EXCEPT !.state = state, !.call = call]]
        OBVIOUS
      <3>2. [run[r] EXCEPT !.state = state, !.call = call]
              \in [state : {"absent", "started", "success", "failure"},
                   image : Images, at : Nat, event : {"push", "dispatch"},
                   call : {"none", "sent", "lost", "taken"}]
        BY DEF TypeOK, GitHubTypeOK
      <3>3. QED
        BY <3>1, <3>2 DEF TypeOK, GitHubTypeOK
    <2>2. GitHubTypeOK'
      BY <1>4, <2>1 DEF TypeOK, GitHubTypeOK, RunConcludes
    <2>3. QED
      BY <1>4, <2>2, KeptTypes DEF TypeOK, RunConcludes
  <1>5. QED
    BY <1>1, <1>2, <1>3, <1>4

LEMMA ReadImage ==
  ASSUME DepTypeOK, NEW d \in Inserted
  PROVE  d \in Deployments /\ dep[d].image \in Images
  BY BoundsAssumption DEF DepTypeOK, Deployments, Inserted

LEMMA WorkerReads ==
  ASSUME TypeOK, NoDanglingReferences, WorkersOfActive, NEW p \in Processes,
         worker[p].pc \notin {"none", "gone"}
  PROVE  /\ proc[p].status # "absent" /\ proc[p].dep \in Inserted
         /\ proc[p].dep \in Deployments /\ dep[proc[p].dep].image \in Images
         /\ worker[p].image \in Images
  <1>1. proc[p].status # "absent"
    BY DEF WorkersOfActive
  <1>2. proc[p].dep \in Inserted
    BY <1>1 DEF NoDanglingReferences
  <1>3. worker[p].image \in Images
    BY DEF TypeOK, WorkerTypeOK
  <1>4. QED
    BY <1>1, <1>2, <1>3, ReadImage DEF TypeOK

LEMMA BootedType ==
  ASSUME WorkerTypeOK, NEW p \in Processes, NEW image \in Images, creating' = creating,
         worker' = [worker EXCEPT ![p].pc = "body", ![p].image = image]
  PROVE  WorkerTypeOK'
  <1> DEFINE W == [pc : WorkerPc, step : Nat, image : Images, run : {0} \cup Runs, since : Nat]
             f == [worker EXCEPT ![p].pc = "body"]
  <1>1. f \in [Processes -> W]
    BY DEF WorkerTypeOK, WorkerPc
  <1>2. worker' = [f EXCEPT ![p] = [f[p] EXCEPT !.image = image]]
    OBVIOUS
  <1>3. [f[p] EXCEPT !.image = image] \in W
    <2> HIDE DEF f
    <2>1. f[p] \in W
      BY <1>1
    <2>2. QED
      BY <2>1
  <1> HIDE DEF f, W
  <1>4. worker' \in [Processes -> W]
    BY <1>1, <1>2, <1>3
  <1>5. QED
    BY <1>4 DEF WorkerTypeOK, W

LEMMA PollingType ==
  ASSUME WorkerTypeOK, NEW p \in Processes, NEW r \in Runs, creating' = creating,
         worker' = [worker EXCEPT ![p].pc = "poll", ![p].run = r, ![p].since = 0]
  PROVE  WorkerTypeOK'
  <1> DEFINE W == [pc : WorkerPc, step : Nat, image : Images, run : {0} \cup Runs, since : Nat]
             f == [worker EXCEPT ![p].pc = "poll"]
             g == [f EXCEPT ![p].run = r]
  <1>1. f \in [Processes -> W]
    BY DEF WorkerTypeOK, WorkerPc
  <1>2. g \in [Processes -> W]
    <2> HIDE DEF f
    <2>1. QED
      BY <1>1
  <1>3. worker' = [g EXCEPT ![p] = [g[p] EXCEPT !.since = 0]]
    OBVIOUS
  <1>4. [g[p] EXCEPT !.since = 0] \in W
    <2> HIDE DEF g
    <2>1. g[p] \in W
      BY <1>2
    <2>2. QED
      BY <2>1
  <1> HIDE DEF g, W
  <1>5. worker' \in [Processes -> W]
    BY <1>2, <1>3, <1>4
  <1>6. QED
    BY <1>5 DEF WorkerTypeOK, W

LEMMA BuildingType ==
  ASSUME DepTypeOK, NEW d, NEW image \in Images, NEW r \in Runs, depCount' = depCount,
         dep' = [dep EXCEPT ![d].status = "building", ![d].image = image, ![d].run = r]
  PROVE  DepTypeOK'
  <1> DEFINE D == [status : DepStatus, image : Images, tag : Images, run : {0} \cup Runs, at : Nat]
             f == [dep EXCEPT ![d] = [dep[d] EXCEPT !.status = "building"]]
             g == [f EXCEPT ![d] = [f[d] EXCEPT !.image = image]]
  <1>1. "building" \in DepStatus
    BY DEF DepStatus
  <1>2. \A row \in D : /\ [row EXCEPT !.status = "building"] \in D
                       /\ [row EXCEPT !.image = image] \in D
                       /\ [row EXCEPT !.run = r] \in D
    BY <1>1
  <1>3. dep \in [Deployments -> D]
    BY DEF DepTypeOK
  <1>4. dep' = [g EXCEPT ![d] = [g[d] EXCEPT !.run = r]]
    OBVIOUS
  <1> HIDE DEF D
  <1>5. \A h \in [Deployments -> D] : \A row :
          (d \in Deployments => row \in D) => [h EXCEPT ![d] = row] \in [Deployments -> D]
    OBVIOUS
  <1>6. f \in [Deployments -> D]
    BY <1>2, <1>3
  <1> HIDE DEF f
  <1>7. g \in [Deployments -> D]
    <2>1. d \in Deployments => [f[d] EXCEPT !.image = image] \in D
      BY <1>2, <1>6
    <2>2. QED
      BY <1>5, <1>6, <2>1
  <1> HIDE DEF g
  <1>8. dep' \in [Deployments -> D]
    <2>1. d \in Deployments => [g[d] EXCEPT !.run = r] \in D
      BY <1>2, <1>7
    <2>2. QED
      BY <1>4, <1>5, <1>7, <2>1
  <1>9. QED
    BY <1>8 DEF DepTypeOK, D

LEMMA WorkerTypes ==
  ASSUME TypeOK, NoDanglingReferences, WorkersOfActive,
         NEW p \in Processes, WorkerStep(p)
  PROVE  TypeOK'
  <1> USE DEF workerRest
  <1>1. CASE Boot(p)
    <2>1. ProcTypeOK'
      <3>1. proc' \in [Processes -> [status : ProcStatus, dep : Actors, kind : {"full", "rollout"}]]
        BY <1>1 DEF TypeOK, ProcTypeOK, Boot, ProcStatus
      <3>2. job' \in [Processes -> [JobNames -> JobStatus]]
        BY <1>1 DEF TypeOK, ProcTypeOK, Boot, JobStatus, GoTo
      <3>3. QED
        BY <1>1, <3>1, <3>2 DEF TypeOK, ProcTypeOK, Boot
    <2>2. WorkerTypeOK'
      <3>1. CASE \E pc \in {"gone", "failing"} : GoTo(p, pc)
        BY <1>1, <3>1, GoToType DEF TypeOK, Boot, WorkerPc
      <3>2. CASE ~\E pc \in {"gone", "failing"} : GoTo(p, pc)
        <4>1. PICK image \in {dep[proc[p].dep].image, projImage} :
                worker' = [worker EXCEPT ![p].pc = "body", ![p].image = image]
          BY <1>1, <3>2 DEF Boot
        <4>2. image \in Images
          BY <1>1, <4>1, WorkerReads DEF TypeOK, ImageTypeOK, Boot
        <4>3. QED
          BY <1>1, <4>1, <4>2, BootedType DEF TypeOK, Boot
      <3>3. QED
        BY <3>1, <3>2
    <2>3. QED
      BY <1>1, <2>1, <2>2, KeptTypes DEF TypeOK, Boot
  <1>2. CASE Validate(p)
    <2>1. ClockImage(now) \in Images /\ worker[p].image \in Images /\ 0 \in Images
      BY <1>2, ImageFacts, WorkerReads DEF TypeOK, EnvTypeOK, Validate, AtBody, Images
    <2>2. (IF GitHubSource /\ proc[p].kind = "full" THEN ClockImage(now) ELSE worker[p].image)
            \in Images
      BY <2>1
    <2>3. ProcTypeOK' /\ WorkerTypeOK'
      BY <1>2, <2>2, JobFailsType, JobDoneType DEF TypeOK, Validate
    <2>4. ImageTypeOK'
      BY <1>2, <2>1 DEF TypeOK, ImageTypeOK, Validate
    <2>5. QED
      BY <1>2, <2>3, <2>4, KeptTypes DEF TypeOK, Validate
  <1>3. CASE NetworkOrWorkflow(p)
    <2>1. worker[p].image \in Images
      BY DEF TypeOK, WorkerTypeOK
    <2>2. ProcTypeOK' /\ WorkerTypeOK'
      BY <1>3, <2>1, JobFailsType, JobDoneType DEF TypeOK, NetworkOrWorkflow
    <2>3. QED
      BY <1>3, <2>2, KeptTypes DEF TypeOK, NetworkOrWorkflow
  <1>4. CASE Dispatch(p)
    <2>1. CASE JobFails(p) /\ UNCHANGED requests
      <3>1. ProcTypeOK' /\ WorkerTypeOK'
        BY <1>4, <2>1, JobFailsType DEF TypeOK, Dispatch
      <3>2. QED
        BY <1>4, <2>1, <3>1, KeptTypes DEF TypeOK, Dispatch, githubVars
    <2>2. CASE ~(JobFails(p) /\ UNCHANGED requests)
      <3>1. worker[p].image \in Images /\ now \in Nat
        BY DEF TypeOK, WorkerTypeOK, EnvTypeOK
      <3>2. GitHubTypeOK'
        BY <1>4, <2>2, <3>1 DEF TypeOK, GitHubTypeOK, Dispatch
      <3>3. WorkerTypeOK'
        BY <1>4, <2>2, <3>1 DEF TypeOK, WorkerTypeOK, Dispatch, WorkerPc
      <3>4. QED
        BY <1>4, <2>2, <3>2, <3>3, KeptTypes DEF TypeOK, Dispatch
    <2>3. QED
      BY <1>4, <2>1, <2>2 DEF Dispatch
  <1>5. CASE WaitForRun(p)
    <2>1. CASE JobFails(p) /\ UNCHANGED <<dep, misattributed>>
      <3>1. ProcTypeOK' /\ WorkerTypeOK'
        BY <1>5, <2>1, JobFailsType DEF TypeOK, WaitForRun
      <3>2. QED
        BY <1>5, <2>1, <3>1, KeptTypes DEF TypeOK, WaitForRun, depVars, envVars
    <2>2. CASE ~(JobFails(p) /\ UNCHANGED <<dep, misattributed>>)
      <3> PICK r \in Runs :
            /\ TakenFor(run[r].image, worker[p].image)
            /\ dep' = [dep EXCEPT ![proc[p].dep].status = "building",
                                  ![proc[p].dep].image = worker[p].image,
                                  ![proc[p].dep].run = r]
            /\ worker' = [worker EXCEPT ![p].pc = "poll", ![p].run = r, ![p].since = 0]
            /\ UNCHANGED procVars
        BY <1>5, <2>2 DEF WaitForRun
      <3>1. DepTypeOK'
        <4>1. worker[p].image \in Images
          BY DEF TypeOK, WorkerTypeOK
        <4>2. QED
          BY <1>5, <4>1, BuildingType DEF TypeOK, WaitForRun
      <3>2. WorkerTypeOK'
        BY <1>5, PollingType DEF TypeOK, WaitForRun
      <3>3. QED
        BY <1>5, <3>1, <3>2, KeptTypes, TakenForType DEF TypeOK, WaitForRun
    <2>3. QED
      BY <2>1, <2>2
  <1>6. CASE PollRun(p)
    <2>1. worker[p].image \in Images
      BY DEF TypeOK, WorkerTypeOK
    <2>2. ProcTypeOK' /\ WorkerTypeOK'
      BY <1>6, <2>1, JobFailsType, JobDoneType DEF TypeOK, PollRun
    <2>3. QED
      BY <1>6, <2>2, KeptTypes DEF TypeOK, PollRun
  <1>7. CASE ArgoNothing(p)
    <2>1. worker[p].image \in Images
      BY DEF TypeOK, WorkerTypeOK
    <2>2. ProcTypeOK' /\ WorkerTypeOK'
      BY <1>7, <2>1, JobDoneType DEF TypeOK, ArgoNothing
    <2>3. QED
      BY <1>7, <2>2, KeptTypes DEF TypeOK, ArgoNothing
  <1>8. CASE ArgoProject(p) \/ ArgoCommit(p)
    <2>1. worker[p].image \in Images /\ {"commit", "mark"} \subseteq WorkerPc
      BY DEF TypeOK, WorkerTypeOK, WorkerPc
    <2>2. ProcTypeOK' /\ WorkerTypeOK'
      BY <1>8, <2>1, JobFailsType, GoToType, KeptTypes DEF TypeOK, ArgoProject, ArgoCommit
    <2>3. ImageTypeOK'
      BY <1>8, <2>1 DEF TypeOK, ImageTypeOK, ArgoProject, ArgoCommit
    <2>4. QED
      BY <1>8, <2>2, <2>3, KeptTypes DEF TypeOK, ArgoProject, ArgoCommit
  <1>9. CASE ArgoMark(p)
    <2>1. worker[p].image \in Images /\ "deploying" \in DepStatus
      BY DEF TypeOK, WorkerTypeOK, DepStatus
    <2>2. ProcTypeOK' /\ WorkerTypeOK'
      BY <1>9, <2>1, JobDoneType DEF TypeOK, ArgoMark
    <2>3. DepTypeOK'
      BY <1>9, <2>1, MarkDepType DEF TypeOK, ArgoMark
    <2>4. QED
      BY <1>9, <2>2, <2>3, KeptTypes DEF TypeOK, ArgoMark
  <1>10. CASE Rollout(p)
    <2>1. worker[p].image \in Images /\ "rolled" \in WorkerPc
      BY DEF TypeOK, WorkerTypeOK, WorkerPc
    <2>2. ProcTypeOK' /\ WorkerTypeOK'
      BY <1>10, <2>1, JobFailsType, GoToType, KeptTypes DEF TypeOK, Rollout
    <2>3. ImageTypeOK'
      BY <1>10, <2>1 DEF TypeOK, ImageTypeOK, Rollout
    <2>4. QED
      BY <1>10, <2>2, <2>3, KeptTypes DEF TypeOK, Rollout
  <1>11. CASE Connectivity(p)
    <2>1. worker[p].image \in Images /\ "running" \in DepStatus /\ dep[proc[p].dep].image \in Images
      BY <1>11, WorkerReads DEF DepStatus, Connectivity, AtBody
    <2>2. ProcTypeOK' /\ WorkerTypeOK'
      BY <1>11, <2>1, JobFailsType, JobDoneType DEF TypeOK, Connectivity
    <2>3. DepTypeOK'
      BY <1>11, <2>1, MarkDepType, FailDepType DEF TypeOK, Connectivity
    <2>4. QED
      BY <1>11, <2>2, <2>3, KeptTypes DEF TypeOK, Connectivity
  <1>12. CASE FailProcess(p) \/ SucceedProcess(p)
    <2>1. PICK status \in {"failed", "succeeded"}, pc \in {"gone", "closing"} :
            EndProcess(p, status, pc)
      BY <1>12 DEF FailProcess, SucceedProcess
    <2>2. ProcTypeOK'
      BY <2>1 DEF TypeOK, ProcTypeOK, EndProcess, ProcStatus
    <2>3. WorkerTypeOK'
      BY <2>1, GoToType DEF TypeOK, EndProcess, WorkerPc
    <2>4. QED
      BY <2>1, <2>2, <2>3, KeptTypes DEF TypeOK, EndProcess
  <1>13. CASE RolloutMark(p)
    <2>1. worker[p].image \in Images /\ "running" \in DepStatus /\ "finish" \in WorkerPc
      BY DEF TypeOK, WorkerTypeOK, DepStatus, WorkerPc
    <2>2. WorkerTypeOK'
      BY <1>13, <2>1, GoToType DEF TypeOK, RolloutMark
    <2>3. DepTypeOK'
      BY <1>13, <2>1, MarkDepType DEF TypeOK, RolloutMark
    <2>4. QED
      BY <1>13, <2>2, <2>3, KeptTypes DEF TypeOK, RolloutMark
  <1>14. CASE FinishRollout(p)
    <2>1. worker[p].image \in Images
      BY DEF TypeOK, WorkerTypeOK
    <2>2. ProcTypeOK' /\ WorkerTypeOK'
      BY <1>14, <2>1, JobDoneType DEF TypeOK, FinishRollout
    <2>3. QED
      BY <1>14, <2>2, KeptTypes DEF TypeOK, FinishRollout
  <1>15. CASE CloseJob(p)
    <2>1. ProcTypeOK'
      BY <1>15 DEF TypeOK, ProcTypeOK, CloseJob, JobStatus
    <2>2. WorkerTypeOK'
      BY <1>15, GoToType DEF TypeOK, CloseJob, WorkerPc
    <2>3. QED
      BY <1>15, <2>1, <2>2, KeptTypes DEF TypeOK, CloseJob
  <1>16. QED
    BY <1>1, <1>2, <1>3, <1>4, <1>5, <1>6, <1>7, <1>8, <1>9, <1>10, <1>11, <1>12, <1>13,
       <1>14, <1>15
    DEF WorkerStep

ReconStates == [pc : ReconPc, dep : Actors, run : {0} \cup Runs, image : Images, since : Nat]

LEMMA ReconUpdateType ==
  ASSUME ReconTypeOK, NEW a, NEW state \in ReconStates, recon' = [recon EXCEPT ![a] = state],
         todo' \subseteq todo
  PROVE  ReconTypeOK'
  BY DEF ReconTypeOK, ReconStates

LEMMA ReconReads ==
  ASSUME TypeOK, NoDanglingReferences, NEW a \in Actors, recon[a].pc # "idle"
  PROVE  /\ recon[a].dep \in Inserted /\ recon[a].dep \in Deployments
         /\ dep[recon[a].dep] \in [status : DepStatus, image : Images, tag : Images,
                                   run : {0} \cup Runs, at : Nat]
         /\ recon[a] \in ReconStates
  BY ReadImage DEF NoDanglingReferences, TypeOK, DepTypeOK, ReconTypeOK, ReconStates

LEMMA ReconTypes ==
  ASSUME TypeOK, NoDanglingReferences
  PROVE  /\ Ticker => TypeOK'
         /\ \A a \in Actors : ReconStep(a) => TypeOK'
  <1> USE DEF reconRest, githubVars
  <1>1. TickerScan => TypeOK'
    <2> SUFFICES ASSUME TickerScan PROVE TypeOK'
      OBVIOUS
    <2>1. ReconTypeOK'
      BY DEF TypeOK, ReconTypeOK, TickerScan, Building
    <2>2. QED
      BY <2>1, KeptTypes DEF TypeOK, TickerScan
  <1>2. TickerNext => TypeOK'
    <2> SUFFICES ASSUME TickerNext PROVE TypeOK'
      OBVIOUS
    <2> PICK d \in todo :
          /\ recon' = [recon EXCEPT ![0] =
               [pc |-> "load", dep |-> d, run |-> 0, image |-> 0, since |-> dep[d].at]]
          /\ todo' = todo \ {d}
      BY DEF TickerNext
    <2>1. d \in Deployments /\ dep[d].at \in Nat
      BY DEF TypeOK, ReconTypeOK, DepTypeOK
    <2>2. [pc |-> "load", dep |-> d, run |-> 0, image |-> 0, since |-> dep[d].at] \in ReconStates
      BY <2>1 DEF ReconStates, ReconPc, Actors, Images
    <2>3. ReconTypeOK'
      BY <2>2, ReconUpdateType DEF TypeOK
    <2>4. QED
      BY <2>3, KeptTypes DEF TypeOK, TickerNext
  <1>3. ASSUME NEW a \in Actors, ReconLoad(a) PROVE TypeOK'
    <2> DEFINE d == recon[a].dep
    <2>1. ReconTypeOK'
      <3>1. CASE ReconDone(a)
        BY <1>3, <3>1, ReconDoneType DEF TypeOK, ReconLoad
      <3>2. CASE ReconTo(a, "fail")
        BY <1>3, <3>2, ReconToType DEF TypeOK, ReconLoad, ReconPc
      <3>3. CASE recon' = [recon EXCEPT ![a].run = dep[d].run, ![a].image = dep[d].image,
                             ![a].pc = IF dep[d].run = 0 THEN "wait" ELSE "poll"]
        <4>1. recon[a] \in ReconStates /\ dep[d].run \in {0} \cup Runs /\ dep[d].image \in Images
          BY <1>3, ReconReads DEF ReconLoad
        <4>2. (IF dep[d].run = 0 THEN "wait" ELSE "poll") \in ReconPc
          BY DEF ReconPc
        <4>3. recon' = [recon EXCEPT ![a] = [recon[a] EXCEPT !.run = dep[d].run,
                !.image = dep[d].image, !.pc = IF dep[d].run = 0 THEN "wait" ELSE "poll"]]
          BY <3>3
        <4>4. [recon[a] EXCEPT !.run = dep[d].run, !.image = dep[d].image,
                 !.pc = IF dep[d].run = 0 THEN "wait" ELSE "poll"] \in ReconStates
          BY <4>1, <4>2 DEF ReconStates
        <4>5. QED
          BY <1>3, <4>3, <4>4, ReconUpdateType DEF TypeOK, ReconLoad
      <3>4. QED
        BY <1>3, <3>1, <3>2, <3>3 DEF ReconLoad
    <2>2. QED
      BY <1>3, <2>1, KeptTypes DEF TypeOK, ReconLoad
  <1>4. ASSUME NEW a \in Actors, ReconWait(a) PROVE TypeOK'
    <2>1. CASE ReconTo(a, "fail") /\ UNCHANGED <<dep, misattributed>>
      <3>1. ReconTypeOK'
        BY <1>4, <2>1, ReconToType DEF TypeOK, ReconWait, ReconPc
      <3>2. QED
        BY <1>4, <2>1, <3>1, KeptTypes DEF TypeOK, ReconWait, depVars, envVars
    <2>2. CASE ~(ReconTo(a, "fail") /\ UNCHANGED <<dep, misattributed>>)
      <3> PICK r \in Runs :
            /\ TakenFor(run[r].image, recon[a].image)
            /\ recon' = [recon EXCEPT ![a].pc = "poll", ![a].run = r, ![a].since = 0]
            /\ dep' = [dep EXCEPT ![recon[a].dep].run = r]
        BY <1>4, <2>2 DEF ReconWait
      <3>1. recon[a] \in ReconStates
        BY <1>4, ReconReads DEF ReconWait
      <3>2. recon' = [recon EXCEPT ![a] = [recon[a] EXCEPT !.pc = "poll", !.run = r, !.since = 0]]
        OBVIOUS
      <3>3. [recon[a] EXCEPT !.pc = "poll", !.run = r, !.since = 0] \in ReconStates
        BY <3>1 DEF ReconStates, ReconPc
      <3>4. ReconTypeOK'
        BY <1>4, <3>2, <3>3, ReconUpdateType DEF TypeOK, ReconWait
      <3>5. DepTypeOK'
        <4>1. dep \in [Deployments -> [status : DepStatus, image : Images, tag : Images,
                                       run : {0} \cup Runs, at : Nat]]
          BY DEF TypeOK, DepTypeOK
        <4>2. dep' \in [Deployments -> [status : DepStatus, image : Images, tag : Images,
                                        run : {0} \cup Runs, at : Nat]]
          BY <4>1
        <4>3. UNCHANGED depCount
          BY <1>4 DEF ReconWait
        <4>4. QED
          BY <4>2, <4>3 DEF TypeOK, DepTypeOK
      <3>6. QED
        BY <1>4, <3>4, <3>5, KeptTypes, TakenForType DEF TypeOK, ReconWait
    <2>3. QED
      BY <2>1, <2>2
  <1>5. ASSUME NEW a \in Actors, ReconPoll(a) PROVE TypeOK'
    <2>1. recon[a].image \in Images /\ {"fail", "tag"} \subseteq ReconPc
      BY <1>5 DEF TypeOK, ReconTypeOK, ReconPc
    <2>2. ReconTypeOK'
      BY <1>5, <2>1, ReconToType, ReconDoneType DEF TypeOK, ReconPoll
    <2>3. ImageTypeOK'
      BY <1>5, <2>1 DEF TypeOK, ImageTypeOK, ReconPoll
    <2>4. QED
      BY <1>5, <2>2, <2>3, KeptTypes DEF TypeOK, ReconPoll
  <1>6. ASSUME NEW a \in Actors, ReconTag(a) PROVE TypeOK'
    <2>1. recon[a].image \in Images /\ {"fail", "mark"} \subseteq ReconPc
      BY <1>6 DEF TypeOK, ReconTypeOK, ReconPc
    <2>2. ReconTypeOK'
      BY <1>6, <2>1, ReconToType DEF TypeOK, ReconTag
    <2>3. ImageTypeOK'
      BY <1>6, <2>1 DEF TypeOK, ImageTypeOK, ReconTag
    <2>4. QED
      BY <1>6, <2>2, <2>3, KeptTypes DEF TypeOK, ReconTag
  <1>7. ASSUME NEW a \in Actors, ReconMark(a) PROVE TypeOK'
    <2>1. recon[a].image \in Images /\ "deploying" \in DepStatus
      BY <1>7 DEF TypeOK, ReconTypeOK, DepStatus
    <2>2. ReconTypeOK' /\ DepTypeOK'
      BY <1>7, <2>1, ReconDoneType, MarkDepType DEF TypeOK, ReconMark
    <2>3. QED
      BY <1>7, <2>2, KeptTypes DEF TypeOK, ReconMark
  <1>8. ASSUME NEW a \in Actors, ReconFail(a) PROVE TypeOK'
    <2>1. ReconTypeOK' /\ DepTypeOK'
      BY <1>8, ReconDoneType, FailDepType DEF TypeOK, ReconFail
    <2>2. QED
      BY <1>8, <2>1, KeptTypes DEF TypeOK, ReconFail
  <1>9. QED
    BY <1>1, <1>2, <1>3, <1>4, <1>5, <1>6, <1>7, <1>8 DEF Ticker, ReconStep

HookStates == [pc : HookPc, image : Images, ok : BOOLEAN, dep : Actors]

LEMMA HookUpdateType ==
  ASSUME HookTypeOK, NEW h, NEW state \in HookStates, hook' = [hook EXCEPT ![h] = state],
         builder' = builder
  PROVE  HookTypeOK'
  BY DEF HookTypeOK, HookStates

LEMMA HookTypes ==
  ASSUME TypeOK, NoDanglingReferences, NEW h \in Hooks
  PROVE  /\ HookStep(h) => TypeOK'
         /\ \A r \in Runs : Deliver(h, r) => TypeOK'
  <1> USE DEF hookRest
  <1>1. hook[h] \in HookStates
    BY DEF TypeOK, HookTypeOK, HookStates
  <1>2. hook[h].image \in Images /\ hook[h].dep \in Actors
    BY <1>1 DEF HookStates
  <1>3. ASSUME HookMatch(h) PROVE TypeOK'
    <2>1. HookTypeOK'
      <3>1. CASE HookReturns(h)
        BY <1>3, <3>1, HookReturnsType DEF TypeOK, HookMatch
      <3>2. CASE HookTo(h, "write")
        BY <1>3, <3>2, HookToType DEF TypeOK, HookMatch, HookPc
      <3>3. CASE \E d \in Building : hook' = [hook EXCEPT ![h].pc = "write", ![h].dep = d]
        <4> PICK d \in Building : hook' = [hook EXCEPT ![h].pc = "write", ![h].dep = d]
          BY <3>3
        <4>1. hook' = [hook EXCEPT ![h] = [hook[h] EXCEPT !.pc = "write", !.dep = d]]
          OBVIOUS
        <4>2. [hook[h] EXCEPT !.pc = "write", !.dep = d] \in HookStates
          BY <1>1 DEF HookStates, HookPc, Actors, Building
        <4>3. QED
          BY <1>3, <4>1, <4>2, HookUpdateType DEF TypeOK, HookMatch
      <3>4. QED
        BY <1>3, <3>1, <3>2, <3>3 DEF HookMatch, Named
    <2>2. EnvTypeOK'
      BY <1>3, KeptTypes, TakenForType DEF TypeOK, HookMatch, envVars
    <2>3. QED
      BY <1>3, <2>1, <2>2, KeptTypes DEF TypeOK, HookMatch, githubVars
  <1>4. ASSUME HookWrite(h) PROVE TypeOK'
    <2> DEFINE d == hook[h].dep
               status == IF hook[h].ok THEN "deploying" ELSE "failed"
               target == IF d = 0 THEN depCount + 1 ELSE d
    <2>1. status \in DepStatus
      BY DEF DepStatus
    <2>2. DepTypeOK' /\ target \in Actors
      <3>1. CASE d # 0
        <4>1. dep' = [dep EXCEPT ![d].status = status, ![d].image = hook[h].image,
                                 ![d].tag = hook[h].image] /\ depCount' = depCount
          BY <1>4, <3>1 DEF HookWrite
        <4> HIDE DEF status
        <4>2. QED
          BY <1>2, <2>1, <3>1, <4>1 DEF TypeOK, DepTypeOK
      <3>2. CASE d = 0
        <4>1. InsertDep(status, hook[h].image)
          BY <1>4, <3>2 DEF HookWrite
        <4>2. QED
          BY <1>2, <2>1, <3>2, <4>1, InsertDepType DEF TypeOK, Actors
      <3>3. QED
        BY <3>1, <3>2
    <2>3. HookTypeOK'
      <3>1. CASE hook[h].ok
        <4>1. hook' = [hook EXCEPT ![h] = [hook[h] EXCEPT !.pc = "project", !.dep = target]]
          BY <1>4, <3>1 DEF HookWrite
        <4>2. [hook[h] EXCEPT !.pc = "project", !.dep = target] \in HookStates
          BY <1>1, <2>2 DEF HookStates, HookPc
        <4>3. QED
          BY <1>4, <4>1, <4>2, HookUpdateType DEF TypeOK, HookWrite
      <3>2. CASE ~hook[h].ok
        BY <1>4, <3>2, HookReturnsType DEF TypeOK, HookWrite
      <3>3. QED
        BY <3>1, <3>2
    <2>4. QED
      BY <1>4, <2>2, <2>3, KeptTypes DEF TypeOK, HookWrite, githubVars
  <1>5. ASSUME HookProject(h) PROVE TypeOK'
    <2>1. HookTypeOK'
      BY <1>5, HookToType, HookReturnsType DEF TypeOK, HookProject, HookPc
    <2>2. ImageTypeOK'
      BY <1>2, <1>5 DEF TypeOK, ImageTypeOK, HookProject
    <2>3. QED
      BY <1>5, <2>1, <2>2, KeptTypes DEF TypeOK, HookProject, githubVars
  <1>6. ASSUME HookTag(h) PROVE TypeOK'
    <2>1. HookTypeOK'
      BY <1>6, HookToType, HookReturnsType DEF TypeOK, HookTag, HookPc
    <2>2. ImageTypeOK'
      BY <1>2, <1>6 DEF TypeOK, ImageTypeOK, HookTag
    <2>3. DepTypeOK'
      BY <1>6, FailDepType, KeptTypes DEF TypeOK, HookTag
    <2>4. QED
      BY <1>6, <2>1, <2>2, <2>3, KeptTypes DEF TypeOK, HookTag, githubVars
  <1>7. ASSUME HookCheck(h) PROVE TypeOK'
    <2>1. HookTypeOK'
      BY <1>7, HookToType, HookReturnsType DEF TypeOK, HookCheck, HookPc
    <2>2. QED
      BY <1>7, <2>1, KeptTypes DEF TypeOK, HookCheck, githubVars
  <1>8. ASSUME HookStart(h) PROVE TypeOK'
    <2>1. "rollout" \in {"full", "rollout"} /\ {"boot", "gone"} \subseteq WorkerPc
      BY DEF WorkerPc
    <2>2. ProcTypeOK'
      BY <1>2, <1>8, <2>1, InsertProcessType, KeptTypes DEF TypeOK, HookStart
    <2>3. WorkerTypeOK'
      <3>1. CASE UNCHANGED worker
        BY <1>8, <3>1, KeptTypes DEF TypeOK, HookStart
      <3>2. CASE \E pc \in {"boot", "gone"} : StartWorker(procCount + 1, pc)
        BY <1>8, <2>1, <3>2, StartWorkerType DEF TypeOK, HookStart
      <3>3. QED
        BY <1>8, <3>1, <3>2 DEF HookStart
    <2>4. DepTypeOK'
      BY <1>8, FailDepType, KeptTypes DEF TypeOK, HookStart
    <2>5. HookTypeOK'
      BY <1>8, HookReturnsType DEF TypeOK, HookStart
    <2>6. QED
      BY <1>8, <2>2, <2>3, <2>4, <2>5, KeptTypes DEF TypeOK, HookStart, githubVars
  <1>9. ASSUME NEW r \in Runs, Deliver(h, r) PROVE TypeOK'
    <2>1. GitHubTypeOK'
      BY <1>9 DEF TypeOK, GitHubTypeOK, Deliver
    <2>2. [pc |-> "match", image |-> run[r].image, ok |-> run[r].state = "success", dep |-> 0]
            \in HookStates
      BY DEF TypeOK, GitHubTypeOK, HookStates, HookPc, Actors
    <2>3. HookTypeOK'
      BY <1>9, <2>2, HookUpdateType DEF TypeOK, Deliver
    <2>4. QED
      BY <1>9, <2>1, <2>3, KeptTypes DEF TypeOK, Deliver
  <1>10. QED
    BY <1>3, <1>4, <1>5, <1>6, <1>7, <1>8, <1>9 DEF HookStep

LEMMA EnvironmentTypes ==
  ASSUME TypeOK
  PROVE  /\ ArgoNotifies => TypeOK'
         /\ ArgoSync => TypeOK'
         /\ Tick => TypeOK'
         /\ Crash => TypeOK'
  <1>1. ArgoNotifies => TypeOK'
    <2> SUFFICES ASSUME ArgoNotifies PROVE TypeOK'
      OBVIOUS
    <2> PICK status \in {"running", "deploying"}, rows \in {{depCount}, 1 .. depCount} :
          dep' = [d \in Deployments |->
                    IF d \in rows THEN [dep[d] EXCEPT !.status = status] ELSE dep[d]]
      BY DEF ArgoNotifies
    <2>1. DepTypeOK'
      BY DEF TypeOK, DepTypeOK, ArgoNotifies, DepStatus
    <2>2. QED
      BY <2>1, KeptTypes DEF TypeOK, ArgoNotifies
  <1>2. ArgoSync => TypeOK'
    <2> SUFFICES ASSUME ArgoSync PROVE TypeOK'
      OBVIOUS
    <2>1. ImageTypeOK'
      BY DEF TypeOK, ImageTypeOK, ArgoSync
    <2>2. QED
      BY <2>1, KeptTypes DEF TypeOK, ArgoSync
  <1>3. Tick => TypeOK'
    BY KeptTypes DEF TypeOK, EnvTypeOK, Tick
  <1>4. Crash => TypeOK'
    <2> SUFFICES ASSUME Crash PROVE TypeOK'
      OBVIOUS
    <2>1. EnvTypeOK'
      BY DEF TypeOK, EnvTypeOK, Crash
    <2>2. WorkerTypeOK'
      BY DEF TypeOK, WorkerTypeOK, Crash, WorkerPc
    <2>3. IdleRec \in ReconStates
      BY DEF IdleRec, ReconStates, ReconPc, Actors, Images
    <2>4. ReconTypeOK'
      BY <2>3 DEF TypeOK, ReconTypeOK, ReconStates, Crash, Actors
    <2>5. HookTypeOK'
      BY DEF TypeOK, HookTypeOK, Crash, IdleHook, IdleBuilder, HookPc, Actors, Images
    <2>6. QED
      BY <2>1, <2>2, <2>4, <2>5, KeptTypes DEF TypeOK, Crash
  <1>5. QED
    BY <1>1, <1>2, <1>3, <1>4

-----------------------------------------------------------------------------
(* What a step of each kind of goroutine leaves alone.                     *)

\* Rows of deployments outside D are untouched and none of them is inserted.
OnlyRows(D) ==
  depCount' = depCount /\ \A d \in Deployments \ D : dep'[d] = dep[d]

LEMMA RowWrites ==
  ASSUME TypeOK, NEW d
  PROVE  /\ FailDep(d) => OnlyRows({d})
         /\ \A status, image : MarkDep(d, status, image) => OnlyRows({d})
         /\ UNCHANGED depVars => OnlyRows({d})
  BY DEF TypeOK, DepTypeOK, FailDep, MarkDep, OnlyRows, depVars

LEMMA WorkerFrame ==
  ASSUME TypeOK, WorkersOfActive, NEW p \in Processes, WorkerStep(p)
  PROVE  /\ worker[p].pc \notin {"none", "gone"}
         /\ proc[p].status # "absent"
         /\ proc[p].status \in {"queued", "running"} \/ proc'[p].status = proc[p].status
         /\ \A q \in Processes \ {p} : worker'[q] = worker[q] /\ proc'[q] = proc[q]
         /\ proc'[p].dep = proc[p].dep /\ proc'[p].kind = proc[p].kind
         /\ worker'[p].pc \notin {"none", "boot"}
         /\ worker'[p].pc \notin {"closing", "gone"} => proc'[p].status = "running"
         /\ worker'[p].pc = "closing" => proc'[p].status = "failed"
         /\ proc'[p].status \in {"running", "succeeded", "failed"}
         /\ OnlyRows({proc[p].dep})
         /\ UNCHANGED <<creating, recon, todo, hook>>
  <1> USE DEF workerRest
  <1> DEFINE Steady == UNCHANGED proc /\ worker[p].pc \notin {"none", "boot", "closing", "gone"}
             Goes   == /\ worker'[p].pc \notin {"none", "boot", "closing", "gone"}
                       /\ \A q \in Processes \ {p} : worker'[q] = worker[q]
  <1>1. worker \in [Processes -> [pc : WorkerPc, step : Nat, image : Images,
                                 run : {0} \cup Runs, since : Nat]]
        /\ proc \in [Processes -> [status : ProcStatus, dep : Actors, kind : {"full", "rollout"}]]
    BY DEF TypeOK, WorkerTypeOK, ProcTypeOK
  <1>2. \A image : JobDone(p, image) => Goes
    <2>1. \A image : JobSucceeds(p, image) => Goes
      BY <1>1 DEF JobSucceeds
    <2>2. NextJobFails(p) => Goes
      BY <1>1 DEF NextJobFails
    <2>3. GoTo(p, "failing") => Goes
      BY <1>1 DEF GoTo
    <2>4. QED
      BY <2>1, <2>2, <2>3 DEF JobDone
  <1>3. JobFails(p) => Goes
    BY <1>1 DEF JobFails
  <1>4. \A pc \in {"commit", "mark", "rolled", "finish"} : GoTo(p, pc) => Goes
    BY <1>1 DEF GoTo
  <1>5. UNCHANGED <<creating, recon, todo, hook>>
    BY DEF WorkerStep, Boot, Validate, NetworkOrWorkflow, Dispatch, WaitForRun, PollRun,
           ArgoNothing, ArgoProject, ArgoCommit, ArgoMark, Rollout, RolloutMark, FinishRollout,
           Connectivity, FailProcess, SucceedProcess, EndProcess, CloseJob
  <1>6. OnlyRows({proc[p].dep})
    <2>1. CASE WaitForRun(p)
      BY <2>1 DEF WaitForRun, TypeOK, DepTypeOK, OnlyRows
    <2>2. CASE ~WaitForRun(p)
      BY <2>2, RowWrites
      DEF WorkerStep, Boot, Validate, NetworkOrWorkflow, Dispatch, PollRun,
          ArgoNothing, ArgoProject, ArgoCommit, ArgoMark, Rollout, RolloutMark, FinishRollout,
          Connectivity, FailProcess, SucceedProcess, EndProcess, CloseJob
    <2>3. QED
      BY <2>1, <2>2
  <1>7. CASE Boot(p)
    BY <1>1, <1>5, <1>6, <1>7 DEF Boot, GoTo, WorkersOfActive
  <1>8. CASE FailProcess(p) \/ SucceedProcess(p) \/ CloseJob(p)
    BY <1>1, <1>5, <1>6, <1>8
    DEF FailProcess, SucceedProcess, EndProcess, CloseJob, GoTo, WorkersOfActive
  <1>9. CASE ~(Boot(p) \/ FailProcess(p) \/ SucceedProcess(p) \/ CloseJob(p))
    <2>1. Steady
      BY <1>9
      DEF WorkerStep, Validate, NetworkOrWorkflow, Dispatch, WaitForRun, PollRun,
          ArgoNothing, ArgoProject, ArgoCommit, ArgoMark, Rollout, RolloutMark, FinishRollout,
          Connectivity, AtBody, JobDone, JobSucceeds, NextJobFails, JobFails, procVars
    <2>2. Goes
      <3>1. CASE Dispatch(p) \/ WaitForRun(p)
        <4>1. CASE JobFails(p)
          BY <1>3, <4>1
        <4>2. CASE worker' = [worker EXCEPT ![p].pc = "wait", ![p].since = now]
          <5>1. /\ worker'[p] = [[worker[p] EXCEPT !.pc = "wait"] EXCEPT !.since = now]
                /\ \A q \in Processes \ {p} : worker'[q] = worker[q]
            BY <1>1, <4>2
          <5>2. QED
            BY <1>1, <5>1
        <4>3. CASE \E r \in Runs :
                     worker' = [worker EXCEPT ![p].pc = "poll", ![p].run = r, ![p].since = 0]
          <5> PICK r \in Runs :
                worker' = [worker EXCEPT ![p].pc = "poll", ![p].run = r, ![p].since = 0]
            BY <4>3
          <5>1. /\ worker'[p] = [[[worker[p] EXCEPT !.pc = "poll"] EXCEPT !.run = r] EXCEPT !.since = 0]
                /\ \A q \in Processes \ {p} : worker'[q] = worker[q]
            BY <1>1
          <5>2. QED
            BY <1>1, <5>1
        <4>4. QED
          BY <3>1, <4>1, <4>2, <4>3 DEF Dispatch, WaitForRun
      <3>2. CASE ~(Dispatch(p) \/ WaitForRun(p))
        BY <1>2, <1>3, <1>4, <1>9, <3>2
        DEF WorkerStep, Validate, NetworkOrWorkflow, PollRun, ArgoNothing, ArgoProject,
            ArgoCommit, ArgoMark, Rollout, RolloutMark, FinishRollout, Connectivity
      <3>3. QED
        BY <3>1, <3>2
    <2>3. proc[p].status = "running"
      BY <2>1 DEF WorkersOfActive
    <2>4. QED
      BY <1>1, <1>5, <1>6, <2>1, <2>2, <2>3
  <1>10. QED
    BY <1>7, <1>8, <1>9

LEMMA ReconFrame ==
  ASSUME TypeOK, NEW a \in Actors, ReconStep(a)
  PROVE  /\ recon[a].pc # "idle"
         /\ \A b \in Actors \ {a} : recon'[b] = recon[b]
         /\ recon'[a].pc = "idle" \/ recon'[a].dep = recon[a].dep
         /\ OnlyRows({recon[a].dep})
         /\ \A d \in Deployments : dep'[d].status = "building" => dep[d].status = "building"
         /\ UNCHANGED <<creating, todo, hook, proc, worker>>
  <1> USE DEF reconRest, procVars
  <1>1. recon \in [Actors -> ReconStates]
        /\ dep \in [Deployments -> [status : DepStatus, image : Images, tag : Images,
                                    run : {0} \cup Runs, at : Nat]]
    BY DEF TypeOK, ReconTypeOK, DepTypeOK, ReconStates
  <1>2. UNCHANGED <<creating, todo, hook, proc, worker>>
    BY DEF ReconStep, ReconLoad, ReconWait, ReconPoll, ReconTag, ReconMark, ReconFail
  <1>3. recon[a].pc # "idle"
    BY DEF ReconStep, ReconLoad, ReconWait, ReconPoll, ReconTag, ReconMark, ReconFail
  <1>4. OnlyRows({recon[a].dep})
    <2>1. CASE ReconWait(a)
      BY <1>1, <2>1 DEF ReconWait, OnlyRows
    <2>2. CASE ~ReconWait(a)
      BY <2>2, RowWrites DEF ReconStep, ReconLoad, ReconPoll, ReconTag, ReconMark, ReconFail
    <2>3. QED
      BY <2>1, <2>2
  <1>5. \A d \in Deployments : dep'[d].status = "building" => dep[d].status = "building"
    <2>1. CASE ReconWait(a)
      <3>1. ASSUME NEW r, dep' = [dep EXCEPT ![recon[a].dep].run = r], NEW d \in Deployments
            PROVE  dep'[d].status = dep[d].status
        BY <1>1, <3>1
      <3>2. QED
        BY <2>1, <3>1 DEF ReconWait
    <2>2. CASE ReconMark(a) \/ ReconFail(a)
      <3>1. ASSUME FailDep(recon[a].dep), NEW d \in Deployments, dep'[d].status = "building"
            PROVE  dep[d].status = "building"
        BY <1>1, <3>1 DEF FailDep
      <3>2. ASSUME MarkDep(recon[a].dep, "deploying", recon[a].image),
                   NEW d \in Deployments, dep'[d].status = "building"
            PROVE  dep[d].status = "building"
        <4>1. CASE d = recon[a].dep
          <5>1. dep'[d] = [[dep[d] EXCEPT !.status = "deploying"] EXCEPT !.image = recon[a].image]
            BY <1>1, <3>2, <4>1 DEF MarkDep
          <5>2. QED
            BY <1>1, <3>2, <5>1
        <4>2. CASE d # recon[a].dep
          BY <1>1, <3>2, <4>2 DEF MarkDep
        <4>3. QED
          BY <4>1, <4>2
      <3>3. QED
        BY <2>2, <3>1, <3>2 DEF ReconMark, ReconFail
    <2>3. CASE ~(ReconWait(a) \/ ReconMark(a) \/ ReconFail(a))
      BY <2>3 DEF ReconStep, ReconLoad, ReconPoll, ReconTag, depVars
    <2>4. QED
      BY <2>1, <2>2, <2>3
  <1>6. /\ \A b \in Actors \ {a} : recon'[b] = recon[b]
        /\ recon'[a].pc = "idle" \/ recon'[a].dep = recon[a].dep
    <2> DEFINE Stays == /\ \A b \in Actors \ {a} : recon'[b] = recon[b]
                        /\ recon'[a].pc = "idle" \/ recon'[a].dep = recon[a].dep
    <2>1. ReconDone(a) => Stays
      BY <1>1 DEF ReconDone, IdleRec
    <2>2. \A pc : ReconTo(a, pc) => Stays
      BY <1>1 DEF ReconTo, ReconStates
    <2>3. ASSUME NEW x, NEW y, NEW z,
                 recon' = [recon EXCEPT ![a].run = x, ![a].image = y, ![a].pc = z]
          PROVE  Stays
      <3>1. /\ recon'[a] = [[[recon[a] EXCEPT !.run = x] EXCEPT !.image = y] EXCEPT !.pc = z]
            /\ \A b \in Actors \ {a} : recon'[b] = recon[b]
        BY <1>1, <2>3
      <3>2. QED
        BY <1>1, <3>1 DEF ReconStates
    <2>4. ASSUME NEW r,
                 recon' = [recon EXCEPT ![a].pc = "poll", ![a].run = r, ![a].since = 0]
          PROVE  Stays
      <3>1. /\ recon'[a] = [[[recon[a] EXCEPT !.pc = "poll"] EXCEPT !.run = r] EXCEPT !.since = 0]
            /\ \A b \in Actors \ {a} : recon'[b] = recon[b]
        BY <1>1, <2>4
      <3>2. QED
        BY <1>1, <3>1 DEF ReconStates
    <2> HIDE DEF Stays
    <2>5. Stays
      <3>1. ASSUME ReconLoad(a) PROVE Stays
        <4> DEFINE row == dep[recon[a].dep]
                   next == IF row.run = 0 THEN "wait" ELSE "poll"
        <4>1. recon' = [recon EXCEPT ![a].run = row.run, ![a].image = row.image, ![a].pc = next]
              => Stays
          BY <2>3
        <4>2. QED
          BY <2>1, <2>2, <3>1, <4>1 DEF ReconLoad
      <3>2. ReconWait(a) => Stays
        BY <2>2, <2>4 DEF ReconWait
      <3>3. ReconPoll(a) \/ ReconTag(a) \/ ReconMark(a) \/ ReconFail(a) => Stays
        BY <2>1, <2>2 DEF ReconPoll, ReconTag, ReconMark, ReconFail
      <3>4. QED
        BY <3>1, <3>2, <3>3 DEF ReconStep
    <2>6. QED
      BY <2>5 DEF Stays
  <1>7. QED
    BY <1>2, <1>3, <1>4, <1>5, <1>6

\* A process is handed in: its row and its goroutine, if it got one.
Submitted(d, kind) ==
  \E n \in Processes, pc \in {"boot", "gone"} :
    /\ proc' = [proc EXCEPT ![n] = [status |-> "queued", dep |-> d, kind |-> kind]]
    /\ worker' = [worker EXCEPT ![n].pc = pc]

LEMMA SubmitFrame ==
  ASSUME TypeOK
  PROVE  /\ \A d \in Deployments : CreateProcess(d) =>
              /\ d \in creating /\ creating' = creating \ {d}
              /\ Submitted(d, "full") \/ UNCHANGED <<proc, worker>>
              /\ OnlyRows({d})
              /\ \A e \in Deployments : dep'[e].status = "building" => dep[e].status = "building"
              /\ UNCHANGED <<recon, todo, hook>>
         /\ \A h \in Hooks : HookStart(h) =>
              /\ hook[h].pc = "start" /\ hook' = [hook EXCEPT ![h] = IdleHook]
              /\ Submitted(hook[h].dep, "rollout") \/ UNCHANGED <<proc, worker>>
              /\ OnlyRows({hook[h].dep})
              /\ \A e \in Deployments : dep'[e].status = "building" => dep[e].status = "building"
              /\ UNCHANGED <<recon, todo, creating>>
  <1>1. ASSUME NEW d \in Actors, NEW kind \in {"full", "rollout"}, NEW pc \in {"boot", "gone"},
               InsertProcess(d, kind), StartWorker(procCount + 1, pc)
        PROVE  Submitted(d, kind)
    BY <1>1, InsertProcessType DEF TypeOK, InsertProcess, StartWorker, Submitted
  <1>2. ASSUME NEW d, FailDep(d) \/ UNCHANGED depVars, NEW e \in Deployments,
               dep'[e].status = "building"
        PROVE  dep[e].status = "building"
    BY <1>2 DEF TypeOK, DepTypeOK, FailDep, depVars
  <1>3. ASSUME NEW d, FailDep(d) \/ UNCHANGED depVars
        PROVE  OnlyRows({d})
    BY <1>3, RowWrites
  <1>4. ASSUME NEW d \in Deployments, CreateProcess(d)
        PROVE  /\ d \in creating /\ creating' = creating \ {d}
               /\ Submitted(d, "full") \/ UNCHANGED <<proc, worker>>
               /\ FailDep(d) \/ UNCHANGED depVars
               /\ UNCHANGED <<recon, todo, hook>>
    BY <1>1, <1>4 DEF CreateProcess, Actors, procVars
  <1>5. ASSUME NEW h \in Hooks, HookStart(h)
        PROVE  /\ hook[h].pc = "start" /\ hook' = [hook EXCEPT ![h] = IdleHook]
               /\ Submitted(hook[h].dep, "rollout") \/ UNCHANGED <<proc, worker>>
               /\ FailDep(hook[h].dep) \/ UNCHANGED depVars
               /\ UNCHANGED <<recon, todo, creating>>
    <2>1. hook[h].dep \in Actors
      BY DEF TypeOK, HookTypeOK
    <2>2. QED
      BY <1>1, <1>5, <2>1 DEF HookStart, HookReturns, procVars, hookRest
  <1>6. QED
    BY <1>2, <1>3, <1>4, <1>5

-----------------------------------------------------------------------------
(* Workers work on active processes.                                       *)

LEMMA ProcessesKept ==
  ASSUME Next,
         \A d \in Deployments : ~CreateProcess(d), \A p \in Processes : ~WorkerStep(p),
         \A h \in Hooks : ~HookStart(h), ~Crash
  PROVE  UNCHANGED <<proc, worker>>
  BY DEF Next, CreateDeployment, Rollback, StartDispatch, StartRecord, RunStarts, RunLost, Push,
     RunConcludes, Ticker, TickerScan, TickerNext, ReconStep, ReconLoad, ReconWait, ReconPoll,
     ReconTag, ReconMark, ReconFail, HookStep, HookMatch, HookWrite, HookProject, HookTag,
     HookCheck, Deliver, ArgoNotifies, ArgoSync, Tick, procVars, reconRest, hookRest, Actors

LEMMA WorkersOfActiveStep ==
  ASSUME TypeOK, WorkersOfActive, Next
  PROVE  WorkersOfActive'
  <1>1. ASSUME NEW d, NEW kind, Submitted(d, kind) PROVE WorkersOfActive'
    BY <1>1 DEF Submitted, WorkersOfActive, TypeOK, WorkerTypeOK, ProcTypeOK
  <1>2. CASE UNCHANGED <<proc, worker>>
    BY <1>2 DEF WorkersOfActive
  <1>3. CASE \E d \in Deployments : CreateProcess(d)
    BY <1>1, <1>2, <1>3, SubmitFrame
  <1>4. CASE \E h \in Hooks : HookStart(h)
    BY <1>1, <1>2, <1>4, SubmitFrame
  <1>5. ASSUME NEW p \in Processes, WorkerStep(p) PROVE WorkersOfActive'
    BY <1>5, WorkerFrame DEF WorkersOfActive
  <1>6. CASE Crash
    BY <1>6 DEF Crash, WorkersOfActive, TypeOK, WorkerTypeOK
  <1>7. QED
    BY <1>2, <1>3, <1>4, <1>5, <1>6, ProcessesKept

-----------------------------------------------------------------------------
(* References to deployments.                                              *)

LEMMA InsertFrame ==
  ASSUME TypeOK, NEW status, NEW image, InsertDep(status, image)
  PROVE  /\ depCount + 1 \in Deployments /\ depCount' = depCount + 1
         /\ dep'[depCount + 1].status = status
         /\ \A d \in Deployments \ {depCount + 1} : dep'[d] = dep[d]
         /\ Inserted' = Inserted \cup {depCount + 1}
  BY BoundsAssumption DEF TypeOK, DepTypeOK, InsertDep, Deployments, Inserted

LEMMA InsertedFacts ==
  ASSUME TypeOK
  PROVE  /\ Inserted \subseteq Deployments
         /\ \A d \in Deployments : d \in Inserted <=> ~(d > depCount)
         /\ depCount' = depCount => Inserted' = Inserted
         /\ \A d \in Inserted : d # 0 /\ d # depCount + 1
  BY BoundsAssumption DEF TypeOK, DepTypeOK, Inserted, Deployments

\* Rows of inserted deployments change and nothing else that the invariant is about.
LEMMA RowsOnlyKeepReferences ==
  ASSUME TypeOK, NoDanglingReferences, NEW D, D \cap Deployments \subseteq Inserted, OnlyRows(D),
         UNCHANGED <<creating, todo, proc, recon, hook>>
  PROVE  NoDanglingReferences'
  BY InsertedFacts DEF NoDanglingReferences, OnlyRows

LEMMA HookFrame ==
  ASSUME TypeOK, NoDanglingReferences, NEW h \in Hooks, HookStep(h), ~HookStart(h)
  PROVE  /\ UNCHANGED <<creating, todo, proc, worker, recon>>
         /\ hook[h].pc # "idle"
         /\ \A g \in Hooks \ {h} : hook'[g] = hook[g]
         /\ \/ \E status \in {"deploying", "failed"} : \E image : InsertDep(status, image)
            \/ \E d \in Inserted : OnlyRows({d})
            \/ UNCHANGED depVars
         /\ \A d \in Deployments : dep'[d].status = "building" => dep[d].status = "building"
         /\ \/ hook'[h].pc = "idle"
            \/ hook'[h].dep = hook[h].dep /\ hook'[h].pc \in {"tag", "check", "start"}
               /\ hook[h].pc \in {"project", "tag", "check"}
            \/ hook'[h].dep = hook[h].dep /\ hook'[h].pc = "write" /\ hook[h].pc = "match"
            \/ hook'[h].dep \in Building /\ hook'[h].pc = "write"
            \/ hook[h].dep \in Inserted /\ hook'[h].dep = hook[h].dep /\ hook'[h].pc = "project"
            \/ hook'[h].dep = depCount + 1 /\ depCount' = depCount + 1 /\ hook'[h].pc = "project"
  <1> USE DEF hookRest
  <1>1. /\ hook \in [Hooks -> HookStates]
        /\ dep \in [Deployments -> [status : DepStatus, image : Images, tag : Images,
                                    run : {0} \cup Runs, at : Nat]]
    BY DEF TypeOK, HookTypeOK, HookStates, DepTypeOK
  <1>2. ASSUME NEW pc, HookTo(h, pc)
        PROVE  /\ \A g \in Hooks \ {h} : hook'[g] = hook[g]
               /\ hook'[h].pc = pc /\ hook'[h].dep = hook[h].dep
    BY <1>1, <1>2 DEF HookTo, HookStates
  <1>3. ASSUME HookReturns(h)
        PROVE  (\A g \in Hooks \ {h} : hook'[g] = hook[g]) /\ hook'[h].pc = "idle"
    BY <1>1, <1>3 DEF HookReturns, IdleHook
  <1>4. ASSUME NEW pc, NEW d, hook' = [hook EXCEPT ![h].pc = pc, ![h].dep = d]
        PROVE  /\ \A g \in Hooks \ {h} : hook'[g] = hook[g]
               /\ hook'[h].pc = pc /\ hook'[h].dep = d
    <2>1. /\ hook'[h] = [[hook[h] EXCEPT !.pc = pc] EXCEPT !.dep = d]
          /\ \A g \in Hooks \ {h} : hook'[g] = hook[g]
      BY <1>1, <1>4
    <2>2. QED
      BY <1>1, <2>1 DEF HookStates
  <1>5. CASE HookMatch(h)
    <2>1. UNCHANGED <<creating, todo, proc, worker, recon, depVars>> /\ hook[h].pc = "match"
      BY <1>5 DEF HookMatch, procVars
    <2>2. CASE HookReturns(h)
      BY <1>3, <2>1, <2>2 DEF depVars
    <2>3. CASE HookTo(h, "write")
      BY <1>2, <2>1, <2>3 DEF depVars
    <2>4. ASSUME NEW d \in Building, hook' = [hook EXCEPT ![h].pc = "write", ![h].dep = d]
          PROVE  /\ \A g \in Hooks \ {h} : hook'[g] = hook[g]
                 /\ hook'[h].dep \in Building /\ hook'[h].pc = "write"
      BY <1>4, <2>4
    <2>5. CASE \E d \in Building : hook' = [hook EXCEPT ![h].pc = "write", ![h].dep = d]
      BY <2>1, <2>4, <2>5 DEF depVars
    <2>6. QED
      BY <1>5, <2>2, <2>3, <2>5 DEF HookMatch, Named
  <1>6. CASE HookWrite(h)
    <2> DEFINE d == hook[h].dep
               status == IF hook[h].ok THEN "deploying" ELSE "failed"
               target == IF d = 0 THEN depCount + 1 ELSE d
    <2>1. UNCHANGED <<creating, todo, proc, worker, recon>> /\ hook[h].pc = "write"
      BY <1>6 DEF HookWrite, procVars
    <2>2. /\ \A g \in Hooks \ {h} : hook'[g] = hook[g]
          /\ \/ hook'[h].pc = "idle"
             \/ hook'[h].pc = "project" /\ hook'[h].dep = target
      <3>1. \/ HookReturns(h)
            \/ hook' = [hook EXCEPT ![h].pc = "project", ![h].dep = target]
        BY <1>6 DEF HookWrite
      <3> HIDE DEF target
      <3>2. QED
        BY <1>3, <1>4, <3>1
    <2>3. CASE d = 0
      <3>1. InsertDep(status, hook[h].image) /\ status \in {"deploying", "failed"}
        BY <1>6, <2>3 DEF HookWrite
      <3>2. \A e \in Deployments : dep'[e].status = "building" => dep[e].status = "building"
        BY <3>1, InsertFrame
      <3>3. QED
        BY <2>1, <2>2, <2>3, <3>1, <3>2, InsertFrame
    <2>4. CASE d # 0
      <3>1. dep' = [dep EXCEPT ![d].status = status, ![d].image = hook[h].image,
                               ![d].tag = hook[h].image] /\ depCount' = depCount
        BY <1>6, <2>4 DEF HookWrite
      <3>2. d \in Inserted
        BY <2>1, <2>4 DEF NoDanglingReferences
      <3>3. d \in Deployments
        BY <3>2, InsertedFacts
      <3>4. /\ dep'[d] = [[[dep[d] EXCEPT !.status = status] EXCEPT !.image = hook[h].image]
                            EXCEPT !.tag = hook[h].image]
            /\ \A e \in Deployments \ {d} : dep'[e] = dep[e]
        BY <1>1, <3>1, <3>3
      <3>5. dep'[d].status = status /\ status # "building"
        BY <1>1, <3>3, <3>4
      <3>6. OnlyRows({d})
        BY <3>1, <3>4 DEF OnlyRows
      <3>7. \A e \in Deployments : dep'[e].status = "building" => dep[e].status = "building"
        BY <3>4, <3>5
      <3>8. QED
        BY <2>1, <2>2, <2>4, <3>2, <3>6, <3>7
    <2>5. QED
      BY <2>3, <2>4
  <1>7. CASE HookProject(h) \/ HookCheck(h)
    BY <1>2, <1>3, <1>7 DEF HookProject, HookCheck, procVars, depVars
  <1>8. CASE HookTag(h)
    <2>1. hook[h].dep \in Inserted
      BY <1>8 DEF HookTag, NoDanglingReferences
    <2>2. FailDep(hook[h].dep) =>
            /\ OnlyRows({hook[h].dep})
            /\ \A e \in Deployments : dep'[e].status = "building" => dep[e].status = "building"
      BY <1>1, RowWrites DEF FailDep
    <2>3. QED
      BY <1>2, <1>3, <1>8, <2>1, <2>2 DEF HookTag, procVars, depVars
  <1>9. QED
    BY <1>5, <1>6, <1>7, <1>8 DEF HookStep

\* A row is inserted and nothing else that the invariant is about changes, but for
\* the pending calls of Create.
LEMMA InsertKeepsReferences ==
  ASSUME TypeOK, NoDanglingReferences, NEW status, NEW image, InsertDep(status, image),
         creating' \subseteq creating \cup {depCount + 1},
         UNCHANGED <<todo, proc, hook>>,
         \A a \in Actors : recon'[a] = recon[a] \/ recon'[a].dep = depCount + 1
  PROVE  NoDanglingReferences'
  <1>1. Inserted' = Inserted \cup {depCount + 1} /\ depCount' = depCount + 1
    BY InsertFrame
  <1>2. \A d \in Deployments : d > depCount' => dep'[d].status = "absent"
    <2> SUFFICES ASSUME NEW d \in Deployments, d > depCount' PROVE dep'[d].status = "absent"
      OBVIOUS
    <2>1. d > depCount /\ d # depCount + 1
      BY <1>1 DEF TypeOK, DepTypeOK, Deployments
    <2>2. QED
      BY <2>1, InsertFrame DEF NoDanglingReferences
  <1>3. creating' \subseteq Inserted' /\ todo' \subseteq Inserted'
    BY <1>1 DEF NoDanglingReferences
  <1>4. \A p \in Processes : proc'[p].status # "absent" => proc'[p].dep \in Inserted'
    BY <1>1 DEF NoDanglingReferences
  <1>5. \A a \in Actors : recon'[a].pc # "idle" => recon'[a].dep \in Inserted'
    BY <1>1 DEF NoDanglingReferences
  <1>6. \A h \in Hooks :
          \/ hook'[h].pc = "idle" \/ hook'[h].dep \in Inserted'
          \/ hook'[h].pc \in {"match", "write"} /\ hook'[h].dep = 0
    BY <1>1 DEF NoDanglingReferences
  <1>7. QED
    BY <1>2, <1>3, <1>4, <1>5, <1>6 DEF NoDanglingReferences

\* What handing in a process adds to the references.
LEMMA SubmittedFrame ==
  ASSUME TypeOK, NEW d, NEW kind, Submitted(d, kind) \/ UNCHANGED <<proc, worker>>,
         NEW p \in Processes
  PROVE  proc'[p] = proc[p] \/ (proc'[p].dep = d /\ proc'[p].kind = kind)
  <1>1. CASE UNCHANGED <<proc, worker>>
    BY <1>1
  <1>2. CASE Submitted(d, kind)
    <2> PICK n \in Processes, pc \in {"boot", "gone"} :
          /\ proc' = [proc EXCEPT ![n] = [status |-> "queued", dep |-> d, kind |-> kind]]
          /\ worker' = [worker EXCEPT ![n].pc = pc]
      BY <1>2 DEF Submitted
    <2>1. CASE p = n
      BY <2>1 DEF TypeOK, ProcTypeOK
    <2>2. CASE p # n
      BY <2>2 DEF TypeOK, ProcTypeOK
    <2>3. QED
      BY <2>1, <2>2
  <1>3. QED
    BY <1>1, <1>2

\* What the return of a callback leaves of the others.
LEMMA HookReturnFrame ==
  ASSUME TypeOK, NEW h \in Hooks, hook' = [hook EXCEPT ![h] = IdleHook], NEW g \in Hooks
  PROVE  (g # h /\ hook'[g] = hook[g]) \/ (g = h /\ hook'[g].pc = "idle")
  <1>1. CASE g = h
    BY <1>1 DEF TypeOK, HookTypeOK, IdleHook
  <1>2. CASE g # h
    BY <1>2 DEF TypeOK, HookTypeOK
  <1>3. QED
    BY <1>1, <1>2

LEMMA NoDanglingReferencesStep ==
  ASSUME TypeOK, NoDanglingReferences, WorkersOfActive, Next
  PROVE  NoDanglingReferences'
  <1>1. CASE CreateDeployment \/ Rollback
    BY <1>1, InsertKeepsReferences DEF CreateDeployment, Rollback, procVars
  <1>2. CASE StartRecord
    <2>1. \A a \in Actors : recon'[a] = recon[a] \/ recon'[a].dep = depCount + 1
      BY <1>2 DEF StartRecord, TypeOK, ReconTypeOK
    <2>2. QED
      BY <1>2, <2>1, InsertKeepsReferences DEF StartRecord, procVars
  <1>3. ASSUME NEW d \in Deployments, CreateProcess(d) PROVE NoDanglingReferences'
    <2>1. d \in Inserted
      BY <1>3, SubmitFrame DEF NoDanglingReferences
    <2>2. \A p \in Processes : proc'[p].status # "absent" =>
            proc'[p].dep = d \/ (proc'[p] = proc[p])
      <3>1. Submitted(d, "full") \/ UNCHANGED <<proc, worker>>
        BY <1>3, SubmitFrame
      <3>2. ASSUME NEW p \in Processes
            PROVE  proc'[p] = proc[p] \/ proc'[p].dep = d
        BY <3>1, SubmittedFrame
      <3>3. QED
        BY <3>2
    <2>3. QED
      BY <1>3, <2>1, <2>2, SubmitFrame, InsertedFacts DEF NoDanglingReferences, OnlyRows
  <1>4. CASE StartDispatch \/ RunStarts \/ RunLost \/ Push
             \/ (\E r \in Runs : RunConcludes(r)) \/ ArgoSync \/ Tick
    <2>1. UNCHANGED <<depVars, creating, todo, proc, recon, hook>>
      BY <1>4 DEF StartDispatch, RunStarts, RunLost, Push, RunConcludes, ArgoSync, Tick, procVars
    <2>2. QED
      BY <2>1 DEF depVars, NoDanglingReferences, Inserted
  <1>5. ASSUME NEW p \in Processes, WorkerStep(p) PROVE NoDanglingReferences'
    <2>1. proc[p].dep \in Inserted
      BY <1>5, WorkerFrame DEF NoDanglingReferences
    <2>2. QED
      BY <1>5, <2>1, WorkerFrame, InsertedFacts DEF NoDanglingReferences, OnlyRows
  <1>6. CASE TickerScan
    <2>1. Building \subseteq Inserted
      BY InsertedFacts DEF Building, NoDanglingReferences
    <2>2. UNCHANGED <<depVars, creating, proc, recon, hook>> /\ todo' \subseteq Building
      BY <1>6 DEF TickerScan, reconRest, procVars
    <2>3. QED
      BY <2>1, <2>2 DEF depVars, NoDanglingReferences, Inserted
  <1>7. CASE TickerNext
    <2> PICK d \in todo :
          /\ recon' = [recon EXCEPT ![0] =
               [pc |-> "load", dep |-> d, run |-> 0, image |-> 0, since |-> dep[d].at]]
          /\ todo' = todo \ {d}
      BY <1>7 DEF TickerNext
    <2>1. \A a \in Actors : recon'[a] = recon[a] \/ recon'[a].dep = d
      BY DEF TypeOK, ReconTypeOK
    <2>2. UNCHANGED <<depVars, creating, proc, hook>>
      BY <1>7 DEF TickerNext, reconRest, procVars
    <2>3. QED
      BY <2>1, <2>2 DEF depVars, NoDanglingReferences, Inserted
  <1>8. ASSUME NEW a \in Actors, ReconStep(a) PROVE NoDanglingReferences'
    <2>1. recon[a].dep \in Inserted
      BY <1>8, ReconFrame DEF NoDanglingReferences
    <2>2. QED
      BY <1>8, <2>1, ReconFrame, InsertedFacts DEF NoDanglingReferences, OnlyRows
  <1>9. ASSUME NEW h \in Hooks, HookStart(h) PROVE NoDanglingReferences'
    <2>1. hook[h].dep \in Inserted
      BY <1>9, SubmitFrame DEF NoDanglingReferences
    <2>2. \A p \in Processes : proc'[p].status # "absent" =>
            proc'[p].dep = hook[h].dep \/ (proc'[p] = proc[p])
      <3>1. Submitted(hook[h].dep, "rollout") \/ UNCHANGED <<proc, worker>>
        BY <1>9, SubmitFrame
      <3>2. ASSUME NEW p \in Processes
            PROVE  proc'[p] = proc[p] \/ proc'[p].dep = hook[h].dep
        BY <3>1, SubmittedFrame
      <3>3. QED
        BY <3>2
    <2>3. \A g \in Hooks : hook'[g] = hook[g] \/ hook'[g].pc = "idle"
      BY <1>9, SubmitFrame, HookReturnFrame
    <2>4. QED
      BY <1>9, <2>1, <2>2, <2>3, SubmitFrame, InsertedFacts DEF NoDanglingReferences, OnlyRows
  <1>10. ASSUME NEW h \in Hooks, HookStep(h), ~HookStart(h) PROVE NoDanglingReferences'
    <2>1. Building \subseteq Inserted
      BY InsertedFacts DEF Building, NoDanglingReferences
    <2>2. /\ Inserted \subseteq Inserted'
          /\ \A d \in Deployments : d > depCount' => dep'[d].status = "absent"
      <3>1. CASE \E status, image : InsertDep(status, image)
        <4>1. \A d \in Deployments : d > depCount + 1 => d > depCount /\ d # depCount + 1
          BY DEF TypeOK, DepTypeOK, Deployments
        <4>2. QED
          BY <3>1, <4>1, InsertFrame DEF NoDanglingReferences
      <3>2. CASE \E d \in Inserted : OnlyRows({d})
        BY <3>2, InsertedFacts DEF NoDanglingReferences, OnlyRows
      <3>3. CASE UNCHANGED depVars
        BY <3>3, InsertedFacts DEF NoDanglingReferences, depVars
      <3>4. QED
        BY <1>10, <3>1, <3>2, <3>3, HookFrame
    <2>3. /\ creating' \subseteq Inserted' /\ todo' \subseteq Inserted'
          /\ \A p \in Processes : proc'[p].status # "absent" => proc'[p].dep \in Inserted'
          /\ \A a \in Actors : recon'[a].pc # "idle" => recon'[a].dep \in Inserted'
      BY <1>10, <2>2, HookFrame DEF NoDanglingReferences
    <2>4. \/ hook'[h].pc = "idle" \/ hook'[h].dep \in Inserted'
          \/ hook'[h].pc \in {"match", "write"} /\ hook'[h].dep = 0
      <3>1. depCount' = depCount + 1 => depCount + 1 \in Inserted'
        BY DEF Inserted, TypeOK, DepTypeOK
      <3>2. QED
        BY <1>10, <2>1, <2>2, <3>1, HookFrame DEF NoDanglingReferences
    <2>5. QED
      BY <1>10, <2>2, <2>3, <2>4, HookFrame DEF NoDanglingReferences
  <1>11. ASSUME NEW h \in Hooks, NEW r \in Runs, Deliver(h, r) PROVE NoDanglingReferences'
    <2>1. UNCHANGED <<depVars, creating, todo, proc, recon>>
      BY <1>11 DEF Deliver, hookRest, procVars
    <2>2. \A g \in Hooks : hook'[g] = hook[g] \/ (hook'[g].pc = "match" /\ hook'[g].dep = 0)
      BY <1>11 DEF Deliver, TypeOK, HookTypeOK
    <2>3. QED
      BY <2>1, <2>2 DEF depVars, NoDanglingReferences, Inserted
  <1>12. CASE ArgoNotifies
    <2> PICK status \in {"running", "deploying"}, rows \in {{depCount}, 1 .. depCount} :
          dep' = [d \in Deployments |->
                    IF d \in rows THEN [dep[d] EXCEPT !.status = status] ELSE dep[d]]
      BY <1>12 DEF ArgoNotifies
    <2>1. rows \subseteq Inserted /\ UNCHANGED <<creating, todo, proc, recon, hook>>
      BY <1>12 DEF ArgoNotifies, Inserted, TypeOK, DepTypeOK, procVars
    <2>2. OnlyRows(rows)
      BY <1>12 DEF ArgoNotifies, OnlyRows
    <2>3. QED
      BY <2>1, <2>2, RowsOnlyKeepReferences
  <1>13. CASE Crash
    <2>1. /\ UNCHANGED <<depVars, proc>> /\ creating' = {} /\ todo' = {}
          /\ \A a \in Actors : recon'[a].pc = "idle"
          /\ \A h \in Hooks : hook'[h].pc = "idle"
      BY <1>13 DEF Crash, IdleRec, IdleHook, procVars, Actors
    <2>2. QED
      BY <2>1 DEF depVars, NoDanglingReferences, Inserted
  <1>14. QED
    BY <1>1, <1>2, <1>3, <1>4, <1>5, <1>6, <1>7, <1>8, <1>9, <1>10, <1>11, <1>12, <1>13
    DEF Next, Ticker, Actors

-----------------------------------------------------------------------------
(* Pending calls of Create.                                                *)

LEMMA PendingUnknownStep ==
  ASSUME TypeOK, NoDanglingReferences, WorkersOfActive, PendingUnknown, Next
  PROVE  PendingUnknown'
  <1> DEFINE Unknown(d) ==
        /\ dep[d].status # "building"
        /\ \A p \in Processes : proc[p].status # "absent" => proc[p].dep # d
        /\ \A h \in Hooks : hook[h].pc # "idle" => hook[h].dep # d
  <1>1. \A d \in creating : Unknown(d) /\ d \in Inserted /\ d \in Deployments
                            /\ d # 0 /\ d # depCount + 1
    BY InsertedFacts DEF PendingUnknown, NoDanglingReferences
  <1>2. (\A d \in creating' : Unknown(d)') => PendingUnknown'
    BY DEF PendingUnknown
  <1> HIDE DEF Unknown
  <1>3. CASE CreateDeployment
    <2>1. /\ creating' = creating \cup {depCount + 1} /\ UNCHANGED <<proc, hook>>
          /\ \E image : InsertDep("queued", image)
      BY <1>3 DEF CreateDeployment, procVars
    <2>2. \A d \in creating : Unknown(d)'
      BY <1>1, <2>1, InsertFrame DEF Unknown
    <2>3. /\ dep'[depCount + 1].status # "building"
          /\ \A p \in Processes : proc'[p].status # "absent" => proc'[p].dep # depCount + 1
          /\ \A h \in Hooks : hook'[h].pc # "idle" => hook'[h].dep # depCount + 1
      <3>1. dep'[depCount + 1].status = "queued"
        BY <2>1, InsertFrame
      <3>2. /\ \A p \in Processes : proc[p].status # "absent" => proc[p].dep # depCount + 1
            /\ \A h \in Hooks : hook[h].pc # "idle" => hook[h].dep # depCount + 1
        BY InsertedFacts DEF NoDanglingReferences, TypeOK, DepTypeOK
      <3>3. QED
        BY <2>1, <3>1, <3>2
    <2>4. QED
      BY <1>2, <2>1, <2>2, <2>3 DEF Unknown
  <1>4. CASE Rollback \/ StartRecord
    <2>1. /\ UNCHANGED <<creating, proc, hook>>
          /\ \E status, image : InsertDep(status, image)
      BY <1>4 DEF Rollback, StartRecord, procVars
    <2>2. QED
      BY <1>1, <1>2, <2>1, InsertFrame DEF Unknown
  <1>5. ASSUME NEW d \in Deployments, CreateProcess(d) PROVE PendingUnknown'
    <2>1. Submitted(d, "full") \/ UNCHANGED <<proc, worker>>
      BY <1>5, SubmitFrame
    <2>2. ASSUME NEW p \in Processes
          PROVE  proc'[p] = proc[p] \/ proc'[p].dep = d
      BY <2>1, SubmittedFrame
    <2>3. /\ creating' = creating \ {d} /\ UNCHANGED hook
          /\ \A e \in Deployments : dep'[e].status = "building" => dep[e].status = "building"
      BY <1>5, SubmitFrame
    <2>4. QED
      BY <1>1, <1>2, <2>2, <2>3 DEF Unknown
  <1>6. ASSUME NEW p \in Processes, WorkerStep(p) PROVE PendingUnknown'
    <2>1. /\ proc[p].status # "absent" /\ UNCHANGED <<creating, hook>>
          /\ OnlyRows({proc[p].dep}) /\ proc'[p].dep = proc[p].dep
          /\ \A q \in Processes \ {p} : proc'[q] = proc[q]
      BY <1>6, WorkerFrame
    <2>2. QED
      BY <1>1, <1>2, <2>1 DEF Unknown, OnlyRows
  <1>7. ASSUME NEW a \in Actors, ReconStep(a) PROVE PendingUnknown'
    <2>1. /\ UNCHANGED <<creating, proc, hook>>
          /\ \A d \in Deployments : dep'[d].status = "building" => dep[d].status = "building"
      BY <1>7, ReconFrame
    <2>2. QED
      BY <1>1, <1>2, <2>1 DEF Unknown
  <1>8. ASSUME NEW h \in Hooks, HookStart(h) PROVE PendingUnknown'
    <2>1. Submitted(hook[h].dep, "rollout") \/ UNCHANGED <<proc, worker>>
      BY <1>8, SubmitFrame
    <2>2. ASSUME NEW p \in Processes
          PROVE  proc'[p] = proc[p] \/ proc'[p].dep = hook[h].dep
      BY <2>1, SubmittedFrame
    <2>3. \A g \in Hooks : hook'[g] = hook[g] \/ hook'[g].pc = "idle"
      BY <1>8, SubmitFrame, HookReturnFrame
    <2>4. /\ UNCHANGED creating /\ hook[h].pc # "idle"
          /\ \A e \in Deployments : dep'[e].status = "building" => dep[e].status = "building"
      BY <1>8, SubmitFrame
    <2>5. QED
      BY <1>1, <1>2, <2>2, <2>3, <2>4 DEF Unknown
  <1>9. ASSUME NEW h \in Hooks, HookStep(h), ~HookStart(h) PROVE PendingUnknown'
    <2>1. /\ UNCHANGED <<creating, proc>>
          /\ \A g \in Hooks \ {h} : hook'[g] = hook[g]
          /\ \A e \in Deployments : dep'[e].status = "building" => dep[e].status = "building"
      BY <1>9, HookFrame
    <2>2. ASSUME NEW d \in creating PROVE hook'[h].pc # "idle" => hook'[h].dep # d
      BY <1>1, <1>9, HookFrame DEF Unknown, Building
    <2>3. QED
      BY <1>1, <1>2, <2>1, <2>2 DEF Unknown
  <1>10. ASSUME NEW h \in Hooks, NEW r \in Runs, Deliver(h, r) PROVE PendingUnknown'
    <2>1. UNCHANGED <<dep, creating, proc>>
      BY <1>10 DEF Deliver, hookRest, procVars, depVars
    <2>2. \A g \in Hooks : hook'[g] = hook[g] \/ hook'[g].dep = 0
      BY <1>10 DEF Deliver, TypeOK, HookTypeOK
    <2>3. QED
      BY <1>1, <1>2, <2>1, <2>2 DEF Unknown
  <1>11. CASE ArgoNotifies
    <2>1. UNCHANGED <<creating, proc, hook>>
      BY <1>11 DEF ArgoNotifies, procVars
    <2>2. \A d \in Deployments : dep'[d].status = "building" => dep[d].status = "building"
      BY <1>11 DEF ArgoNotifies, TypeOK, DepTypeOK
    <2>3. QED
      BY <1>1, <1>2, <2>1, <2>2 DEF Unknown
  <1>12. CASE Crash
    BY <1>2, <1>12 DEF Crash
  <1>13. CASE StartDispatch \/ RunStarts \/ RunLost \/ Push
              \/ (\E r \in Runs : RunConcludes(r)) \/ Ticker \/ ArgoSync \/ Tick
    <2>1. UNCHANGED <<dep, creating, proc, hook>>
      BY <1>13 DEF StartDispatch, RunStarts, RunLost, Push, RunConcludes, Ticker, TickerScan,
         TickerNext, ArgoSync, Tick, procVars, depVars, reconRest
    <2>2. QED
      BY <1>1, <1>2, <2>1 DEF Unknown
  <1>14. QED
    BY <1>3, <1>4, <1>5, <1>6, <1>7, <1>8, <1>9, <1>10, <1>11, <1>12, <1>13 DEF Next, Actors

-----------------------------------------------------------------------------
(* What a callback has checked stays true, and excludes the two kinds.     *)

\* A worker's step makes no process active and keeps what it works on.
LEMMA WorkerKeepsActive ==
  ASSUME TypeOK, WorkersOfActive, NEW p \in Processes, WorkerStep(p), NEW q \in Processes
  PROVE  /\ proc'[q].dep = proc[q].dep /\ proc'[q].kind = proc[q].kind
         /\ Active(q)' => Active(q)
  BY WorkerFrame DEF Active

LEMMA CheckedFacts ==
  ASSUME TypeOK, NEW h \in Hooks, HookStep(h), ~HookStart(h), hook'[h].pc = "start"
  PROVE  \A p \in Processes : ~(Active(p) /\ proc[p].dep = hook'[h].dep)
  <1>1. hook \in [Hooks -> HookStates]
    BY DEF TypeOK, HookTypeOK, HookStates
  <1>2. \A pc : HookTo(h, pc) => hook'[h].pc = pc /\ hook'[h].dep = hook[h].dep
    BY <1>1 DEF HookTo, HookStates
  <1>3. ~HookReturns(h)
    BY <1>1 DEF HookReturns, IdleHook
  <1>4. ASSUME NEW pc, NEW d, hook' = [hook EXCEPT ![h].pc = pc, ![h].dep = d]
        PROVE  hook'[h].pc = pc
    <2>1. hook'[h] = [[hook[h] EXCEPT !.pc = pc] EXCEPT !.dep = d]
      BY <1>1, <1>4
    <2>2. QED
      BY <1>1, <2>1 DEF HookStates
  <1>5. HookCheck(h)
    <2>1. ~HookMatch(h)
      <3>1. HookMatch(h) => \/ HookReturns(h) \/ HookTo(h, "write")
                            \/ \E d \in Building : hook' = [hook EXCEPT ![h].pc = "write", ![h].dep = d]
        BY DEF HookMatch, Named
      <3>2. ASSUME NEW d, hook' = [hook EXCEPT ![h].pc = "write", ![h].dep = d] PROVE FALSE
        <4>1. hook'[h].pc = "write"
          BY <1>4, <3>2
        <4>2. QED
          BY <4>1
      <3>3. ~HookTo(h, "write")
        BY <1>2
      <3>4. ~\E d \in Building : hook' = [hook EXCEPT ![h].pc = "write", ![h].dep = d]
        BY <3>2
      <3>5. QED
        BY <1>3, <3>1, <3>3, <3>4
    <2>2. ~HookWrite(h)
      BY <1>3, <1>4 DEF HookWrite
    <2>3. ~HookProject(h) /\ ~HookTag(h)
      BY <1>2, <1>3 DEF HookProject, HookTag
    <2>4. QED
      BY <2>1, <2>2, <2>3 DEF HookStep
  <1>6. QED
    BY <1>2, <1>3, <1>5 DEF HookCheck

LEMMA HookStartsKept ==
  ASSUME TypeOK, Next, \A h \in Hooks : ~HookStep(h), NEW g \in Hooks, hook'[g].pc = "start"
  PROVE  hook'[g] = hook[g]
  <1>1. CASE \E h \in Hooks, r \in Runs : Deliver(h, r)
    BY <1>1 DEF Deliver, TypeOK, HookTypeOK
  <1>2. CASE Crash
    BY <1>2 DEF Crash, IdleHook
  <1>3. CASE \E p \in Processes : WorkerStep(p)
    BY <1>3 DEF WorkerStep, Boot, Validate, NetworkOrWorkflow, Dispatch, WaitForRun, PollRun,
       ArgoNothing, ArgoProject, ArgoCommit, ArgoMark, Rollout, RolloutMark, FinishRollout,
       Connectivity, FailProcess, SucceedProcess, EndProcess, CloseJob, workerRest
  <1>4. CASE (\E a \in Actors : ReconStep(a)) \/ Ticker
    BY <1>4, ReconFrame DEF Ticker, TickerScan, TickerNext, reconRest
  <1>5. CASE \E d \in Deployments : CreateProcess(d)
    BY <1>5 DEF CreateProcess
  <1>6. CASE CreateDeployment \/ Rollback \/ StartDispatch \/ StartRecord \/ RunStarts \/ RunLost
             \/ Push \/ (\E r \in Runs : RunConcludes(r)) \/ ArgoNotifies \/ ArgoSync \/ Tick
    BY <1>6 DEF CreateDeployment, Rollback, StartDispatch, StartRecord, RunStarts, RunLost, Push,
       RunConcludes, ArgoNotifies, ArgoSync, Tick
  <1>7. QED
    BY <1>1, <1>2, <1>3, <1>4, <1>5, <1>6 DEF Next, Actors

LEMMA CheckStaysTrueStep ==
  ASSUME TypeOK, NoDanglingReferences, WorkersOfActive, PendingUnknown, CheckStaysTrue, Next
  PROVE  CheckStaysTrue'
  <1> SUFFICES ASSUME NEW g \in Hooks, hook'[g].pc = "start", NEW p \in Processes,
                      Active(p)', proc'[p].dep = hook'[g].dep
               PROVE  proc'[p].kind = "rollout"
    BY DEF CheckStaysTrue
  <1>1. CASE proc'[p] = proc[p] /\ hook'[g] = hook[g]
    BY <1>1 DEF CheckStaysTrue, Active
  <1>2. ASSUME NEW h \in Hooks, HookStart(h) PROVE proc'[p].kind = "rollout"
    <2>1. hook'[g] = hook[g]
      BY <1>2, SubmitFrame, HookReturnFrame
    <2>2. Submitted(hook[h].dep, "rollout") \/ UNCHANGED <<proc, worker>>
      BY <1>2, SubmitFrame
    <2>3. proc'[p] = proc[p] \/ proc'[p].kind = "rollout"
      BY <2>2, SubmittedFrame
    <2>4. QED
      BY <1>1, <2>1, <2>3
  <1>3. ASSUME NEW h \in Hooks, HookStep(h), ~HookStart(h) PROVE proc'[p].kind = "rollout"
    <2>1. proc'[p] = proc[p] /\ (g # h => hook'[g] = hook[g])
      BY <1>3, HookFrame
    <2>2. CASE g = h
      BY <1>3, <2>1, <2>2, CheckedFacts DEF Active
    <2>3. QED
      BY <1>1, <2>1, <2>2
  <1>4. CASE \A h \in Hooks : ~HookStep(h)
    <2>1. hook'[g] = hook[g]
      BY <1>4, HookStartsKept
    <2>2. ASSUME NEW d \in Deployments, CreateProcess(d) PROVE proc'[p].kind = "rollout"
      <3>1. Submitted(d, "full") \/ UNCHANGED <<proc, worker>>
        BY <2>2, SubmitFrame
      <3>2. proc'[p] = proc[p] \/ proc'[p].dep = d
        BY <3>1, SubmittedFrame
      <3>3. hook[g].dep # d
        BY <2>1, <2>2, SubmitFrame DEF PendingUnknown
      <3>4. QED
        BY <1>1, <2>1, <3>2, <3>3
    <2>3. ASSUME NEW q \in Processes, WorkerStep(q) PROVE proc'[p].kind = "rollout"
      BY <2>1, <2>3, WorkerKeepsActive DEF CheckStaysTrue
    <2>4. CASE Crash
      BY <1>1, <2>1, <2>4 DEF Crash, procVars
    <2>5. QED
      BY <1>1, <1>4, <2>1, <2>2, <2>3, <2>4, ProcessesKept DEF HookStep
  <1>5. QED
    BY <1>2, <1>3, <1>4

LEMMA FullExcludesRolloutStep ==
  ASSUME TypeOK, WorkersOfActive, PendingUnknown, CheckStaysTrue, FullExcludesRollout, Next
  PROVE  FullExcludesRollout'
  <1> SUFFICES ASSUME NEW p \in Processes, NEW q \in Processes, Active(p)', Active(q)',
                      proc'[p].kind = "full", proc'[q].kind = "rollout"
               PROVE  proc'[p].dep # proc'[q].dep
    BY DEF FullExcludesRollout
  <1>1. CASE proc'[p] = proc[p] /\ proc'[q] = proc[q]
    BY <1>1 DEF FullExcludesRollout, Active
  <1>2. ASSUME NEW d \in Deployments, CreateProcess(d) PROVE proc'[p].dep # proc'[q].dep
    <2>1. Submitted(d, "full") \/ UNCHANGED <<proc, worker>>
      BY <1>2, SubmitFrame
    <2>2. proc'[p] = proc[p] \/ proc'[p].dep = d
      BY <2>1, SubmittedFrame
    <2>3. proc'[q] = proc[q]
      BY <2>1, SubmittedFrame
    <2>4. proc[q].dep # d
      BY <1>2, <2>3, SubmitFrame DEF PendingUnknown, Active
    <2>5. QED
      BY <1>1, <2>2, <2>3, <2>4
  <1>3. ASSUME NEW h \in Hooks, HookStart(h) PROVE proc'[p].dep # proc'[q].dep
    <2>1. Submitted(hook[h].dep, "rollout") \/ UNCHANGED <<proc, worker>>
      BY <1>3, SubmitFrame
    <2>2. proc'[q] = proc[q] \/ proc'[q].dep = hook[h].dep
      BY <2>1, SubmittedFrame
    <2>3. proc'[p] = proc[p]
      BY <2>1, SubmittedFrame
    <2>4. proc[p].dep # hook[h].dep
      BY <1>3, <2>3, SubmitFrame DEF CheckStaysTrue, Active
    <2>5. QED
      BY <1>1, <2>2, <2>3, <2>4
  <1>4. ASSUME NEW r \in Processes, WorkerStep(r) PROVE proc'[p].dep # proc'[q].dep
    BY <1>4, WorkerKeepsActive DEF FullExcludesRollout
  <1>5. CASE Crash
    BY <1>1, <1>5 DEF Crash, procVars
  <1>6. QED
    BY <1>1, <1>2, <1>3, <1>4, <1>5, ProcessesKept

-----------------------------------------------------------------------------
(* The theorems.                                                           *)

LEMMA InitInv ==
  ASSUME Init
  PROVE  ExclusionInv
  <1>0. EnvTypeOK
    BY DEF Init, EnvTypeOK
  <1>1. DepTypeOK /\ ProcTypeOK
    BY BoundsAssumption
    DEF Init, DepTypeOK, ProcTypeOK, NoDep, NoProc, DepStatus, ProcStatus,
        JobStatus, Images, Actors
  <1>2. ImageTypeOK /\ GitHubTypeOK
    BY BoundsAssumption, FlagsAssumption
    DEF Init, ImageTypeOK, GitHubTypeOK, NoRun, Images, UserImage
  <1>3. WorkerTypeOK /\ ReconTypeOK
    BY DEF Init, WorkerTypeOK, ReconTypeOK, NoWorker, IdleRec, WorkerPc, ReconPc, Images, Actors
  <1>4. HookTypeOK
    BY DEF Init, HookTypeOK, IdleHook, IdleBuilder, HookPc, Images, Actors
  <1>5. TypeOK
    BY <1>0, <1>1, <1>2, <1>3, <1>4 DEF TypeOK
  <1>6. /\ \A d \in Deployments : dep[d].status = "absent"
        /\ \A p \in Processes : proc[p].status = "absent" /\ worker[p].pc = "none"
        /\ \A a \in Actors : recon[a].pc = "idle"
        /\ \A h \in Hooks : hook[h].pc = "idle"
        /\ creating = {} /\ todo = {}
    BY DEF Init, NoDep, NoProc, NoWorker, IdleRec, IdleHook, Actors
  <1>7. NoDanglingReferences /\ PendingUnknown
    BY <1>6 DEF NoDanglingReferences, PendingUnknown
  <1>8. WorkersOfActive /\ CheckStaysTrue /\ FullExcludesRollout
    BY <1>6 DEF WorkersOfActive, CheckStaysTrue, FullExcludesRollout, Active
  <1>9. QED
    BY <1>5, <1>7, <1>8 DEF ExclusionInv

LEMMA TypeStep ==
  ASSUME TypeOK, NoDanglingReferences, WorkersOfActive, Next
  PROVE  TypeOK'
  BY ApiTypes, GitHubTypes, WorkerTypes, ReconTypes, HookTypes, EnvironmentTypes DEF Next, Actors

LEMMA StutterInv ==
  ASSUME ExclusionInv, UNCHANGED vars
  PROVE  ExclusionInv'
  <1> USE DEF vars, clockVars, envVars, depVars, procVars, imageVars, githubVars
  <1>1. TypeOK'
    BY DEF ExclusionInv, TypeOK, EnvTypeOK, DepTypeOK, ProcTypeOK, ImageTypeOK, GitHubTypeOK,
       WorkerTypeOK, ReconTypeOK, HookTypeOK
  <1>2. NoDanglingReferences' /\ PendingUnknown'
    BY DEF ExclusionInv, NoDanglingReferences, PendingUnknown, Inserted
  <1>3. WorkersOfActive' /\ CheckStaysTrue' /\ FullExcludesRollout'
    BY DEF ExclusionInv, WorkersOfActive, CheckStaysTrue, FullExcludesRollout, Active
  <1>4. QED
    BY <1>1, <1>2, <1>3 DEF ExclusionInv

\* The inductive invariant: types, references, what pending calls of Create and
\* callbacks past their check may rely on, and the exclusion these give.
THEOREM ExclusionInvariant == Spec => []ExclusionInv
  <1>1. Init => ExclusionInv
    BY InitInv
  <1>2. ExclusionInv /\ [Next]_vars => ExclusionInv'
    <2>1. ASSUME ExclusionInv, Next PROVE ExclusionInv'
      BY <2>1, TypeStep, NoDanglingReferencesStep, WorkersOfActiveStep, PendingUnknownStep,
         CheckStaysTrueStep, FullExcludesRolloutStep
      DEF ExclusionInv
    <2>2. QED
      BY <2>1, StutterInv
  <1>3. QED
    BY <1>1, <1>2, PTL DEF Spec

\* Every variable of the pipeline keeps its type, for any bounds and any number of
\* concurrent callbacks: no statement writes a status, a run or a deployment that
\* its table cannot hold.
THEOREM TypeCorrect == Spec => []TypeOK
  <1>1. ExclusionInv => TypeOK
    BY DEF ExclusionInv
  <1>2. QED
    BY <1>1, ExclusionInvariant, PTL

\* Workers, reconciliations, callbacks and pending calls of Create always refer to
\* deployments that were inserted, across restarts of the controller.
THEOREM References == Spec => []NoDanglingReferences
  <1>1. ExclusionInv => NoDanglingReferences
    BY DEF ExclusionInv
  <1>2. QED
    BY <1>1, ExclusionInvariant, PTL

\* The process that builds a deployment and a rollout started by a callback are
\* never active for the same deployment, although shouldStartWebhookRollout and
\* the insertion of the process are separate statements.
THEOREM Exclusion == Spec => []FullExcludesRollout
  <1>1. ExclusionInv => FullExcludesRollout
    BY DEF ExclusionInv
  <1>2. QED
    BY <1>1, ExclusionInvariant, PTL
=============================================================================
