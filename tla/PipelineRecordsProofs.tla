----------------------- MODULE PipelineRecordsProofs -----------------------
(***************************************************************************)
(* What the pipeline records about its processes, for every value of the   *)
(* constants: order of jobs, verdicts, deployments that run, that the      *)
(* tables implement ProcessRecords, and that what is deployed was built.   *)
(***************************************************************************)
EXTENDS DeploymentPipelineProofs

LivePc == {"body", "wait", "poll", "commit", "mark", "rolled", "finish"}

\* Rows of processes and of runs are inserted in order.
CountInv ==
  /\ \A p \in Processes :
       /\ p <= procCount <=> proc[p].status # "absent"
       /\ p > procCount =>
            worker[p].step = 1 /\ \A n \in JobNames : job[p][n] = "absent"
  /\ \A r \in Runs : r > runCount => run[r].state = "absent"

\* The jobs before the worker's step have succeeded, those after it have not
\* begun, and the one in between is as the worker's program counter says.
Progress(p) ==
  /\ worker[p].step \in 1 .. Len(Plan(p)) + 1
  /\ \A j \in 1 .. Len(Plan(p)) :
       /\ j < worker[p].step => job[p][Plan(p)[j]] = "succeeded"
       /\ j > worker[p].step => job[p][Plan(p)[j]] = "queued"
  /\ worker[p].pc \in LivePc =>
       worker[p].step <= Len(Plan(p)) /\ job[p][CurrentJob(p)] = "running"
  /\ worker[p].pc = "failing" =>
       /\ worker[p].step <= Len(Plan(p))
       /\ job[p][CurrentJob(p)] \in {"queued", "running", "failed"}
  /\ worker[p].pc = "closing" =>
       worker[p].step <= Len(Plan(p)) /\ job[p][CurrentJob(p)] = "running"
  /\ worker[p].pc = "end" => worker[p].step = Len(Plan(p)) + 1
  /\ proc[p].status = "queued" => worker[p].step = 1 /\ job[p][CurrentJob(p)] = "queued"
  /\ proc[p].status = "succeeded" => worker[p].step = Len(Plan(p)) + 1

\* A worker that is past the dispatch has seen its run end well.
Earned(p) ==
  /\ worker[p].pc \in {"wait", "poll"} => CurrentJob(p) = "github_dispatch"
  /\ worker[p].pc \in {"commit", "mark"} => CurrentJob(p) = "argocd"
  /\ worker[p].pc \in {"rolled", "finish"} => CurrentJob(p) = "rollout"
  /\ worker[p].pc = "poll" => worker[p].run \in Runs
  /\ GitHubSource /\ proc[p].kind = "full" /\ worker[p].step > 4 =>
       worker[p].run \in Runs /\ run[worker[p].run].state = "success"

RecordInv ==
  /\ ExclusionInv /\ CountInv /\ RunningWasRolledOut
  /\ \A p \in Processes : proc[p].status # "absent" => Progress(p) /\ Earned(p)

-----------------------------------------------------------------------------
(* Plans.                                                                  *)

LongPlan == <<"validate", "network", "github_workflow", "github_dispatch",
              "argocd", "rollout", "connectivity">>
ShortPlan == <<"validate", "network", "argocd", "rollout", "connectivity">>

LEMMA Names ==
  /\ Len(LongPlan) = 7 /\ Len(ShortPlan) = 5
  /\ DOMAIN LongPlan = 1 .. 7 /\ DOMAIN ShortPlan = 1 .. 5
  /\ LongPlan[1] = "validate" /\ LongPlan[2] = "network" /\ LongPlan[3] = "github_workflow"
  /\ LongPlan[4] = "github_dispatch" /\ LongPlan[5] = "argocd" /\ LongPlan[6] = "rollout"
  /\ LongPlan[7] = "connectivity"
  /\ ShortPlan[1] = "validate" /\ ShortPlan[2] = "network" /\ ShortPlan[3] = "argocd"
  /\ ShortPlan[4] = "rollout" /\ ShortPlan[5] = "connectivity"
  BY DEF LongPlan, ShortPlan

\* A plan names each of its jobs once, its last jobs follow one another, and the
\* dispatch is the fourth job of a process that builds.
GoodPlan(plan, builds) ==
  /\ Len(plan) \in Nat /\ Len(plan) >= 5 /\ DOMAIN plan = 1 .. Len(plan)
  /\ \A j \in 1 .. Len(plan) : plan[j] \in JobNames
  /\ \A i, j \in 1 .. Len(plan) : plan[i] = plan[j] => i = j
  /\ \A j \in 1 .. Len(plan) :
       /\ plan[j] = "github_dispatch" => builds /\ j = 4
       /\ plan[j] = "connectivity" => j - 1 \in 1 .. Len(plan) /\ plan[j - 1] = "rollout"
       /\ plan[j] = "rollout" => j - 1 \in 1 .. Len(plan) /\ plan[j - 1] = "argocd"
  /\ builds => Len(plan) >= 5 /\ plan[4] = "github_dispatch"
  /\ \E j \in 1 .. Len(plan) : plan[j] = "rollout"

LEMMA TwoPlans == GoodPlan(LongPlan, TRUE) /\ GoodPlan(ShortPlan, FALSE)
  <1>1. GoodPlan(LongPlan, TRUE)
    <2>1. \A j \in 1 .. 7 : j = 1 \/ j = 2 \/ j = 3 \/ j = 4 \/ j = 5 \/ j = 6 \/ j = 7
      OBVIOUS
    <2> QED
      BY <2>1, Names DEF GoodPlan, JobNames
  <1>2. GoodPlan(ShortPlan, FALSE)
    <2>1. \A j \in 1 .. 5 : j = 1 \/ j = 2 \/ j = 3 \/ j = 4 \/ j = 5
      OBVIOUS
    <2> QED
      BY <2>1, Names DEF GoodPlan, JobNames
  <1> QED
    BY <1>1, <1>2

LEMMA PlanFacts ==
  ASSUME NEW p
  PROVE  GoodPlan(Plan(p), GitHubSource /\ proc[p].kind = "full")
  <1>1. Plan(p) = IF GitHubSource /\ proc[p].kind = "full" THEN LongPlan ELSE ShortPlan
    BY DEF Plan, LongPlan, ShortPlan
  <1>2. CASE GitHubSource /\ proc[p].kind = "full"
    <2>1. Plan(p) = LongPlan
      BY <1>1, <1>2
    <2> QED
      BY <1>2, <2>1, TwoPlans, SMTT(30) DEF GoodPlan
  <1>3. CASE ~(GitHubSource /\ proc[p].kind = "full")
    <2>1. Plan(p) = ShortPlan
      BY <1>1, <1>3
    <2> QED
      BY <1>3, <2>1, TwoPlans, SMTT(30) DEF GoodPlan
  <1> QED
    BY <1>2, <1>3

-----------------------------------------------------------------------------
(* What a step does to the records.                                        *)

OnlyProcess(p) ==
  /\ \A q \in Processes : q # p => worker'[q] = worker[q] /\ proc'[q] = proc[q] /\ job'[q] = job[q]
  /\ procCount' = procCount /\ proc'[p].dep = proc[p].dep /\ proc'[p].kind = proc[p].kind

Boots(p) ==
  /\ worker[p].pc = "boot" /\ worker'[p].pc = "body" /\ proc'[p].status = "running"
  /\ worker'[p].step = worker[p].step /\ worker'[p].run = worker[p].run
  /\ job'[p] = [job[p] EXCEPT ![CurrentJob(p)] = "running"]

Quits(p) ==
  /\ worker[p].pc = "boot" /\ worker'[p].pc \in {"gone", "failing"}
  /\ proc'[p].status = "running" /\ job'[p] = job[p]
  /\ worker'[p].step = worker[p].step /\ worker'[p].run = worker[p].run

Fails(p) ==
  /\ worker[p].pc \in LivePc /\ worker'[p].pc = "failing" /\ proc'[p] = proc[p]
  /\ worker'[p].step = worker[p].step /\ worker'[p].run = worker[p].run
  /\ job'[p] = [job[p] EXCEPT ![CurrentJob(p)] = "failed"]

Succeeds(p) ==
  /\ worker[p].pc \in LivePc /\ proc'[p] = proc[p]
  /\ worker'[p].step = worker[p].step + 1 /\ worker'[p].run = worker[p].run
  /\ worker'[p].pc = IF worker[p].step + 1 <= Len(Plan(p)) THEN "body" ELSE "end"
  /\ job'[p] = [n \in JobNames |->
       CASE n = CurrentJob(p) -> "succeeded"
         [] worker[p].step + 1 <= Len(Plan(p)) /\ n = Plan(p)[worker[p].step + 1] -> "running"
         [] OTHER -> job[p][n]]
  /\ CurrentJob(p) = "github_dispatch" =>
       worker[p].pc = "poll" /\ run[worker[p].run].state = "success"

Breaks(p) ==
  /\ worker[p].pc \in LivePc /\ worker'[p].pc = "failing" /\ proc'[p] = proc[p]
  /\ worker'[p].step = worker[p].step + 1 /\ worker'[p].run = worker[p].run
  /\ worker[p].step + 1 <= Len(Plan(p))
  /\ job'[p] = [job[p] EXCEPT ![CurrentJob(p)] = "succeeded"]
  /\ CurrentJob(p) = "github_dispatch" =>
       worker[p].pc = "poll" /\ run[worker[p].run].state = "success"

MovesOn(p) ==
  /\ worker[p].pc \in LivePc /\ worker'[p].pc \in (LivePc \ {"body"}) \cup {"failing"}
  /\ proc'[p] = proc[p] /\ job'[p] = job[p] /\ worker'[p].step = worker[p].step
  /\ worker'[p].run = worker[p].run \/ (worker[p].pc = "wait" /\ worker'[p].run \in Runs)
  /\ worker'[p].pc = "wait" => CurrentJob(p) = "github_dispatch"
  /\ worker'[p].pc = "poll" => worker[p].pc = "wait" /\ worker'[p].run \in Runs
  /\ worker'[p].pc = "commit" => CurrentJob(p) = "argocd"
  /\ worker'[p].pc = "mark" => worker[p].pc = "commit"
  /\ worker'[p].pc = "rolled" => CurrentJob(p) = "rollout"
  /\ worker'[p].pc = "finish" => worker[p].pc = "rolled"

Ends(p) ==
  /\ job'[p] = job[p]
  /\ worker'[p].step = worker[p].step /\ worker'[p].run = worker[p].run
  /\ \/ /\ worker[p].pc = "failing" /\ proc'[p].status = "failed"
        /\ worker'[p].pc = IF job[p][CurrentJob(p)] = "running" THEN "closing" ELSE "gone"
     \/ worker[p].pc = "end" /\ worker'[p].pc = "gone" /\ proc'[p].status = "succeeded"

Closes(p) ==
  /\ worker[p].pc = "closing" /\ worker'[p].pc = "gone" /\ proc'[p] = proc[p]
  /\ worker'[p].step = worker[p].step /\ worker'[p].run = worker[p].run
  /\ job'[p] = [job[p] EXCEPT ![CurrentJob(p)] = "failed"]

Moves(p) ==
  \/ Boots(p) \/ Quits(p) \/ Fails(p) \/ Succeeds(p) \/ Breaks(p)
  \/ MovesOn(p) \/ Ends(p) \/ Closes(p)

LEMMA Types ==
  ASSUME TypeOK
  PROVE  /\ worker \in [Processes -> [pc : WorkerPc, step : Nat, image : Images,
                                     run : {0} \cup Runs, since : Nat]]
         /\ proc \in [Processes -> [status : ProcStatus, dep : Actors, kind : {"full", "rollout"}]]
         /\ job \in [Processes -> [JobNames -> JobStatus]]
         /\ procCount \in Nat /\ runCount \in Nat
         /\ run \in [Runs -> [state : {"absent", "started", "success", "failure"},
                              image : Images, at : Nat, event : {"push", "dispatch"},
                              call : {"none", "sent", "lost", "taken"}]]
  BY BoundsAssumption DEF TypeOK, WorkerTypeOK, ProcTypeOK, GitHubTypeOK

LEMMA JobFailsFacts ==
  ASSUME TypeOK, NEW p \in Processes, JobFails(p), worker[p].pc \in LivePc
  PROVE  OnlyProcess(p) /\ Fails(p)
  BY Types DEF JobFails, OnlyProcess, Fails

LEMMA JobSucceedsFacts ==
  ASSUME TypeOK, NEW p \in Processes, NEW image, JobSucceeds(p, image),
         worker[p].pc \in LivePc,
         CurrentJob(p) = "github_dispatch" =>
           worker[p].pc = "poll" /\ run[worker[p].run].state = "success"
  PROVE  OnlyProcess(p) /\ Succeeds(p)
  <1> DEFINE next == worker[p].step + 1
             pc == IF next <= Len(Plan(p)) THEN "body" ELSE "end"
             rows == [n \in JobNames |->
               CASE n = CurrentJob(p) -> "succeeded"
                 [] next <= Len(Plan(p)) /\ n = Plan(p)[next] -> "running"
                 [] OTHER -> job[p][n]]
  <1>1. /\ job' = [job EXCEPT ![p] = rows] /\ UNCHANGED <<procCount, proc>>
        /\ worker' = [worker EXCEPT ![p].step = next, ![p].image = image, ![p].pc = pc]
    BY DEF JobSucceeds
  <1> HIDE DEF next, pc, rows
  <1>2. /\ worker'[p].step = next /\ worker'[p].pc = pc /\ worker'[p].run = worker[p].run
        /\ \A q \in Processes : q # p => worker'[q] = worker[q] /\ job'[q] = job[q]
        /\ job'[p] = rows
    BY <1>1, Types
  <1> QED
    BY <1>1, <1>2 DEF OnlyProcess, Succeeds, next, pc, rows

LEMMA JobDoneFacts ==
  ASSUME TypeOK, NEW p \in Processes, NEW image, JobDone(p, image),
         worker[p].pc \in LivePc,
         CurrentJob(p) = "github_dispatch" =>
           worker[p].pc = "poll" /\ run[worker[p].run].state = "success"
  PROVE  OnlyProcess(p) /\ (Succeeds(p) \/ Breaks(p) \/ MovesOn(p))
  <1>1. CASE JobSucceeds(p, image)
    BY <1>1, JobSucceedsFacts
  <1>2. CASE NextJobFails(p)
    <2>1. /\ worker'[p].pc = "failing" /\ worker'[p].step = worker[p].step + 1
          /\ worker'[p].run = worker[p].run
          /\ \A q \in Processes : q # p => worker'[q] = worker[q]
      BY <1>2, Types DEF NextJobFails
    <2>2. /\ job'[p] = [job[p] EXCEPT ![CurrentJob(p)] = "succeeded"]
          /\ \A q \in Processes : q # p => job'[q] = job[q]
          /\ UNCHANGED <<procCount, proc>>
      BY <1>2, Types DEF NextJobFails
    <2>3. worker[p].step + 1 <= Len(Plan(p))
      <3>1. worker[p].step \in Nat /\ worker[p].step < Len(Plan(p)) /\ Len(Plan(p)) \in Nat
        BY <1>2, Types, PlanFacts DEF NextJobFails, GoodPlan
      <3> QED
        BY <3>1
    <2> QED
      BY <2>1, <2>2, <2>3 DEF OnlyProcess, Breaks
  <1>3. CASE GoTo(p, "failing") /\ UNCHANGED procVars
    <2>1. /\ worker'[p].pc = "failing" /\ worker'[p].step = worker[p].step
          /\ worker'[p].run = worker[p].run
          /\ \A q \in Processes : q # p => worker'[q] = worker[q]
      BY <1>3, Types DEF GoTo
    <2> QED
      BY <1>3, <2>1 DEF OnlyProcess, MovesOn, procVars
  <1> QED
    BY <1>1, <1>2, <1>3 DEF JobDone

LEMMA WorkerCases ==
  ASSUME TypeOK, NEW p \in Processes, WorkerStep(p),
         worker[p].pc \in {"wait", "poll"} => CurrentJob(p) = "github_dispatch",
         worker[p].pc \in {"commit", "mark"} => CurrentJob(p) = "argocd",
         worker[p].pc \in {"rolled", "finish"} => CurrentJob(p) = "rollout"
  PROVE  OnlyProcess(p) /\ Moves(p) /\ UNCHANGED <<runCount, run>>
  <1> USE DEF workerRest, procVars, githubVars, LivePc
  <1>1. UNCHANGED <<runCount, run>>
    BY DEF WorkerStep, Boot, Validate, NetworkOrWorkflow, Dispatch, WaitForRun, PollRun,
           ArgoNothing, ArgoProject, ArgoCommit, ArgoMark, Rollout, RolloutMark,
           FinishRollout, Connectivity, FailProcess, SucceedProcess, EndProcess, CloseJob
  <1> DEFINE Done == OnlyProcess(p) /\ Moves(p)
  <1> SUFFICES Done
    BY <1>1
  <1>2. ASSUME JobFails(p), worker[p].pc \in LivePc PROVE Done
    BY <1>2, JobFailsFacts DEF Moves
  <1>3. ASSUME NEW image, JobDone(p, image), worker[p].pc \in LivePc,
               CurrentJob(p) # "github_dispatch"
        PROVE  Done
    BY <1>3, JobDoneFacts DEF Moves
  <1>4. CASE Boot(p)
    <2>1. /\ proc'[p].status = "running" /\ proc'[p].dep = proc[p].dep
          /\ proc'[p].kind = proc[p].kind
          /\ \A q \in Processes : q # p => proc'[q] = proc[q]
          /\ procCount' = procCount
      BY <1>4, Types DEF Boot
    <2>2. CASE UNCHANGED job /\ \E pc \in {"gone", "failing"} : GoTo(p, pc)
      <3>1. PICK pc \in {"gone", "failing"} : GoTo(p, pc)
        BY <2>2
      <3>2. /\ worker'[p].pc = pc /\ worker'[p].step = worker[p].step
            /\ worker'[p].run = worker[p].run
            /\ \A q \in Processes : q # p => worker'[q] = worker[q]
        BY <3>1, Types DEF GoTo
      <3>3. Quits(p)
        BY <1>4, <2>1, <2>2, <3>2 DEF Boot, Quits
      <3> QED
        BY <2>1, <2>2, <3>2, <3>3 DEF OnlyProcess, Moves
    <2>3. CASE /\ job' = [job EXCEPT ![p][CurrentJob(p)] = "running"]
               /\ \E image : worker' = [worker EXCEPT ![p].pc = "body", ![p].image = image]
      <3>1. PICK image : worker' = [worker EXCEPT ![p].pc = "body", ![p].image = image]
        BY <2>3
      <3>2. /\ worker'[p].pc = "body" /\ worker'[p].step = worker[p].step
            /\ worker'[p].run = worker[p].run
            /\ \A q \in Processes : q # p => worker'[q] = worker[q]
        BY <3>1, Types
      <3>3. /\ job'[p] = [job[p] EXCEPT ![CurrentJob(p)] = "running"]
            /\ \A q \in Processes : q # p => job'[q] = job[q]
        BY <2>3, Types
      <3>4. Boots(p)
        BY <1>4, <2>1, <3>2, <3>3 DEF Boot, Boots
      <3> QED
        BY <2>1, <3>2, <3>3, <3>4 DEF OnlyProcess, Moves
    <2> QED
      BY <1>4, <2>2, <2>3, Zenon DEF Boot
  <1>5. CASE Validate(p)
    BY <1>2, <1>3, <1>5 DEF Validate, AtBody
  <1>6. CASE NetworkOrWorkflow(p)
    BY <1>2, <1>3, <1>6 DEF NetworkOrWorkflow, AtBody
  <1>7. CASE Dispatch(p)
    <2>1. CASE JobFails(p)
      BY <1>2, <1>7, <2>1 DEF Dispatch, AtBody
    <2>2. CASE worker' = [worker EXCEPT ![p].pc = "wait", ![p].since = now]
               /\ UNCHANGED <<procCount, proc, job>>
      <3>1. /\ worker'[p].pc = "wait" /\ worker'[p].step = worker[p].step
            /\ worker'[p].run = worker[p].run
            /\ \A q \in Processes : q # p => worker'[q] = worker[q]
        BY <2>2, Types
      <3>2. worker[p].pc = "body" /\ CurrentJob(p) = "github_dispatch"
        BY <1>7 DEF Dispatch, AtBody
      <3> QED
        BY <2>2, <3>1, <3>2 DEF OnlyProcess, MovesOn, Moves
    <2> QED
      BY <1>7, <2>1, <2>2 DEF Dispatch
  <1>8. CASE WaitForRun(p)
    <2>1. CASE JobFails(p)
      BY <1>2, <1>8, <2>1 DEF WaitForRun
    <2>2. CASE (\E r \in Runs :
                  worker' = [worker EXCEPT ![p].pc = "poll", ![p].run = r, ![p].since = 0])
               /\ UNCHANGED <<procCount, proc, job>>
      <3>1. PICK r \in Runs :
              worker' = [worker EXCEPT ![p].pc = "poll", ![p].run = r, ![p].since = 0]
        BY <2>2
      <3>2. /\ worker'[p].pc = "poll" /\ worker'[p].step = worker[p].step
            /\ worker'[p].run = r
            /\ \A q \in Processes : q # p => worker'[q] = worker[q]
        BY <3>1, Types
      <3>3. worker[p].pc = "wait"
        BY <1>8 DEF WaitForRun
      <3> QED
        BY <2>2, <3>2, <3>3 DEF OnlyProcess, MovesOn, Moves
    <2> QED
      BY <1>8, <2>1, <2>2 DEF WaitForRun
  <1>9. CASE PollRun(p)
    <2>1. CASE JobFails(p)
      BY <1>2, <1>9, <2>1 DEF PollRun
    <2>2. CASE run[worker[p].run].state = "success" /\ JobDone(p, worker[p].image)
      BY <1>9, <2>2, JobDoneFacts DEF PollRun, Moves
    <2> QED
      BY <1>9, <2>1, <2>2 DEF PollRun
  <1>10. CASE ArgoNothing(p)
    BY <1>3, <1>10 DEF ArgoNothing, AtBody
  <1>11. ASSUME NEW pc \in {"commit", "mark", "rolled", "finish"}, GoTo(p, pc),
                UNCHANGED <<procCount, proc, job>>,
                worker[p].pc = CASE pc = "mark" -> "commit" [] pc = "finish" -> "rolled"
                                 [] OTHER -> "body",
                CurrentJob(p) = IF pc \in {"commit", "mark"} THEN "argocd" ELSE "rollout"
         PROVE  Done
    <2>1. /\ worker'[p].pc = pc /\ worker'[p].step = worker[p].step
          /\ worker'[p].run = worker[p].run
          /\ \A q \in Processes : q # p => worker'[q] = worker[q]
      BY <1>11, Types DEF GoTo
    <2>2. MovesOn(p)
      BY <1>11, <2>1 DEF MovesOn
    <2> QED
      BY <1>11, <2>1, <2>2 DEF OnlyProcess, Moves
  <1>12. CASE ArgoProject(p)
    BY <1>2, <1>11, <1>12 DEF ArgoProject, AtBody
  <1>13. CASE ArgoCommit(p)
    BY <1>2, <1>11, <1>13 DEF ArgoCommit
  <1>14. CASE ArgoMark(p)
    BY <1>3, <1>14 DEF ArgoMark
  <1>15. CASE Rollout(p) \/ RolloutMark(p) \/ FinishRollout(p)
    BY <1>2, <1>3, <1>11, <1>15 DEF Rollout, RolloutMark, FinishRollout, AtBody
  <1>16. CASE Connectivity(p)
    BY <1>2, <1>3, <1>16 DEF Connectivity, AtBody
  <1>17. ASSUME NEW status, NEW pc, EndProcess(p, status, pc),
                \/ /\ worker[p].pc = "failing" /\ status = "failed"
                   /\ pc = IF job[p][CurrentJob(p)] = "running" THEN "closing" ELSE "gone"
                \/ worker[p].pc = "end" /\ status = "succeeded" /\ pc = "gone"
         PROVE  Done
    <2>1. /\ worker'[p].pc = pc /\ worker'[p].step = worker[p].step
          /\ worker'[p].run = worker[p].run
          /\ \A q \in Processes : q # p => worker'[q] = worker[q]
      BY <1>17, Types DEF EndProcess, GoTo
    <2>2. /\ proc'[p].status = status /\ proc'[p].dep = proc[p].dep
          /\ proc'[p].kind = proc[p].kind
          /\ \A q \in Processes : q # p => proc'[q] = proc[q]
          /\ UNCHANGED <<procCount, job>>
      BY <1>17, Types DEF EndProcess
    <2> QED
      BY <1>17, <2>1, <2>2 DEF OnlyProcess, Ends, Moves
  <1>18. CASE FailProcess(p) \/ SucceedProcess(p)
    BY <1>17, <1>18 DEF FailProcess, SucceedProcess
  <1>19. CASE CloseJob(p)
    <2>1. /\ worker'[p].pc = "gone" /\ worker'[p].step = worker[p].step
          /\ worker'[p].run = worker[p].run
          /\ \A q \in Processes : q # p => worker'[q] = worker[q]
      BY <1>19, Types DEF CloseJob, GoTo
    <2>2. /\ job'[p] = [job[p] EXCEPT ![CurrentJob(p)] = "failed"]
          /\ \A q \in Processes : q # p => job'[q] = job[q]
          /\ UNCHANGED <<procCount, proc>>
      BY <1>19, Types DEF CloseJob
    <2> QED
      BY <1>19, <2>1, <2>2 DEF CloseJob, OnlyProcess, Closes, Moves
  <1> HIDE DEF Done
  <1> QED
    BY <1>4, <1>5, <1>6, <1>7, <1>8, <1>9, <1>10, <1>12, <1>13, <1>14, <1>15, <1>16, <1>18,
       <1>19
    DEF WorkerStep

\* Steps of nobody who owns a record.
LEMMA RecordsKept ==
  ASSUME Next,
         \A d \in Deployments : ~CreateProcess(d), \A p \in Processes : ~WorkerStep(p),
         \A h \in Hooks : ~HookStart(h), ~Crash
  PROVE  UNCHANGED <<procCount, proc, job, worker>>
  BY DEF Next, CreateDeployment, Rollback, StartDispatch, StartRecord, RunStarts, RunLost, Push,
     RunConcludes, Ticker, TickerScan, TickerNext, ReconStep, ReconLoad, ReconWait, ReconPoll,
     ReconTag, ReconMark, ReconFail, HookStep, HookMatch, HookWrite, HookProject, HookTag,
     HookCheck, Deliver, ArgoNotifies, ArgoSync, Tick, procVars, reconRest, hookRest, Actors

\* A process that is handed in, with its jobs.
HandedIn(p) ==
  /\ p = procCount + 1 /\ procCount' = p
  /\ proc'[p].status = "queued" /\ proc'[p].kind \in {"full", "rollout"}
  /\ job'[p] = [n \in JobNames |-> IF n \in JobRows(proc'[p].kind) THEN "queued" ELSE "absent"]
  /\ worker'[p].pc \in {"boot", "gone"}
  /\ worker'[p].step = worker[p].step /\ worker'[p].run = worker[p].run
  /\ \A q \in Processes : q # p => worker'[q] = worker[q] /\ proc'[q] = proc[q] /\ job'[q] = job[q]

LEMMA SubmitCases ==
  ASSUME TypeOK, (\E d \in Deployments : CreateProcess(d)) \/ (\E h \in Hooks : HookStart(h))
  PROVE  /\ (\E p \in Processes : HandedIn(p)) \/ UNCHANGED <<procCount, proc, job, worker>>
         /\ UNCHANGED <<runCount, run>>
  <1>1. ASSUME NEW d \in Actors, NEW kind \in {"full", "rollout"}, NEW pc \in {"boot", "gone"},
               InsertProcess(d, kind), StartWorker(procCount + 1, pc)
        PROVE  \E p \in Processes : HandedIn(p)
    <2> DEFINE p == procCount + 1
    <2>1. p \in Processes
      BY <1>1, InsertProcessType DEF TypeOK
    <2>2. /\ procCount' = p
          /\ proc'[p] = [status |-> "queued", dep |-> d, kind |-> kind]
          /\ job'[p] = [n \in JobNames |-> IF n \in JobRows(kind) THEN "queued" ELSE "absent"]
          /\ \A q \in Processes : q # p => proc'[q] = proc[q] /\ job'[q] = job[q]
      BY <1>1, <2>1, Types DEF InsertProcess
    <2>3. /\ worker'[p].pc = pc /\ worker'[p].step = worker[p].step
          /\ worker'[p].run = worker[p].run
          /\ \A q \in Processes : q # p => worker'[q] = worker[q]
      BY <1>1, <2>1, Types DEF StartWorker
    <2>4. HandedIn(p)
      BY <2>2, <2>3 DEF HandedIn
    <2> QED
      BY <2>1, <2>4
  <1>2. ASSUME NEW d \in Deployments, CreateProcess(d)
        PROVE  /\ (\E p \in Processes : HandedIn(p)) \/ UNCHANGED <<procCount, proc, job, worker>>
               /\ UNCHANGED <<runCount, run>>
    BY <1>1, <1>2 DEF CreateProcess, Actors, procVars, githubVars
  <1>3. ASSUME NEW h \in Hooks, HookStart(h)
        PROVE  /\ (\E p \in Processes : HandedIn(p)) \/ UNCHANGED <<procCount, proc, job, worker>>
               /\ UNCHANGED <<runCount, run>>
    <2>1. hook[h].dep \in Actors
      BY DEF TypeOK, HookTypeOK
    <2> QED
      BY <1>1, <1>3, <2>1 DEF HookStart, procVars, hookRest
  <1> QED
    BY <1>2, <1>3

\* A run that ended well stays so.
LEMMA RunsKept ==
  ASSUME TypeOK, CountInv, Next
  PROVE  /\ \A r \in Runs : r > runCount' => run'[r].state = "absent"
         /\ \A r \in Runs : run[r].state = "success" => run'[r].state = "success"
  <1> DEFINE Kept == /\ \A r \in Runs : r > runCount' => run'[r].state = "absent"
                     /\ \A r \in Runs : run[r].state = "success" => run'[r].state = "success"
  <1> SUFFICES Kept
    OBVIOUS
  <1>1. UNCHANGED <<runCount, run>> => Kept
    BY DEF CountInv
  <1>2. ASSUME NEW image, NEW event, InsertRun(image, event) PROVE Kept
    <2>1. /\ runCount + 1 \in Runs /\ runCount' = runCount + 1
          /\ \A r \in Runs : r # runCount + 1 => run'[r] = run[r]
      BY <1>2, Types, BoundsAssumption DEF InsertRun, Runs
    <2>2. run[runCount + 1].state = "absent"
      BY <2>1, Types DEF CountInv, Runs
    <2>3. \A r \in Runs : r > runCount + 1 => r # runCount + 1 /\ r > runCount
      BY Types DEF Runs
    <2> QED
      BY <2>1, <2>2, <2>3 DEF CountInv
  <1>3. ASSUME NEW q \in Runs, RunConcludes(q) PROVE Kept
    <2>1. /\ run[q].state = "started" /\ UNCHANGED runCount
          /\ \A r \in Runs : r # q => run'[r] = run[r]
      BY <1>3, Types DEF RunConcludes
    <2>2. ~(q > runCount)
      BY <2>1 DEF CountInv
    <2> QED
      BY <2>1, <2>2 DEF CountInv
  <1>4. ASSUME NEW h \in Hooks, NEW q \in Runs, Deliver(h, q) PROVE Kept
    <2>1. UNCHANGED runCount /\ \A r \in Runs : run'[r].state = run[r].state
      BY <1>4, Types DEF Deliver, hookRest
    <2> QED
      BY <2>1 DEF CountInv
  <1>5. CASE \E p \in Processes : WorkerStep(p)
    <2>1. UNCHANGED <<runCount, run>>
      BY <1>5 DEF WorkerStep, Boot, Validate, NetworkOrWorkflow, Dispatch, WaitForRun, PollRun,
           ArgoNothing, ArgoProject, ArgoCommit, ArgoMark, Rollout, RolloutMark, FinishRollout,
           Connectivity, FailProcess, SucceedProcess, EndProcess, CloseJob, githubVars
    <2> QED
      BY <1>1, <2>1
  <1>6. CASE (\E d \in Deployments : CreateProcess(d)) \/ (\E h \in Hooks : HookStart(h))
    BY <1>1, <1>6, SubmitCases
  <1>7. CASE RunStarts \/ Push
    <2> HIDE DEF Kept
    <2> QED
      BY <1>2, <1>7 DEF RunStarts, Push
  <1>8. CASE \E q \in Runs : RunConcludes(q)
    BY <1>3, <1>8
  <1>9. CASE Ticker \/ \E a \in Actors : ReconStep(a)
    <2>1. UNCHANGED <<runCount, run>>
      BY <1>9 DEF Ticker, TickerScan, TickerNext, ReconStep, ReconLoad, ReconWait, ReconPoll,
         ReconTag, ReconMark, ReconFail, reconRest, githubVars
    <2> QED
      BY <1>1, <2>1
  <1>10. CASE \E h \in Hooks : HookStep(h) /\ ~HookStart(h)
    <2>1. UNCHANGED <<runCount, run>>
      BY <1>10 DEF HookStep, HookMatch, HookWrite, HookProject, HookTag, HookCheck, hookRest,
         githubVars
    <2> QED
      BY <1>1, <2>1
  <1>11. CASE \E h \in Hooks : \E q \in Runs : Deliver(h, q)
    BY <1>4, <1>11
  <1>12. CASE \/ CreateDeployment \/ Rollback \/ StartDispatch \/ StartRecord \/ RunLost
              \/ ArgoNotifies \/ ArgoSync \/ Tick \/ Crash
    <2>1. UNCHANGED <<runCount, run>>
      BY <1>12 DEF CreateDeployment, Rollback, StartDispatch, StartRecord, RunLost, ArgoNotifies,
         ArgoSync, Tick, Crash, githubVars
    <2> QED
      BY <1>1, <2>1
  <1> HIDE DEF Kept
  <1>13. Kept
    BY <1>5, <1>6, <1>7, <1>8, <1>9, <1>10, <1>11, <1>12 DEF Next, Actors
  <1> QED
    BY <1>13

-----------------------------------------------------------------------------
(* The invariant of the records.                                           *)

RunsStay == \A r \in Runs : run[r].state = "success" => run'[r].state = "success"

LEMMA SamePlan ==
  ASSUME NEW p, proc'[p].kind = proc[p].kind
  PROVE  /\ Plan(p)' = Plan(p)
         /\ worker'[p].step = worker[p].step => CurrentJob(p)' = CurrentJob(p)
  <1>1. Plan(p)' = Plan(p)
    BY DEF Plan
  <1> QED
    BY <1>1 DEF CurrentJob

\* What the step of a worker finds.
LEMMA Found ==
  ASSUME RecordInv, NEW p \in Processes, proc[p].status # "absent"
  PROVE  /\ Progress(p) /\ Earned(p) /\ GoodPlan(Plan(p), GitHubSource /\ proc[p].kind = "full")
         /\ worker[p].step \in Nat /\ proc[p].status \in ProcStatus
         /\ worker[p].pc \in LivePc \cup {"failing", "end"} => proc[p].status = "running"
         /\ worker[p].pc = "boot" => proc[p].status = "queued"
         /\ worker[p].pc = "closing" => proc[p].status = "failed"
  <1>1. WorkersOfActive /\ TypeOK
    BY DEF RecordInv, ExclusionInv
  <1> QED
    BY <1>1, PlanFacts, Types DEF RecordInv, WorkersOfActive, LivePc

LEMMA BootsInv ==
  ASSUME RecordInv, NEW p \in Processes, proc[p].status # "absent", OnlyProcess(p), Boots(p), RunsStay
  PROVE  Progress(p)' /\ Earned(p)'
  <1> DEFINE plan == Plan(p)
             s == worker[p].step
  <1>1. /\ Progress(p) /\ GoodPlan(plan, GitHubSource /\ proc[p].kind = "full")
        /\ proc[p].status = "queued"
    BY Found DEF Boots
  <1>2. /\ Plan(p)' = plan /\ worker'[p].step = s /\ CurrentJob(p)' = CurrentJob(p)
        /\ s = 1 /\ CurrentJob(p) = plan[1]
    BY <1>1, SamePlan DEF OnlyProcess, Boots, Progress, CurrentJob
  <1>3. job[p] \in [JobNames -> JobStatus]
    BY Types DEF RecordInv, ExclusionInv
  <1>4. /\ \A j \in 1 .. Len(plan) : j # 1 => job'[p][plan[j]] = job[p][plan[j]]
        /\ job'[p][plan[1]] = "running"
    BY <1>1, <1>2, <1>3 DEF Boots, GoodPlan
  <1> HIDE DEF plan, s
  <1>5. Progress(p)'
    BY <1>1, <1>2, <1>4 DEF Progress, Boots, GoodPlan, plan, s
  <1>6. Earned(p)'
    BY <1>2 DEF Earned, Boots
  <1> QED
    BY <1>5, <1>6

LEMMA QuitsInv ==
  ASSUME RecordInv, NEW p \in Processes, proc[p].status # "absent", OnlyProcess(p), Quits(p), RunsStay
  PROVE  Progress(p)' /\ Earned(p)'
  <1>1. /\ Progress(p) /\ proc[p].status = "queued"
        /\ Len(Plan(p)) \in Nat /\ Len(Plan(p)) >= 5
    BY Found DEF Quits, GoodPlan
  <1>2. /\ Plan(p)' = Plan(p) /\ worker'[p].step = worker[p].step
        /\ CurrentJob(p)' = CurrentJob(p) /\ job'[p] = job[p] /\ worker[p].step = 1
        /\ worker'[p].pc \in {"gone", "failing"} /\ proc'[p].status = "running"
    BY <1>1, SamePlan DEF OnlyProcess, Quits, Progress
  <1>3. Progress(p)'
    BY <1>1, <1>2 DEF Progress, LivePc
  <1>4. Earned(p)'
    BY <1>2 DEF Earned
  <1> QED
    BY <1>3, <1>4

\* The job that a process ran when it failed is closed.
LEMMA ClosesInv ==
  ASSUME RecordInv, NEW p \in Processes, proc[p].status # "absent", OnlyProcess(p), Closes(p), RunsStay
  PROVE  Progress(p)' /\ Earned(p)'
  <1> DEFINE plan == Plan(p)
             s == worker[p].step
  <1>1. /\ Progress(p) /\ Earned(p) /\ GoodPlan(plan, GitHubSource /\ proc[p].kind = "full")
        /\ proc[p].status = "failed" /\ s \in Nat
    BY Found DEF Closes
  <1>2. /\ Plan(p)' = plan /\ worker'[p].step = s /\ CurrentJob(p)' = CurrentJob(p)
        /\ s \in 1 .. Len(plan) /\ CurrentJob(p) = plan[s]
    BY <1>1, SamePlan DEF OnlyProcess, Closes, Progress, CurrentJob, GoodPlan
  <1>3. job[p] \in [JobNames -> JobStatus]
    BY Types DEF RecordInv, ExclusionInv
  <1>4. \A j \in 1 .. Len(plan) : j # s => job'[p][plan[j]] = job[p][plan[j]]
    BY <1>1, <1>2, <1>3 DEF Closes, GoodPlan
  <1> HIDE DEF plan, s
  <1>5. Progress(p)'
    BY <1>1, <1>2, <1>4 DEF Progress, Closes, GoodPlan, LivePc, plan, s
  <1>6. Earned(p)'
    BY <1>1, <1>2 DEF Earned, Closes, OnlyProcess, RunsStay, s
  <1> QED
    BY <1>5, <1>6

LEMMA FailsInv ==
  ASSUME RecordInv, NEW p \in Processes, proc[p].status # "absent", OnlyProcess(p), Fails(p), RunsStay
  PROVE  Progress(p)' /\ Earned(p)'
  <1> DEFINE plan == Plan(p)
             s == worker[p].step
  <1>1. /\ Progress(p) /\ Earned(p) /\ GoodPlan(plan, GitHubSource /\ proc[p].kind = "full")
        /\ proc[p].status = "running" /\ s \in Nat
    BY Found DEF Fails
  <1>2. /\ Plan(p)' = plan /\ worker'[p].step = s /\ CurrentJob(p)' = CurrentJob(p)
        /\ s \in 1 .. Len(plan) /\ CurrentJob(p) = plan[s]
    BY <1>1, SamePlan DEF OnlyProcess, Fails, Progress, CurrentJob, GoodPlan
  <1>3. job[p] \in [JobNames -> JobStatus]
    BY Types DEF RecordInv, ExclusionInv
  <1>4. /\ \A j \in 1 .. Len(plan) : j # s => job'[p][plan[j]] = job[p][plan[j]]
        /\ job'[p][plan[s]] = "failed"
    BY <1>1, <1>2, <1>3 DEF Fails, GoodPlan
  <1> HIDE DEF plan, s
  <1>5. Progress(p)'
    BY <1>1, <1>2, <1>4 DEF Progress, Fails, GoodPlan, LivePc, plan, s
  <1>6. Earned(p)'
    BY <1>1, <1>2 DEF Earned, Fails, OnlyProcess, RunsStay, s
  <1> QED
    BY <1>5, <1>6

LEMMA SucceedsInv ==
  ASSUME RecordInv, NEW p \in Processes, proc[p].status # "absent", OnlyProcess(p), Succeeds(p), RunsStay
  PROVE  Progress(p)' /\ Earned(p)'
  <1> DEFINE plan == Plan(p)
             s == worker[p].step
             builds == GitHubSource /\ proc[p].kind = "full"
  <1>1. /\ Progress(p) /\ Earned(p) /\ GoodPlan(plan, builds)
        /\ proc[p].status = "running" /\ s \in Nat
    BY Found DEF Succeeds
  <1>2. /\ Plan(p)' = plan /\ worker'[p].step = s + 1
        /\ s \in 1 .. Len(plan) /\ CurrentJob(p) = plan[s] /\ CurrentJob(p)' = plan[s + 1]
    BY <1>1, SamePlan DEF OnlyProcess, Succeeds, Progress, CurrentJob, GoodPlan
  <1>3. /\ \A j \in 1 .. Len(plan) : j # s /\ j # s + 1 => job'[p][plan[j]] = job[p][plan[j]]
        /\ job'[p][plan[s]] = "succeeded"
        /\ s + 1 <= Len(plan) => job'[p][plan[s + 1]] = "running"
    <2> DEFINE status(n) ==
          CASE n = plan[s] -> "succeeded"
            [] s + 1 <= Len(plan) /\ n = plan[s + 1] -> "running"
            [] OTHER -> job[p][n]
    <2>1. \A n \in JobNames : job'[p][n] = status(n)
      BY <1>2 DEF Succeeds
    <2>2. \A j \in 1 .. Len(plan) : plan[j] \in JobNames
      BY <1>1 DEF GoodPlan
    <2>3. \A i, j \in 1 .. Len(plan) : plan[i] = plan[j] => i = j
      BY <1>1 DEF GoodPlan
    <2>4. Len(plan) \in Nat
      BY <1>1 DEF GoodPlan
    <2>5. ASSUME NEW j \in 1 .. Len(plan), j # s, j # s + 1
          PROVE  job'[p][plan[j]] = job[p][plan[j]]
      <3>1. plan[j] # plan[s]
        BY <1>2, <2>3, <2>5
      <3>2. s + 1 <= Len(plan) => plan[j] # plan[s + 1]
        BY <1>2, <2>3, <2>4, <2>5
      <3>3. status(plan[j]) = job[p][plan[j]]
        BY <3>1, <3>2
      <3> QED
        BY <2>1, <2>2, <3>3
    <2>6. job'[p][plan[s]] = "succeeded"
      <3>1. s + 1 <= Len(plan) => plan[s] # plan[s + 1]
        BY <1>2, <2>3, <2>4
      <3>2. status(plan[s]) = "succeeded"
        BY <3>1
      <3> HIDE DEF status
      <3> QED
        BY <1>2, <2>1, <2>2, <3>2
    <2>7. s + 1 <= Len(plan) => job'[p][plan[s + 1]] = "running"
      <3> SUFFICES ASSUME s + 1 <= Len(plan) PROVE job'[p][plan[s + 1]] = "running"
        OBVIOUS
      <3>1. s + 1 \in 1 .. Len(plan)
        BY <1>2, <2>4
      <3>2. plan[s + 1] # plan[s]
        BY <1>2, <2>3, <3>1
      <3>3. status(plan[s + 1]) = "running"
        BY <3>2
      <3> QED
        BY <2>1, <2>2, <3>1, <3>3
    <2> QED
      BY <2>5, <2>6, <2>7
  <1>4. worker'[p].pc = IF s + 1 <= Len(plan) THEN "body" ELSE "end"
    BY DEF Succeeds
  <1> HIDE DEF plan, s
  <1>5. Progress(p)'
    <2>0. /\ s \in 1 .. Len(plan) /\ Len(plan) \in Nat
          /\ \A j \in 1 .. Len(plan) : /\ j < s => job[p][plan[j]] = "succeeded"
                                       /\ j > s => job[p][plan[j]] = "queued"
      BY <1>1, <1>2 DEF Progress, GoodPlan, plan, s
    <2>1. /\ s + 1 \in 1 .. Len(plan) + 1
          /\ \A j \in 1 .. Len(plan) :
               /\ j < s + 1 => job'[p][plan[j]] = "succeeded"
               /\ j > s + 1 => job'[p][plan[j]] = "queued"
      <3>1. ASSUME NEW j \in 1 .. Len(plan)
            PROVE  /\ j < s + 1 => j < s \/ j = s
                   /\ j > s + 1 => j > s
                   /\ j < s \/ j > s + 1 => j # s /\ j # s + 1
        BY <2>0
      <3>2. s + 1 \in 1 .. Len(plan) + 1
        BY <2>0
      <3>3. ASSUME NEW j \in 1 .. Len(plan), j < s + 1
            PROVE  job'[p][plan[j]] = "succeeded"
        BY <1>3, <2>0, <3>1, <3>3
      <3>4. ASSUME NEW j \in 1 .. Len(plan), j > s + 1
            PROVE  job'[p][plan[j]] = "queued"
        BY <1>3, <2>0, <3>1, <3>4
      <3> QED
        BY <3>2, <3>3, <3>4
    <2>2. /\ worker'[p].pc \in LivePc => s + 1 <= Len(plan) /\ job'[p][plan[s + 1]] = "running"
          /\ worker'[p].pc \notin {"failing", "closing"}
          /\ worker'[p].pc = "end" => s + 1 = Len(plan) + 1
      BY <1>1, <1>2, <1>3, <1>4 DEF LivePc, GoodPlan
    <2>3. proc'[p].status = "running"
      BY <1>1 DEF Succeeds
    <2> QED
      BY <1>2, <2>1, <2>2, <2>3 DEF Progress
  <1>6. Earned(p)'
    <2>1. worker'[p].pc \in {"body", "end"} /\ worker'[p].run = worker[p].run
      BY <1>4 DEF Succeeds
    <2>2. ASSUME builds, s + 1 > 4
          PROVE  worker[p].run \in Runs /\ run'[worker[p].run].state = "success"
      <3>1. CASE s > 4
        BY <1>1, <2>2, <3>1 DEF Earned, RunsStay, s
      <3>2. CASE s = 4
        <4>1. CurrentJob(p) = "github_dispatch"
          BY <1>1, <1>2, <2>2, <3>2 DEF GoodPlan
        <4>2. worker[p].pc = "poll" /\ run[worker[p].run].state = "success"
          BY <4>1 DEF Succeeds
        <4> QED
          BY <1>1, <4>2 DEF Earned, RunsStay
      <3> QED
        BY <1>1, <2>2, <3>1, <3>2
    <2>3. proc'[p].kind = proc[p].kind
      BY DEF OnlyProcess
    <2> QED
      BY <1>2, <2>1, <2>2, <2>3 DEF Earned
  <1> QED
    BY <1>5, <1>6

\* A job has succeeded and the next one could not be started.
LEMMA BreaksInv ==
  ASSUME RecordInv, NEW p \in Processes, proc[p].status # "absent", OnlyProcess(p), Breaks(p), RunsStay
  PROVE  Progress(p)' /\ Earned(p)'
  <1> DEFINE plan == Plan(p)
             s == worker[p].step
             builds == GitHubSource /\ proc[p].kind = "full"
  <1>1. /\ Progress(p) /\ Earned(p) /\ GoodPlan(plan, builds)
        /\ proc[p].status = "running" /\ s \in Nat
    BY Found DEF Breaks
  <1>2. /\ Plan(p)' = plan /\ worker'[p].step = s + 1 /\ Len(plan) \in Nat /\ s + 1 <= Len(plan)
        /\ s \in 1 .. Len(plan) /\ CurrentJob(p) = plan[s] /\ CurrentJob(p)' = plan[s + 1]
    BY <1>1, SamePlan DEF OnlyProcess, Breaks, Progress, CurrentJob, GoodPlan
  <1>3. job[p] \in [JobNames -> JobStatus]
    BY Types DEF RecordInv, ExclusionInv
  <1>4. /\ \A j \in 1 .. Len(plan) : j # s => job'[p][plan[j]] = job[p][plan[j]]
        /\ job'[p][plan[s]] = "succeeded"
    BY <1>1, <1>2, <1>3 DEF Breaks, GoodPlan
  <1>5. /\ worker'[p].pc = "failing" /\ worker'[p].run = worker[p].run
        /\ proc'[p].status = "running" /\ proc'[p].kind = proc[p].kind
    BY <1>1 DEF Breaks, OnlyProcess
  <1> HIDE DEF plan, s, builds
  <1>6. Progress(p)'
    <2>1. \A j \in 1 .. Len(plan) : /\ j < s => job[p][plan[j]] = "succeeded"
                                    /\ j > s => job[p][plan[j]] = "queued"
      BY <1>1 DEF Progress, plan, s
    <2>2. \A j \in 1 .. Len(plan) : /\ j < s + 1 => job'[p][plan[j]] = "succeeded"
                                    /\ j > s + 1 => job'[p][plan[j]] = "queued"
      BY <1>1, <1>2, <1>4, <2>1
    <2>3. job'[p][plan[s + 1]] = "queued"
      BY <1>1, <1>2, <1>4, <2>1
    <2>4. s + 1 \in 1 .. Len(plan) + 1
      BY <1>1, <1>2
    <2> QED
      BY <1>2, <1>5, <2>2, <2>3, <2>4 DEF Progress, LivePc
  <1>7. Earned(p)'
    <2>1. ASSUME builds, s + 1 > 4
          PROVE  worker[p].run \in Runs /\ run'[worker[p].run].state = "success"
      <3>1. CASE s > 4
        BY <1>1, <2>1, <3>1 DEF Earned, RunsStay, s, builds
      <3>2. CASE s = 4
        <4>1. CurrentJob(p) = "github_dispatch"
          BY <1>1, <1>2, <2>1, <3>2 DEF GoodPlan
        <4>2. worker[p].pc = "poll" /\ run[worker[p].run].state = "success"
          BY <4>1 DEF Breaks
        <4> QED
          BY <1>1, <4>2 DEF Earned, RunsStay
      <3> QED
        BY <1>1, <2>1, <3>1, <3>2
    <2> QED
      BY <1>2, <1>5, <2>1 DEF Earned, builds
  <1> QED
    BY <1>6, <1>7

LEMMA MovesOnInv ==
  ASSUME RecordInv, NEW p \in Processes, proc[p].status # "absent", OnlyProcess(p), MovesOn(p), RunsStay
  PROVE  Progress(p)' /\ Earned(p)'
  <1> DEFINE plan == Plan(p)
             s == worker[p].step
  <1>1. /\ Progress(p) /\ Earned(p) /\ GoodPlan(plan, GitHubSource /\ proc[p].kind = "full")
        /\ proc[p].status = "running" /\ s \in Nat
    BY Found DEF MovesOn
  <1>2. /\ Plan(p)' = plan /\ worker'[p].step = s /\ CurrentJob(p)' = CurrentJob(p)
        /\ s \in 1 .. Len(plan) /\ CurrentJob(p) = plan[s]
    BY <1>1, SamePlan DEF OnlyProcess, MovesOn, Progress, CurrentJob, GoodPlan
  <1> HIDE DEF plan, s
  <1>3. Progress(p)'
    BY <1>1, <1>2 DEF Progress, MovesOn, LivePc, plan, s
  <1>4. Earned(p)'
    <2>1. /\ worker'[p].pc \in {"wait", "poll"} => CurrentJob(p) = "github_dispatch"
          /\ worker'[p].pc \in {"commit", "mark"} => CurrentJob(p) = "argocd"
          /\ worker'[p].pc \in {"rolled", "finish"} => CurrentJob(p) = "rollout"
          /\ worker'[p].pc = "poll" => worker'[p].run \in Runs
      BY <1>1 DEF MovesOn, Earned
    <2>2. CurrentJob(p) = "github_dispatch" => s = 4
      BY <1>1, <1>2 DEF GoodPlan
    <2>3. s > 4 => worker'[p].run = worker[p].run
      BY <1>1, <2>2 DEF MovesOn, Earned
    <2> QED
      BY <1>1, <1>2, <2>1, <2>3 DEF Earned, OnlyProcess, RunsStay, s
  <1> QED
    BY <1>3, <1>4

LEMMA EndsInv ==
  ASSUME RecordInv, NEW p \in Processes, proc[p].status # "absent", OnlyProcess(p), Ends(p), RunsStay
  PROVE  Progress(p)' /\ Earned(p)'
  <1>1. /\ Progress(p) /\ Earned(p) /\ Plan(p)' = Plan(p) /\ CurrentJob(p)' = CurrentJob(p)
        /\ worker'[p].step = worker[p].step /\ worker'[p].run = worker[p].run
        /\ job'[p] = job[p] /\ proc'[p].kind = proc[p].kind
        /\ worker'[p].pc \in {"gone", "closing"}
    BY Found, SamePlan DEF OnlyProcess, Ends
  <1>2. Progress(p)'
    BY <1>1 DEF Progress, Ends, LivePc
  <1>3. Earned(p)'
    BY <1>1 DEF Earned, RunsStay
  <1> QED
    BY <1>2, <1>3

\* A process that does not move keeps its part of the invariant.
LEMMA StaysInv ==
  ASSUME RecordInv, NEW p \in Processes, proc[p].status # "absent", RunsStay,
         proc'[p] = proc[p], job'[p] = job[p],
         worker'[p].step = worker[p].step, worker'[p].run = worker[p].run,
         worker'[p].pc \in {worker[p].pc, "none", "gone"}
  PROVE  Progress(p)' /\ Earned(p)'
  <1>1. /\ Progress(p) /\ Earned(p) /\ Plan(p)' = Plan(p) /\ CurrentJob(p)' = CurrentJob(p)
    BY Found, SamePlan
  <1>2. Progress(p)'
    BY <1>1 DEF Progress, LivePc
  <1>3. Earned(p)'
    BY <1>1 DEF Earned, RunsStay
  <1> QED
    BY <1>2, <1>3

LEMMA WorkerInv ==
  ASSUME RecordInv, RunsStay, NEW p \in Processes, WorkerStep(p)
  PROVE  /\ OnlyProcess(p) /\ proc[p].status # "absent" /\ proc'[p].status # "absent"
         /\ Moves(p) /\ Progress(p)' /\ Earned(p)'
  <1>1. /\ worker[p].pc \notin {"none", "gone"} /\ proc[p].status # "absent"
        /\ proc'[p].status \in {"running", "succeeded", "failed"}
    BY WorkerFrame DEF RecordInv, ExclusionInv
  <1>2. Earned(p)
    BY <1>1, Found
  <1>3. OnlyProcess(p) /\ Moves(p)
    BY <1>2, WorkerCases DEF Earned, RecordInv, ExclusionInv
  <1>4. proc[p].status # "absent" /\ proc'[p].status # "absent"
    BY <1>1
  <1>5. Progress(p)' /\ Earned(p)'
    BY <1>3, <1>4, BootsInv, QuitsInv, FailsInv, SucceedsInv, BreaksInv, MovesOnInv, EndsInv,
       ClosesInv
    DEF Moves
  <1> QED
    BY <1>3, <1>4, <1>5

LEMMA NextPlan ==
  ASSUME NEW p
  PROVE  GoodPlan(Plan(p)', GitHubSource /\ proc'[p].kind = "full")
  <1>1. Plan(p)' = IF GitHubSource /\ proc'[p].kind = "full" THEN LongPlan ELSE ShortPlan
    BY DEF Plan, LongPlan, ShortPlan
  <1>2. CASE GitHubSource /\ proc'[p].kind = "full"
    <2>1. Plan(p)' = LongPlan
      BY <1>1, <1>2
    <2> QED
      BY <1>2, <2>1, TwoPlans, SMTT(30) DEF GoodPlan
  <1>3. CASE ~(GitHubSource /\ proc'[p].kind = "full")
    <2>1. Plan(p)' = ShortPlan
      BY <1>1, <1>3
    <2> QED
      BY <1>3, <2>1, TwoPlans, SMTT(30) DEF GoodPlan
  <1> QED
    BY <1>2, <1>3

\* A process has rows for the jobs it is to run.
LEMMA HandedInRows ==
  ASSUME NEW p, proc'[p].kind \in {"full", "rollout"}
  PROVE  \A j \in DOMAIN Plan(p)' : Plan(p)'[j] \in JobRows(proc'[p].kind)
  <1>1. CASE proc'[p].kind = "full"
    BY <1>1, NextPlan DEF GoodPlan, JobRows
  <1>2. CASE proc'[p].kind = "rollout"
    <2> SUFFICES ASSUME NEW j \in DOMAIN Plan(p)'
                 PROVE  Plan(p)'[j] \in JobRows(proc'[p].kind)
      OBVIOUS
    <2>1. Plan(p)' = ShortPlan
      BY <1>2 DEF Plan, ShortPlan
    <2>2. j \in {1, 2, 3, 4, 5}
      BY <2>1, Names
    <2> QED
      BY <1>2, <2>1, <2>2, Names DEF JobRows, JobNames
  <1> QED
    BY <1>1, <1>2

LEMMA HandedInInv ==
  ASSUME RecordInv, NEW p \in Processes, HandedIn(p)
  PROVE  Progress(p)' /\ Earned(p)'
  <1>1. procCount \in Nat /\ p > procCount
    BY Types DEF HandedIn, RecordInv, ExclusionInv
  <1>2. worker'[p].step = 1
    BY <1>1 DEF HandedIn, RecordInv, CountInv
  <1>3. GoodPlan(Plan(p)', GitHubSource /\ proc'[p].kind = "full")
    BY NextPlan
  <1>4. \A j \in 1 .. Len(Plan(p)') : job'[p][Plan(p)'[j]] = "queued"
    <2>1. \A j \in DOMAIN Plan(p)' : Plan(p)'[j] \in JobRows(proc'[p].kind)
      BY HandedInRows DEF HandedIn
    <2> QED
      BY <1>3, <2>1 DEF HandedIn, GoodPlan
  <1>5. CurrentJob(p)' = Plan(p)'[1]
    BY <1>2 DEF CurrentJob
  <1>6. worker'[p].pc \in {"boot", "gone"} /\ proc'[p].status = "queued"
    BY DEF HandedIn
  <1> DEFINE plan == Plan(p)'
  <1>7. Len(plan) \in Nat /\ Len(plan) >= 5
    BY <1>3 DEF GoodPlan
  <1>8. Progress(p)'
    BY <1>2, <1>4, <1>5, <1>6, <1>7 DEF Progress, LivePc
  <1>9. Earned(p)'
    BY <1>2, <1>6 DEF Earned
  <1> QED
    BY <1>8, <1>9

LEMMA CountStep ==
  ASSUME RecordInv, Next
  PROVE  CountInv'
  <1>0. /\ TypeOK /\ procCount \in Nat /\ WorkersOfActive
        /\ \A p \in Processes : p <= procCount <=> proc[p].status # "absent"
        /\ \A p \in Processes : p > procCount =>
             worker[p].step = 1 /\ \A n \in JobNames : job[p][n] = "absent"
    BY Types DEF RecordInv, ExclusionInv, CountInv
  <1>1. \A r \in Runs : r > runCount' => run'[r].state = "absent"
    BY RunsKept DEF RecordInv, ExclusionInv
  <1> SUFFICES ASSUME NEW q \in Processes
               PROVE  /\ q <= procCount' <=> proc'[q].status # "absent"
                      /\ q > procCount' =>
                           worker'[q].step = 1 /\ \A n \in JobNames : job'[q][n] = "absent"
    BY <1>1 DEF CountInv
  <1>2. CASE UNCHANGED <<procCount, proc, job, worker>>
    BY <1>0, <1>2
  <1>3. ASSUME NEW p \in Processes, HandedIn(p)
        PROVE  /\ q <= procCount' <=> proc'[q].status # "absent"
               /\ q > procCount' =>
                    worker'[q].step = 1 /\ \A n \in JobNames : job'[q][n] = "absent"
    <2>1. p = procCount + 1 /\ procCount' = p /\ proc'[p].status = "queued"
      BY <1>3 DEF HandedIn
    <2>2. CASE q = p
      BY <1>0, <2>1, <2>2
    <2>3. CASE q # p
      <3>1. worker'[q] = worker[q] /\ proc'[q] = proc[q] /\ job'[q] = job[q]
        BY <1>3, <2>3 DEF HandedIn
      <3>2. (q <= procCount' <=> q <= procCount) /\ (q > procCount' => q > procCount)
        BY <1>0, <2>1, <2>3 DEF Processes
      <3> QED
        BY <1>0, <3>1, <3>2
    <2> QED
      BY <2>2, <2>3
  <1>4. CASE (\E d \in Deployments : CreateProcess(d)) \/ (\E h \in Hooks : HookStart(h))
    BY <1>0, <1>2, <1>3, <1>4, SubmitCases
  <1>5. ASSUME NEW p \in Processes, WorkerStep(p)
        PROVE  /\ q <= procCount' <=> proc'[q].status # "absent"
               /\ q > procCount' =>
                    worker'[q].step = 1 /\ \A n \in JobNames : job'[q][n] = "absent"
    <2>1. OnlyProcess(p) /\ proc[p].status # "absent" /\ proc'[p].status # "absent"
      BY <1>5, WorkerInv, RunsKept DEF RecordInv, ExclusionInv, RunsStay
    <2>2. p <= procCount /\ procCount' = procCount
      BY <1>0, <2>1 DEF OnlyProcess
    <2>3. CASE q = p
      BY <1>0, <2>1, <2>2, <2>3 DEF Processes
    <2>4. CASE q # p
      BY <1>0, <2>1, <2>2, <2>4 DEF OnlyProcess
    <2> QED
      BY <2>3, <2>4
  <1>6. CASE Crash
    <2>1. procCount' = procCount /\ proc' = proc /\ job' = job /\ worker'[q].step = worker[q].step
      BY <1>0, <1>6, Types DEF Crash, procVars
    <2> QED
      BY <1>0, <2>1
  <1> QED
    BY <1>2, <1>4, <1>5, <1>6, RecordsKept

LEMMA ProgressStep ==
  ASSUME RecordInv, Next, NEW q \in Processes, proc'[q].status # "absent"
  PROVE  Progress(q)' /\ Earned(q)'
  <1>1. RunsStay /\ TypeOK
    BY RunsKept DEF RecordInv, ExclusionInv, RunsStay
  <1>2. CASE UNCHANGED <<procCount, proc, job, worker>>
    BY <1>1, <1>2, StaysInv
  <1>3. ASSUME NEW p \in Processes, HandedIn(p) PROVE Progress(q)' /\ Earned(q)'
    <2>1. CASE q = p
      BY <1>3, <2>1, HandedInInv
    <2>2. CASE q # p
      <3>1. worker'[q] = worker[q] /\ proc'[q] = proc[q] /\ job'[q] = job[q]
        BY <1>3, <2>2 DEF HandedIn
      <3> QED
        BY <1>1, <3>1, StaysInv
    <2> QED
      BY <2>1, <2>2
  <1>4. CASE (\E d \in Deployments : CreateProcess(d)) \/ (\E h \in Hooks : HookStart(h))
    BY <1>1, <1>2, <1>3, <1>4, SubmitCases
  <1>5. ASSUME NEW p \in Processes, WorkerStep(p) PROVE Progress(q)' /\ Earned(q)'
    <2>1. CASE q = p
      BY <1>1, <1>5, <2>1, WorkerInv
    <2>2. CASE q # p
      <3>1. worker'[q] = worker[q] /\ proc'[q] = proc[q] /\ job'[q] = job[q]
        BY <1>1, <1>5, <2>2, WorkerInv DEF OnlyProcess
      <3> QED
        BY <1>1, <3>1, StaysInv
    <2> QED
      BY <2>1, <2>2
  <1>6. CASE Crash
    <2>1. /\ proc' = proc /\ job' = job /\ worker'[q].step = worker[q].step
          /\ worker'[q].run = worker[q].run /\ worker'[q].pc \in {worker[q].pc, "none", "gone"}
      BY <1>1, <1>6, Types DEF Crash, procVars
    <2> QED
      BY <1>1, <2>1, StaysInv
  <1> QED
    BY <1>2, <1>4, <1>5, <1>6, RecordsKept

-----------------------------------------------------------------------------
(* Deployments that run.                                                   *)

\* A job that began does not begin again, and one that succeeded stays so, for the
\* same deployment.
JobStays(q, n) ==
  /\ proc'[q].dep = proc[q].dep /\ job'[q][n] \in {"running", "succeeded", "failed"}
  /\ job[q][n] = "succeeded" => job'[q][n] = "succeeded"

LEMMA JobKept ==
  ASSUME RecordInv, Next, NEW q \in Processes, NEW n \in JobNames,
         job[q][n] \in {"running", "succeeded", "failed"}
  PROVE  JobStays(q, n)
  <1> USE DEF JobStays
  <1>0. /\ TypeOK /\ RunsStay /\ ~(q > procCount)
        /\ job[q] \in [JobNames -> JobStatus]
    BY RunsKept, Types DEF RecordInv, ExclusionInv, CountInv, RunsStay
  <1>1. CASE UNCHANGED <<procCount, proc, job, worker>>
    BY <1>1
  <1>2. ASSUME NEW p \in Processes, HandedIn(p)
        PROVE  JobStays(q, n)
    <2>1. q # p
      BY <1>0, <1>2, Types DEF HandedIn
    <2> QED
      BY <1>2, <2>1 DEF HandedIn
  <1>3. CASE (\E d \in Deployments : CreateProcess(d)) \/ (\E h \in Hooks : HookStart(h))
    BY <1>0, <1>1, <1>2, <1>3, SubmitCases
  <1>4. ASSUME NEW p \in Processes, WorkerStep(p)
        PROVE  JobStays(q, n)
    <2>1. OnlyProcess(p) /\ proc[p].status # "absent" /\ Moves(p)
      BY <1>0, <1>4, WorkerInv
    <2>2. proc'[q].dep = proc[q].dep
      BY <2>1 DEF OnlyProcess
    <2>3. CASE q # p
      BY <2>1, <2>2, <2>3 DEF OnlyProcess
    <2>4. CASE q = p /\ (Quits(p) \/ MovesOn(p) \/ Ends(p))
      BY <2>2, <2>4 DEF Quits, MovesOn, Ends
    <2>5. CASE q = p /\ (Boots(p) \/ Fails(p) \/ Closes(p))
      <3>1. job[p][CurrentJob(p)] # "succeeded"
        BY <2>1, <2>5, Found DEF Boots, Fails, Closes, Progress
      <3> QED
        BY <1>0, <2>2, <2>5, <3>1 DEF Boots, Fails, Closes
    <2>7. CASE q = p /\ Breaks(p)
      BY <1>0, <2>2, <2>7 DEF Breaks
    <2>6. CASE q = p /\ Succeeds(p)
      <3> DEFINE s == worker[p].step
      <3>1. /\ Progress(p) /\ s \in Nat /\ Len(Plan(p)) \in Nat
        BY <2>1, Found DEF GoodPlan
      <3>2. s + 1 <= Len(Plan(p)) => Plan(p)[s + 1] # n
        BY <1>0, <2>6, <3>1 DEF Progress
      <3> HIDE DEF s
      <3>3. job'[p][n] \in {"succeeded", job[p][n]}
        BY <1>0, <2>6, <3>2 DEF Succeeds, s
      <3> QED
        BY <2>2, <2>6, <3>3
    <2> QED
      BY <2>1, <2>3, <2>4, <2>5, <2>6, <2>7 DEF Moves
  <1>5. CASE Crash
    BY <1>5 DEF Crash, procVars
  <1> QED
    BY <1>1, <1>3, <1>4, <1>5, RecordsKept

\* Without Argo CD's notifications only the last two jobs of a worker write "running".
LEMMA WhoMarksRunning ==
  ASSUME TypeOK, Next, ~ArgoHooks, NEW d \in Deployments,
         dep'[d].status = "running", dep[d].status # "running"
  PROVE  \E p \in Processes :
           /\ worker[p].pc = "rolled" \/ AtBody(p, "connectivity")
           /\ WorkerStep(p) /\ proc[p].dep = d
  <1> DEFINE Goal == \E p \in Processes :
               /\ worker[p].pc = "rolled" \/ AtBody(p, "connectivity")
               /\ WorkerStep(p) /\ proc[p].dep = d
  <1>0. dep \in [Deployments -> [status : DepStatus, image : Images, tag : Images,
                                 run : {0} \cup Runs, at : Nat]]
    BY DEF TypeOK, DepTypeOK
  <1>1. UNCHANGED dep => FALSE
    OBVIOUS
  <1>2. ASSUME NEW status, NEW image, status # "running", InsertDep(status, image) PROVE FALSE
    BY <1>0, <1>2 DEF InsertDep
  <1>3. ASSUME NEW e, FailDep(e) PROVE FALSE
    BY <1>0, <1>3 DEF FailDep
  <1>4. ASSUME NEW e, NEW image, NEW status, MarkDep(e, status, image)
        PROVE  e = d /\ status = "running"
    BY <1>0, <1>4 DEF MarkDep
  <1>5. CASE CreateDeployment \/ Rollback \/ StartRecord
    BY <1>2, <1>5 DEF CreateDeployment, Rollback, StartRecord
  <1>6. CASE (\E e \in Deployments : CreateProcess(e)) \/ (\E h \in Hooks : HookStart(h))
    BY <1>1, <1>3, <1>6 DEF CreateProcess, HookStart, depVars
  <1>7. ASSUME NEW p \in Processes, WorkerStep(p) PROVE Goal
    <2>1. CASE WaitForRun(p)
      <3>1. UNCHANGED dep
            \/ \E r \in Runs : dep' = [dep EXCEPT ![proc[p].dep].status = "building",
                                                  ![proc[p].dep].image = worker[p].image,
                                                  ![proc[p].dep].run = r]
        <4>1. CASE JobFails(p) /\ UNCHANGED <<dep, misattributed>>
          BY <4>1
        <4> QED
          BY <2>1, <4>1, Zenon DEF WaitForRun
      <3>2. dep'[d].status \in {dep[d].status, "building"}
        <4>1. ASSUME NEW e, NEW r, NEW image,
                     dep' = [dep EXCEPT ![e].status = "building", ![e].image = image,
                                        ![e].run = r]
              PROVE  dep'[d].status \in {dep[d].status, "building"}
          BY <1>0, <4>1
        <4> QED
          BY <3>1, <4>1
      <3> QED
        BY <3>2
    <2>2. CASE ArgoMark(p)
      BY <1>4, <2>2 DEF ArgoMark
    <2>3. CASE RolloutMark(p)
      BY <1>4, <1>7, <2>3 DEF RolloutMark
    <2>4. CASE Connectivity(p)
      BY <1>3, <1>4, <1>7, <2>4 DEF Connectivity
    <2>5. CASE \/ Boot(p) \/ Validate(p) \/ NetworkOrWorkflow(p) \/ Dispatch(p) \/ PollRun(p)
               \/ ArgoNothing(p) \/ ArgoProject(p) \/ ArgoCommit(p) \/ Rollout(p)
               \/ FinishRollout(p) \/ FailProcess(p) \/ SucceedProcess(p) \/ CloseJob(p)
      BY <1>1, <2>5 DEF Boot, Validate, NetworkOrWorkflow, Dispatch, PollRun, ArgoNothing,
         ArgoProject, ArgoCommit, Rollout, FinishRollout, FailProcess, SucceedProcess,
         EndProcess, CloseJob, depVars
    <2> QED
      BY <1>7, <2>1, <2>2, <2>3, <2>4, <2>5 DEF WorkerStep
  <1>8. CASE Ticker
    BY <1>1, <1>8 DEF Ticker, TickerScan, TickerNext, depVars
  <1>9. ASSUME NEW a, ReconStep(a) PROVE FALSE
    <2>1. CASE ReconWait(a)
      <3>1. PICK e, r : dep' = [dep EXCEPT ![e].run = r]
        BY <1>1, <2>1 DEF ReconWait
      <3>2. dep'[d].status = dep[d].status
        BY <1>0, <3>1
      <3> QED
        BY <3>2
    <2>2. CASE ReconMark(a) \/ ReconFail(a)
      BY <1>3, <1>4, <2>2 DEF ReconMark, ReconFail
    <2> QED
      BY <1>1, <1>9, <2>1, <2>2 DEF ReconStep, ReconLoad, ReconPoll, ReconTag, depVars
  <1>10. ASSUME NEW h \in Hooks, HookStep(h), ~HookStart(h) PROVE FALSE
    <2>1. CASE HookWrite(h)
      BY <1>0, <1>2, <2>1 DEF HookWrite
    <2>2. CASE HookTag(h)
      BY <1>1, <1>3, <2>2 DEF HookTag, depVars
    <2> QED
      BY <1>1, <1>10, <2>1, <2>2 DEF HookStep, HookMatch, HookProject, HookCheck, depVars
  <1>11. CASE \/ StartDispatch \/ RunStarts \/ RunLost \/ Push \/ (\E r \in Runs : RunConcludes(r))
              \/ (\E h \in Hooks : \E r \in Runs : Deliver(h, r))
              \/ ArgoNotifies \/ ArgoSync \/ Tick \/ Crash
    BY <1>1, <1>11 DEF StartDispatch, RunStarts, RunLost, Push, RunConcludes, Deliver,
       ArgoNotifies, ArgoSync, Tick, Crash, depVars
  <1> HIDE DEF Goal
  <1>12. Goal
    BY <1>5, <1>6, <1>7, <1>8, <1>9, <1>10, <1>11 DEF Next
  <1> QED
    BY <1>12 DEF Goal

LEMMA RolledOutStep ==
  ASSUME RecordInv, Next
  PROVE  RunningWasRolledOut'
  <1> SUFFICES ASSUME ~ArgoHooks, NEW d \in Deployments, dep'[d].status = "running"
               PROVE  \E p \in Processes :
                        /\ proc'[p].dep = d /\ job'[p]["argocd"] = "succeeded"
                        /\ job'[p]["rollout"] \in {"running", "succeeded", "failed"}
    BY DEF RunningWasRolledOut
  <1>0. TypeOK /\ RunsStay /\ {"argocd", "rollout"} \subseteq JobNames
    BY RunsKept DEF RecordInv, ExclusionInv, RunsStay, JobNames
  <1> SUFFICES \E p \in Processes :
                 /\ proc[p].dep = d /\ job[p]["argocd"] = "succeeded"
                 /\ job[p]["rollout"] \in {"running", "succeeded", "failed"}
    BY <1>0, JobKept DEF JobStays
  <1>1. CASE dep[d].status = "running"
    BY <1>1 DEF RecordInv, RunningWasRolledOut
  <1>2. CASE dep[d].status # "running"
    <2>1. PICK p \in Processes :
            /\ worker[p].pc = "rolled" \/ AtBody(p, "connectivity")
            /\ WorkerStep(p) /\ proc[p].dep = d
      BY <1>0, <1>2, WhoMarksRunning
    <2> DEFINE s == worker[p].step
               plan == Plan(p)
    <2>2. proc[p].status # "absent"
      BY <1>0, <2>1, WorkerInv
    <2>3. /\ Progress(p) /\ Earned(p) /\ s \in Nat
          /\ GoodPlan(plan, GitHubSource /\ proc[p].kind = "full")
      BY <2>2, Found
    <2>4. /\ s \in 1 .. Len(plan) /\ job[p][plan[s]] = "running"
          /\ plan[s] \in {"rollout", "connectivity"} /\ Len(plan) \in Nat
          /\ \A j \in 1 .. Len(plan) : j < s => job[p][plan[j]] = "succeeded"
      <3>1. /\ worker[p].pc \in LivePc
            /\ CurrentJob(p) \in {"rollout", "connectivity"} /\ CurrentJob(p) = plan[s]
        BY <2>1, <2>3 DEF AtBody, Earned, LivePc, CurrentJob
      <3>2. Len(plan) \in Nat
        BY <2>3 DEF GoodPlan
      <3> QED
        BY <2>3, <3>1, <3>2 DEF Progress
    <2> HIDE DEF s, plan
    <2>5. CASE plan[s] = "rollout"
      BY <2>1, <2>3, <2>4, <2>5 DEF GoodPlan
    <2>6. CASE plan[s] = "connectivity"
      <3>1. s - 1 \in 1 .. Len(plan) /\ plan[s - 1] = "rollout"
        BY <2>3, <2>4, <2>6 DEF GoodPlan
      <3>2. (s - 1) - 1 \in 1 .. Len(plan) /\ plan[(s - 1) - 1] = "argocd"
        BY <2>3, <3>1 DEF GoodPlan
      <3> QED
        BY <2>1, <2>4, <3>1, <3>2
    <2> QED
      BY <2>4, <2>5, <2>6
  <1> QED
    BY <1>1, <1>2

-----------------------------------------------------------------------------
(* The invariant holds.                                                    *)

LEMMA RecordInit ==
  ASSUME Init
  PROVE  RecordInv
  <1>1. ExclusionInv
    BY InitInv
  <1>2. CountInv
    BY BoundsAssumption DEF Init, CountInv, Processes, Runs, NoProc, NoWorker, NoRun
  <1>3. RunningWasRolledOut
    BY DEF Init, RunningWasRolledOut, NoDep
  <1>4. \A p \in Processes : proc[p].status = "absent"
    BY DEF Init, NoProc
  <1> QED
    BY <1>1, <1>2, <1>3, <1>4 DEF RecordInv

LEMMA RecordStep ==
  ASSUME RecordInv, Next
  PROVE  RecordInv'
  <1>1. ExclusionInv'
    BY TypeStep, NoDanglingReferencesStep, WorkersOfActiveStep, PendingUnknownStep,
       CheckStaysTrueStep, FullExcludesRolloutStep
    DEF RecordInv, ExclusionInv
  <1> QED
    BY <1>1, CountStep, RolledOutStep, ProgressStep DEF RecordInv

LEMMA RecordStutter ==
  ASSUME RecordInv, UNCHANGED vars
  PROVE  RecordInv'
  <1>1. ExclusionInv'
    BY StutterInv DEF RecordInv
  <1>2. UNCHANGED <<procCount, proc, job, worker, runCount, run, dep>>
    BY DEF vars, procVars, githubVars, depVars
  <1>3. CountInv' /\ RunningWasRolledOut'
    BY <1>2 DEF RecordInv, CountInv, RunningWasRolledOut
  <1>4. \A p \in Processes : proc[p].status # "absent" => Progress(p)' /\ Earned(p)'
    BY <1>2, StaysInv DEF RunsStay
  <1> QED
    BY <1>1, <1>2, <1>3, <1>4 DEF RecordInv

\* The inductive invariant of the records: rows without gaps, and how far each
\* process has come, as its jobs, its worker and its workflow run show it.
THEOREM RecordInvariant == Spec => []RecordInv
  <1>1. RecordInv /\ [Next]_vars => RecordInv'
    BY RecordStep, RecordStutter
  <1> QED
    BY <1>1, RecordInit, PTL DEF Spec

\* No job of a process begins before the one it needs has succeeded, for any
\* number of processes, callbacks and restarts: the rows of process_jobs show it.
THEOREM JobsAreOrdered == Spec => []JobsInOrder
  <1>1. ASSUME RecordInv PROVE JobsInOrder
    <2> SUFFICES ASSUME NEW p \in Processes, proc[p].status # "absent",
                        NEW j \in 2 .. Len(Plan(p)), job[p][Plan(p)[j]] # "queued"
                 PROVE  job[p][Plan(p)[j - 1]] = "succeeded"
      BY DEF JobsInOrder
    <2>1. /\ Progress(p) /\ worker[p].step \in Nat /\ Len(Plan(p)) \in Nat
      BY <1>1, Found DEF GoodPlan
    <2>2. j \in 1 .. Len(Plan(p)) /\ j - 1 \in 1 .. Len(Plan(p)) /\ ~(j > worker[p].step)
      BY <2>1 DEF Progress
    <2> QED
      BY <2>1, <2>2 DEF Progress
  <1> QED
    BY <1>1, RecordInvariant, PTL

\* A process is recorded as succeeded only when each of its jobs is and the run it
\* took for its own ended well, whatever other writers did to the deployment.
THEOREM VerdictIsEarned == Spec => []SucceededIsEarned
  <1>1. ASSUME RecordInv PROVE SucceededIsEarned
    <2> SUFFICES ASSUME NEW p \in Processes, proc[p].status = "succeeded"
                 PROVE  /\ \A j \in 1 .. Len(Plan(p)) : job[p][Plan(p)[j]] = "succeeded"
                        /\ GitHubSource /\ proc[p].kind = "full" =>
                             worker[p].run # 0 /\ run[worker[p].run].state = "success"
      BY DEF SucceededIsEarned
    <2>1. /\ Progress(p) /\ Earned(p) /\ Len(Plan(p)) \in Nat /\ Len(Plan(p)) >= 5
          /\ worker[p].step = Len(Plan(p)) + 1
      BY <1>1, Found DEF GoodPlan, Progress
    <2>2. \A j \in 1 .. Len(Plan(p)) : job[p][Plan(p)[j]] = "succeeded"
      BY <2>1 DEF Progress
    <2>3. 0 \notin Runs /\ worker[p].step > 4
      BY <2>1 DEF Runs
    <2> QED
      BY <2>1, <2>2, <2>3 DEF Earned
  <1> QED
    BY <1>1, RecordInvariant, PTL

\* Without Argo CD's notifications a deployment is "running" only after a process
\* of that deployment rolled it out, whichever writer comes last.
THEOREM RunningIsRolledOut == Spec => []RunningWasRolledOut
  <1>1. RecordInv => RunningWasRolledOut
    BY DEF RecordInv
  <1> QED
    BY <1>1, RecordInvariant, PTL

-----------------------------------------------------------------------------
(* The tables implement ProcessRecords.                                    *)

Status == [p \in Processes |-> proc[p].status]
Orders == [p \in Processes |-> IF proc[p].status = "absent" THEN <<>> ELSE Plan(p)]

RecordsNext == [Records!Next]_(Records!vars)

LEMMA AbstractStep ==
  ASSUME NEW p \in Processes,
         \/ Records!Submit(p) \/ Records!Begin(p) \/ Records!Verdict(p)
         \/ \E j \in DOMAIN Orders[p] : Records!Advance(p, j) \/ Records!JobFailure(p, j)
  PROVE  RecordsNext
  BY DEF RecordsNext, Records!Next, Orders

LEMMA AbstractStutter ==
  ASSUME proc' = proc, job' = job
  PROVE  RecordsNext
  <1>1. \A p \in Processes : Plan(p)' = Plan(p)
    BY DEF Plan
  <1> QED
    BY <1>1 DEF RecordsNext, Records!vars

\* How the step of one process shows in the mapped variables.
LEMMA MappedStep ==
  ASSUME NEW p \in Processes,
         \A q \in Processes : q # p => proc'[q] = proc[q],
         proc'[p].status # "absent"
  PROVE  /\ Status' = [Status EXCEPT ![p] = proc'[p].status]
         /\ Orders' = [Orders EXCEPT ![p] = Plan(p)']
         /\ proc[p].status # "absent" /\ proc'[p].kind = proc[p].kind => Orders' = Orders
         /\ proc'[p].status = proc[p].status => Status' = Status
  <1>1. \A q \in Processes : q # p => Plan(q)' = Plan(q)
    BY DEF Plan
  <1>2. proc'[p].kind = proc[p].kind => Plan(p)' = Plan(p)
    BY SamePlan
  <1> QED
    BY <1>1, <1>2 DEF Status, Orders

LEMMA MappedJobs ==
  ASSUME TypeOK, TypeOK', NEW p \in Processes, NEW rows,
         \A q \in Processes : q # p => job'[q] = job[q], job'[p] = rows
  PROVE  job' = [job EXCEPT ![p] = rows]
  BY Types DEF TypeOK, ProcTypeOK

LEMMA SubmitMaps ==
  ASSUME RecordInv, RecordInv', NEW p \in Processes, HandedIn(p)
  PROVE  RecordsNext
  <1>1. /\ TypeOK /\ TypeOK' /\ procCount \in Nat /\ proc[p].status = "absent"
        /\ proc'[p].status = "queued"
    BY Types DEF HandedIn, RecordInv, ExclusionInv, CountInv
  <1>2. /\ Status' = [Status EXCEPT ![p] = "queued"]
        /\ Orders' = [Orders EXCEPT ![p] = Plan(p)']
    BY <1>1, MappedStep DEF HandedIn
  <1> DEFINE rows == JobRows(proc'[p].kind)
  <1>3. job' = [job EXCEPT ![p] = [n \in JobNames |-> IF n \in rows THEN "queued" ELSE "absent"]]
    BY <1>1, MappedJobs DEF HandedIn
  <1>4. \A j \in DOMAIN Plan(p)' : Plan(p)'[j] \in rows
    BY HandedInRows DEF HandedIn
  <1>5. rows \in SUBSET JobNames
    BY DEF JobRows
  <1>6. Plan(p)' \in {ShortPlan, LongPlan}
    BY DEF Plan, ShortPlan, LongPlan
  <1> HIDE DEF rows
  <1>7. Records!Submit(p)
    BY <1>1, <1>2, <1>3, <1>4, <1>5, <1>6 DEF Records!Submit, Status, Orders, ShortPlan, LongPlan
  <1> QED
    BY <1>7, AbstractStep

LEMMA WorkerMaps ==
  ASSUME RecordInv, RecordInv', RunsStay, NEW p \in Processes, WorkerStep(p)
  PROVE  RecordsNext
  <1> DEFINE plan == Plan(p)
             s == worker[p].step
  <1>1. /\ TypeOK /\ TypeOK' /\ OnlyProcess(p)
        /\ proc[p].status # "absent" /\ proc'[p].status # "absent" /\ Moves(p)
    BY WorkerInv DEF RecordInv, ExclusionInv
  <1>2. /\ Progress(p) /\ GoodPlan(plan, GitHubSource /\ proc[p].kind = "full") /\ s \in Nat
        /\ worker[p].pc \in LivePc \cup {"failing", "end"} => proc[p].status = "running"
        /\ worker[p].pc = "boot" => proc[p].status = "queued"
        /\ worker[p].pc = "closing" => proc[p].status = "failed"
    BY <1>1, Found
  <1>3. /\ Status' = [Status EXCEPT ![p] = proc'[p].status]
        /\ Orders' = Orders /\ Orders[p] = plan
        /\ proc'[p].status = proc[p].status => Status' = Status
        /\ Status[p] = proc[p].status
    BY <1>1, MappedStep DEF OnlyProcess, Status, Orders
  <1>4. job' = [job EXCEPT ![p] = job'[p]]
    BY <1>1, MappedJobs DEF OnlyProcess
  <1>5. DOMAIN plan = 1 .. Len(plan) /\ Len(plan) \in Nat /\ Len(plan) >= 5
    BY <1>2 DEF GoodPlan
  <1>6. CurrentJob(p) = plan[s]
    BY DEF CurrentJob
  <1>7. CASE Boots(p)
    <2>1. s = 1 /\ proc[p].status = "queued" /\ proc'[p].status = "running"
      BY <1>2, <1>7 DEF Boots, Progress
    <2>2. job' = [job EXCEPT ![p] = [job[p] EXCEPT ![plan[1]] = "running"]]
      BY <1>4, <1>6, <1>7, <2>1 DEF Boots
    <2> HIDE DEF plan, s
    <2>3. Records!Begin(p)
      BY <1>3, <2>1, <2>2 DEF Records!Begin, Status, Orders
    <2> QED
      BY <2>3, AbstractStep
  <1>12. CASE Quits(p)
    <2>1. /\ proc[p].status = "queued" /\ proc'[p].status = "running" /\ job'[p] = job[p]
      BY <1>2, <1>12 DEF Quits
    <2>2. job' = job
      BY <1>1, <1>4, <2>1, Types
    <2> HIDE DEF plan, s
    <2>3. Records!Begin(p)
      BY <1>3, <2>1, <2>2 DEF Records!Begin, Status, Orders
    <2> QED
      BY <2>3, AbstractStep
  <1>8. CASE Fails(p) \/ Closes(p)
    <2>1. /\ proc[p].status \in {"running", "failed"} /\ s \in DOMAIN plan
          /\ job[p][plan[s]] = "running" /\ proc'[p] = proc[p]
      BY <1>2, <1>5, <1>6, <1>8 DEF Fails, Closes, Progress
    <2>2. job' = [job EXCEPT ![p] = [job[p] EXCEPT ![plan[s]] = "failed"]]
      BY <1>4, <1>6, <1>8 DEF Fails, Closes
    <2> HIDE DEF plan, s
    <2>3. Records!JobFailure(p, s)
      BY <1>3, <2>1, <2>2 DEF Records!JobFailure, Status, Orders
    <2> QED
      BY <1>3, <2>1, <2>3, AbstractStep
  <1>9. CASE Succeeds(p) \/ Breaks(p)
    <2>1. /\ proc[p].status = "running" /\ s \in DOMAIN plan /\ job[p][plan[s]] = "running"
          /\ proc'[p] = proc[p]
      BY <1>2, <1>5, <1>6, <1>9 DEF Succeeds, Breaks, Progress
    <2>2. s + 1 <= Len(plan) <=> s < Len(plan)
      BY <1>2, <1>5
    <2> DEFINE rows(next) == [n \in JobNames |->
                 CASE n = plan[s] -> "succeeded"
                   [] s < Len(plan) /\ n = plan[s + 1] -> next
                   [] OTHER -> job[p][n]]
    <2>3. PICK next \in {"running", "queued"} : job' = [job EXCEPT ![p] = rows(next)]
      <3>1. CASE Succeeds(p)
        <4>1. job'[p] = rows("running")
          BY <1>6, <2>2, <3>1 DEF Succeeds
        <4> QED
          BY <1>4, <4>1
      <3>2. CASE Breaks(p)
        <4>1. job[p] \in [JobNames -> JobStatus] /\ \A i, j \in 1 .. Len(plan) : plan[i] = plan[j] => i = j
          BY <1>1, <1>2, Types DEF GoodPlan
        <4>2. s + 1 <= Len(plan) /\ job[p][plan[s + 1]] = "queued" /\ plan[s] # plan[s + 1]
          BY <1>2, <1>5, <2>1, <3>2, <4>1 DEF Breaks, Progress
        <4>3. job'[p] = [job[p] EXCEPT ![plan[s]] = "succeeded"]
          BY <1>6, <3>2 DEF Breaks
        <4> HIDE DEF plan, s
        <4>4. job'[p] = rows("queued")
          BY <4>1, <4>2, <4>3
        <4> HIDE DEF rows
        <4> QED
          BY <1>4, <4>4
      <3> QED
        BY <1>9, <3>1, <3>2
    <2> HIDE DEF plan, s
    <2>4. Records!Advance(p, s)
      <3>1. Status[p] = "running" /\ Status' = Status /\ Orders' = Orders /\ Orders[p] = plan
        BY <1>3, <2>1
      <3>2. Status[p] = "running" /\ job[p][Orders[p][s]] = "running"
        BY <2>1, <3>1
      <3>3. job' = [job EXCEPT ![p] = [n \in JobNames |->
              CASE n = Orders[p][s] -> "succeeded"
                [] s < Len(Orders[p]) /\ n = Orders[p][s + 1] -> next
                [] OTHER -> job[p][n]]]
        BY <2>3, <3>1
      <3> QED
        BY <3>1, <3>2, <3>3, Zenon DEF Records!Advance, Status, Orders
    <2> QED
      BY <1>3, <2>1, <2>4, AbstractStep
  <1>10. CASE MovesOn(p)
    <2>1. proc'[p] = proc[p] /\ job' = job
      <3>1. proc'[p] = proc[p] /\ job'[p] = job[p]
        BY <1>10 DEF MovesOn
      <3> QED
        BY <1>1, <1>4, <3>1, Types
    <2>2. proc' = proc
      BY <1>1, <2>1, Types DEF OnlyProcess, TypeOK, ProcTypeOK
    <2> QED
      BY <2>1, <2>2, AbstractStutter
  <1>11. CASE Ends(p)
    <2>1. proc[p].status = "running" /\ job' = job
      <3>1. proc[p].status = "running" /\ job'[p] = job[p]
        BY <1>2, <1>11 DEF Ends
      <3> QED
        BY <1>1, <1>4, <3>1, Types
    <2>2. CASE worker[p].pc = "failing" /\ proc'[p].status = "failed"
      <3>1. s \in DOMAIN plan /\ job[p][plan[s]] # "succeeded"
        BY <1>2, <1>5, <1>6, <2>2 DEF Progress
      <3> HIDE DEF plan, s
      <3> QED
        BY <1>3, <2>1, <2>2, <3>1, AbstractStep DEF Records!Verdict, Status, Orders
    <2>3. CASE worker[p].pc = "end" /\ proc'[p].status = "succeeded"
      <3>1. \A j \in DOMAIN plan : job[p][plan[j]] = "succeeded"
        BY <1>2, <1>5, <2>3 DEF Progress
      <3> HIDE DEF plan, s
      <3> QED
        BY <1>3, <2>1, <2>3, <3>1, AbstractStep DEF Records!Verdict, Status, Orders
    <2> QED
      BY <1>11, <2>2, <2>3 DEF Ends
  <1> QED
    BY <1>1, <1>7, <1>8, <1>9, <1>10, <1>11, <1>12 DEF Moves

\* The tables of processes and jobs keep the promises of ProcessRecords: every step
\* of every goroutine, and a restart, is a step of that module or leaves them alone.
THEOREM PipelineKeepsRecords == Spec => KeepsRecords
  <1>1. Init => Records!Init
    BY DEF Init, Records!Init, NoProc
  <1>2. ASSUME RecordInv, RecordInv', [Next]_vars PROVE RecordsNext
    <2>1. RunsStay \/ UNCHANGED vars
      BY <1>2, RunsKept DEF RecordInv, ExclusionInv, RunsStay
    <2>2. CASE UNCHANGED vars
      BY <2>2, AbstractStutter DEF vars, procVars
    <2>3. CASE Next /\ RunsStay
      <3>1. CASE (\E d \in Deployments : CreateProcess(d)) \/ (\E h \in Hooks : HookStart(h))
        BY <1>2, <3>1, SubmitCases, SubmitMaps, AbstractStutter DEF RecordInv, ExclusionInv
      <3>2. CASE \E p \in Processes : WorkerStep(p)
        BY <1>2, <2>3, <3>2, WorkerMaps
      <3>3. CASE Crash
        BY <3>3, AbstractStutter DEF Crash, procVars
      <3> QED
        BY <2>3, <3>1, <3>2, <3>3, RecordsKept, AbstractStutter
    <2> QED
      BY <1>2, <2>1, <2>2, <2>3
  <1>3. Spec => [][Records!Next]_(Records!vars)
    BY <1>2, RecordInvariant, PTL DEF Spec, RecordsNext
  <1> QED
    BY <1>1, <1>3, PTL DEF Spec, KeepsRecords, Records!Spec

-----------------------------------------------------------------------------
(* What the pipeline deploys was built: while no run has been taken for that of *)
(* another dispatch, an image can be traced to the run that built it.           *)

Started(r) == r \in Runs /\ run[r].state # "absent"

Builds(p) == proc[p].status # "absent" /\ proc[p].kind = "full"

\* The image of deployment d will not change any more: its process has found the
\* workflow run, or it has none.
Final(d) ==
  /\ d \in Inserted \ creating
  /\ \A p \in Processes : Builds(p) /\ proc[p].dep = d => worker[p].run # 0

\* A deployment is built by one process.
OneBuilder ==
  \A p, q \in Processes : Builds(p) /\ Builds(q) /\ proc[p].dep = proc[q].dep => p = q

\* A deployment that is building, or that knows its run, has its last image.
DepTraced(d) ==
  /\ dep[d].status = "building" => Final(d)
  /\ dep[d].run # 0 =>
       Final(d) /\ Started(dep[d].run) /\ run[dep[d].run].image = dep[d].image

\* A worker that has found its run goes on with the image of that run ...
FoundRun(p) ==
  worker[p].run # 0 =>
    /\ Builds(p) /\ Started(worker[p].run) /\ run[worker[p].run].image = worker[p].image
    /\ worker[p].pc \notin {"none", "boot", "wait"}
    /\ worker[p].pc = "body" => worker[p].step > 4
    /\ worker[p].pc \in LivePc => worker[p].image = dep[proc[p].dep].image

\* ... and one of a rollout with that of a deployment whose image is built.
RollsOut(p) ==
  proc[p].status # "absent" /\ proc[p].kind = "rollout" =>
    /\ Final(proc[p].dep) /\ Built(dep[proc[p].dep].image)
    /\ worker[p].pc \in LivePc => worker[p].image = dep[proc[p].dep].image

ReconTraced(a) ==
  recon[a].pc \in {"wait", "poll", "tag", "mark"} =>
    /\ Final(recon[a].dep) /\ recon[a].image = dep[recon[a].dep].image
    /\ recon[a].pc = "poll" => Started(recon[a].run) /\ run[recon[a].run].image = recon[a].image
    /\ recon[a].pc \in {"tag", "mark"} => Built(recon[a].image)

HookTraced(h) ==
  /\ hook[h].pc # "idle" /\ hook[h].ok => Built(hook[h].image)
  /\ hook[h].pc \in {"project", "tag", "check", "start"} => hook[h].ok
  /\ hook[h].pc # "idle" /\ hook[h].dep # 0 =>
       Final(hook[h].dep) /\ hook[h].image = dep[hook[h].dep].image

DeployedTraced == \A image \in {gitImage, clusterImage} \ {0} : Built(image)

Traced ==
  /\ OneBuilder /\ DeployedTraced
  /\ \A d \in Inserted : DepTraced(d)
  /\ \A p \in Processes : FoundRun(p) /\ RollsOut(p)
  /\ \A a \in Actors : ReconTraced(a)
  /\ \A h \in Hooks : HookTraced(h)

TracedInv == GitHubSource /\ ~misattributed => Traced

-----------------------------------------------------------------------------
(* Who writes what.                                                        *)

LEMMA ReconWriters ==
  ASSUME Next
  PROVE  UNCHANGED recon \/ TickerNext \/ StartRecord \/ Crash \/ \E a \in Actors : ReconStep(a)
  BY DEF Next, CreateDeployment, CreateProcess, Rollback, StartDispatch, RunStarts, RunLost, Push,
     RunConcludes, WorkerStep, Boot, Validate, NetworkOrWorkflow, Dispatch, WaitForRun, PollRun,
     ArgoNothing, ArgoProject, ArgoCommit, ArgoMark, Rollout, RolloutMark,
     FinishRollout, CloseJob, Connectivity, FailProcess,
     SucceedProcess, EndProcess, Ticker, TickerScan, HookStep, HookMatch, HookWrite, HookProject,
     HookTag, HookCheck, HookStart, Deliver, ArgoNotifies, ArgoSync, Tick, workerRest, hookRest,
     Actors

LEMMA HookWriters ==
  ASSUME Next
  PROVE  \/ UNCHANGED hook \/ Crash \/ \E h \in Hooks : HookStep(h)
         \/ \E h \in Hooks, r \in Runs : Deliver(h, r)
  BY DEF Next, CreateDeployment, CreateProcess, Rollback, StartDispatch, StartRecord, RunStarts,
     RunLost, Push, RunConcludes, WorkerStep, Boot, Validate, NetworkOrWorkflow, Dispatch,
     WaitForRun, PollRun, ArgoNothing, ArgoProject, ArgoCommit, ArgoMark, Rollout, RolloutMark,
     FinishRollout, CloseJob, Connectivity,
     FailProcess, SucceedProcess, EndProcess, Ticker, TickerScan, TickerNext, ReconStep,
     ReconLoad, ReconWait, ReconPoll, ReconTag, ReconMark, ReconFail, ArgoNotifies, ArgoSync,
     Tick, workerRest, reconRest, Actors

LEMMA ImageWriters ==
  ASSUME Next
  PROVE  \/ UNCHANGED <<gitImage, clusterImage>> \/ ArgoSync
         \/ \E p \in Processes : ArgoCommit(p) \/ Rollout(p)
         \/ \E a \in Actors : ReconTag(a)
         \/ \E h \in Hooks : HookTag(h)
  BY ZenonT(60) DEF Next, CreateDeployment, CreateProcess, Rollback, StartDispatch, StartRecord, RunStarts,
     RunLost, Push, RunConcludes, WorkerStep, Boot, Validate, NetworkOrWorkflow, Dispatch,
     WaitForRun, PollRun, ArgoNothing, ArgoProject, ArgoMark, RolloutMark, FinishRollout,
     CloseJob, Connectivity, FailProcess,
     SucceedProcess, EndProcess, Ticker, TickerScan, TickerNext, ReconStep, ReconLoad, ReconWait,
     ReconPoll, ReconMark, ReconFail, HookStep, HookMatch, HookWrite, HookProject, HookCheck,
     HookStart, Deliver, ArgoNotifies, Tick, Crash, workerRest, reconRest, hookRest, imageVars,
     Actors

LEMMA DepWriters ==
  ASSUME Next
  PROVE  \/ UNCHANGED dep
         \/ \E status, image : InsertDep(status, image)
         \/ \E d : FailDep(d)
         \/ ArgoNotifies
         \/ \E p \in Processes : WaitForRun(p) \/ ArgoMark(p) \/ RolloutMark(p) \/ Connectivity(p)
         \/ \E a \in Actors : ReconWait(a) \/ ReconMark(a)
         \/ \E h \in Hooks : HookWrite(h)
  BY DEF Next, CreateDeployment, CreateProcess, Rollback, StartDispatch, StartRecord, RunStarts,
     RunLost, Push, RunConcludes, WorkerStep, Boot, Validate, NetworkOrWorkflow, Dispatch,
     PollRun, ArgoNothing, ArgoProject, ArgoCommit, Rollout, FinishRollout, CloseJob, FailProcess,
     SucceedProcess, EndProcess, Ticker, TickerScan, TickerNext, ReconStep, ReconLoad,
     ReconPoll, ReconTag, ReconFail, HookStep, HookMatch, HookProject, HookTag, HookCheck,
     HookStart, Deliver, ArgoSync, Tick, Crash, workerRest, reconRest, hookRest, depVars,
     Actors

LEMMA CreatingWriters ==
  ASSUME Next
  PROVE  UNCHANGED creating \/ Crash \/ CreateDeployment \/ \E d \in Deployments : CreateProcess(d)
  BY ZenonT(60) DEF Next, Rollback, StartDispatch, StartRecord, RunStarts,
     RunLost, Push, RunConcludes, WorkerStep, Boot, Validate, NetworkOrWorkflow, Dispatch,
     WaitForRun, PollRun, ArgoNothing, ArgoProject, ArgoCommit, ArgoMark, Rollout, RolloutMark,
     FinishRollout, CloseJob, Connectivity,
     FailProcess, SucceedProcess, EndProcess, Ticker, TickerScan, TickerNext, ReconStep,
     ReconLoad, ReconWait, ReconPoll, ReconTag, ReconMark, ReconFail, HookStep, HookMatch,
     HookWrite, HookProject, HookTag, HookCheck, HookStart, Deliver, ArgoNotifies, ArgoSync,
     Tick, workerRest, reconRest, hookRest, Actors

LEMMA CountWriters ==
  ASSUME Next
  PROVE  UNCHANGED depCount \/ \E status, image : InsertDep(status, image)
  BY ZenonT(60) DEF Next, CreateDeployment, CreateProcess, Rollback, StartDispatch, StartRecord, RunStarts,
     RunLost, Push, RunConcludes, WorkerStep, Boot, Validate, NetworkOrWorkflow, Dispatch,
     WaitForRun, PollRun, ArgoNothing, ArgoProject, ArgoCommit, ArgoMark, Rollout, RolloutMark,
     FinishRollout, CloseJob, Connectivity,
     FailProcess, SucceedProcess, EndProcess, Ticker, TickerScan, TickerNext, ReconStep,
     ReconLoad, ReconWait, ReconPoll, ReconTag, ReconMark, ReconFail, HookStep, HookMatch,
     HookWrite, HookProject, HookTag, HookCheck, HookStart, Deliver, ArgoNotifies, ArgoSync,
     Tick, Crash, FailDep, MarkDep, depVars, workerRest, reconRest, hookRest, Actors

-----------------------------------------------------------------------------
(* What stays: runs keep their image, and the last image of a deployment.  *)

RunKept(r) ==
  /\ Started(r) => Started(r)' /\ run'[r].image = run[r].image
  /\ run[r].state = "success" => run'[r].state = "success"

LEMMA RunsStayTheSame ==
  ASSUME TypeOK, CountInv, Next, NEW r \in Runs
  PROVE  RunKept(r)
  <1>1. run'[r] = run[r] => RunKept(r)
    BY DEF RunKept, Started
  <1>2. ASSUME NEW image, NEW event, InsertRun(image, event) PROVE RunKept(r)
    <2>1. /\ runCount + 1 \in Runs
          /\ r # runCount + 1 => run'[r] = run[r]
      BY <1>2, Types, BoundsAssumption DEF InsertRun, Runs
    <2>2. run[runCount + 1].state = "absent"
      BY <2>1, Types DEF CountInv, Runs
    <2> QED
      BY <1>1, <2>1, <2>2 DEF RunKept, Started
  <1>3. ASSUME NEW q \in Runs, RunConcludes(q) PROVE RunKept(r)
    <2> PICK state \in {"success", "failure"}, call \in {"sent", "lost"} :
           run' = [run EXCEPT ![q].state = state, ![q].call = call]
      BY <1>3 DEF RunConcludes
    <2>1. run[q].state = "started"
      BY <1>3 DEF RunConcludes
    <2>2. run' = [run EXCEPT ![q] = [run[q] EXCEPT !.state = state, !.call = call]]
      OBVIOUS
    <2>3. run[r] \in [state : {"absent", "started", "success", "failure"},
                      image : Images, at : Nat, event : {"push", "dispatch"},
                      call : {"none", "sent", "lost", "taken"}]
      BY Types
    <2>4. r = q => run'[r].state = state /\ run'[r].image = run[r].image
      BY <2>2, <2>3, Types
    <2>5. r # q => run'[r] = run[r]
      BY <2>2, Types
    <2> QED
      BY <1>1, <2>1, <2>4, <2>5 DEF RunKept, Started
  <1>4. ASSUME NEW h \in Hooks, NEW q \in Runs, Deliver(h, q) PROVE RunKept(r)
    <2>1. run'[r].state = run[r].state /\ run'[r].image = run[r].image
      BY <1>4, Types DEF Deliver, hookRest
    <2> QED
      BY <2>1 DEF RunKept, Started
  <1>5. \/ UNCHANGED run \/ \E image, event : InsertRun(image, event)
        \/ \E q \in Runs : RunConcludes(q)
        \/ \E h \in Hooks, q \in Runs : Deliver(h, q)
    BY ZenonT(60) DEF Next, CreateDeployment, CreateProcess, Rollback, StartDispatch, StartRecord, RunStarts,
       RunLost, Push, WorkerStep, Boot, Validate, NetworkOrWorkflow, Dispatch,
       WaitForRun, PollRun, ArgoNothing, ArgoProject, ArgoCommit, ArgoMark, Rollout, RolloutMark,
     FinishRollout, CloseJob, Connectivity,
       FailProcess, SucceedProcess, EndProcess, Ticker, TickerScan, TickerNext, ReconStep,
       ReconLoad, ReconWait, ReconPoll, ReconTag, ReconMark, ReconFail, HookStep, HookMatch,
       HookWrite, HookProject, HookTag, HookCheck, HookStart, ArgoNotifies, ArgoSync,
       Tick, Crash, githubVars, workerRest, reconRest, hookRest, Actors
  <1> QED
    BY <1>1, <1>2, <1>3, <1>4, <1>5

LEMMA BuiltStays ==
  ASSUME TypeOK, CountInv, Next, NEW image, Built(image)
  PROVE  Built(image)'
  <1> PICK r \in Runs : run[r].state = "success" /\ run[r].image = image
    BY DEF Built
  <1>1. run'[r].state = "success" /\ run'[r].image = image
    BY RunsStayTheSame DEF RunKept, Started
  <1> QED
    BY <1>1 DEF Built

\* Where in its plan a worker is.
LEMMA Positions ==
  ASSUME RecordInv, GitHubSource, NEW p \in Processes, proc[p].status # "absent",
         worker[p].pc \in LivePc
  PROVE  /\ worker[p].step \in Nat
         /\ Builds(p) =>
              /\ CurrentJob(p) = "validate" <=> worker[p].step = 1
              /\ CurrentJob(p) = "github_dispatch" <=> worker[p].step = 4
              /\ CurrentJob(p) \in {"argocd", "rollout", "connectivity"} <=> worker[p].step > 4
         /\ ~Builds(p) => CurrentJob(p) # "github_dispatch"
  <1>1. Progress(p) /\ worker[p].step \in Nat
    BY Found
  <1>2. CASE Builds(p)
    <2>1. Plan(p) = LongPlan
      BY <1>2 DEF Plan, LongPlan, Builds
    <2>2. worker[p].step \in 1 .. 7
      BY <1>1, <2>1, Names DEF Progress
    <2>3. worker[p].step \in {1, 2, 3, 4, 5, 6, 7}
      BY <2>2
    <2> QED
      BY <1>1, <1>2, <2>1, <2>3, Names DEF CurrentJob
  <1>3. CASE ~Builds(p)
    <2>1. Plan(p) = ShortPlan
      BY <1>3 DEF Plan, ShortPlan, Builds
    <2>2. worker[p].step \in 1 .. 5
      BY <1>1, <2>1, Names DEF Progress
    <2>3. worker[p].step \in {1, 2, 3, 4, 5}
      BY <2>2
    <2> QED
      BY <1>1, <1>3, <2>1, <2>3, Names DEF CurrentJob
  <1> QED
    BY <1>2, <1>3

LEMMA Parts ==
  ASSUME RecordInv
  PROVE  TypeOK /\ NoDanglingReferences /\ WorkersOfActive /\ PendingUnknown /\ CountInv
  BY DEF RecordInv, ExclusionInv

\* A worker that waits for its run may still change the image; one that is past
\* the build has the image of its deployment, and that image is built.
LEMMA WaitingWorker ==
  ASSUME RecordInv, Traced, GitHubSource, NEW p \in Processes, worker[p].pc = "wait"
  PROVE  Builds(p) /\ worker[p].run = 0 /\ ~Final(proc[p].dep) /\ proc[p].dep \in Inserted
  <1>1. proc[p].status = "running" /\ proc[p].dep \in Inserted
    BY Parts DEF WorkersOfActive, NoDanglingReferences
  <1>2. CurrentJob(p) = "github_dispatch"
    BY <1>1, Found DEF Earned
  <1>3. Builds(p)
    BY <1>1, <1>2, Positions DEF LivePc
  <1>4. worker[p].run = 0
    BY DEF Traced, FoundRun
  <1> QED
    BY <1>1, <1>3, <1>4 DEF Final

LEMMA PastBuild ==
  ASSUME RecordInv, Traced, GitHubSource, NEW p \in Processes, worker[p].pc \in LivePc,
         CurrentJob(p) \in {"argocd", "rollout", "connectivity"}
  PROVE  /\ worker[p].image = dep[proc[p].dep].image /\ Built(worker[p].image)
         /\ Final(proc[p].dep) /\ proc[p].dep \in Inserted
  <1>1. proc[p].status = "running" /\ proc[p].dep \in Inserted
    BY Parts DEF WorkersOfActive, NoDanglingReferences, LivePc
  <1>2. CASE Builds(p)
    <2>1. worker[p].run \in Runs /\ run[worker[p].run].state = "success"
      BY <1>1, <1>2, Found, Positions DEF Earned, Builds
    <2>2. worker[p].run # 0
      BY <2>1 DEF Runs
    <2>3. /\ run[worker[p].run].image = worker[p].image
          /\ worker[p].image = dep[proc[p].dep].image
      BY <2>2 DEF Traced, FoundRun
    <2>4. \A q \in Processes : Builds(q) /\ proc[q].dep = proc[p].dep => q = p
      BY <1>2 DEF Traced, OneBuilder
    <2>5. proc[p].dep \notin creating
      BY <1>1, Parts, InsertedFacts DEF PendingUnknown
    <2> QED
      BY <1>1, <2>1, <2>2, <2>3, <2>4, <2>5 DEF Final, Built
  <1>3. CASE ~Builds(p)
    <2>1. proc[p].kind = "rollout"
      BY <1>1, <1>3, Parts, Types DEF Builds
    <2> QED
      BY <1>1, <2>1 DEF Traced, RollsOut
  <1> QED
    BY <1>2, <1>3

\* The workers that write a deployment after the build.
LEMMA MarkingWorker ==
  ASSUME RecordInv, Traced, GitHubSource, NEW p \in Processes,
         \/ ArgoCommit(p) \/ ArgoMark(p) \/ Rollout(p) \/ RolloutMark(p)
         \/ Connectivity(p)
  PROVE  /\ worker[p].image = dep[proc[p].dep].image /\ Built(worker[p].image)
         /\ Final(proc[p].dep) /\ proc[p].dep \in Inserted /\ worker[p].pc \in LivePc
  <1>1. CASE ArgoCommit(p) \/ ArgoMark(p) \/ RolloutMark(p)
    <2>1. worker[p].pc \in {"commit", "mark", "rolled"}
      BY <1>1 DEF ArgoCommit, ArgoMark, RolloutMark
    <2>2. proc[p].status # "absent"
      BY <2>1, Parts DEF WorkersOfActive
    <2>3. CurrentJob(p) \in {"argocd", "rollout"}
      BY <2>1, <2>2, Found DEF Earned
    <2> QED
      BY <2>1, <2>3, PastBuild DEF LivePc
  <1>2. CASE Rollout(p) \/ Connectivity(p)
    BY <1>2, PastBuild DEF Rollout, Connectivity, AtBody, LivePc
  <1> QED
    BY <1>1, <1>2

\* The row of deployment d after a step: its last image is not written over.
RowKept(d) ==
  /\ Final(d) => dep'[d].image = dep[d].image
  /\ d \in Inserted /\ dep'[d].run # dep[d].run =>
       \/ \E p \in Processes : WaitForRun(p) /\ d = proc[p].dep
       \/ \E a \in Actors : ReconWait(a) /\ d = recon[a].dep
  /\ d \in Inserted /\ dep'[d].image # dep[d].image =>
       \E p \in Processes : WaitForRun(p) /\ d = proc[p].dep
  /\ d \in Inserted /\ dep'[d].status = "building" =>
       dep[d].status = "building" \/ \E p \in Processes : WaitForRun(p) /\ d = proc[p].dep

LEMMA Rows ==
  ASSUME TypeOK
  PROVE  dep \in [Deployments -> [status : DepStatus, image : Images, tag : Images,
                                  run : {0} \cup Runs, at : Nat]]
  BY DEF TypeOK, DepTypeOK

LEMMA RowStays ==
  ASSUME RecordInv, Traced, GitHubSource, Next, NEW d \in Deployments
  PROVE  RowKept(d)
  <1>0. TypeOK
    BY Parts
  <1>1. \/ dep'[d] = dep[d]
        \/ /\ dep'[d].image = dep[d].image /\ dep'[d].run = dep[d].run
           /\ dep'[d].status = "building" => dep[d].status = "building"
        => RowKept(d)
    BY DEF RowKept
  <1>2. ASSUME NEW status, NEW image, InsertDep(status, image) PROVE RowKept(d)
    <2>1. d # depCount + 1 => dep'[d] = dep[d]
      BY <1>0, <1>2, InsertFrame
    <2>2. d = depCount + 1 => d \notin Inserted
      BY <1>0, InsertedFacts
    <2> QED
      BY <1>1, <2>1, <2>2 DEF RowKept, Final
  <1>3. ASSUME NEW e, FailDep(e) PROVE RowKept(d)
    <2>1. /\ dep'[d].image = dep[d].image /\ dep'[d].run = dep[d].run
          /\ dep'[d].status = "building" => dep[d].status = "building"
      BY <1>0, <1>3, Rows DEF FailDep
    <2> QED
      BY <1>1, <2>1
  <1>4. ASSUME ArgoNotifies PROVE RowKept(d)
    <2>1. /\ dep'[d].image = dep[d].image /\ dep'[d].run = dep[d].run
          /\ dep'[d].status = "building" => dep[d].status = "building"
      BY <1>0, <1>4, Rows DEF ArgoNotifies
    <2> QED
      BY <1>1, <2>1
  <1>5. ASSUME NEW p \in Processes, WaitForRun(p) PROVE RowKept(d)
    <2>1. d # proc[p].dep => dep'[d] = dep[d]
      BY <1>0, <1>5, Rows DEF WaitForRun
    <2>2. d = proc[p].dep => ~Final(d)
      BY <1>5, WaitingWorker DEF WaitForRun
    <2> QED
      BY <1>1, <1>5, <2>1, <2>2 DEF RowKept
  <1>6. ASSUME NEW e, NEW status, NEW image, MarkDep(e, status, image), status # "building",
               e = d => image = dep[e].image
        PROVE  RowKept(d)
    <2>1. /\ dep'[d].image = dep[d].image /\ dep'[d].run = dep[d].run
          /\ dep'[d].status = "building" => dep[d].status = "building"
      BY <1>0, <1>6, Rows DEF MarkDep
    <2> QED
      BY <1>1, <2>1
  <1>7. ASSUME NEW p \in Processes, ArgoMark(p) \/ RolloutMark(p) \/ Connectivity(p)
        PROVE  RowKept(d)
    <2>1. worker[p].image = dep[proc[p].dep].image
      BY <1>7, MarkingWorker
    <2>2. \/ \E status \in {"deploying", "running"} :
               MarkDep(proc[p].dep, status, dep[proc[p].dep].image)
          \/ FailDep(proc[p].dep)
          \/ UNCHANGED dep
      BY <1>7, <2>1 DEF ArgoMark, RolloutMark, Connectivity
    <2> QED
      BY <1>1, <1>3, <1>6, <2>2
  <1>8. ASSUME NEW a \in Actors, ReconWait(a) PROVE RowKept(d)
    <2>1. /\ dep'[d].image = dep[d].image
          /\ dep'[d].status = dep[d].status
          /\ d # recon[a].dep => dep'[d].run = dep[d].run
      <3>1. dep' = dep \/ \E r \in Runs : dep' = [dep EXCEPT ![recon[a].dep].run = r]
        BY <1>8 DEF ReconWait
      <3>2. ASSUME NEW r \in Runs, dep' = [dep EXCEPT ![recon[a].dep].run = r]
            PROVE  /\ dep'[d].image = dep[d].image /\ dep'[d].status = dep[d].status
                   /\ d # recon[a].dep => dep'[d].run = dep[d].run
        BY <1>0, <3>2, Rows
      <3> QED
        BY <3>1, <3>2
    <2>2. dep'[d].run # dep[d].run => \E b \in Actors : ReconWait(b) /\ d = recon[b].dep
      BY <1>8, <2>1, Zenon
    <2> QED
      BY <2>1, <2>2 DEF RowKept
  <1>9. ASSUME NEW a \in Actors, ReconMark(a) PROVE RowKept(d)
    <2>1. recon[a].image = dep[recon[a].dep].image
      BY <1>9 DEF Traced, ReconTraced, ReconMark
    <2> QED
      BY <1>6, <1>9, <2>1 DEF ReconMark
  <1>10. ASSUME NEW h \in Hooks, HookWrite(h) PROVE RowKept(d)
    <2>1. CASE hook[h].dep = 0
      <3>1. \E status, image : InsertDep(status, image)
        BY <1>10, <2>1 DEF HookWrite
      <3> QED
        BY <1>2, <3>1
    <2>2. CASE hook[h].dep # 0
      <3>1. hook[h].image = dep[hook[h].dep].image
        BY <1>10, <2>2 DEF Traced, HookTraced, HookWrite
      <3>2. PICK status \in {"deploying", "failed"} :
              dep' = [dep EXCEPT ![hook[h].dep].status = status,
                        ![hook[h].dep].image = hook[h].image, ![hook[h].dep].tag = hook[h].image]
        BY <1>10, <2>2 DEF HookWrite
      <3>3. d # hook[h].dep => dep'[d] = dep[d]
        BY <1>0, <3>2, Rows
      <3>4. d = hook[h].dep =>
              /\ dep'[d].image = hook[h].image /\ dep'[d].run = dep[d].run
              /\ dep'[d].status = status
        BY <1>0, <3>2, Rows
      <3> QED
        BY <1>1, <3>1, <3>3, <3>4
    <2> QED
      BY <2>1, <2>2
  <1> QED
    BY <1>1, <1>2, <1>3, <1>4, <1>5, <1>7, <1>8, <1>9, <1>10, DepWriters

-----------------------------------------------------------------------------
(* What stays of the processes.                                            *)

\* A process that has just been handed in, for a deployment.
New(p, d, kind) ==
  /\ p = procCount + 1 /\ proc[p].status = "absent" /\ proc'[p].status = "queued"
  /\ proc'[p].dep = d /\ proc'[p].kind = kind
  /\ worker'[p].pc \in {"boot", "gone"} /\ worker'[p].run = worker[p].run

Same(p) == worker'[p] = worker[p] /\ proc'[p] = proc[p]

LEMMA HandIn ==
  ASSUME RecordInv, NEW d, NEW kind, Submitted(d, kind) \/ UNCHANGED <<proc, worker>>,
         (\E q \in Processes : HandedIn(q)) \/ UNCHANGED <<procCount, proc, job, worker>>,
         NEW p \in Processes
  PROVE  Same(p) \/ New(p, d, kind)
  <1>1. CASE UNCHANGED <<proc, worker>>
    BY <1>1 DEF Same
  <1>2. CASE \E q \in Processes : HandedIn(q)
    <2> PICK q \in Processes : HandedIn(q)
      BY <1>2
    <2>1. p # q => Same(p)
      BY DEF HandedIn, Same
    <2>2. proc[q].status = "absent"
      <3>1. ~(q <= procCount)
        BY Parts, Types DEF HandedIn
      <3> QED
        BY <3>1, Parts DEF CountInv
    <2>3. proc'[q].status = "queued"
      BY DEF HandedIn
    <2>4. proc'[q].dep = d /\ proc'[q].kind = kind
      BY <2>2, <2>3, Parts, SubmittedFrame
    <2>5. New(q, d, kind)
      BY <2>2, <2>3, <2>4 DEF New, HandedIn
    <2> QED
      BY <2>1, <2>5
  <1> QED
    BY <1>1, <1>2

LEMMA CreatedProcess ==
  ASSUME RecordInv, NEW d \in Deployments, CreateProcess(d), NEW p \in Processes
  PROVE  Same(p) \/ New(p, d, "full")
  BY Parts, SubmitFrame, SubmitCases, HandIn

LEMMA StartedProcess ==
  ASSUME RecordInv, NEW h \in Hooks, HookStart(h), NEW p \in Processes
  PROVE  Same(p) \/ New(p, hook[h].dep, "rollout")
  BY Parts, SubmitFrame, SubmitCases, HandIn

LEMMA CrashedWorkers ==
  ASSUME RecordInv, Crash, NEW p \in Processes
  PROVE  /\ proc'[p] = proc[p] /\ worker'[p].run = worker[p].run
         /\ worker'[p].image = worker[p].image /\ worker'[p].pc \in {"none", "gone"}
         /\ worker'[p].pc = "none" => worker[p].pc = "none"
  BY Parts, Types DEF Crash, procVars

LEMMA ProcessWriters ==
  ASSUME Next
  PROVE  \/ UNCHANGED <<proc, worker>> \/ Crash
         \/ \E d \in Deployments : CreateProcess(d)
         \/ \E p \in Processes : WorkerStep(p)
         \/ \E h \in Hooks : HookStart(h)
  BY ProcessesKept

\* A worker keeps the run it has found.
LEMMA RunOfWorker ==
  ASSUME RecordInv, Traced, NEW p \in Processes, WorkerStep(p)
  PROVE  /\ proc[p].status # "absent" /\ proc'[p].status # "absent"
         /\ proc'[p].dep = proc[p].dep /\ proc'[p].kind = proc[p].kind
         /\ worker[p].run # 0 => worker'[p].run = worker[p].run
  <1>1. /\ proc[p].status # "absent" /\ proc'[p].status # "absent"
        /\ proc'[p].dep = proc[p].dep /\ proc'[p].kind = proc[p].kind
    BY Parts, WorkerFrame
  <1>2. worker'[p].run = worker[p].run \/ worker[p].pc = "wait"
    BY <1>1, Parts, Found, WorkerCases
    DEF Earned, Moves, Boots, Quits, Fails, Succeeds, Breaks, MovesOn, Ends, Closes
  <1> QED
    BY <1>1, <1>2 DEF Traced, FoundRun

LEMMA FinalStays ==
  ASSUME RecordInv, Traced, Next, NEW d, Final(d)
  PROVE  Final(d)'
  <1>0. TypeOK /\ d \in Inserted /\ d \in Deployments /\ d \notin creating
    BY Parts, InsertedFacts DEF Final
  <1>1. d \in Inserted'
    BY <1>0, CountWriters, InsertFrame, InsertedFacts
  <1>2. d \notin creating'
    BY <1>0, CreatingWriters, InsertedFacts DEF Crash, CreateDeployment, CreateProcess
  <1>3. ASSUME NEW q \in Processes, Builds(q)', proc'[q].dep = d
        PROVE  worker'[q].run # 0
    <2>1. CASE Same(q)
      BY <1>3, <2>1 DEF Same, Builds, Final
    <2>2. CASE Crash
      BY <1>3, <2>2, CrashedWorkers DEF Builds, Final
    <2>3. ASSUME NEW e \in Deployments, CreateProcess(e) PROVE worker'[q].run # 0
      <3>1. e # d
        BY <1>0, <2>3 DEF CreateProcess
      <3> QED
        BY <1>3, <2>1, <2>3, <3>1, CreatedProcess DEF New
    <2>4. ASSUME NEW p \in Processes, WorkerStep(p) PROVE worker'[q].run # 0
      <3>1. q # p => Same(q)
        BY <2>4, Parts, WorkerFrame DEF Same
      <3>2. q = p => Builds(q) /\ proc[q].dep = d
        BY <1>3, <2>4, RunOfWorker DEF Builds
      <3> QED
        BY <2>1, <2>4, <3>1, <3>2, RunOfWorker DEF Final
    <2>5. ASSUME NEW h \in Hooks, HookStart(h) PROVE worker'[q].run # 0
      BY <1>3, <2>1, <2>5, StartedProcess DEF New, Builds
    <2>6. UNCHANGED <<proc, worker>> => Same(q)
      BY DEF Same
    <2> QED
      BY <2>1, <2>2, <2>3, <2>4, <2>5, <2>6, ProcessWriters
  <1> QED
    BY <1>1, <1>2, <1>3 DEF Final

-----------------------------------------------------------------------------
(* Every part of the invariant is kept.                                    *)

LEMMA BuilderOrigin ==
  ASSUME RecordInv, Traced, Next, NEW p \in Processes, Builds(p)'
  PROVE  \/ Builds(p) /\ proc'[p].dep = proc[p].dep
         \/ \E d \in Deployments : CreateProcess(d) /\ New(p, d, "full")
  <1>1. Same(p) => Builds(p) /\ proc'[p].dep = proc[p].dep
    BY DEF Same, Builds
  <1>2. CASE UNCHANGED <<proc, worker>>
    BY <1>1, <1>2 DEF Same
  <1>3. CASE Crash
    BY <1>3, CrashedWorkers DEF Builds
  <1>4. ASSUME NEW d \in Deployments, CreateProcess(d)
        PROVE  Same(p) \/ New(p, d, "full")
    BY <1>4, CreatedProcess
  <1>5. ASSUME NEW q \in Processes, WorkerStep(q)
        PROVE  Builds(p) /\ proc'[p].dep = proc[p].dep
    <2>1. CASE p = q
      BY <1>5, <2>1, RunOfWorker DEF Builds
    <2>2. CASE p # q
      BY <1>1, <1>5, <2>2, Parts, WorkerFrame DEF Same
    <2> QED
      BY <2>1, <2>2
  <1>6. ASSUME NEW h \in Hooks, HookStart(h) PROVE Same(p)
    BY <1>6, StartedProcess DEF New, Builds
  <1> QED
    BY <1>1, <1>2, <1>3, <1>4, <1>5, <1>6, ProcessWriters

LEMMA OneBuilderStep ==
  ASSUME RecordInv, Traced, Next
  PROVE  OneBuilder'
  <1> SUFFICES ASSUME NEW p \in Processes, NEW q \in Processes, Builds(p)', Builds(q)',
                      proc'[p].dep = proc'[q].dep
               PROVE  p = q
    BY DEF OneBuilder
  <1>1. ASSUME NEW x \in Processes, NEW y \in Processes, Builds(x)', Builds(y)',
               proc'[x].dep = proc'[y].dep,
               NEW d \in Deployments, CreateProcess(d), New(x, d, "full")
        PROVE  x = y
    <2>1. d \in creating /\ proc'[y].dep = d
      BY <1>1 DEF CreateProcess, New
    <2>2. ~(Builds(y) /\ proc'[y].dep = proc[y].dep)
      BY <2>1, Parts DEF PendingUnknown, Builds
    <2>3. \E e \in Deployments : New(y, e, "full")
      BY <1>1, <2>2, BuilderOrigin
    <2> QED
      BY <1>1, <2>3 DEF New
  <1>2. (Builds(p) /\ proc'[p].dep = proc[p].dep) \/ p = q
    BY <1>1, BuilderOrigin
  <1>3. (Builds(q) /\ proc'[q].dep = proc[q].dep) \/ p = q
    BY <1>1, BuilderOrigin
  <1> QED
    BY <1>2, <1>3 DEF Traced, OneBuilder

\* The run a worker or a reconciliation takes is one that builds its image.
LEMMA TakenRun ==
  ASSUME TypeOK, NEW r \in Runs, NEW since, NewestRecent(r, since), NEW image,
         TakenFor(run[r].image, image), ~misattributed'
  PROVE  Started(r) /\ run[r].image = image
  BY DEF NewestRecent, Recent, Started, TakenFor

\* A worker that finds its run: its deployment has its last image now.
LEMMA RunFound ==
  ASSUME RecordInv, Traced, GitHubSource, ~misattributed', Next, NEW p \in Processes,
         WaitForRun(p), worker'[p].run # 0,
         NEW d, d = proc[p].dep
  PROVE  /\ Builds(p)' /\ worker'[p].pc = "poll" /\ worker'[p].image = worker[p].image
         /\ Started(worker'[p].run) /\ run[worker'[p].run].image = worker'[p].image
         /\ dep'[d].image = worker'[p].image
         /\ dep'[d].run = worker'[p].run
         /\ Final(d)'
  <1>1. /\ worker[p].pc = "wait" /\ Builds(p) /\ worker[p].run = 0
        /\ d \in Inserted /\ d \in Deployments
    BY WaitingWorker, Parts, InsertedFacts DEF WaitForRun
  <1>2. ~JobFails(p)
    BY <1>1, Parts, Types DEF JobFails
  <1> PICK r \in Runs :
         /\ NewestRecent(r, worker[p].since)
         /\ TakenFor(run[r].image, worker[p].image)
         /\ dep' = [dep EXCEPT ![proc[p].dep].status = "building",
                               ![proc[p].dep].image = worker[p].image,
                               ![proc[p].dep].run = r]
         /\ worker' = [worker EXCEPT ![p].pc = "poll", ![p].run = r, ![p].since = 0]
         /\ UNCHANGED procVars
    BY <1>2 DEF WaitForRun
  <1>3. Started(r) /\ run[r].image = worker[p].image
    BY Parts, TakenRun
  <1>4. worker'[p].run = r /\ worker'[p].pc = "poll" /\ worker'[p].image = worker[p].image
    BY Parts, Types
  <1>5. dep'[d].image = worker[p].image /\ dep'[d].run = r
    BY <1>1, Parts, Rows
  <1>6. Builds(p)'
    BY <1>1 DEF Builds, procVars
  <1>7. Final(d)'
    <2>1. d \notin creating
      BY <1>1, Parts DEF PendingUnknown, Builds
    <2>2. UNCHANGED <<creating, depCount, proc>>
      BY DEF WaitForRun, procVars
    <2>3. \A q \in Processes : Builds(q)' /\ proc'[q].dep = d => q = p
      BY <1>1, <2>2 DEF Traced, OneBuilder, Builds
    <2>4. r # 0
      BY DEF Runs
    <2> QED
      BY <1>1, <1>4, <2>1, <2>2, <2>3, <2>4 DEF Final, Inserted
  <1> QED
    BY <1>3, <1>4, <1>5, <1>6, <1>7

\* A run that is looked for in vain changes no deployment.
LEMMA NoRunFound ==
  ASSUME TypeOK, NEW p \in Processes, WaitForRun(p), worker'[p].run = 0
  PROVE  dep' = dep
  <1>1. ASSUME NEW r \in Runs,
               worker' = [worker EXCEPT ![p].pc = "poll", ![p].run = r, ![p].since = 0]
        PROVE  FALSE
    <2>1. worker'[p].run = r
      BY <1>1, Types
    <2> QED
      BY <2>1 DEF Runs
  <1> QED
    BY <1>1 DEF WaitForRun

\* A reconciliation that finds a run, or none.
LEMMA ReconFindsRun ==
  ASSUME RecordInv, Traced, GitHubSource, ~misattributed', NEW a \in Actors, ReconWait(a)
  PROVE  /\ Final(recon[a].dep) /\ recon[a].dep \in Inserted
         /\ recon[a].image = dep[recon[a].dep].image
         /\ recon'[a].dep = recon[a].dep /\ recon'[a].image = recon[a].image
         /\ \/ recon'[a].pc = "fail" /\ dep' = dep
            \/ \E r \in Runs :
                 /\ recon'[a].pc = "poll" /\ recon'[a].run = r
                 /\ dep'[recon[a].dep].run = r
                 /\ Started(r) /\ run[r].image = recon[a].image
  <1>1. /\ recon[a].pc = "wait" /\ recon[a].dep \in Inserted /\ recon[a].dep \in Deployments
        /\ recon[a] \in ReconStates
    BY Parts, ReconReads DEF ReconWait
  <1>2. Final(recon[a].dep) /\ recon[a].image = dep[recon[a].dep].image
    BY <1>1 DEF Traced, ReconTraced
  <1>0. recon \in [Actors -> ReconStates]
    BY Parts DEF TypeOK, ReconTypeOK, ReconStates
  <1>3. CASE ReconTo(a, "fail") /\ UNCHANGED <<dep, misattributed>>
    BY <1>0, <1>1, <1>2, <1>3 DEF ReconTo, ReconStates
  <1>4. CASE ~(ReconTo(a, "fail") /\ UNCHANGED <<dep, misattributed>>)
    <2> PICK r \in Runs :
           /\ NewestRecent(r, recon[a].since)
           /\ TakenFor(run[r].image, recon[a].image)
           /\ recon' = [recon EXCEPT ![a].pc = "poll", ![a].run = r, ![a].since = 0]
           /\ dep' = [dep EXCEPT ![recon[a].dep].run = r]
      BY <1>4 DEF ReconWait
    <2>1. Started(r) /\ run[r].image = recon[a].image
      BY Parts, TakenRun
    <2>2. dep'[recon[a].dep].run = r
      BY <1>1, Parts, Rows
    <2>3. /\ recon'[a].pc = "poll" /\ recon'[a].run = r
          /\ recon'[a].dep = recon[a].dep /\ recon'[a].image = recon[a].image
      BY <1>0, <1>1 DEF ReconStates
    <2> QED
      BY <1>1, <1>2, <2>1, <2>2, <2>3
  <1> QED
    BY <1>3, <1>4

\* A new row has its image for good, except that of a request which has still to
\* make the process; that one is queued.
LEMMA NewRow ==
  ASSUME RecordInv, Traced, Next, NEW d \in Inserted', d \notin Inserted
  PROVE  /\ dep'[d].run = 0
         /\ CreateDeployment => dep'[d].status = "queued"
         /\ ~CreateDeployment => Final(d)'
  <1>0. TypeOK
    BY Parts
  <1> PICK status, image : InsertDep(status, image) /\ d = depCount + 1
    BY <1>0, CountWriters, InsertFrame, InsertedFacts
  <1>1. dep'[d].run = 0
    BY <1>0, InsertFrame, Rows DEF InsertDep
  <1>2. CreateDeployment => dep'[d].status = "queued"
    BY <1>0, InsertFrame DEF CreateDeployment
  <1>3. ASSUME ~CreateDeployment PROVE d \notin creating'
    <2>1. creating \subseteq Inserted
      BY Parts DEF NoDanglingReferences
    <2> QED
      BY <1>3, <2>1, CreatingWriters DEF Crash, CreateProcess
  <1>4. ASSUME NEW q \in Processes, Builds(q)' PROVE proc'[q].dep # d
    <2>1. Builds(q) => proc[q].dep \in Inserted
      BY Parts DEF NoDanglingReferences, Builds
    <2>2. \A e \in Deployments : CreateProcess(e) => e \in Inserted
      BY Parts DEF NoDanglingReferences, CreateProcess
    <2> QED
      BY <1>4, <2>1, <2>2, BuilderOrigin DEF New
  <1> QED
    BY <1>1, <1>2, <1>3, <1>4 DEF Final

LEMMA DepTracedStep ==
  ASSUME RecordInv, Traced, GitHubSource, ~misattributed', Next, NEW d \in Inserted'
  PROVE  DepTraced(d)'
  <1>0. TypeOK /\ CountInv /\ Inserted \subseteq Deployments
    BY Parts, InsertedFacts
  <1>1. CASE d \notin Inserted
    BY <1>1, NewRow DEF DepTraced
  <1>2. CASE d \in Inserted
    <2>0. DepTraced(d) /\ RowKept(d)
      BY <1>0, <1>2, RowStays DEF Traced
    <2>1. ASSUME dep[d].run # 0, dep'[d].run = dep[d].run
          PROVE  Final(d)' /\ Started(dep[d].run)' /\ (run[dep[d].run].image = dep[d].image)'
      <3>1. PICK r \in Runs : r = dep[d].run
        BY <2>0, <2>1 DEF DepTraced, Started
      <3>2. Final(d) /\ Started(r) /\ run[r].image = dep[d].image
        BY <2>0, <2>1, <3>1 DEF DepTraced
      <3>3. RunKept(r) /\ Final(d)' /\ dep'[d].image = dep[d].image
        BY <1>0, <2>0, <3>2, RunsStayTheSame, FinalStays DEF RowKept
      <3> QED
        BY <2>1, <3>1, <3>2, <3>3 DEF RunKept, Started
    <2>2. ASSUME dep[d].status = "building" PROVE Final(d)'
      BY <2>0, <2>2, FinalStays DEF DepTraced
    <2>3. ASSUME NEW p \in Processes, WaitForRun(p), d = proc[p].dep PROVE DepTraced(d)'
      <3>1. CASE worker'[p].run = 0
        <4>1. dep' = dep
          BY <1>0, <2>3, <3>1, NoRunFound
        <4> QED
          BY <2>1, <2>2, <4>1 DEF DepTraced
      <3>2. CASE worker'[p].run # 0
        <4>1. PICK r \in Runs : r = worker'[p].run
          BY <2>3, <3>2, RunFound DEF Started
        <4>2. /\ Started(r) /\ run[r].image = dep'[d].image /\ r = dep'[d].run
              /\ Final(d)'
          BY <2>3, <3>2, <4>1, RunFound
        <4>3. RunKept(r)
          BY <1>0, RunsStayTheSame
        <4> QED
          BY <4>2, <4>3 DEF DepTraced, RunKept, Started
      <3> QED
        BY <3>1, <3>2
    <2>4. ASSUME NEW a \in Actors, ReconWait(a), d = recon[a].dep PROVE DepTraced(d)'
      <3>1. Final(d)'
        BY <2>4, ReconFindsRun, FinalStays
      <3>2. CASE dep' = dep
        BY <2>1, <2>2, <3>2 DEF DepTraced
      <3>3. CASE dep' # dep
        <4>1. PICK r \in Runs : r = dep'[d].run /\ Started(r) /\ run[r].image = dep[d].image
          BY <2>4, <3>3, ReconFindsRun
        <4>2. dep'[d].image = dep[d].image
          BY <2>0, <2>4, ReconFindsRun DEF RowKept
        <4>3. RunKept(r)
          BY <1>0, RunsStayTheSame
        <4> QED
          BY <3>1, <4>1, <4>2, <4>3 DEF DepTraced, RunKept, Started
      <3> QED
        BY <3>2, <3>3
    <2>5. CASE \A p \in Processes : ~(WaitForRun(p) /\ d = proc[p].dep)
      <3>1. CASE \A a \in Actors : ~(ReconWait(a) /\ d = recon[a].dep)
        <4>1. dep'[d].run = dep[d].run /\ (dep'[d].status = "building" => dep[d].status = "building")
          BY <1>2, <2>0, <2>5, <3>1 DEF RowKept
        <4> QED
          BY <2>1, <2>2, <4>1 DEF DepTraced
      <3> QED
        BY <2>4, <3>1
    <2> QED
      BY <2>3, <2>5
  <1> QED
    BY <1>1, <1>2

\* A worker that goes on with its image, from one statement to the next.
GoesOn(p) ==
  /\ worker'[p].image = worker[p].image /\ worker'[p].run = worker[p].run
  /\ worker'[p].pc \in LivePc => worker[p].pc \in LivePc
  /\ worker'[p].pc \notin {"none", "boot"}
  /\ worker'[p].pc = "wait" => AtBody(p, "github_dispatch")
  /\ worker'[p].pc = "body" => worker'[p].step = worker[p].step + 1

LEMMA WorkerImages ==
  ASSUME RecordInv, GitHubSource, NEW p \in Processes, WorkerStep(p)
  PROVE  \/ WaitForRun(p)
         \/ Validate(p) /\ Builds(p)
         \/ Boot(p) /\ worker'[p].image = dep[proc[p].dep].image
         \/ GoesOn(p)
  <1>0. TypeOK
    BY Parts
  <1>1. ASSUME JobFails(p), worker[p].pc \in LivePc PROVE GoesOn(p)
    BY <1>0, <1>1, Types DEF JobFails, GoesOn, LivePc
  <1>2. ASSUME JobSucceeds(p, worker[p].image), worker[p].pc \in LivePc PROVE GoesOn(p)
    <2> DEFINE next == worker[p].step + 1
               pc == IF next <= Len(Plan(p)) THEN "body" ELSE "end"
    <2>1. worker' = [worker EXCEPT ![p].step = next, ![p].image = worker[p].image, ![p].pc = pc]
      BY <1>2 DEF JobSucceeds
    <2>2. pc \in {"body", "end"}
      OBVIOUS
    <2> HIDE DEF next, pc
    <2>3. /\ worker'[p].image = worker[p].image /\ worker'[p].run = worker[p].run
          /\ worker'[p].pc = pc /\ worker'[p].step = next
      BY <1>0, <2>1, Types
    <2> QED
      BY <1>2, <2>2, <2>3 DEF GoesOn, LivePc, next
  <1>3. ASSUME NEW pc \in {"commit", "mark", "rolled", "finish", "failing", "closing", "gone"},
               GoTo(p, pc), pc \in LivePc => worker[p].pc \in LivePc
        PROVE  GoesOn(p)
    BY <1>0, <1>3, Types DEF GoTo, GoesOn, LivePc
  <1>12. ASSUME JobDone(p, worker[p].image), worker[p].pc \in LivePc PROVE GoesOn(p)
    <2>1. CASE NextJobFails(p)
      BY <1>0, <2>1, Types DEF NextJobFails, GoesOn, LivePc
    <2> QED
      BY <1>2, <1>3, <1>12, <2>1 DEF JobDone, LivePc
  <1>4. ASSUME Boot(p) PROVE GoesOn(p) \/ worker'[p].image = dep[proc[p].dep].image
    <2>1. CASE GoTo(p, "gone") \/ GoTo(p, "failing")
      BY <1>3, <2>1 DEF LivePc
    <2>2. CASE worker' = [worker EXCEPT ![p].pc = "body", ![p].image = dep[proc[p].dep].image]
      BY <1>0, <2>2, Types
    <2> QED
      BY <1>4, <2>1, <2>2 DEF Boot
  <1>5. ASSUME Validate(p) PROVE Builds(p) \/ GoesOn(p)
    <2>1. worker[p].pc \in LivePc /\ proc[p].status # "absent"
      BY <1>5, Parts DEF Validate, AtBody, LivePc, WorkersOfActive
    <2>2. ~Builds(p) => JobFails(p) \/ JobDone(p, worker[p].image)
      BY <1>5, <2>1 DEF Validate, Builds
    <2> QED
      BY <1>1, <1>12, <2>1, <2>2
  <1>6. ASSUME \/ NetworkOrWorkflow(p) \/ ArgoNothing(p) \/ Rollout(p) \/ RolloutMark(p)
               \/ FinishRollout(p) \/ Connectivity(p)
        PROVE  GoesOn(p)
    <2>1. worker[p].pc \in LivePc
      BY <1>6 DEF NetworkOrWorkflow, ArgoNothing, Rollout, RolloutMark, FinishRollout,
         Connectivity, AtBody, LivePc
    <2>2. \/ JobFails(p) \/ JobDone(p, worker[p].image)
          \/ GoTo(p, "rolled") \/ GoTo(p, "finish")
      BY <1>6 DEF NetworkOrWorkflow, ArgoNothing, Rollout, RolloutMark, FinishRollout,
         Connectivity
    <2> QED
      BY <1>1, <1>3, <1>12, <2>1, <2>2
  <1>7. ASSUME Dispatch(p) PROVE GoesOn(p)
    <2>1. worker[p].pc \in LivePc /\ AtBody(p, "github_dispatch")
      BY <1>7 DEF Dispatch, AtBody, LivePc
    <2>2. CASE JobFails(p)
      BY <1>1, <2>1, <2>2
    <2>3. CASE worker' = [worker EXCEPT ![p].pc = "wait", ![p].since = now]
      <3>1. /\ worker'[p].image = worker[p].image /\ worker'[p].run = worker[p].run
            /\ worker'[p].pc = "wait"
        BY <1>0, <2>3, Types
      <3> QED
        BY <2>1, <3>1 DEF GoesOn
    <2> QED
      BY <1>7, <2>2, <2>3 DEF Dispatch
  <1>8. ASSUME PollRun(p) PROVE GoesOn(p)
    BY <1>1, <1>8, <1>12 DEF PollRun, LivePc
  <1>9. ASSUME ArgoProject(p) \/ ArgoCommit(p) PROVE GoesOn(p)
    <2>1. worker[p].pc \in LivePc
      BY <1>9 DEF ArgoProject, ArgoCommit, AtBody, LivePc
    <2>2. JobFails(p) \/ \E pc \in {"commit", "mark"} : GoTo(p, pc)
      BY <1>9 DEF ArgoProject, ArgoCommit
    <2> QED
      BY <1>1, <1>3, <2>1, <2>2
  <1>10. ASSUME ArgoMark(p) PROVE GoesOn(p)
    BY <1>10, <1>12 DEF ArgoMark, LivePc
  <1>11. ASSUME FailProcess(p) \/ SucceedProcess(p) \/ CloseJob(p) PROVE GoesOn(p)
    <2>1. GoTo(p, "gone") \/ GoTo(p, "closing")
      BY <1>11 DEF FailProcess, SucceedProcess, EndProcess, CloseJob
    <2> QED
      BY <1>3, <2>1 DEF LivePc
  <1> QED
    BY <1>4, <1>5, <1>6, <1>7, <1>8, <1>9, <1>10, <1>11 DEF WorkerStep

\* The deployment of a worker that has found its run has its last image.
LEMMA FoundIsFinal ==
  ASSUME RecordInv, Traced, NEW p \in Processes, worker[p].run # 0
  PROVE  Final(proc[p].dep) /\ proc[p].dep \in Deployments /\ Builds(p)
  <1>1. Builds(p)
    BY DEF Traced, FoundRun
  <1>2. proc[p].dep \in Inserted /\ proc[p].dep \in Deployments
    BY <1>1, Parts, InsertedFacts DEF NoDanglingReferences, Builds
  <1>3. proc[p].dep \notin creating
    BY <1>1, Parts, <1>2 DEF PendingUnknown, Builds
  <1>4. \A q \in Processes : Builds(q) /\ proc[q].dep = proc[p].dep => q = p
    BY <1>1 DEF Traced, OneBuilder
  <1> QED
    BY <1>1, <1>2, <1>3, <1>4 DEF Final

\* A worker that had found its run still has it, and the image.
LEMMA FoundStays ==
  ASSUME RecordInv, Traced, GitHubSource, Next, NEW p \in Processes, worker[p].run # 0,
         worker'[p].run = worker[p].run, worker'[p].image = worker[p].image,
         proc'[p].status # "absent", proc'[p].dep = proc[p].dep, proc'[p].kind = proc[p].kind,
         worker'[p].pc \notin {"none", "boot", "wait"},
         worker'[p].pc = "body" => worker'[p].step > 4,
         worker'[p].pc \in LivePc => worker[p].pc \in LivePc
  PROVE  FoundRun(p)'
  <1> PICK r \in Runs : r = worker[p].run
    BY DEF Traced, FoundRun, Started
  <1>1. /\ Builds(p) /\ Started(r) /\ run[r].image = worker[p].image
        /\ worker[p].pc \in LivePc => worker[p].image = dep[proc[p].dep].image
    BY DEF Traced, FoundRun
  <1>2. RunKept(r)
    BY Parts, RunsStayTheSame
  <1>3. dep'[proc[p].dep].image = dep[proc[p].dep].image
    BY FoundIsFinal, RowStays DEF RowKept
  <1> QED
    BY <1>1, <1>2, <1>3 DEF FoundRun, Builds, RunKept, Started

LEMMA FoundRunStep ==
  ASSUME RecordInv, Traced, GitHubSource, ~misattributed', Next, NEW p \in Processes
  PROVE  FoundRun(p)'
  <1> SUFFICES ASSUME worker'[p].run # 0 PROVE FoundRun(p)'
    BY DEF FoundRun
  <1>0. FoundRun(p)
    BY DEF Traced
  <1>1. CASE Same(p)
    BY <1>0, <1>1, FoundStays DEF Same, FoundRun, Builds
  <1>2. CASE Crash
    <2>1. worker[p].run # 0
      BY <1>2, CrashedWorkers
    <2>2. Builds(p) /\ worker[p].pc # "none"
      BY <1>0, <2>1 DEF FoundRun
    <2>3. worker'[p].pc = "gone"
      BY <1>2, <2>2, CrashedWorkers
    <2> QED
      BY <1>2, <2>1, <2>2, <2>3, CrashedWorkers, FoundStays DEF Builds, LivePc
  <1>3. ASSUME NEW d, NEW kind, New(p, d, kind) PROVE FALSE
    BY <1>0, <1>3 DEF New, FoundRun, Builds
  <1>4. CASE WorkerStep(p)
    <2>1. CASE WaitForRun(p)
      <3>1. \A d : d = proc[p].dep =>
              /\ Builds(p)' /\ worker'[p].pc = "poll" /\ worker'[p].image = worker[p].image
              /\ Started(worker'[p].run) /\ run[worker'[p].run].image = worker'[p].image
              /\ dep'[d].image = worker'[p].image
        BY <2>1, RunFound
      <3>2. proc'[p].dep = proc[p].dep
        BY <1>4, RunOfWorker
      <3>3. PICK r \in Runs : r = worker'[p].run
        BY <3>1 DEF Started
      <3>4. RunKept(r)
        BY Parts, RunsStayTheSame
      <3> QED
        BY <3>1, <3>2, <3>3, <3>4 DEF FoundRun, RunKept, Started
    <2>2. CASE GoesOn(p)
      <3>1. worker[p].run # 0
        BY <2>2 DEF GoesOn
      <3>2. /\ Builds(p) /\ worker[p].pc \notin {"none", "boot", "wait"}
            /\ worker[p].pc = "body" => worker[p].step > 4
        BY <1>0, <3>1 DEF FoundRun
      <3>3. proc[p].status # "absent"
        BY <3>2 DEF Builds
      <3>4. /\ worker[p].step \in Nat
            /\ worker[p].pc \in LivePc => worker[p].step >= 4
            /\ ~AtBody(p, "github_dispatch")
        <4>1. worker[p].step \in Nat
          BY Parts, Types
        <4>2. CASE worker[p].pc \in LivePc
          <5>1. worker[p].pc \in {"poll", "commit", "mark", "rolled", "finish"} =>
                  CurrentJob(p) \in {"github_dispatch", "argocd", "rollout"}
            BY <3>3, Found DEF Earned
          <5>2. worker[p].pc \in {"body", "poll", "commit", "mark", "rolled", "finish"}
            BY <3>2, <4>2 DEF LivePc
          <5> QED
            BY <3>2, <3>3, <4>1, <4>2, <5>1, <5>2, Positions DEF AtBody
        <4> QED
          BY <4>1, <4>2 DEF AtBody, LivePc
      <3>5. worker'[p].pc = "body" => worker'[p].step > 4
        BY <2>2, <3>4 DEF GoesOn, LivePc
      <3> QED
        BY <1>4, <2>2, <3>1, <3>4, <3>5, FoundStays, RunOfWorker DEF GoesOn
    <2>3. CASE Boot(p)
      <3>1. worker'[p].run = worker[p].run
        <4>1. CASE \E image : worker' = [worker EXCEPT ![p].pc = "body", ![p].image = image]
          BY <4>1, Parts, Types
        <4>2. CASE \E pc : GoTo(p, pc)
          BY <4>2, Parts, Types DEF GoTo
        <4> QED
          BY <2>3, <4>1, <4>2 DEF Boot
      <3> QED
        BY <1>0, <2>3, <3>1 DEF FoundRun, Boot
    <2>4. CASE Validate(p) /\ Builds(p)
      <3>1. worker[p].run = 0
        <4>1. worker[p].pc = "body" /\ CurrentJob(p) = "validate" /\ proc[p].status # "absent"
          BY <2>4 DEF Validate, AtBody, Builds
        <4>2. worker[p].step = 1
          BY <2>4, <4>1, Positions DEF LivePc
        <4> QED
          BY <1>0, <4>1, <4>2 DEF FoundRun
      <3>2. worker'[p].run = worker[p].run
        <4>1. \/ JobFails(p) \/ \E image : JobSucceeds(p, image)
              \/ NextJobFails(p) \/ GoTo(p, "failing")
          BY <2>4 DEF Validate, JobDone
        <4>2. JobFails(p) => worker'[p].run = worker[p].run
          BY Parts, Types DEF JobFails
        <4>3. ASSUME NEW image, JobSucceeds(p, image) PROVE worker'[p].run = worker[p].run
          <5>1. \E step, pc : worker' = [worker EXCEPT ![p].step = step, ![p].image = image,
                                                       ![p].pc = pc]
            BY <4>3 DEF JobSucceeds
          <5> QED
            BY <5>1, Parts, Types
        <4>4. NextJobFails(p) \/ GoTo(p, "failing") => worker'[p].run = worker[p].run
          BY Parts, Types DEF NextJobFails, GoTo
        <4> QED
          BY <4>1, <4>2, <4>3, <4>4
      <3> QED
        BY <3>1, <3>2
    <2> QED
      BY <1>4, <2>1, <2>2, <2>3, <2>4, WorkerImages
  <1>5. ASSUME NEW q \in Processes, WorkerStep(q), q # p PROVE Same(p)
    BY <1>5, Parts, WorkerFrame DEF Same
  <1>6. UNCHANGED <<proc, worker>> => Same(p)
    BY DEF Same
  <1>7. ASSUME NEW d \in Deployments, CreateProcess(d) PROVE Same(p)
    BY <1>3, <1>7, CreatedProcess
  <1>8. ASSUME NEW h \in Hooks, HookStart(h) PROVE Same(p)
    BY <1>3, <1>8, StartedProcess
  <1> QED
    BY <1>1, <1>2, <1>4, <1>5, <1>6, <1>7, <1>8, ProcessWriters

LEMMA RollsOutStep ==
  ASSUME RecordInv, Traced, GitHubSource, Next, NEW p \in Processes
  PROVE  RollsOut(p)'
  <1> SUFFICES ASSUME proc'[p].status # "absent", proc'[p].kind = "rollout" PROVE RollsOut(p)'
    BY DEF RollsOut
  <1>0. TypeOK /\ CountInv /\ NoDanglingReferences
    BY Parts
  <1>1. ASSUME NEW d \in Inserted, Final(d), Built(dep[d].image)
        PROVE  Final(d)' /\ dep'[d].image = dep[d].image /\ Built(dep[d].image)'
    <2>1. d \in Deployments
      BY <1>0, InsertedFacts
    <2>2. Final(d)' /\ dep'[d].image = dep[d].image
      BY <1>1, <2>1, FinalStays, RowStays DEF RowKept
    <2>3. \A image : Built(image) => Built(image)'
      BY <1>0, BuiltStays
    <2>4. PICK image : image = dep[d].image
      OBVIOUS
    <2>5. Built(image)'
      BY <1>1, <2>3, <2>4
    <2> QED
      BY <2>2, <2>4, <2>5
  <1>2. ASSUME proc[p].status # "absent", proc[p].kind = "rollout", proc'[p].dep = proc[p].dep,
               worker'[p].pc \in LivePc =>
                 \/ worker'[p].image = dep[proc[p].dep].image
                 \/ worker[p].pc \in LivePc /\ worker'[p].image = worker[p].image
        PROVE  RollsOut(p)'
    <2>1. PICK d \in Inserted : d = proc[p].dep
      BY <1>0, <1>2 DEF NoDanglingReferences
    <2>2. /\ Final(d) /\ Built(dep[d].image)
          /\ worker[p].pc \in LivePc => worker[p].image = dep[d].image
      BY <1>2, <2>1 DEF Traced, RollsOut
    <2>3. Final(d)' /\ dep'[d].image = dep[d].image /\ Built(dep[d].image)'
      BY <1>1, <2>2
    <2> QED
      BY <1>2, <2>1, <2>2, <2>3 DEF RollsOut
  <1>3. CASE Same(p)
    BY <1>2, <1>3 DEF Same
  <1>4. CASE Crash
    BY <1>2, <1>4, CrashedWorkers DEF LivePc
  <1>5. CASE WorkerStep(p)
    <2>1. /\ proc[p].status # "absent" /\ proc[p].kind = "rollout" /\ proc'[p].dep = proc[p].dep
          /\ ~Builds(p)
      BY <1>5, RunOfWorker DEF Builds
    <2>2. ~WaitForRun(p)
      BY <2>1, WaitingWorker DEF WaitForRun
    <2> QED
      BY <1>2, <1>5, <2>1, <2>2, WorkerImages DEF GoesOn
  <1>6. ASSUME NEW h \in Hooks, HookStart(h), New(p, hook[h].dep, "rollout") PROVE RollsOut(p)'
    <2>1. PICK d \in Inserted : d = hook[h].dep
      BY <1>0, <1>6 DEF NoDanglingReferences, HookStart
    <2>2. d # 0
      BY <1>0, InsertedFacts
    <2>3. Final(d) /\ Built(dep[d].image)
      BY <1>6, <2>1, <2>2 DEF Traced, HookTraced, HookStart
    <2>4. Final(d)' /\ Built(dep[d].image)'
      BY <1>1, <2>3
    <2> QED
      BY <1>6, <2>1, <2>4 DEF New, RollsOut, LivePc
  <1>7. ASSUME NEW q \in Processes, WorkerStep(q), q # p PROVE Same(p)
    BY <1>7, Parts, WorkerFrame DEF Same
  <1>8. UNCHANGED <<proc, worker>> => Same(p)
    BY DEF Same
  <1>9. ASSUME NEW d \in Deployments, CreateProcess(d) PROVE Same(p)
    BY <1>9, CreatedProcess DEF New
  <1>10. ASSUME NEW h \in Hooks, HookStart(h) PROVE Same(p) \/ New(p, hook[h].dep, "rollout")
    BY <1>10, StartedProcess
  <1> QED
    BY <1>3, <1>4, <1>5, <1>6, <1>7, <1>8, <1>9, <1>10, ProcessWriters

LEMMA ReconTracedStep ==
  ASSUME RecordInv, Traced, GitHubSource, ~misattributed', Next, NEW a \in Actors
  PROVE  ReconTraced(a)'
  <1>0. TypeOK /\ CountInv /\ NoDanglingReferences /\ recon \in [Actors -> ReconStates]
    BY Parts DEF TypeOK, ReconTypeOK, ReconStates
  <1>1. ASSUME NEW d \in Inserted, Final(d), NEW image, image = dep[d].image,
               recon'[a].dep = d, recon'[a].image = image,
               recon'[a].pc = "poll" =>
                 Started(recon'[a].run) /\ run[recon'[a].run].image = image,
               recon'[a].pc \in {"tag", "mark"} => Built(image)
        PROVE  ReconTraced(a)'
    <2>1. Final(d)' /\ dep'[d].image = image
      BY <1>0, <1>1, InsertedFacts, FinalStays, RowStays DEF RowKept
    <2>2. recon'[a].pc \in {"tag", "mark"} => Built(image)'
      BY <1>0, <1>1, BuiltStays
    <2>3. ASSUME recon'[a].pc = "poll"
          PROVE  Started(recon[a].run)' /\ run'[recon'[a].run].image = image
      <3>1. PICK r \in Runs : r = recon'[a].run /\ Started(r) /\ run[r].image = image
        BY <1>1, <2>3 DEF Started
      <3> QED
        BY <1>0, <3>1, RunsStayTheSame DEF RunKept, Started
    <2> QED
      BY <1>1, <2>1, <2>2, <2>3 DEF ReconTraced
  <1>2. ASSUME recon[a].pc \in {"wait", "poll", "tag", "mark"}
        PROVE  /\ recon[a].dep \in Inserted /\ Final(recon[a].dep)
               /\ recon[a].image = dep[recon[a].dep].image
               /\ recon[a].pc = "poll" =>
                    Started(recon[a].run) /\ run[recon[a].run].image = recon[a].image
               /\ recon[a].pc \in {"tag", "mark"} => Built(recon[a].image)
    BY <1>0, <1>2 DEF NoDanglingReferences, Traced, ReconTraced
  <1>3. CASE recon'[a] = recon[a]
    <2>1. CASE recon[a].pc \in {"wait", "poll", "tag", "mark"}
      BY <1>1, <1>2, <1>3, <2>1
    <2> QED
      BY <1>3, <2>1 DEF ReconTraced
  <1>4. CASE recon'[a].pc \in {"idle", "load", "fail"}
    BY <1>4 DEF ReconTraced
  <1>5. CASE ReconLoad(a)
    <2>1. recon[a].dep \in Inserted /\ recon[a].dep \in Deployments
      BY <1>0, <1>5, ReconReads DEF ReconLoad
    <2> PICK d \in Inserted : d = recon[a].dep /\ d \in Deployments
      BY <2>1
    <2>2. CASE ReconDone(a) \/ ReconTo(a, "fail")
      <3>1. recon'[a].pc \in {"idle", "fail"}
        BY <1>0, <2>2 DEF ReconDone, ReconTo, IdleRec, ReconStates
      <3> QED
        BY <1>4, <3>1
    <2>3. CASE ~(ReconDone(a) \/ ReconTo(a, "fail"))
      <3>1. /\ dep[d].status = "building"
            /\ recon' = [recon EXCEPT ![a].run = dep[d].run, ![a].image = dep[d].image,
                           ![a].pc = IF dep[d].run = 0 THEN "wait" ELSE "poll"]
        BY <1>5, <2>3 DEF ReconLoad
      <3>2. /\ recon'[a].dep = d /\ recon'[a].image = dep[d].image
            /\ recon'[a].run = dep[d].run
            /\ recon'[a].pc = IF dep[d].run = 0 THEN "wait" ELSE "poll"
        BY <1>0, <3>1 DEF ReconStates
      <3>3. /\ Final(d)
            /\ dep[d].run # 0 =>
                 Started(dep[d].run) /\ run[dep[d].run].image = dep[d].image
        BY <3>1 DEF Traced, DepTraced
      <3> QED
        BY <1>1, <3>2, <3>3
    <2> QED
      BY <2>2, <2>3
  <1>6. CASE ReconWait(a)
    BY <1>1, <1>4, <1>6, ReconFindsRun
  <1>7. CASE ReconPoll(a) \/ ReconTag(a)
    <2>1. recon[a].pc \in {"poll", "tag"}
      BY <1>7 DEF ReconPoll, ReconTag
    <2>2. \/ recon'[a].pc \in {"idle", "fail"}
          \/ recon[a].pc = "poll" /\ run[recon[a].run].state = "success" /\ ReconTo(a, "tag")
          \/ recon[a].pc = "tag" /\ ReconTo(a, "mark")
      BY <1>0, <1>7 DEF ReconPoll, ReconTag, ReconDone, ReconTo, IdleRec, ReconStates
    <2>3. \A pc : ReconTo(a, pc) =>
            /\ recon'[a].pc = pc /\ recon'[a].dep = recon[a].dep
            /\ recon'[a].image = recon[a].image
      BY <1>0 DEF ReconTo, ReconStates
    <2>4. recon[a].pc = "poll" /\ run[recon[a].run].state = "success" => Built(recon[a].image)
      BY <1>2 DEF Built, Started
    <2> QED
      BY <1>1, <1>2, <1>4, <2>1, <2>2, <2>3, <2>4
  <1>8. CASE ReconMark(a) \/ ReconFail(a)
    <2>1. recon'[a].pc = "idle"
      BY <1>0, <1>8 DEF ReconMark, ReconFail, ReconDone, IdleRec
    <2> QED
      BY <1>4, <2>1
  <1>9. ASSUME NEW b \in Actors, ReconStep(b), b # a PROVE recon'[a] = recon[a]
    BY <1>0, <1>9, ReconFrame
  <1>10. CASE Crash
    BY <1>4, <1>10 DEF Crash, IdleRec, Actors
  <1>11. CASE TickerNext \/ StartRecord
    BY <1>0, <1>3, <1>4, <1>11 DEF TickerNext, StartRecord
  <1> QED
    BY <1>3, <1>5, <1>6, <1>7, <1>8, <1>9, <1>10, <1>11, ReconWriters DEF ReconStep

LEMMA HookTracedStep ==
  ASSUME RecordInv, Traced, GitHubSource, ~misattributed', Next, NEW h \in Hooks
  PROVE  HookTraced(h)'
  <1>0. TypeOK /\ CountInv /\ NoDanglingReferences /\ hook \in [Hooks -> HookStates]
    BY Parts DEF TypeOK, HookTypeOK, HookStates
  <1>1. CASE hook'[h].pc = "idle"
    BY <1>1 DEF HookTraced
  <1>2. ASSUME NEW image, NEW d, hook'[h].image = image, hook'[h].dep = d,
               hook'[h].ok => Built(image),
               hook'[h].pc \in {"project", "tag", "check", "start"} => hook'[h].ok,
               d # 0 => d \in Inserted /\ Final(d) /\ image = dep[d].image
        PROVE  HookTraced(h)'
    <2>1. hook'[h].ok => Built(image)'
      BY <1>0, <1>2, BuiltStays
    <2>2. d # 0 => Final(d)' /\ image = dep'[d].image
      BY <1>0, <1>2, InsertedFacts, FinalStays, RowStays DEF RowKept
    <2> QED
      BY <1>2, <2>1, <2>2 DEF HookTraced
  <1>3. ASSUME hook[h].pc # "idle"
        PROVE  /\ hook[h].ok => Built(hook[h].image)
               /\ hook[h].pc \in {"project", "tag", "check", "start"} => hook[h].ok
               /\ hook[h].dep # 0 =>
                    /\ hook[h].dep \in Inserted /\ Final(hook[h].dep)
                    /\ hook[h].image = dep[hook[h].dep].image
    BY <1>0, <1>3 DEF Traced, HookTraced, NoDanglingReferences
  <1>4. ASSUME hook[h].pc # "idle", NEW pc, HookTo(h, pc),
               pc \in {"project", "tag", "check", "start"} => hook[h].ok
        PROVE  HookTraced(h)'
    <2>1. /\ hook'[h].pc = pc /\ hook'[h].image = hook[h].image
          /\ hook'[h].ok = hook[h].ok /\ hook'[h].dep = hook[h].dep
      BY <1>0, <1>4 DEF HookTo, HookStates
    <2> QED
      BY <1>2, <1>3, <1>4, <2>1
  <1>5. HookReturns(h) => hook'[h].pc = "idle"
    BY <1>0 DEF HookReturns, IdleHook
  <1>6. CASE hook'[h] = hook[h]
    <2>1. CASE hook[h].pc # "idle"
      BY <1>2, <1>3, <1>6, <2>1
    <2> QED
      BY <1>1, <1>6, <2>1
  <1>7. CASE HookMatch(h)
    <2>1. ASSUME NEW d \in Building,
                 TakenFor(hook[h].image, dep[d].image),
                 hook' = [hook EXCEPT ![h].pc = "write", ![h].dep = d]
          PROVE  HookTraced(h)'
      <3>1. d \in Inserted /\ Final(d)
        <4>1. d \in Inserted
          BY <1>0, InsertedFacts DEF NoDanglingReferences, Building
        <4> QED
          BY <4>1 DEF Traced, DepTraced, Building
      <3>2. hook[h].image = dep[d].image
        BY <2>1 DEF TakenFor
      <3>3. /\ hook'[h].pc = "write" /\ hook'[h].dep = d
            /\ hook'[h].image = hook[h].image /\ hook'[h].ok = hook[h].ok
        BY <1>0, <2>1 DEF HookStates
      <3> QED
        BY <1>2, <1>3, <1>7, <3>1, <3>2, <3>3 DEF HookMatch
    <2>2. HookTo(h, "write") => HookTraced(h)'
      BY <1>4, <1>7 DEF HookMatch
    <2>3. \/ HookReturns(h) \/ HookTo(h, "write")
          \/ \E d \in Building : /\ TakenFor(hook[h].image, dep[d].image)
                                 /\ hook' = [hook EXCEPT ![h].pc = "write", ![h].dep = d]
      BY <1>7, Zenon DEF HookMatch, Named
    <2> QED
      BY <1>1, <1>5, <2>1, <2>2, <2>3
  <1>8. CASE HookWrite(h)
    <2> DEFINE target == IF hook[h].dep = 0 THEN depCount + 1 ELSE hook[h].dep
    <2>1. CASE hook[h].ok
      <3>0. hook' = [hook EXCEPT ![h].pc = "project", ![h].dep = target] /\ hook[h].pc = "write"
        BY <1>8, <2>1 DEF HookWrite
      <3> HIDE DEF target
      <3>1. /\ hook'[h].pc = "project" /\ hook'[h].dep = target
            /\ hook'[h].image = hook[h].image /\ hook'[h].ok = hook[h].ok
        BY <1>0, <3>0 DEF HookStates
      <3> USE DEF target
      <3>2. CASE hook[h].dep # 0
        <4>1. target = hook[h].dep
          BY <3>2
        <4>2. /\ hook[h].dep \in Inserted /\ Final(hook[h].dep)
              /\ hook[h].image = dep[hook[h].dep].image
          BY <1>3, <3>0, <3>2
        <4>3. hook[h].ok /\ Built(hook[h].image)
          BY <1>3, <2>1, <3>0
        <4>4. /\ hook'[h].pc = "project" /\ hook'[h].dep = hook[h].dep
              /\ hook'[h].image = hook[h].image /\ hook'[h].ok = hook[h].ok
          BY <3>1, <4>1
        <4> HIDE DEF target
        <4> QED
          BY <1>2, <4>2, <4>3, <4>4
      <3>3. CASE hook[h].dep = 0
        <4>1. /\ target = depCount + 1
              /\ \E status : InsertDep(status, hook[h].image)
          BY <1>8, <3>3 DEF HookWrite
        <4>2. /\ target \in Inserted' /\ target \notin Inserted /\ target \in Deployments
              /\ dep'[target].image = hook[h].image
          <5>1. target \in Inserted' /\ target \notin Inserted /\ target \in Deployments
            BY <1>0, <4>1, InsertFrame, InsertedFacts
          <5> QED
            BY <1>0, <4>1, <5>1, Rows DEF InsertDep
        <4>3. ~CreateDeployment
          BY <3>0, <3>1 DEF CreateDeployment
        <4>4. \A d : d = target => Final(d)'
          BY <4>2, <4>3, NewRow
        <4>5. Built(hook[h].image)
          BY <1>3, <2>1, <3>0
        <4>6. \A image : image = hook[h].image => Built(image)'
          BY <1>0, <4>5, BuiltStays
        <4> QED
          BY <2>1, <3>1, <4>2, <4>4, <4>6 DEF HookTraced
      <3> QED
        BY <3>2, <3>3
    <2>2. CASE ~hook[h].ok
      BY <1>1, <1>5, <1>8, <2>2 DEF HookWrite
    <2> QED
      BY <2>1, <2>2
  <1>9. CASE HookProject(h) \/ HookTag(h) \/ HookCheck(h)
    <2>1. hook[h].pc \in {"project", "tag", "check"} /\ hook[h].ok
      BY <1>3, <1>9 DEF HookProject, HookTag, HookCheck
    <2>2. HookReturns(h) \/ \E pc : HookTo(h, pc)
      BY <1>9 DEF HookProject, HookTag, HookCheck
    <2> QED
      BY <1>1, <1>4, <1>5, <2>1, <2>2
  <1>10. CASE HookStart(h)
    BY <1>1, <1>5, <1>10 DEF HookStart
  <1>11. ASSUME NEW g \in Hooks, HookStep(g), g # h PROVE hook'[h] = hook[h]
    <2>1. CASE HookStart(g)
      BY <1>0, <1>11, <2>1 DEF HookStart, HookReturns
    <2> QED
      BY <1>0, <1>11, <2>1, HookFrame
  <1>12. CASE Crash
    BY <1>1, <1>12 DEF Crash, IdleHook
  <1>13. ASSUME NEW g \in Hooks, NEW r \in Runs, Deliver(g, r) PROVE HookTraced(h)'
    <2>1. CASE g # h
      BY <1>0, <1>6, <1>13, <2>1 DEF Deliver
    <2>2. CASE g = h
      <3>1. hook'[h] = [pc |-> "match", image |-> run[r].image, ok |-> run[r].state = "success",
                        dep |-> 0]
        BY <1>0, <1>13, <2>2 DEF Deliver
      <3>2. run[r].state = "success" => Built(run[r].image)
        BY DEF Built
      <3>3. hook'[h].pc = "match" /\ hook'[h].image = run[r].image /\ hook'[h].dep = 0
        BY <3>1
      <3>4. hook'[h].ok => Built(run[r].image)
        <4> DEFINE ok == run[r].state = "success"
        <4>1. hook'[h] = [pc |-> "match", image |-> run[r].image, ok |-> ok, dep |-> 0]
          BY <3>1
        <4>2. ok => Built(run[r].image)
          BY <3>2
        <4> HIDE DEF ok
        <4> QED
          BY <4>1, <4>2
      <3> QED
        BY <1>2, <3>3, <3>4
    <2> QED
      BY <2>1, <2>2
  <1> QED
    BY <1>6, <1>7, <1>8, <1>9, <1>10, <1>11, <1>12, <1>13, HookWriters DEF HookStep

LEMMA DeployedTracedStep ==
  ASSUME RecordInv, Traced, GitHubSource, Next
  PROVE  DeployedTraced'
  <1>0. TypeOK /\ CountInv
    BY Parts
  <1> SUFFICES ASSUME NEW image, image \in {gitImage', clusterImage'}, image # 0
               PROVE  Built(image)
    BY <1>0, BuiltStays DEF DeployedTraced
  <1>1. image \in {gitImage, clusterImage} => Built(image)
    BY DEF Traced, DeployedTraced
  <1>2. CASE ArgoSync
    BY <1>1, <1>2 DEF ArgoSync
  <1>3. ASSUME NEW p \in Processes, ArgoCommit(p) \/ Rollout(p) PROVE Built(image)
    <2>1. Built(worker[p].image)
      BY <1>3, MarkingWorker
    <2>2. image \in {gitImage, clusterImage, worker[p].image}
      BY <1>3 DEF ArgoCommit, Rollout, imageVars
    <2> QED
      BY <1>1, <2>1, <2>2
  <1>4. ASSUME NEW a \in Actors, ReconTag(a) PROVE Built(image)
    BY <1>1, <1>4 DEF ReconTag, Traced, ReconTraced
  <1>5. ASSUME NEW h \in Hooks, HookTag(h) PROVE Built(image)
    BY <1>1, <1>5 DEF HookTag, Traced, HookTraced
  <1> QED
    BY <1>1, <1>2, <1>3, <1>4, <1>5, ImageWriters

-----------------------------------------------------------------------------
(* The theorem.                                                            *)

LEMMA TracedInit ==
  ASSUME Init
  PROVE  TracedInv
  <1>1. /\ \A p \in Processes : proc[p].status = "absent" /\ worker[p].run = 0
        /\ \A a \in Actors : recon[a].pc = "idle"
        /\ \A h \in Hooks : hook[h].pc = "idle"
    BY DEF Init, NoProc, NoWorker, IdleRec, IdleHook, Actors
  <1>2. Inserted = {}
    BY DEF Init, Inserted
  <1>3. GitHubSource => gitImage = 0 /\ clusterImage = 0
    BY DEF Init
  <1> QED
    BY <1>1, <1>2, <1>3 DEF TracedInv, Traced, OneBuilder, Builds, DeployedTraced, FoundRun,
       RollsOut, ReconTraced, HookTraced

\* A run that was once taken for another one's stays on record.
LEMMA HistoryKept ==
  ASSUME TypeOK, Next, misattributed
  PROVE  misattributed'
  BY ZenonT(60) DEF Next, CreateDeployment, CreateProcess, Rollback, StartDispatch, StartRecord, RunStarts,
     RunLost, Push, RunConcludes, WorkerStep, Boot, Validate, NetworkOrWorkflow, Dispatch,
     WaitForRun, PollRun, ArgoNothing, ArgoProject, ArgoCommit, ArgoMark, Rollout, RolloutMark,
     FinishRollout, CloseJob, Connectivity,
     FailProcess, SucceedProcess, EndProcess, Ticker, TickerScan, TickerNext, ReconStep,
     ReconLoad, ReconWait, ReconPoll, ReconTag, ReconMark, ReconFail, HookStep, HookMatch,
     HookWrite, HookProject, HookTag, HookCheck, HookStart, Deliver, ArgoNotifies, ArgoSync,
     Tick, Crash, TakenFor, envVars, workerRest, reconRest, hookRest, Actors

LEMMA TracedStep ==
  ASSUME RecordInv, TracedInv, Next
  PROVE  TracedInv'
  <1> SUFFICES ASSUME GitHubSource, ~misattributed' PROVE Traced'
    BY DEF TracedInv
  <1>1. Traced
    BY Parts, HistoryKept DEF TracedInv
  <1>2. OneBuilder' /\ DeployedTraced'
    BY <1>1, OneBuilderStep, DeployedTracedStep
  <1>3. \A d \in Inserted' : DepTraced(d)'
    BY <1>1, DepTracedStep
  <1>4. \A p \in Processes : FoundRun(p)' /\ RollsOut(p)'
    BY <1>1, FoundRunStep, RollsOutStep
  <1>5. \A a \in Actors : ReconTraced(a)'
    BY <1>1, ReconTracedStep
  <1>6. \A h \in Hooks : HookTraced(h)'
    BY <1>1, HookTracedStep
  <1> QED
    BY <1>2, <1>3, <1>4, <1>5, <1>6 DEF Traced

LEMMA TracedStutter ==
  ASSUME TracedInv, UNCHANGED vars
  PROVE  TracedInv'
  BY DEF TracedInv, Traced, OneBuilder, Builds, DeployedTraced, DepTraced, FoundRun, RollsOut,
     ReconTraced, HookTraced, Final, Started, Built, Inserted, vars, clockVars, envVars, depVars,
     procVars, imageVars, githubVars

\* The cluster and the GitOps repository get only images that a workflow run built
\* to the end, for any number of workers, reconciliations, callbacks and restarts,
\* until a run or its callback is taken for that of another dispatch.
THEOREM DeployedWasBuilt == Spec => []DeployedImageWasBuilt
  <1>1. Init => TracedInv
    BY TracedInit
  <1>2. RecordInv /\ TracedInv /\ [Next]_vars => TracedInv'
    BY TracedStep, TracedStutter
  <1>3. TracedInv => DeployedImageWasBuilt
    BY DEF TracedInv, Traced, DeployedTraced, DeployedImageWasBuilt
  <1> QED
    BY <1>1, <1>2, <1>3, RecordInvariant, PTL DEF Spec
=============================================================================
