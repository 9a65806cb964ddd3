--------------------------- MODULE ProcessRecords ---------------------------
(***************************************************************************)
(* What the processes and process_jobs tables promise to a reader of       *)
(* GET /processes, whoever writes them: a process is handed in as a whole  *)
(* with its jobs, its jobs run one at a time in the planned order, no job  *)
(* begins after a failure or a verdict, the verdict is final and is        *)
(* "succeeded" just when all the jobs are.  A process may also be          *)
(* abandoned at any point, or fail before a job of it begins.              *)
(***************************************************************************)
EXTENDS Naturals, Sequences

CONSTANTS
  Processes,  \* identifiers of processes
  JobNames,   \* names of jobs
  Plans       \* orders in which a process may run its jobs

VARIABLES
  status,  \* status of a process, "absent" before it is created
  plan,    \* the jobs it is to run, in order
  jobs     \* status of its jobs, "absent" for a job without a row

vars == <<status, plan, jobs>>

Init ==
  /\ status = [p \in Processes |-> "absent"]
  /\ plan = [p \in Processes |-> <<>>]
  /\ jobs = [p \in Processes |-> [n \in JobNames |-> "absent"]]

\* Jobs that are not planned may have a row too; it stays "queued".
Submit(p) ==
  /\ status[p] = "absent"
  /\ status' = [status EXCEPT ![p] = "queued"]
  /\ \E order \in Plans, rows \in SUBSET JobNames :
       /\ \A j \in DOMAIN order : order[j] \in rows
       /\ plan' = [plan EXCEPT ![p] = order]
       /\ jobs' = [jobs EXCEPT ![p] =
                     [n \in JobNames |-> IF n \in rows THEN "queued" ELSE "absent"]]

\* A job that cannot be started here never begins.
Begin(p) ==
  /\ status[p] = "queued"
  /\ status' = [status EXCEPT ![p] = "running"]
  /\ UNCHANGED jobs \/ jobs' = [jobs EXCEPT ![p][plan[p][1]] = "running"]
  /\ UNCHANGED plan

\* Job j ends well and the next one begins, unless it cannot be started.
Advance(p, j) == \E next \in {"running", "queued"} :
  /\ status[p] = "running" /\ jobs[p][plan[p][j]] = "running"
  /\ jobs' = [jobs EXCEPT ![p] = [n \in JobNames |->
       CASE n = plan[p][j]                         -> "succeeded"
         [] j < Len(plan[p]) /\ n = plan[p][j + 1] -> next
         [] OTHER                                  -> jobs[p][n]]]
  /\ UNCHANGED <<status, plan>>

\* A job that runs may be closed after the process has failed.
JobFailure(p, j) ==
  /\ status[p] \in {"running", "failed"} /\ jobs[p][plan[p][j]] = "running"
  /\ jobs' = [jobs EXCEPT ![p][plan[p][j]] = "failed"]
  /\ UNCHANGED <<status, plan>>

Verdict(p) ==
  /\ status[p] = "running"
  /\ status' = [status EXCEPT ![p] =
       IF \A j \in DOMAIN plan[p] : jobs[p][plan[p][j]] = "succeeded"
       THEN "succeeded" ELSE "failed"]
  /\ UNCHANGED <<plan, jobs>>

Next == \E p \in Processes :
  \/ Submit(p) \/ Begin(p) \/ Verdict(p)
  \/ \E j \in DOMAIN plan[p] : Advance(p, j) \/ JobFailure(p, j)

Spec == Init /\ [][Next]_vars
=============================================================================
