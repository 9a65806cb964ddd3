----------------------- MODULE DependencyCredentials -----------------------
(***************************************************************************)
(* Credentials of a MySQL database that a dependency stands for, in the    *)
(* cluster or an external one that is controlled.  One credential may be   *)
(* stored together with the dependency, others are created by requests of  *)
(* their own.  To set the password on the server a request starts a job in *)
(* the cluster, and waits for it for a while; some credentials are stored  *)
(* without one.  What the chart of a database sets when it is deployed is  *)
(* left out, and dependencies for which nothing is done on a server.       *)
(***************************************************************************)
EXTENDS Integers, FiniteSets

CONSTANTS
  CredRequests,   \* requests that create a credential, each with its password
  DbUsers,        \* names of users on the server
  MaxAttempts,    \* pods that one job starts, backoffLimit + 1
  MaxLost         \* bound on writes that fail and restarts

Nobody == "none"

ASSUME DependencyAssumption ==
  MaxAttempts \in Nat \ {0} /\ MaxLost \in Nat /\ Nobody \notin CredRequests

VARIABLES
  dbExternal, \* whether the database is an external one, or in the cluster
  client,     \* whether the controller has a client of the cluster
  record,     \* record[c]: the status and the user of the row
  server,     \* server[u]: the request whose password the user has, or Nobody
  job,        \* job[c]: how the job stands, and the pods that have failed
  caller,     \* caller[c]: where the request is
  unmarked,   \* credentials whose failure was not recorded
  withDependency,  \* credentials that were stored together with the dependency
  passedOver  \* history: credentials for which the server was not asked

dependencyVars == <<dbExternal, client, record, server, job, caller, unmarked, withDependency,
                    passedOver>>

DependencyInit ==
  /\ dbExternal \in BOOLEAN /\ client \in BOOLEAN
  /\ record = [c \in CredRequests |-> [status |-> "absent", user |-> Nobody]]
  /\ server = [u \in DbUsers |-> Nobody]
  /\ job = [c \in CredRequests |-> [status |-> "none", failures |-> 0]]
  /\ caller = [c \in CredRequests |-> "none"]
  /\ unmarked = {} /\ withDependency = {} /\ passedOver = {}

CallerTo(c, pc) == caller' = [caller EXCEPT ![c] = pc]

\* The row is ready from the start.  The user may be the one of another credential.
Insert(c, u) ==
  /\ record[c].status = "absent"
  /\ record' = [record EXCEPT ![c] = [status |-> "ready", user |-> u]]

\* CreateCredential, buildDependencyCredential.
InsertCredential(c, u) ==
  /\ Insert(c, u) /\ CallerTo(c, "reconcile")
  /\ UNCHANGED <<dbExternal, client, server, job, unmarked, withDependency, passedOver>>

\* DependencyService.Create stores the first credential with the dependency: the
\* one of the request, or in the cluster a default one.  Only that of an external
\* database is brought to the server.
StoreCredential(c, u) ==
  /\ Insert(c, u) /\ \A d \in CredRequests : record[d].status = "absent"
  /\ withDependency' = {c}
  /\ IF dbExternal THEN CallerTo(c, "look") /\ UNCHANGED passedOver
     ELSE CallerTo(c, "done") /\ passedOver' = passedOver \cup {c}
  /\ UNCHANGED <<dbExternal, client, server, job, unmarked>>

\* The credential is read again before; an error of that is passed over.
FindCredential(c) ==
  /\ caller[c] = "look"
  /\ \/ CallerTo(c, "reconcile") /\ UNCHANGED passedOver
     \/ CallerTo(c, "done") /\ passedOver' = passedOver \cup {c}
  /\ UNCHANGED <<dbExternal, client, record, server, job, unmarked, withDependency>>

\* reconcileRuntimeCredential: nothing is done without a client of the cluster; ...
SkipServer(c) ==
  /\ caller[c] = "reconcile" /\ ~client
  /\ CallerTo(c, "done") /\ passedOver' = passedOver \cup {c}
  /\ UNCHANGED <<dbExternal, client, record, server, job, unmarked, withDependency>>

\* ... the job is created ...
CreateJob(c) ==
  /\ caller[c] = "reconcile" /\ client /\ job' = [job EXCEPT ![c].status = "runs"]
  /\ CallerTo(c, "wait")
  /\ UNCHANGED <<dbExternal, client, record, server, unmarked, withDependency, passedOver>>

\* ... or it is not, because a name is not safe or the cluster refuses.
ReconcileFails(c) ==
  /\ caller[c] = "reconcile" /\ client /\ CallerTo(c, "mark")
  /\ UNCHANGED <<dbExternal, client, record, server, job, unmarked, withDependency, passedOver>>

PodFailed(c) ==
  job' = [job EXCEPT ![c] = [failures |-> @.failures + 1,
                             status |-> IF @.failures + 1 = MaxAttempts THEN "failed" ELSE "runs"]]

\* A pod of the job waits for the server and sets the password; the grants that
\* follow may fail.
PodSetsPassword(c) ==
  /\ job[c].status = "runs"
  /\ server' = [server EXCEPT ![record[c].user] = c]
  /\ job' = [job EXCEPT ![c].status = "succeeded"] \/ PodFailed(c)
  /\ UNCHANGED <<dbExternal, client, record, caller, unmarked, withDependency, passedOver>>

PodFails(c) ==
  /\ job[c].status = "runs" /\ PodFailed(c)
  /\ UNCHANGED <<dbExternal, client, record, server, caller, unmarked, withDependency, passedOver>>

JobSucceeds(c) ==
  /\ caller[c] = "wait" /\ job[c].status = "succeeded" /\ CallerTo(c, "done")
  /\ UNCHANGED <<dbExternal, client, record, server, job, unmarked, withDependency, passedOver>>

\* Variant: a job that takes too long counts as done.
WaitEndsQuietly(c) ==
  /\ caller[c] = "wait" /\ CallerTo(c, IF job[c].status = "runs" THEN "done" ELSE "mark")
  /\ UNCHANGED <<dbExternal, client, record, server, job, unmarked, withDependency, passedOver>>

\* The job has failed, cannot be read, or is not ready in time: it may go on.
WaitEnds(c) ==
  /\ caller[c] = "wait" /\ CallerTo(c, "mark")
  /\ UNCHANGED <<dbExternal, client, record, server, job, unmarked, withDependency, passedOver>>

\* The credential is marked as failed; an error of that is ignored.
MarkFailed(c) ==
  /\ caller[c] = "mark" /\ CallerTo(c, "done")
  /\ \/ record' = [record EXCEPT ![c].status = "failed"] /\ UNCHANGED unmarked
     \/ /\ Cardinality(unmarked) < MaxLost
        /\ unmarked' = unmarked \cup {c} /\ UNCHANGED record
  /\ UNCHANGED <<dbExternal, client, server, job, withDependency, passedOver>>

\* The controller is restarted while the request is under way.
LoseRequest(c) ==
  /\ caller[c] \notin {"none", "done"} /\ Cardinality(unmarked) < MaxLost
  /\ unmarked' = unmarked \cup {c} /\ CallerTo(c, "done")
  /\ UNCHANGED <<dbExternal, client, record, server, job, withDependency, passedOver>>

DependencyNext ==
  \E c \in CredRequests :
    \/ \E u \in DbUsers : InsertCredential(c, u) \/ StoreCredential(c, u)
    \/ FindCredential(c) \/ SkipServer(c)
    \/ CreateJob(c) \/ ReconcileFails(c) \/ PodSetsPassword(c) \/ PodFails(c)
    \/ JobSucceeds(c) \/ WaitEnds(c) \/ MarkFailed(c) \/ LoseRequest(c)

DependencySpec == DependencyInit /\ [][DependencyNext]_dependencyVars
-----------------------------------------------------------------------------
DependencyTypeOK ==
  /\ dbExternal \in BOOLEAN /\ client \in BOOLEAN
  /\ record \in [CredRequests -> [status : {"absent", "ready", "failed"},
                                  user : DbUsers \cup {Nobody}]]
  /\ server \in [DbUsers -> CredRequests \cup {Nobody}]
  /\ job \in [CredRequests -> [status : {"none", "runs", "succeeded", "failed"},
                               failures : 0..MaxAttempts]]
  /\ caller \in [CredRequests -> {"none", "look", "reconcile", "wait", "mark", "done"}]
  /\ unmarked \subseteq CredRequests /\ withDependency \subseteq CredRequests
  /\ passedOver \subseteq CredRequests

\* A credential that is ready once its request has ended can be used: its user
\* has its password, or that of another credential of the same user, whose job
\* has run; unless its failure could not be recorded, or the server was not asked.
\* It is always asked, by a controller that has a client of the cluster, for a
\* credential that was created by a request of its own.
PasswordWorks ==
  \A c \in CredRequests \ unmarked :
    record[c].status = "ready" /\ caller[c] = "done" =>
      \/ c \in passedOver /\ (client => c \in withDependency)
      \/ LET holder == server[record[c].user] IN
         /\ holder # Nobody
         /\ holder # c => record[holder].user = record[c].user /\ job[holder].status # "none"
=============================================================================
