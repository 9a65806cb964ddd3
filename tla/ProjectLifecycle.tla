-------------------------- MODULE ProjectLifecycle --------------------------
(***************************************************************************)
(* CreateProject, UpdateProject and DeleteProject of ProjectService with   *)
(* the quota of one team.  A creation is a saga: it reserves quota, makes  *)
(* one thing after the other in BasaltPass, the cluster, Cloudflare, the   *)
(* database and the GitOps repository, and on an error undoes, newest      *)
(* first, those it has registered an undo for.  Any number of calls run at *)
(* the same time, and the controller may be restarted at any moment.       *)
(*                                                                         *)
(* Every project uses BasaltPass and one public port; a preset, a name, a  *)
(* namespace are members of small sets.  A project is identified by the    *)
(* call that creates it.                                                   *)
(***************************************************************************)
EXTENDS Integers, Sequences, FiniteSets

CONSTANTS
  Creates,       \* calls of CreateProject
  Deletes,       \* calls of DeleteProject
  Names,         \* names of projects
  Namespaces,    \* namespaces a request may ask for
  Counters,      \* projects, CPU, memory
  Presets,       \* resource presets
  Cost,          \* Cost[preset][counter]
  DefaultLimit,  \* limits of a team that nobody changed
  OtherLimits,   \* limits an administrator may set
  GitHubSource,  \* projects are built from GitHub
  AutoDeploy,    \* projects deploy automatically
  MaxUpdates,    \* bound on calls of UpdateProject and updateQuota
  MaxCrashes     \* bound on restarts

ASSUME QuotaAssumption ==
  /\ Cost \in [Presets -> [Counters -> Nat]]
  /\ DefaultLimit \in [Counters -> Int] /\ OtherLimits \subseteq [Counters -> Int]

ASSUME LifecycleAssumption ==
  /\ GitHubSource \in BOOLEAN /\ AutoDeploy \in BOOLEAN
  /\ MaxUpdates \in Nat /\ MaxCrashes \in Nat

Nobody == "nobody"
ASSUME NobodyAssumption == Nobody \notin Creates
ASSUME FiniteAssumption == IsFiniteSet(Creates)

VARIABLES
  limit, used,  \* the row of resource_quotas
  lock,         \* the creation whose transaction has locked that row
  project,      \* projects table, with the deployment and DNS rows of a project
  ext,          \* what exists outside of the database
  create,       \* calls of CreateProject
  delete,       \* calls of DeleteProject
  toggle,       \* the project whose workflow UpdateProject is about to write
  updates, crashes,
  mishaps       \* history: the kinds of accident that have happened

quotaVars == <<limit, used, lock>>
vars == <<quotaVars, project, ext, create, delete, toggle, updates, crashes, mishaps>>

\* lost: a call failed that had been carried out.  undo: an undo failed.
\* orphan: the row was inserted and no undo registered for it.
\* shared: a namespace was taken that another project uses.  rival: a project
\* was asked for while another call was busy with its name.  skipped, early,
\* twice: DeleteProject gave something up without an error, deleted a project
\* that was still being created, or one that was gone.  preset: UpdateProject
\* changed a preset.  late: it wrote the workflow of a project that was gone or
\* being deleted.
Mishaps == {"lost", "undo", "orphan", "shared", "rival", "skipped", "early", "twice",
            "preset", "late"}

None(kinds) == mishaps \cap kinds = {}

-----------------------------------------------------------------------------
(* Data.                                                                   *)

\* Things outside of the database: an application of BasaltPass and the DNS
\* records are known by their own identifiers, the others by names.
Kinds == {"app", "dns", "namespace", "cluster", "manifests", "workflow", "argo"}

Key(kind, id, row) ==
  CASE kind \in {"app", "dns"} -> id
    [] kind = "namespace"      -> row.ns
    [] kind = "cluster"        -> <<row.name, row.ns>>
    [] OTHER                   -> row.name

With(kind, id, row)    == [ext EXCEPT ![kind] = @ \cup {Key(kind, id, row)}]
Without(kind, id, row) == [ext EXCEPT ![kind] = @ \ {Key(kind, id, row)}]

\* A namespace goes with everything in it.
WithoutNamespace(ns) ==
  [ext EXCEPT !["namespace"] = @ \ {ns}, !["cluster"] = {x \in @ : x[2] # ns}]

\* What a creation makes after the reservation, in order.
Steps ==
  <<"app", "namespace", "cluster", "dns", "ingress", "project", "deployment">>
    \o (IF GitHubSource
        THEN IF AutoDeploy THEN <<"workflow">> ELSE <<>>
        ELSE IF AutoDeploy THEN <<"manifests", "argo">> ELSE <<"manifests">>)

\* Variant: no undo is registered for the DNS records.
UndoableForgets == {"app", "namespace"}

\* What a creation registers an undo for.
Undoable == {"app", "namespace", "dns"}
KindOf(step) == IF step = "ingress" THEN "cluster" ELSE step

NoProject == [there |-> FALSE]
Row(name, ns, preset) == [there |-> TRUE, name |-> name, ns |-> ns, preset |-> preset]
Rows == [there : {TRUE}, name : Names, ns : Namespaces, preset : Presets]

\* The row a request asks for.
Asked(c) == create[c].row

Cleanup == <<"dns", "cluster", "app", "manifests", "workflow", "argo">>
CleanupKinds == Kinds \ {"namespace"}

Zero == [k \in Counters |-> 0]
IdleCreate == [pc |-> "idle", row |-> NoProject, step |-> 1, undo |-> <<>>, seen |-> Zero]
IdleDelete == [pc |-> "idle", id |-> Nobody, row |-> NoProject, errors |-> FALSE]

Init ==
  /\ limit = DefaultLimit /\ used = Zero /\ lock = Nobody
  /\ project = [c \in Creates |-> NoProject]
  /\ ext = [kind \in Kinds |-> {}]
  /\ create = [c \in Creates |-> IdleCreate]
  /\ delete = [d \in Deletes |-> IdleDelete]
  /\ toggle = NoProject /\ updates = 0 /\ crashes = 0 /\ mishaps = {}

-----------------------------------------------------------------------------
(* The quota.                                                              *)

Fits(amount, preset) == \A k \in Counters : amount[k] + Cost[preset][k] <= limit[k]
Plus(amount, preset) == [k \in Counters |-> amount[k] + Cost[preset][k]]

\* Variant: the use may go below zero.
MinusAny(amount, preset) == [k \in Counters |-> amount[k] - Cost[preset][k]]

\* GREATEST(used - cost, 0)
Minus(amount, preset) ==
  [k \in Counters |->
     IF amount[k] >= Cost[preset][k] THEN amount[k] - Cost[preset][k] ELSE 0]

\* Variant: an UPDATE that does not wait.
ReleaseUnlocked(preset) ==
  /\ used' = Minus(used, preset)
  /\ UNCHANGED <<limit, lock>>

\* An UPDATE of the row waits for the transaction that has locked it.
Release(preset) ==
  /\ lock = Nobody
  /\ used' = Minus(used, preset)
  /\ UNCHANGED <<limit, lock>>

-----------------------------------------------------------------------------
(* CreateProject.                                                          *)

CreateTo(c, pc) == create' = [create EXCEPT ![c].pc = pc]

createRest == <<delete, toggle, updates, crashes>>

\* A call that is busy with a project of this name.
Busy(name) ==
  \/ \E i \in Creates : create[i].pc \in {"reserve", "write", "make", "undo"} /\ Asked(i).name = name
  \/ \E d \in Deletes : delete[d].pc \in CleanupKinds \cup {"commit"} /\ delete[d].row.name = name
  \/ toggle.there /\ toggle.name = name

\* ensureProjectNameAvailable: a read, nothing is held.
Begin(c) ==
  /\ create[c].pc = "idle"
  /\ \E name \in Names, ns \in Namespaces, preset \in Presets :
       /\ \A i \in Creates : project[i].there => project[i].name # name
       /\ create' = [create EXCEPT ![c].pc = "reserve", ![c].row = Row(name, ns, preset)]
       /\ mishaps' = IF Busy(name) THEN mishaps \cup {"rival"} ELSE mishaps
  /\ UNCHANGED <<quotaVars, project, ext, createRest>>

\* Variant: the row is read without a lock.
ReserveLockNothing(c) ==
  /\ create[c].pc = "reserve"
  /\ create' = [create EXCEPT ![c].pc = "write", ![c].seen = used]
  /\ UNCHANGED <<quotaVars, project, ext, createRest, mishaps>>

\* Reserve: SELECT ... FOR UPDATE ...
ReserveLock(c) ==
  /\ create[c].pc = "reserve" /\ lock = Nobody
  /\ lock' = c
  /\ create' = [create EXCEPT ![c].pc = "write", ![c].seen = used]
  /\ UNCHANGED <<limit, used, project, ext, createRest, mishaps>>

\* ... the check of what was read, the write and the commit; or the quota is
\* exceeded, or the transaction fails.
ReserveCommit(c) ==
  /\ create[c].pc = "write"
  /\ lock' = Nobody
  /\ \/ /\ Fits(create[c].seen, Asked(c).preset)
        /\ used' = Plus(create[c].seen, Asked(c).preset)
        /\ create' = [create EXCEPT ![c].pc = "make", ![c].undo = <<"quota">>, ![c].seen = Zero]
     \/ /\ create' = [create EXCEPT ![c].pc = "refused", ![c].seen = Zero]
        /\ UNCHANGED used
  /\ UNCHANGED <<limit, project, ext, createRest, mishaps>>

Current(c) == Steps[create[c].step]
AtStep(c) == create[c].pc = "make" /\ create[c].step <= Len(Steps)

\* The step is done; register is the undo it adds, <<>> for none.
Made(c, register) ==
  create' = [create EXCEPT ![c].step = create[c].step + 1,
                           ![c].undo = create[c].undo \o register]

\* Variant: the undo of the namespace is registered before it is made.
MakeFailsUndoFirst(c) ==
  create' = [create EXCEPT ![c].pc = "undo",
    ![c].undo = IF Current(c) = "namespace" THEN Append(@, "namespace") ELSE @]

\* An error: rollback() is called and the error returned.
MakeFails(c) == CreateTo(c, "undo")

\* Another project that uses this namespace.
Shares(c) == \E i \in Creates \ {c} :
  /\ Asked(i).there /\ Asked(i).ns = Asked(c).ns
  /\ project[i].there \/ create[i].pc \in {"make", "undo"}

\* A call to the outside.  A namespace that exists already is as good as a new
\* one; nothing can be put into one that does not exist.  A call that fails may
\* have been carried out nevertheless, and has no undo then.
Make(c) ==
  LET kind == KindOf(Current(c))
      made == With(kind, c, Asked(c))
  IN
  /\ AtStep(c) /\ Current(c) \notin {"project", "deployment"}
  /\ \/ /\ kind = "cluster" => Asked(c).ns \in ext["namespace"]
        /\ ext' = made
        /\ Made(c, IF kind \in Undoable THEN <<kind>> ELSE <<>>)
        /\ mishaps' = IF kind = "namespace" /\ Shares(c)
                      THEN mishaps \cup {"shared"} ELSE mishaps
     \/ /\ MakeFails(c)
        /\ UNCHANGED <<ext, mishaps>>
     \/ /\ kind = "cluster" => Asked(c).ns \in ext["namespace"]
        /\ MakeFails(c)
        /\ ext' = made /\ made # ext
        /\ mishaps' = mishaps \cup {"lost"}
  /\ UNCHANGED <<quotaVars, project, createRest>>

\* The transaction with the row and its DNS rows; names are unique.
InsertProject(c) ==
  /\ AtStep(c) /\ Current(c) = "project"
  /\ \/ /\ \A i \in Creates : project[i].there => project[i].name # Asked(c).name
        /\ project' = [project EXCEPT ![c] = Asked(c)]
        /\ Made(c, <<>>)
     \/ /\ CreateTo(c, "undo")
        /\ UNCHANGED project
  /\ UNCHANGED <<quotaVars, ext, createRest, mishaps>>

\* The "initial" deployment.  Only after it the undo of the row is registered.
InsertDeployment(c) ==
  /\ AtStep(c) /\ Current(c) = "deployment"
  /\ \/ Made(c, <<"project">>) /\ UNCHANGED mishaps
     \/ /\ CreateTo(c, "undo")
        /\ mishaps' = mishaps \cup {"orphan"}
  /\ UNCHANGED <<quotaVars, project, ext, createRest>>

Finish(c) ==
  /\ create[c].pc = "make" /\ create[c].step > Len(Steps)
  /\ create' = [create EXCEPT ![c].pc = "done", ![c].step = 1, ![c].undo = <<>>]
  /\ UNCHANGED <<quotaVars, project, ext, createRest, mishaps>>

\* rollback(): the newest undo; its error is not looked at.
Undo(c) ==
  LET undo == create[c].undo
      last == undo[Len(undo)]
  IN
  /\ create[c].pc = "undo" /\ undo # <<>>
  /\ create' = [create EXCEPT ![c].undo = SubSeq(undo, 1, Len(undo) - 1)]
  /\ \/ /\ mishaps' = mishaps \cup {"undo"}
        /\ UNCHANGED <<quotaVars, project, ext>>
     \/ /\ last = "quota" /\ Release(Asked(c).preset)
        /\ UNCHANGED <<project, ext, mishaps>>
     \/ /\ last = "project"
        /\ project' = [project EXCEPT ![c] = NoProject]
        /\ UNCHANGED <<quotaVars, ext, mishaps>>
     \/ /\ last = "namespace"
        /\ ext' = WithoutNamespace(Asked(c).ns)
        /\ UNCHANGED <<quotaVars, project, mishaps>>
     \/ /\ last \in {"app", "dns"}
        /\ ext' = Without(last, c, Asked(c))
        /\ UNCHANGED <<quotaVars, project, mishaps>>
  /\ UNCHANGED createRest

Undone(c) ==
  /\ create[c].pc = "undo" /\ create[c].undo = <<>>
  /\ create' = [create EXCEPT ![c].pc = "failed", ![c].step = 1]
  /\ UNCHANGED <<quotaVars, project, ext, createRest, mishaps>>

CreateStep(c) ==
  \/ Begin(c) \/ ReserveLock(c) \/ ReserveCommit(c) \/ Make(c) \/ InsertProject(c)
  \/ InsertDeployment(c) \/ Finish(c) \/ Undo(c) \/ Undone(c)

-----------------------------------------------------------------------------
(* DeleteProject.                                                          *)

\* What DeleteProject gives up without an error: the DNS records when it has no
\* token, the manifests when the directory cannot be listed.
Skippable == {"dns", "manifests"}

deleteRest == <<create, toggle, updates, crashes>>

\* The guard of the route loads the row.
DeleteLoad(d) ==
  /\ delete[d].pc = "idle"
  /\ \E c \in Creates :
       /\ project[c].there
       /\ delete' = [delete EXCEPT ![d] = [pc |-> Cleanup[1], id |-> c, row |-> project[c],
                                           errors |-> FALSE]]
       /\ mishaps' = IF create[c].pc \in {"make", "undo"} THEN mishaps \cup {"early"} ELSE mishaps
  /\ UNCHANGED <<quotaVars, project, ext, deleteRest>>

\* Errors are collected and do not stop the others; a call that fails may have
\* been carried out.  The DNS records are read from the database: of a project
\* that is gone there are none.
DeleteCleanup(d) == \E j \in DOMAIN Cleanup :
  LET kind == Cleanup[j]
      next == IF j < Len(Cleanup) THEN Cleanup[j + 1] ELSE "commit"
      id   == delete[d].id
      less == IF kind = "dns" /\ ~project[id].there THEN ext
              ELSE Without(kind, id, delete[d].row)
  IN
  /\ delete[d].pc = kind
  /\ \/ /\ ext' = less
        /\ delete' = [delete EXCEPT ![d].pc = next]
        /\ UNCHANGED mishaps
     \/ /\ ext' \in {ext, less}
        /\ delete' = [delete EXCEPT ![d].pc = next, ![d].errors = TRUE]
        /\ UNCHANGED mishaps
     \/ /\ kind \in Skippable
        /\ delete' = [delete EXCEPT ![d].pc = next]
        /\ mishaps' = mishaps \cup {"skipped"}
        /\ UNCHANGED ext
  /\ UNCHANGED <<quotaVars, project, deleteRest>>

\* Variant: what went wrong is not looked at.
DeleteCommitAnyway(d) ==
  LET c == delete[d].id IN
  /\ delete[d].pc = "commit"
  /\ project' = [project EXCEPT ![c] = NoProject]
  /\ Release(delete[d].row.preset)
  /\ delete' = [delete EXCEPT ![d].pc = "done"]
  /\ UNCHANGED <<ext, deleteRest, mishaps>>

\* Variant: the quota is given back although the row is retained.
DeleteReleasesFirst(d) ==
  LET c == delete[d].id IN
  /\ delete[d].pc = "commit"
  /\ Release(delete[d].row.preset)
  /\ project' = IF delete[d].errors THEN project ELSE [project EXCEPT ![c] = NoProject]
  /\ delete' = [delete EXCEPT ![d].pc = IF delete[d].errors THEN "refused" ELSE "done"]
  /\ UNCHANGED <<ext, deleteRest, mishaps>>

\* With an error the row is retained; else one transaction deletes the rows of
\* the project, whether they are still there or not, and gives the quota back.
DeleteCommit(d) ==
  LET c == delete[d].id IN
  /\ delete[d].pc = "commit"
  /\ \/ /\ delete[d].errors
        /\ delete' = [delete EXCEPT ![d].pc = "refused"]
        /\ UNCHANGED <<quotaVars, project, mishaps>>
     \/ /\ ~delete[d].errors
        /\ project' = [project EXCEPT ![c] = NoProject]
        /\ Release(delete[d].row.preset)
        /\ delete' = [delete EXCEPT ![d].pc = "done"]
        /\ mishaps' = IF project[c].there THEN mishaps ELSE mishaps \cup {"twice"}
     \/ /\ ~delete[d].errors
        /\ delete' = [delete EXCEPT ![d].pc = "refused"]
        /\ UNCHANGED <<quotaVars, project, mishaps>>
  /\ UNCHANGED <<ext, deleteRest>>

DeleteStep(d) == DeleteLoad(d) \/ DeleteCleanup(d) \/ DeleteCommit(d)

-----------------------------------------------------------------------------
(* UpdateProject, updateQuota, restarts.                                   *)

\* The preset changes and the quota does not; or the automatic deployment of a
\* GitHub project is switched, which also writes its workflow, a moment later.
UpdateProject == \E c \in Creates :
  /\ updates < MaxUpdates /\ project[c].there
  /\ updates' = updates + 1
  /\ \/ /\ \E preset \in Presets \ {project[c].preset} :
             project' = [project EXCEPT ![c].preset = preset]
        /\ mishaps' = mishaps \cup {"preset"}
        /\ UNCHANGED toggle
     \/ /\ GitHubSource /\ ~toggle.there
        /\ toggle' = project[c]
        /\ UNCHANGED <<project, mishaps>>
  /\ UNCHANGED <<quotaVars, ext, create, delete, crashes>>

UpdateWorkflow ==
  /\ toggle.there
  /\ toggle' = NoProject
  /\ \/ /\ ext' = With("workflow", Nobody, toggle)
        /\ mishaps' = IF \E d \in Deletes : /\ delete[d].pc \notin {"idle", "refused"}
                                            /\ delete[d].row.name = toggle.name
                      THEN mishaps \cup {"late"} ELSE mishaps
     \/ UNCHANGED <<ext, mishaps>>
  /\ UNCHANGED <<quotaVars, project, create, delete, updates, crashes>>

UpdateQuota ==
  /\ updates < MaxUpdates /\ lock = Nobody
  /\ updates' = updates + 1
  /\ limit' \in OtherLimits
  /\ UNCHANGED <<used, lock, project, ext, create, delete, toggle, crashes, mishaps>>

\* The database ends the transactions of a controller that is gone.
Crash ==
  /\ crashes < MaxCrashes
  /\ crashes' = crashes + 1
  /\ lock' = Nobody
  /\ create' = [c \in Creates |->
       CASE create[c].pc \in {"reserve", "write"} ->
              [create[c] EXCEPT !.pc = "refused", !.seen = Zero]
         [] create[c].pc \in {"make", "undo"} ->
              [create[c] EXCEPT !.pc = "gone", !.step = 1, !.undo = <<>>]
         [] OTHER -> create[c]]
  /\ delete' = [d \in Deletes |->
       IF delete[d].pc \in {"idle", "done", "refused"} THEN delete[d]
       ELSE [delete[d] EXCEPT !.pc = "gone"]]
  /\ toggle' = NoProject
  /\ UNCHANGED <<limit, used, project, ext, updates, mishaps>>

Next ==
  \/ \E c \in Creates : CreateStep(c)
  \/ \E d \in Deletes : DeleteStep(d)
  \/ UpdateProject \/ UpdateWorkflow \/ UpdateQuota \/ Crash

Spec == Init /\ [][Next]_vars

-----------------------------------------------------------------------------
(* Properties.                                                             *)

CreatePc == {"idle", "reserve", "write", "refused", "make", "undo", "done", "failed", "gone"}
Undos == Undoable \cup {"quota", "project"}

CreateRecords ==
  [pc : CreatePc, row : Rows \cup {NoProject}, step : 1 .. (Len(Steps) + 1),
   undo : Seq(Undos), seen : [Counters -> Nat]]

DeleteRecords ==
  [pc : CleanupKinds \cup {"idle", "commit", "done", "refused", "gone"},
   id : Creates \cup {Nobody}, row : Rows \cup {NoProject}, errors : BOOLEAN]

QuotaTypeOK ==
  /\ limit \in [Counters -> Int] /\ used \in [Counters -> Nat]
  /\ lock \in Creates \cup {Nobody}

\* A creation under way knows what it was asked for.
CreateTypeOK ==
  /\ create \in [Creates -> CreateRecords]
  /\ \A c \in Creates : create[c].pc # "idle" => create[c].row \in Rows

\* A deletion under way knows what it deletes.
DeleteTypeOK ==
  /\ delete \in [Deletes -> DeleteRecords]
  /\ \A d \in Deletes : delete[d].pc # "idle" => delete[d].row \in Rows

RestTypeOK ==
  /\ project \in [Creates -> Rows \cup {NoProject}]
  /\ DOMAIN ext = Kinds
  /\ toggle \in Rows \cup {NoProject}
  /\ updates \in 0 .. MaxUpdates /\ crashes \in 0 .. MaxCrashes
  /\ mishaps \subseteq Mishaps

\* Every variable keeps its type: rows, undo lists and counters are well formed,
\* the use is never negative, and no call is under way without its row.
TypeOK == QuotaTypeOK /\ CreateTypeOK /\ DeleteTypeOK /\ RestTypeOK

\* Between the SELECT ... FOR UPDATE and the commit of Reserve the creation
\* alone has the row, and what it has read is what the row says: no roll-back,
\* deletion or other creation comes between.
ReadIsFresh == \A c \in Creates :
  create[c].pc = "write" => lock = c /\ create[c].seen = used

\* The creations that got their reservation.
Granted == {c \in Creates : create[c].pc \in {"make", "undo", "done", "failed", "gone"}}

Q == INSTANCE Quota WITH Callers <- Creates, granted <- Granted

\* Reserve of quota_service.go reads, checks and writes in three statements, but
\* under the row lock they are the one indivisible step of Quota: however many
\* creations, deletions, roll-backs and restarts there are, no reservation
\* passes a limit or is lost in the write of another one.
QuotaIsAtomic == Q!Spec

\* A creation whose reservation has not been given back.
Holds(c) ==
  \/ project[c].there
  \/ create[c].pc \in {"make", "undo"} /\ create[c].undo # <<>>

\* One element for each unit of a counter that a creation holds.
Units(c, k)  == {c} \X (1 .. Cost[Asked(c).preset][k])
HeldUnits(k) == UNION {Units(c, k) : c \in {c \in Creates : Holds(c)}}
Held(k)      == Cardinality(HeldUnits(k))

\* The use in resource_quotas covers every project and every creation under
\* way, and is exactly that when no restart has cut a creation off: on every
\* path of CreateProject the reservation is kept with the row or given back
\* with it, once.
QuotaAccounted ==
  None({"orphan", "undo", "twice", "early", "preset"}) =>
    \A k \in Counters : used[k] >= Held(k) /\ (crashes = 0 => used[k] = Held(k))

\* A creation that fails leaves no row, no application in BasaltPass and no DNS
\* record, wherever it failed, unless a call failed after it had its effect.
Compensated == \A c \in Creates :
  create[c].pc = "failed" =>
    /\ None({"undo", "orphan"}) => ~project[c].there
    /\ None({"undo", "lost"}) => c \notin ext["app"] \cup ext["dns"]

Deleting(c) == \E d \in Deletes : delete[d].id = c

\* A project that was created and that nobody deletes has everything it was
\* given, whatever other calls do, fail at or undo, unless it shares its
\* namespace or its name was asked for twice at the same time.
LiveProjectIsWhole == \A c \in Creates :
  create[c].pc = "done" /\ project[c].there /\ ~Deleting(c) /\ None({"shared", "rival"}) =>
    \A j \in DOMAIN Steps : Steps[j] \notin {"project", "deployment"} =>
      Key(KindOf(Steps[j]), c, Asked(c)) \in ext[KindOf(Steps[j])]

Renamed(c) == \E i \in Creates \ {c} : Asked(i).there /\ Asked(i).name = Asked(c).name

\* A DeleteProject that succeeds leaves nothing of the project behind, with any
\* number of failed attempts and of other deletions before and during it,
\* unless it gave something up without an error or raced a creation or an
\* update.
DeletedIsClean == \A d \in Deletes :
  LET c == delete[d].id IN
  delete[d].pc = "done" /\ None({"skipped", "early", "late"}) /\ ~Renamed(c) =>
    \A kind \in CleanupKinds : Key(kind, c, Asked(c)) \notin ext[kind]

\* The comment of DeleteProjectManifests in gitops_service.go: it removes the
\* entire directory of the project, so that nothing of it is left for Argo CD
\* once DeleteProject has dropped the row of a project that was complete.
ManifestsRemoved == \A d \in Deletes :
  delete[d].pc = "done" /\ None({"early"}) /\ ~Renamed(delete[d].id) =>
    delete[d].row.name \notin ext["manifests"]
=============================================================================
