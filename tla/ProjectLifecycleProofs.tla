----------------------- MODULE ProjectLifecycleProofs -----------------------
(***************************************************************************)
(* Theorems about ProjectLifecycle, for every value of its constants: any  *)
(* number of calls, names, counters and presets.                           *)
(***************************************************************************)
EXTENDS ProjectLifecycle, SequenceTheorems, TLAPS

(* Data.                                                                   *)

LEMMA StepFacts == Len(Steps) \in Nat /\ 1 \in 1 .. (Len(Steps) + 1)
  <1> DEFINE Base == <<"app", "namespace", "cluster", "dns", "ingress", "project", "deployment">>
             More == IF GitHubSource
                     THEN IF AutoDeploy THEN <<"workflow">> ELSE <<>>
                     ELSE IF AutoDeploy THEN <<"manifests", "argo">> ELSE <<"manifests">>
             Some == {"app", "namespace", "cluster", "dns", "ingress", "project", "deployment",
                      "workflow", "manifests", "argo"}
  <1>1. Base \in Seq(Some) /\ Len(Base) = 7
    OBVIOUS
  <1>2. <<"workflow">> \in Seq(Some) /\ <<>> \in Seq(Some)
    OBVIOUS
  <1>3. <<"manifests", "argo">> \in Seq(Some) /\ <<"manifests">> \in Seq(Some)
    OBVIOUS
  <1>4. More \in Seq(Some)
    BY <1>2, <1>3
  <1>5. Steps = Base \o More
    BY DEF Steps
  <1> HIDE DEF Base, More, Some
  <1>6. Len(Base \o More) = Len(Base) + Len(More) /\ Len(More) \in Nat
    BY <1>1, <1>4, ConcatProperties, LenProperties
  <1>7. QED
    BY <1>1, <1>5, <1>6

LEMMA UndoFacts ==
  /\ <<>> \in Seq(Undos) /\ <<"quota">> \in Seq(Undos) /\ <<"project">> \in Seq(Undos)
  /\ \A kind \in Undoable : <<kind>> \in Seq(Undos)
  /\ \A s, t \in Seq(Undos) : s \o t \in Seq(Undos)
  /\ \A s \in Seq(Undos) : s # <<>> => SubSeq(s, 1, Len(s) - 1) \in Seq(Undos)
  <1>1. <<>> \in Seq(Undos) /\ <<"quota">> \in Seq(Undos) /\ <<"project">> \in Seq(Undos)
    BY DEF Undos
  <1>2. \A kind \in Undoable : <<kind>> \in Seq(Undos)
    BY DEF Undos
  <1>3. \A s, t \in Seq(Undos) : s \o t \in Seq(Undos)
    OBVIOUS
  <1>4. \A s \in Seq(Undos) : s # <<>> => SubSeq(s, 1, Len(s) - 1) \in Seq(Undos)
    OBVIOUS
  <1>5. QED
    BY <1>1, <1>2, <1>3, <1>4

LEMMA AmountFacts ==
  ASSUME NEW amount \in [Counters -> Nat], NEW preset \in Presets
  PROVE  Plus(amount, preset) \in [Counters -> Nat] /\ Minus(amount, preset) \in [Counters -> Nat]
  BY QuotaAssumption DEF Plus, Minus

\* How one record of create is replaced.
LEMMA CreateWritten ==
  ASSUME CreateTypeOK, NEW c \in Creates, NEW r \in CreateRecords,
         r.pc # "idle" => r.row \in Rows, create' = [create EXCEPT ![c] = r]
  PROVE  CreateTypeOK'
  BY DEF CreateTypeOK

LEMMA DeleteWritten ==
  ASSUME DeleteTypeOK, NEW d \in Deletes, NEW r \in DeleteRecords,
         r.pc # "idle" => r.row \in Rows, delete' = [delete EXCEPT ![d] = r]
  PROVE  DeleteTypeOK'
  BY DEF DeleteTypeOK

LEMMA CreateToType ==
  ASSUME CreateTypeOK, NEW c \in Creates, create[c].pc # "idle", NEW pc \in CreatePc,
         CreateTo(c, pc)
  PROVE  CreateTypeOK'
  <1> DEFINE r == [create[c] EXCEPT !.pc = pc]
  <1>1. create[c] \in CreateRecords /\ create[c].row \in Rows
    BY DEF CreateTypeOK
  <1>2. r \in CreateRecords /\ r.row \in Rows
    BY <1>1 DEF CreateRecords
  <1>3. create' = [create EXCEPT ![c] = r]
    BY DEF CreateTo
  <1> HIDE DEF r
  <1>4. QED
    BY <1>2, <1>3, CreateWritten

-----------------------------------------------------------------------------
(* CreateProject keeps the types.                                          *)

\* What the calls of CreateProject leave alone.
LEMMA RestKept ==
  ASSUME RestTypeOK, UNCHANGED <<project, toggle, updates, crashes>>,
         DOMAIN ext' = DOMAIN ext, mishaps' \subseteq Mishaps
  PROVE  RestTypeOK'
  BY DEF RestTypeOK

LEMMA ExtDomain ==
  ASSUME NEW kind, NEW id, NEW row, NEW ns
  PROVE  /\ DOMAIN With(kind, id, row) = DOMAIN ext
         /\ DOMAIN Without(kind, id, row) = DOMAIN ext
         /\ DOMAIN WithoutNamespace(ns) = DOMAIN ext
  BY DEF With, Without, WithoutNamespace

LEMMA BeginTypes ==
  ASSUME TypeOK, NEW c \in Creates, Begin(c)
  PROVE  TypeOK'
  <1>1. PICK name \in Names, ns \in Namespaces, preset \in Presets :
          create' = [create EXCEPT ![c].pc = "reserve", ![c].row = Row(name, ns, preset)]
    BY DEF Begin
  <1> DEFINE r == [create[c] EXCEPT !.pc = "reserve", !.row = Row(name, ns, preset)]
  <1>2. Row(name, ns, preset) \in Rows
    BY DEF Row, Rows
  <1>3. create[c] \in CreateRecords
    BY DEF TypeOK, CreateTypeOK
  <1>4. r \in CreateRecords /\ r.row \in Rows
    BY <1>2, <1>3 DEF CreateRecords, CreatePc
  <1>5. create' = [create EXCEPT ![c] = r]
    BY <1>1
  <1> HIDE DEF r
  <1>6. CreateTypeOK'
    BY <1>4, <1>5, CreateWritten DEF TypeOK
  <1>7. mishaps' \subseteq Mishaps
    BY DEF TypeOK, RestTypeOK, Begin, Mishaps
  <1>8. QED
    BY <1>6, <1>7 DEF TypeOK, QuotaTypeOK, DeleteTypeOK, RestTypeOK, Begin, quotaVars, createRest

LEMMA ReserveLockTypes ==
  ASSUME TypeOK, NEW c \in Creates, ReserveLock(c)
  PROVE  TypeOK'
  <1> DEFINE r == [create[c] EXCEPT !.pc = "write", !.seen = used]
  <1>1. create[c] \in CreateRecords /\ create[c].row \in Rows
    BY DEF TypeOK, CreateTypeOK, ReserveLock
  <1>2. r \in CreateRecords /\ r.row \in Rows
    BY <1>1 DEF TypeOK, QuotaTypeOK, CreateRecords, CreatePc
  <1>3. create' = [create EXCEPT ![c] = r]
    BY DEF ReserveLock
  <1> HIDE DEF r
  <1>4. CreateTypeOK'
    BY <1>2, <1>3, CreateWritten DEF TypeOK
  <1>5. QED
    BY <1>4 DEF TypeOK, QuotaTypeOK, DeleteTypeOK, RestTypeOK, ReserveLock, createRest

LEMMA ReserveCommitTypes ==
  ASSUME TypeOK, NEW c \in Creates, ReserveCommit(c)
  PROVE  TypeOK'
  <1> DEFINE r == [create[c] EXCEPT !.pc = "make", !.undo = <<"quota">>, !.seen = Zero]
             q == [create[c] EXCEPT !.pc = "refused", !.seen = Zero]
  <1>1. create[c] \in CreateRecords /\ create[c].row \in Rows
    BY DEF TypeOK, CreateTypeOK, ReserveCommit
  <1>2. Zero \in [Counters -> Nat]
    BY DEF Zero
  <1>3. r \in CreateRecords /\ r.row \in Rows
    BY <1>1, <1>2, UndoFacts DEF CreateRecords, CreatePc
  <1>4. q \in CreateRecords /\ q.row \in Rows
    BY <1>1, <1>2 DEF CreateRecords, CreatePc
  <1>5. create' = [create EXCEPT ![c] = r] \/ create' = [create EXCEPT ![c] = q]
    BY DEF ReserveCommit
  <1> HIDE DEF r, q
  <1>6. CreateTypeOK'
    BY <1>3, <1>4, <1>5, CreateWritten DEF TypeOK
  <1>7. create[c].row.preset \in Presets /\ create[c].seen \in [Counters -> Nat]
    BY <1>1 DEF CreateRecords, Rows
  <1>8. used' \in [Counters -> Nat]
    BY <1>7, AmountFacts DEF TypeOK, QuotaTypeOK, ReserveCommit, Asked
  <1>9. QED
    BY <1>6, <1>8 DEF TypeOK, QuotaTypeOK, DeleteTypeOK, RestTypeOK, ReserveCommit, createRest

\* A step is done and its undo registered.
LEMMA MadeType ==
  ASSUME CreateTypeOK, NEW c \in Creates, AtStep(c), NEW register \in Seq(Undos),
         Made(c, register)
  PROVE  CreateTypeOK'
  <1> DEFINE r == [create[c] EXCEPT !.step = create[c].step + 1,
                                    !.undo = create[c].undo \o register]
  <1>1. create[c] \in CreateRecords /\ create[c].row \in Rows
    BY DEF CreateTypeOK, AtStep
  <1>2. create[c].step + 1 \in 1 .. (Len(Steps) + 1)
    BY <1>1, StepFacts DEF CreateRecords, AtStep
  <1>3. create[c].undo \o register \in Seq(Undos)
    BY <1>1, UndoFacts DEF CreateRecords
  <1>4. r \in CreateRecords /\ r.row \in Rows
    BY <1>1, <1>2, <1>3 DEF CreateRecords
  <1>5. create' = [create EXCEPT ![c] = r]
    BY DEF Made
  <1> HIDE DEF r
  <1>6. QED
    BY <1>4, <1>5, CreateWritten

LEMMA FailsType ==
  ASSUME CreateTypeOK, NEW c \in Creates, create[c].pc # "idle", CreateTo(c, "undo")
  PROVE  CreateTypeOK'
  BY CreateToType DEF CreatePc

LEMMA MakeTypes ==
  ASSUME TypeOK, NEW c \in Creates, Make(c)
  PROVE  TypeOK'
  <1> DEFINE kind == KindOf(Current(c))
             register == IF kind \in Undoable THEN <<kind>> ELSE <<>>
  <1>1. register \in Seq(Undos)
    BY UndoFacts
  <1>2. Made(c, register) \/ CreateTo(c, "undo")
    BY DEF Make, MakeFails
  <1>3. AtStep(c) /\ create[c].pc # "idle"
    BY DEF Make, AtStep
  <1>4. CreateTypeOK'
    BY <1>1, <1>2, <1>3, MadeType, FailsType DEF TypeOK
  <1>5. DOMAIN ext' = DOMAIN ext
    BY ExtDomain DEF Make
  <1>6. mishaps' \subseteq Mishaps
    BY DEF TypeOK, RestTypeOK, Make, Mishaps
  <1>7. QED
    BY <1>4, <1>5, <1>6, RestKept DEF TypeOK, QuotaTypeOK, DeleteTypeOK, Make, quotaVars, createRest

LEMMA InsertProjectTypes ==
  ASSUME TypeOK, NEW c \in Creates, InsertProject(c)
  PROVE  TypeOK'
  <1>1. AtStep(c) /\ create[c].pc # "idle"
    BY DEF InsertProject, AtStep
  <1>2. Made(c, <<>>) \/ CreateTo(c, "undo")
    BY DEF InsertProject
  <1>3. CreateTypeOK'
    BY <1>1, <1>2, UndoFacts, MadeType, FailsType DEF TypeOK
  <1>4. Asked(c) \in Rows
    BY <1>1 DEF TypeOK, CreateTypeOK, Asked
  <1>5. RestTypeOK'
    BY <1>4 DEF TypeOK, RestTypeOK, InsertProject, createRest
  <1>6. QED
    BY <1>3, <1>5 DEF TypeOK, QuotaTypeOK, DeleteTypeOK, InsertProject, quotaVars, createRest

LEMMA InsertDeploymentTypes ==
  ASSUME TypeOK, NEW c \in Creates, InsertDeployment(c)
  PROVE  TypeOK'
  <1>1. AtStep(c) /\ create[c].pc # "idle"
    BY DEF InsertDeployment, AtStep
  <1>2. Made(c, <<"project">>) \/ CreateTo(c, "undo")
    BY DEF InsertDeployment
  <1>3. CreateTypeOK'
    BY <1>1, <1>2, UndoFacts, MadeType, FailsType DEF TypeOK
  <1>4. RestTypeOK'
    BY DEF TypeOK, RestTypeOK, InsertDeployment, createRest, Mishaps
  <1>5. QED
    BY <1>3, <1>4 DEF TypeOK, QuotaTypeOK, DeleteTypeOK, InsertDeployment, quotaVars, createRest

LEMMA FinishTypes ==
  ASSUME TypeOK, NEW c \in Creates, Finish(c)
  PROVE  TypeOK'
  <1> DEFINE r == [create[c] EXCEPT !.pc = "done", !.step = 1, !.undo = <<>>]
  <1>1. create[c] \in CreateRecords /\ create[c].row \in Rows
    BY DEF TypeOK, CreateTypeOK, Finish
  <1>2. r \in CreateRecords /\ r.row \in Rows
    BY <1>1, UndoFacts, StepFacts DEF CreateRecords, CreatePc
  <1>3. create' = [create EXCEPT ![c] = r]
    BY DEF Finish
  <1> HIDE DEF r
  <1>4. CreateTypeOK'
    BY <1>2, <1>3, CreateWritten DEF TypeOK
  <1>5. QED
    BY <1>4 DEF TypeOK, QuotaTypeOK, DeleteTypeOK, RestTypeOK, Finish, quotaVars, createRest

LEMMA ReleaseType ==
  ASSUME QuotaTypeOK, NEW preset \in Presets, Release(preset)
  PROVE  QuotaTypeOK'
  BY AmountFacts DEF QuotaTypeOK, Release

LEMMA UndoTypes ==
  ASSUME TypeOK, NEW c \in Creates, Undo(c)
  PROVE  TypeOK'
  <1> DEFINE less == SubSeq(create[c].undo, 1, Len(create[c].undo) - 1)
             r == [create[c] EXCEPT !.undo = less]
  <1>1. create[c] \in CreateRecords /\ create[c].row \in Rows
    BY DEF TypeOK, CreateTypeOK, Undo
  <1>2. less \in Seq(Undos)
    BY <1>1, UndoFacts DEF CreateRecords, Undo
  <1>3. create' = [create EXCEPT ![c] = r]
    BY DEF Undo
  <1> HIDE DEF less
  <1>4. r \in CreateRecords /\ r.row \in Rows
    BY <1>1, <1>2 DEF CreateRecords
  <1> HIDE DEF r
  <1>5. CreateTypeOK'
    BY <1>3, <1>4, CreateWritten DEF TypeOK
  <1>6. Asked(c).preset \in Presets
    BY <1>1 DEF Asked, Rows
  <1>7. Release(Asked(c).preset) \/ UNCHANGED quotaVars
    BY DEF Undo
  <1>8. QuotaTypeOK'
    BY <1>6, <1>7, ReleaseType DEF TypeOK, QuotaTypeOK, quotaVars
  <1>9. DOMAIN ext' = DOMAIN ext
    BY ExtDomain DEF Undo
  <1>10. mishaps' \subseteq Mishaps
    BY DEF TypeOK, RestTypeOK, Undo, Mishaps
  <1>11. project' \in [Creates -> Rows \cup {NoProject}]
    BY DEF TypeOK, RestTypeOK, Undo
  <1>12. QED
    BY <1>5, <1>8, <1>9, <1>10, <1>11
    DEF TypeOK, DeleteTypeOK, RestTypeOK, Undo, createRest

LEMMA UndoneTypes ==
  ASSUME TypeOK, NEW c \in Creates, Undone(c)
  PROVE  TypeOK'
  <1> DEFINE r == [create[c] EXCEPT !.pc = "failed", !.step = 1]
  <1>1. create[c] \in CreateRecords /\ create[c].row \in Rows
    BY DEF TypeOK, CreateTypeOK, Undone
  <1>2. r \in CreateRecords /\ r.row \in Rows
    BY <1>1, StepFacts DEF CreateRecords, CreatePc
  <1>3. create' = [create EXCEPT ![c] = r]
    BY DEF Undone
  <1> HIDE DEF r
  <1>4. CreateTypeOK'
    BY <1>2, <1>3, CreateWritten DEF TypeOK
  <1>5. QED
    BY <1>4 DEF TypeOK, QuotaTypeOK, DeleteTypeOK, RestTypeOK, Undone, quotaVars, createRest

-----------------------------------------------------------------------------
(* So do DeleteProject, UpdateProject, updateQuota and restarts.           *)

LEMMA DeleteLoadTypes ==
  ASSUME TypeOK, NEW d \in Deletes, DeleteLoad(d)
  PROVE  TypeOK'
  <1>1. PICK c \in Creates :
          /\ project[c].there
          /\ delete' = [delete EXCEPT ![d] = [pc |-> Cleanup[1], id |-> c, row |-> project[c],
                                              errors |-> FALSE]]
    BY DEF DeleteLoad
  <1> DEFINE r == [pc |-> Cleanup[1], id |-> c, row |-> project[c], errors |-> FALSE]
  <1>2. project[c] \in Rows
    BY <1>1 DEF TypeOK, RestTypeOK, NoProject
  <1>3. Cleanup[1] \in CleanupKinds
    BY DEF Cleanup, CleanupKinds, Kinds
  <1>4. r \in DeleteRecords /\ r.row \in Rows
    BY <1>2, <1>3 DEF DeleteRecords
  <1>5. delete' = [delete EXCEPT ![d] = r]
    BY <1>1
  <1> HIDE DEF r
  <1>6. DeleteTypeOK'
    BY <1>4, <1>5, DeleteWritten DEF TypeOK
  <1>7. QED
    BY <1>6 DEF TypeOK, QuotaTypeOK, CreateTypeOK, RestTypeOK, DeleteLoad, quotaVars, deleteRest,
       Mishaps

LEMMA DeleteCleanupTypes ==
  ASSUME TypeOK, NEW d \in Deletes, DeleteCleanup(d)
  PROVE  TypeOK'
  <1> DEFINE Next_(j) == IF j < Len(Cleanup) THEN Cleanup[j + 1] ELSE "commit"
  <1>1. PICK j \in DOMAIN Cleanup :
          /\ delete[d].pc = Cleanup[j]
          /\ \/ delete' = [delete EXCEPT ![d].pc = Next_(j)]
             \/ delete' = [delete EXCEPT ![d].pc = Next_(j), ![d].errors = TRUE]
    BY DEF DeleteCleanup
  <1>2. delete[d].pc # "idle" /\ Next_(j) \in CleanupKinds \cup {"commit"}
    BY <1>1 DEF Cleanup, CleanupKinds, Kinds
  <1>3. delete[d] \in DeleteRecords /\ delete[d].row \in Rows
    BY <1>2 DEF TypeOK, DeleteTypeOK
  <1> DEFINE r == [delete[d] EXCEPT !.pc = Next_(j)]
             q == [delete[d] EXCEPT !.pc = Next_(j), !.errors = TRUE]
  <1>4. delete' = [delete EXCEPT ![d] = r] \/ delete' = [delete EXCEPT ![d] = q]
    BY <1>1
  <1> HIDE DEF Next_
  <1>5. r \in DeleteRecords /\ r.row \in Rows /\ q \in DeleteRecords /\ q.row \in Rows
    BY <1>2, <1>3 DEF DeleteRecords
  <1> HIDE DEF r, q
  <1>6. DeleteTypeOK'
    BY <1>4, <1>5, DeleteWritten DEF TypeOK
  <1>7. DOMAIN ext' = DOMAIN ext
    BY ExtDomain DEF DeleteCleanup
  <1>8. mishaps' \subseteq Mishaps
    BY DEF TypeOK, RestTypeOK, DeleteCleanup, Mishaps
  <1>9. UNCHANGED <<quotaVars, project, deleteRest>>
    BY DEF DeleteCleanup
  <1>10. QED
    BY <1>6, <1>7, <1>8, <1>9
    DEF TypeOK, QuotaTypeOK, CreateTypeOK, RestTypeOK, quotaVars, deleteRest

LEMMA DeleteCommitTypes ==
  ASSUME TypeOK, NEW d \in Deletes, DeleteCommit(d)
  PROVE  TypeOK'
  <1>1. delete[d] \in DeleteRecords /\ delete[d].row \in Rows
    BY DEF TypeOK, DeleteTypeOK, DeleteCommit
  <1>2. PICK pc \in {"done", "refused"} : delete' = [delete EXCEPT ![d].pc = pc]
    BY DEF DeleteCommit
  <1> DEFINE r == [delete[d] EXCEPT !.pc = pc]
  <1>3. r \in DeleteRecords /\ r.row \in Rows
    BY <1>1 DEF DeleteRecords
  <1>4. delete' = [delete EXCEPT ![d] = r]
    BY <1>2
  <1> HIDE DEF r
  <1>5. DeleteTypeOK'
    BY <1>3, <1>4, DeleteWritten DEF TypeOK
  <1>6. delete[d].row.preset \in Presets
    BY <1>1 DEF Rows
  <1>7. Release(delete[d].row.preset) \/ UNCHANGED quotaVars
    BY DEF DeleteCommit
  <1>8. QuotaTypeOK'
    BY <1>6, <1>7, ReleaseType DEF TypeOK, QuotaTypeOK, quotaVars
  <1>9. project' \in [Creates -> Rows \cup {NoProject}] /\ mishaps' \subseteq Mishaps
    BY DEF TypeOK, RestTypeOK, DeleteCommit, Mishaps
  <1>10. QED
    BY <1>5, <1>8, <1>9 DEF TypeOK, CreateTypeOK, RestTypeOK, DeleteCommit, deleteRest

LEMMA UpdateTypes ==
  ASSUME TypeOK
  PROVE  /\ UpdateProject => TypeOK'
         /\ UpdateWorkflow => TypeOK'
         /\ UpdateQuota => TypeOK'
  <1>1. ASSUME UpdateProject
        PROVE  TypeOK'
    <2>1. PICK c \in Creates :
            /\ project[c].there /\ updates < MaxUpdates /\ updates' = updates + 1
            /\ \/ /\ \E preset \in Presets : project' = [project EXCEPT ![c].preset = preset]
                  /\ UNCHANGED toggle
               \/ toggle' = project[c] /\ UNCHANGED project
      BY <1>1 DEF UpdateProject
    <2>2. project[c] \in Rows
      BY <2>1 DEF TypeOK, RestTypeOK, NoProject
    <2>3. \A preset \in Presets : [project[c] EXCEPT !.preset = preset] \in Rows
      BY <2>2 DEF Rows
    <2>4. project' \in [Creates -> Rows \cup {NoProject}]
      BY <2>1, <2>3 DEF TypeOK, RestTypeOK
    <2>5. toggle' \in Rows \cup {NoProject}
      BY <2>1, <2>2 DEF TypeOK, RestTypeOK
    <2>6. updates' \in 0 .. MaxUpdates
      BY <2>1, LifecycleAssumption DEF TypeOK, RestTypeOK
    <2>7. mishaps' \subseteq Mishaps
      BY <1>1 DEF TypeOK, RestTypeOK, UpdateProject, Mishaps
    <2>8. UNCHANGED <<quotaVars, ext, create, delete, crashes>>
      BY <1>1 DEF UpdateProject
    <2>9. QED
      BY <2>4, <2>5, <2>6, <2>7, <2>8
      DEF TypeOK, QuotaTypeOK, CreateTypeOK, DeleteTypeOK, RestTypeOK, quotaVars
  <1>2. ASSUME UpdateWorkflow
        PROVE  TypeOK'
    <2>1. DOMAIN ext' = DOMAIN ext
      BY <1>2, ExtDomain DEF UpdateWorkflow
    <2>2. mishaps' \subseteq Mishaps
      BY <1>2 DEF TypeOK, RestTypeOK, UpdateWorkflow, Mishaps
    <2>3. QED
      BY <1>2, <2>1, <2>2
      DEF TypeOK, QuotaTypeOK, CreateTypeOK, DeleteTypeOK, RestTypeOK, UpdateWorkflow, quotaVars
  <1>3. ASSUME UpdateQuota
        PROVE  TypeOK'
    <2>1. limit' \in [Counters -> Int]
      BY <1>3, QuotaAssumption DEF UpdateQuota
    <2>2. updates' \in 0 .. MaxUpdates
      BY <1>3, LifecycleAssumption DEF TypeOK, RestTypeOK, UpdateQuota
    <2>3. QED
      BY <1>3, <2>1, <2>2
      DEF TypeOK, QuotaTypeOK, CreateTypeOK, DeleteTypeOK, RestTypeOK, UpdateQuota
  <1>4. QED
    BY <1>1, <1>2, <1>3

LEMMA CrashTypes ==
  ASSUME TypeOK, Crash
  PROVE  TypeOK'
  <1>1. ASSUME NEW c \in Creates
        PROVE  create'[c] \in CreateRecords /\ (create'[c].pc # "idle" => create'[c].row \in Rows)
    <2>1. create[c] \in CreateRecords /\ (create[c].pc # "idle" => create[c].row \in Rows)
      BY DEF TypeOK, CreateTypeOK
    <2>2. Zero \in [Counters -> Nat]
      BY DEF Zero
    <2>3. CASE create[c].pc \in {"reserve", "write"}
      <3>1. create'[c] = [create[c] EXCEPT !.pc = "refused", !.seen = Zero]
        BY <2>3 DEF Crash
      <3>2. QED
        BY <2>1, <2>2, <2>3, <3>1 DEF CreateRecords, CreatePc
    <2>4. CASE create[c].pc \in {"make", "undo"}
      <3>1. create'[c] = [create[c] EXCEPT !.pc = "gone", !.step = 1, !.undo = <<>>]
        BY <2>4 DEF Crash
      <3>2. QED
        BY <2>1, <2>4, <3>1, UndoFacts, StepFacts DEF CreateRecords, CreatePc
    <2>5. CASE create[c].pc \notin {"reserve", "write", "make", "undo"}
      <3>1. create'[c] = create[c]
        BY <2>5 DEF Crash
      <3>2. QED
        BY <2>1, <3>1
    <2>6. QED
      BY <2>3, <2>4, <2>5
  <1>2. CreateTypeOK'
    BY <1>1 DEF CreateTypeOK, Crash
  <1>3. ASSUME NEW d \in Deletes
        PROVE  delete'[d] \in DeleteRecords /\ (delete'[d].pc # "idle" => delete'[d].row \in Rows)
    <2>1. delete[d] \in DeleteRecords /\ (delete[d].pc # "idle" => delete[d].row \in Rows)
      BY DEF TypeOK, DeleteTypeOK
    <2>2. CASE delete[d].pc \in {"idle", "done", "refused"}
      BY <2>1, <2>2 DEF Crash
    <2>3. CASE delete[d].pc \notin {"idle", "done", "refused"}
      <3>1. delete'[d] = [delete[d] EXCEPT !.pc = "gone"] /\ delete[d].pc # "idle"
        BY <2>3 DEF Crash
      <3>2. QED
        BY <2>1, <3>1 DEF DeleteRecords
    <2>4. QED
      BY <2>2, <2>3
  <1>4. DeleteTypeOK'
    BY <1>3 DEF DeleteTypeOK, Crash
  <1>5. RestTypeOK'
    <2>1. /\ crashes < MaxCrashes /\ crashes' = crashes + 1 /\ toggle' = NoProject
          /\ UNCHANGED <<project, ext, updates, mishaps>>
      BY DEF Crash
    <2>2. QED
      BY <2>1, LifecycleAssumption DEF TypeOK, RestTypeOK
  <1>6. QuotaTypeOK'
    BY DEF TypeOK, QuotaTypeOK, Crash
  <1>7. QED
    BY <1>2, <1>4, <1>5, <1>6 DEF TypeOK

-----------------------------------------------------------------------------
(* The inductive invariant: types, and that what Reserve has read is fresh. *)

LifecycleInv == TypeOK /\ ReadIsFresh

LEMMA InitInv == Init => LifecycleInv
  <1> SUFFICES ASSUME Init PROVE LifecycleInv
    OBVIOUS
  <1>1. Zero \in [Counters -> Nat]
    BY DEF Zero
  <1>2. IdleCreate \in CreateRecords
    BY <1>1, UndoFacts, StepFacts DEF IdleCreate, CreateRecords, CreatePc
  <1>3. IdleDelete \in DeleteRecords
    BY DEF IdleDelete, DeleteRecords
  <1>4. QuotaTypeOK
    BY <1>1, QuotaAssumption DEF Init, QuotaTypeOK
  <1>5. CreateTypeOK
    BY <1>2 DEF Init, CreateTypeOK, IdleCreate
  <1>6. DeleteTypeOK
    BY <1>3 DEF Init, DeleteTypeOK, IdleDelete
  <1>7. RestTypeOK
    BY LifecycleAssumption DEF Init, RestTypeOK
  <1>8. ReadIsFresh
    BY DEF Init, ReadIsFresh, IdleCreate
  <1>9. QED
    BY <1>4, <1>5, <1>6, <1>7, <1>8 DEF LifecycleInv, TypeOK

\* A step that leaves used and lock alone, and takes no creation to "write".
LEMMA FreshKept ==
  ASSUME ReadIsFresh, UNCHANGED <<used, lock>>,
         \A i \in Creates : create'[i].pc = "write" =>
           create[i].pc = "write" /\ create'[i].seen = create[i].seen
  PROVE  ReadIsFresh'
  BY DEF ReadIsFresh

\* While the row is locked nobody gives anything back.
LEMMA FreshUnlocked ==
  ASSUME ReadIsFresh, lock = Nobody, UNCHANGED lock,
         \A i \in Creates : create'[i].pc = "write" => create[i].pc = "write"
  PROVE  ReadIsFresh'
  BY NobodyAssumption DEF ReadIsFresh

LEMMA CreateFresh ==
  ASSUME TypeOK, ReadIsFresh, NEW c \in Creates, CreateStep(c)
  PROVE  ReadIsFresh'
  <1>0. create \in [Creates -> CreateRecords]
    BY DEF TypeOK, CreateTypeOK
  <1>1. CASE Begin(c)
    BY <1>0, <1>1, FreshKept DEF Begin, CreateRecords, quotaVars
  <1>2. CASE ReserveLock(c)
    <2>1. \A i \in Creates : create[i].pc # "write"
      BY <1>2, NobodyAssumption DEF ReserveLock, ReadIsFresh
    <2>2. \A i \in Creates \ {c} : create'[i] = create[i]
      BY <1>0, <1>2 DEF ReserveLock
    <2>3. lock' = c /\ create'[c].seen = used /\ used' = used
      BY <1>0, <1>2 DEF ReserveLock, CreateRecords
    <2>4. QED
      BY <2>1, <2>2, <2>3 DEF ReadIsFresh
  <1>3. CASE ReserveCommit(c)
    <2>1. lock = c
      BY <1>3 DEF ReserveCommit, ReadIsFresh
    <2>2. \A i \in Creates \ {c} : create[i].pc # "write" /\ create'[i] = create[i]
      BY <1>0, <1>3, <2>1 DEF ReserveCommit, ReadIsFresh
    <2>3. create'[c].pc # "write"
      BY <1>0, <1>3 DEF ReserveCommit, CreateRecords
    <2>4. QED
      BY <2>2, <2>3 DEF ReadIsFresh
  <1>4. CASE Make(c)
    <2>1. \A i \in Creates : create'[i].pc # "write" \/ create'[i] = create[i]
      BY <1>0, <1>4 DEF Make, MakeFails, Made, CreateTo, AtStep, CreateRecords
    <2>2. QED
      BY <1>4, <2>1, FreshKept DEF Make, quotaVars
  <1>5. CASE InsertProject(c)
    <2>1. \A i \in Creates : create'[i].pc # "write" \/ create'[i] = create[i]
      BY <1>0, <1>5 DEF InsertProject, Made, CreateTo, AtStep, CreateRecords
    <2>2. QED
      BY <1>5, <2>1, FreshKept DEF InsertProject, quotaVars
  <1>6. CASE InsertDeployment(c)
    <2>1. \A i \in Creates : create'[i].pc # "write" \/ create'[i] = create[i]
      BY <1>0, <1>6 DEF InsertDeployment, Made, CreateTo, AtStep, CreateRecords
    <2>2. QED
      BY <1>6, <2>1, FreshKept DEF InsertDeployment, quotaVars
  <1>7. CASE Finish(c)
    BY <1>0, <1>7, FreshKept DEF Finish, CreateRecords, quotaVars
  <1>8. CASE Undo(c)
    <2>1. \A i \in Creates : create'[i].pc # "write" \/ create'[i] = create[i]
      BY <1>0, <1>8 DEF Undo, CreateRecords
    <2>2. Release(Asked(c).preset) \/ UNCHANGED quotaVars
      BY <1>8 DEF Undo
    <2>3. QED
      BY <2>1, <2>2, FreshKept, FreshUnlocked DEF Release, quotaVars
  <1>9. CASE Undone(c)
    BY <1>0, <1>9, FreshKept DEF Undone, CreateRecords, quotaVars
  <1>10. QED
    BY <1>1, <1>2, <1>3, <1>4, <1>5, <1>6, <1>7, <1>8, <1>9 DEF CreateStep

LEMMA OtherFresh ==
  ASSUME TypeOK, ReadIsFresh
  PROVE  /\ \A d \in Deletes : DeleteStep(d) => ReadIsFresh'
         /\ UpdateProject \/ UpdateWorkflow \/ UpdateQuota \/ Crash => ReadIsFresh'
  <1>1. ASSUME NEW d \in Deletes, DeleteLoad(d) \/ DeleteCleanup(d)
        PROVE  ReadIsFresh'
    BY <1>1, FreshKept DEF DeleteLoad, DeleteCleanup, quotaVars, deleteRest
  <1>2. ASSUME NEW d \in Deletes, DeleteCommit(d)
        PROVE  ReadIsFresh'
    <2>1. Release(delete[d].row.preset) \/ UNCHANGED quotaVars
      BY <1>2 DEF DeleteCommit
    <2>2. UNCHANGED create
      BY <1>2 DEF DeleteCommit, deleteRest
    <2>3. QED
      BY <2>1, <2>2, FreshKept, FreshUnlocked DEF Release, quotaVars
  <1>3. UpdateProject \/ UpdateWorkflow \/ UpdateQuota => ReadIsFresh'
    BY FreshKept DEF UpdateProject, UpdateWorkflow, UpdateQuota, quotaVars
  <1>4. ASSUME Crash
        PROVE  ReadIsFresh'
    <2>1. \A c \in Creates : create'[c].pc # "write"
      <3> TAKE c \in Creates
      <3>1. create[c] \in CreateRecords
        BY DEF TypeOK, CreateTypeOK
      <3>2. CASE create[c].pc \in {"reserve", "write"}
        BY <1>4, <3>1, <3>2 DEF Crash, CreateRecords
      <3>3. CASE create[c].pc \in {"make", "undo"}
        BY <1>4, <3>1, <3>3 DEF Crash, CreateRecords
      <3>4. CASE create[c].pc \notin {"reserve", "write", "make", "undo"}
        BY <1>4, <3>1, <3>4 DEF Crash
      <3>5. QED
        BY <3>2, <3>3, <3>4
    <2>2. QED
      BY <2>1 DEF ReadIsFresh
  <1>5. QED
    BY <1>1, <1>2, <1>3, <1>4 DEF DeleteStep

LEMMA StepTypes ==
  ASSUME TypeOK, [Next]_vars
  PROVE  TypeOK'
  <1>1. ASSUME NEW c \in Creates, CreateStep(c)
        PROVE  TypeOK'
    BY <1>1, BeginTypes, ReserveLockTypes, ReserveCommitTypes, MakeTypes, InsertProjectTypes,
       InsertDeploymentTypes, FinishTypes, UndoTypes, UndoneTypes DEF CreateStep
  <1>2. ASSUME NEW d \in Deletes, DeleteStep(d)
        PROVE  TypeOK'
    BY <1>2, DeleteLoadTypes, DeleteCleanupTypes, DeleteCommitTypes DEF DeleteStep
  <1>3. CASE UNCHANGED vars
    BY <1>3 DEF TypeOK, QuotaTypeOK, CreateTypeOK, DeleteTypeOK, RestTypeOK, vars, quotaVars
  <1>4. QED
    BY <1>1, <1>2, <1>3, UpdateTypes, CrashTypes DEF Next

LEMMA StepInv == LifecycleInv /\ [Next]_vars => LifecycleInv'
  <1> SUFFICES ASSUME LifecycleInv, [Next]_vars PROVE LifecycleInv'
    OBVIOUS
  <1>1. TypeOK /\ ReadIsFresh
    BY DEF LifecycleInv
  <1>2. TypeOK'
    BY <1>1, StepTypes
  <1>3. CASE UNCHANGED vars
    BY <1>1, <1>2, <1>3 DEF LifecycleInv, ReadIsFresh, vars, quotaVars
  <1>4. CASE Next
    BY <1>1, <1>2, <1>4, CreateFresh, OtherFresh DEF LifecycleInv, Next
  <1>5. QED
    BY <1>3, <1>4

\* What project_service.go and quota_service.go write always has its type:
\* whatever fails, is undone or is repeated, the use never becomes negative and
\* an undo list only holds undos.
THEOREM LifecycleTypeCorrect == Spec => []TypeOK
  <1>1. LifecycleInv => TypeOK
    BY DEF LifecycleInv
  <1>2. QED
    BY InitInv, StepInv, <1>1, PTL DEF Spec

\* What Reserve has read under SELECT ... FOR UPDATE is what the row still says
\* when it writes, for any number of concurrent calls.
THEOREM FreshRead == Spec => []ReadIsFresh
  <1>1. LifecycleInv => ReadIsFresh
    BY DEF LifecycleInv
  <1>2. QED
    BY InitInv, StepInv, <1>1, PTL DEF Spec

-----------------------------------------------------------------------------
(* ProjectLifecycle implements Quota.                                      *)

\* Only ReserveCommit grants a reservation.
LEMMA GrantedKept ==
  ASSUME TypeOK,
         \A i \in Creates :
           create'[i].pc \in {"make", "undo", "done", "failed", "gone"}
             <=> create[i].pc \in {"make", "undo", "done", "failed", "gone"}
  PROVE  Granted' = Granted
  BY DEF Granted

GrantedPc == {"make", "undo", "done", "failed", "gone"}

\* Every step of a creation but the commit keeps the granted reservations.
LEMMA CreateGranted ==
  ASSUME TypeOK, NEW c \in Creates, CreateStep(c), ~ReserveCommit(c)
  PROVE  Granted' = Granted
  <1>0. create \in [Creates -> CreateRecords]
    BY DEF TypeOK, CreateTypeOK
  <1>1. \A i \in Creates \ {c} : create'[i] = create[i]
    <2>1. CASE Begin(c) \/ ReserveLock(c) \/ Finish(c) \/ Undo(c) \/ Undone(c)
      BY <1>0, <2>1 DEF Begin, ReserveLock, Finish, Undo, Undone, CreateTo
    <2>2. CASE Make(c) \/ InsertProject(c) \/ InsertDeployment(c)
      BY <1>0, <2>2 DEF Make, MakeFails, InsertProject, InsertDeployment, Made, CreateTo
    <2>3. QED
      BY <2>1, <2>2 DEF CreateStep
  <1>2. create'[c].pc \in GrantedPc <=> create[c].pc \in GrantedPc
    <2>1. CASE Begin(c) \/ ReserveLock(c)
      BY <1>0, <2>1 DEF Begin, ReserveLock, CreateRecords, GrantedPc
    <2>2. CASE Finish(c) \/ Undone(c)
      BY <1>0, <2>2 DEF Finish, Undone, CreateRecords, GrantedPc
    <2>3. CASE Undo(c)
      BY <1>0, <2>3 DEF Undo, CreateRecords, GrantedPc
    <2>4. CASE Make(c) \/ InsertProject(c) \/ InsertDeployment(c)
      <3>1. create[c].pc = "make" /\ create'[c].pc \in {"make", "undo"}
        BY <1>0, <2>4 DEF Make, MakeFails, InsertProject, InsertDeployment, Made, CreateTo, AtStep,
           CreateRecords
      <3>2. QED
        BY <3>1 DEF GrantedPc
    <2>5. QED
      BY <2>1, <2>2, <2>3, <2>4 DEF CreateStep
  <1>3. \A i \in Creates : create'[i].pc \in GrantedPc <=> create[i].pc \in GrantedPc
    BY <1>1, <1>2
  <1>4. QED
    BY <1>3, GrantedKept DEF GrantedPc

LEMMA CrashGranted ==
  ASSUME TypeOK, Crash
  PROVE  Granted' = Granted
  <1>1. ASSUME NEW c \in Creates
        PROVE  create'[c].pc \in GrantedPc <=> create[c].pc \in GrantedPc
    <2>0. create[c] \in CreateRecords
      BY DEF TypeOK, CreateTypeOK
    <2>1. CASE create[c].pc \in {"reserve", "write"}
      BY <2>0, <2>1 DEF Crash, CreateRecords, GrantedPc
    <2>2. CASE create[c].pc \in {"make", "undo"}
      BY <2>0, <2>2 DEF Crash, CreateRecords, GrantedPc
    <2>3. CASE create[c].pc \notin {"reserve", "write", "make", "undo"}
      BY <2>0, <2>3 DEF Crash
    <2>4. QED
      BY <2>1, <2>2, <2>3
  <1>2. QED
    BY <1>1, GrantedKept DEF GrantedPc

\* Giving a reservation back is Quota's Release.
LEMMA ReleaseImplements ==
  ASSUME NEW preset \in Presets, Release(preset), Granted' = Granted
  PROVE  Q!Next
  <1>1. Q!Release(preset)
    BY DEF Release, Minus, Q!Release
  <1>2. QED
    BY <1>1 DEF Q!Next

\* The commit of Reserve is Quota's Reserve, or nothing when it is refused:
\* what it adds to is what the row says, as ReadIsFresh.
LEMMA CommitImplements ==
  ASSUME LifecycleInv, NEW c \in Creates, ReserveCommit(c)
  PROVE  [Q!Next]_Q!vars
  <1>0. /\ create \in [Creates -> CreateRecords] /\ create[c].pc = "write"
        /\ create[c].seen = used /\ create[c].row \in Rows
    BY DEF LifecycleInv, TypeOK, CreateTypeOK, ReadIsFresh, ReserveCommit
  <1>1. Asked(c).preset \in Presets
    BY <1>0 DEF Asked, Rows
  <1>2. CASE /\ Fits(create[c].seen, Asked(c).preset)
             /\ used' = Plus(create[c].seen, Asked(c).preset)
             /\ create' = [create EXCEPT ![c].pc = "make", ![c].undo = <<"quota">>, ![c].seen = Zero]
    <2>1. c \notin Granted
      BY <1>0 DEF Granted
    <2>2. create'[c].pc = "make" /\ \A i \in Creates \ {c} : create'[i] = create[i]
      BY <1>0, <1>2 DEF CreateRecords
    <2>3. Granted' = Granted \cup {c}
      BY <2>2 DEF Granted
    <2>4. Q!Fits(Asked(c).preset) /\ used' = [k \in Counters |-> used[k] + Cost[Asked(c).preset][k]]
      BY <1>0, <1>2 DEF Fits, Plus, Q!Fits
    <2>5. Q!Reserve(c, Asked(c).preset)
      BY <2>1, <2>3, <2>4 DEF Q!Reserve, ReserveCommit
    <2>6. QED
      BY <1>1, <2>5 DEF Q!Next
  <1>3. CASE /\ create' = [create EXCEPT ![c].pc = "refused", ![c].seen = Zero]
             /\ UNCHANGED used
    <2>1. create'[c].pc = "refused" /\ \A i \in Creates \ {c} : create'[i] = create[i]
      BY <1>0, <1>3 DEF CreateRecords
    <2>2. Granted' = Granted
      BY <1>0, <2>1 DEF Granted
    <2>3. QED
      BY <1>3, <2>2 DEF Q!vars, ReserveCommit
  <1>4. QED
    BY <1>2, <1>3 DEF ReserveCommit

LEMMA StepImplements == LifecycleInv /\ [Next]_vars => [Q!Next]_Q!vars
  <1> SUFFICES ASSUME LifecycleInv, [Next]_vars PROVE [Q!Next]_Q!vars
    OBVIOUS
  <1>0. TypeOK
    BY DEF LifecycleInv
  <1>1. ASSUME NEW c \in Creates, CreateStep(c)
        PROVE  [Q!Next]_Q!vars
    <2>1. CASE ReserveCommit(c)
      BY <2>1, CommitImplements
    <2>2. CASE ~ReserveCommit(c)
      <3>1. Granted' = Granted
        BY <1>0, <1>1, <2>2, CreateGranted
      <3>2. CASE Undo(c)
        <4>1. Release(Asked(c).preset) \/ UNCHANGED quotaVars
          BY <3>2 DEF Undo
        <4>2. Asked(c).preset \in Presets
          BY <1>0, <3>2 DEF TypeOK, CreateTypeOK, Undo, Asked, Rows
        <4>3. QED
          BY <3>1, <4>1, <4>2, ReleaseImplements DEF quotaVars, Q!vars
      <3>3. CASE ~Undo(c)
        <4>1. UNCHANGED <<limit, used>>
          BY <1>1, <2>2, <3>3
          DEF CreateStep, Begin, ReserveLock, Make, InsertProject, InsertDeployment, Finish, Undone,
              quotaVars
        <4>2. QED
          BY <3>1, <4>1 DEF Q!vars
      <3>4. QED
        BY <3>2, <3>3
    <2>3. QED
      BY <2>1, <2>2
  <1>2. ASSUME NEW d \in Deletes, DeleteStep(d)
        PROVE  [Q!Next]_Q!vars
    <2>1. Granted' = Granted
      BY <1>2 DEF DeleteStep, DeleteLoad, DeleteCleanup, DeleteCommit, deleteRest, Granted
    <2>2. CASE DeleteCommit(d)
      <3>1. Release(delete[d].row.preset) \/ UNCHANGED quotaVars
        BY <2>2 DEF DeleteCommit
      <3>2. delete[d].row.preset \in Presets
        BY <1>0, <2>2 DEF TypeOK, DeleteTypeOK, DeleteCommit, Rows
      <3>3. QED
        BY <2>1, <3>1, <3>2, ReleaseImplements DEF quotaVars, Q!vars
    <2>3. CASE DeleteLoad(d) \/ DeleteCleanup(d)
      BY <2>1, <2>3 DEF DeleteLoad, DeleteCleanup, quotaVars, Q!vars
    <2>4. QED
      BY <1>2, <2>2, <2>3 DEF DeleteStep
  <1>3. CASE UpdateProject \/ UpdateWorkflow
    BY <1>3 DEF UpdateProject, UpdateWorkflow, quotaVars, Q!vars, Granted
  <1>4. CASE UpdateQuota
    <2>1. limit' \in [Counters -> Int] /\ UNCHANGED <<used, create>>
      BY <1>4, QuotaAssumption DEF UpdateQuota
    <2>2. Q!SetLimit
      BY <2>1 DEF Q!SetLimit, Granted
    <2>3. QED
      BY <2>2 DEF Q!Next
  <1>5. CASE Crash
    <2>1. UNCHANGED <<limit, used>>
      BY <1>5 DEF Crash
    <2>2. QED
      BY <1>0, <1>5, <2>1, CrashGranted DEF Q!vars
  <1>6. CASE UNCHANGED vars
    BY <1>6 DEF vars, quotaVars, Q!vars, Granted
  <1>7. QED
    BY <1>1, <1>2, <1>3, <1>4, <1>5, <1>6 DEF Next

\* The three statements of Reserve, Release, updateQuota and restarts implement
\* the indivisible reservations of Quota for any number of concurrent calls: no
\* reservation passes a limit, and none is lost.
THEOREM QuotaAtomicity == Spec => QuotaIsAtomic
  <1>1. Init => Q!Init
    BY QuotaAssumption DEF Init, Q!Init, Zero, Granted, IdleCreate
  <1>2. LifecycleInv /\ [Next]_vars => [Q!Next]_Q!vars
    BY StepImplements
  <1>3. QED
    BY InitInv, StepInv, <1>1, <1>2, PTL DEF Spec, QuotaIsAtomic, Q!Spec
=============================================================================
