-------------------------- MODULE ProjectSagaProofs --------------------------
(***************************************************************************)
(* The saga of ProjectLifecycle, for every value of its constants: the     *)
(* quota is accounted for, a creation that fails leaves nothing behind, a  *)
(* project that is live keeps what it was given, and a deletion that       *)
(* succeeds is clean.                                                      *)
(*                                                                         *)
(* What an action does to the record of its creation is stated once, in a  *)
(* lemma of its own; the parts of the invariant are proved from these.     *)
(***************************************************************************)
EXTENDS ProjectLifecycleProofs, FiniteSetTheorems

-----------------------------------------------------------------------------
(* The steps of a creation and the undos they register.                    *)

LEMMA StepList ==
  /\ Len(Steps) \in Nat /\ Len(Steps) >= 7
  /\ Steps[1] = "app" /\ Steps[2] = "namespace" /\ Steps[3] = "cluster" /\ Steps[4] = "dns"
  /\ Steps[5] = "ingress" /\ Steps[6] = "project" /\ Steps[7] = "deployment"
  /\ \A i \in 8 .. Len(Steps) : Steps[i] \in {"workflow", "manifests", "argo"}
  /\ DOMAIN Steps = 1 .. Len(Steps)
  <1> DEFINE Base == <<"app", "namespace", "cluster", "dns", "ingress", "project", "deployment">>
             More == IF GitHubSource
                     THEN IF AutoDeploy THEN <<"workflow">> ELSE <<>>
                     ELSE IF AutoDeploy THEN <<"manifests", "argo">> ELSE <<"manifests">>
             Last == {"workflow", "manifests", "argo"}
             Some == {"app", "namespace", "cluster", "dns", "ingress", "project", "deployment",
                      "workflow", "manifests", "argo"}
  <1>1. /\ Base \in Seq(Some) /\ Len(Base) = 7
        /\ Base[1] = "app" /\ Base[2] = "namespace" /\ Base[3] = "cluster" /\ Base[4] = "dns"
        /\ Base[5] = "ingress" /\ Base[6] = "project" /\ Base[7] = "deployment"
    OBVIOUS
  <1>2. <<"workflow">> \in Seq(Last) /\ <<>> \in Seq(Last)
    OBVIOUS
  <1>3. <<"manifests", "argo">> \in Seq(Last) /\ <<"manifests">> \in Seq(Last)
    OBVIOUS
  <1>4. More \in Seq(Last)
    BY <1>2, <1>3
  <1>5. Steps = Base \o More
    BY DEF Steps
  <1>6. More \in Seq(Some)
    BY <1>4
  <1> HIDE DEF Base, More, Last, Some
  <1>7. Len(More) \in Nat /\ \A i \in 1 .. Len(More) : More[i] \in Last
    BY <1>4, LenProperties
  <1>8. /\ Base \o More \in Seq(Some)
        /\ Len(Base \o More) = 7 + Len(More)
        /\ \A i \in 1 .. 7 + Len(More) :
             (Base \o More)[i] = IF i <= 7 THEN Base[i] ELSE More[i - 7]
    <2>1. /\ Base \o More \in Seq(Some)
          /\ Len(Base \o More) = Len(Base) + Len(More)
          /\ \A i \in 1 .. Len(Base) + Len(More) :
               (Base \o More)[i] = IF i <= Len(Base) THEN Base[i] ELSE More[i - Len(Base)]
      BY <1>1, <1>6, ConcatProperties
    <2>2. QED
      BY <1>1, <2>1
  <1>9. DOMAIN (Base \o More) = 1 .. Len(Base \o More)
    BY <1>8, LenProperties
  <1>10. \A i \in 8 .. Len(Steps) : Steps[i] \in Last
    BY <1>5, <1>7, <1>8
  <1>11. QED
    BY <1>1, <1>5, <1>7, <1>8, <1>9, <1>10 DEF Last

\* The undos in the order in which a creation registers them, and how many of
\* them it has when it is about to take a step.
UndoOrder == <<"quota", "app", "namespace", "dns", "project">>

Registered(step) ==
  IF step = 1 THEN 1 ELSE IF step = 2 THEN 2 ELSE IF step < 5 THEN 3
  ELSE IF step < 8 THEN 4 ELSE 5

\* An undo list is a beginning of UndoOrder.
InOrder(undo) == Len(undo) <= 5 /\ \A i \in 1 .. Len(undo) : undo[i] = UndoOrder[i]

LEMMA OrderFacts ==
  /\ UndoOrder[1] = "quota" /\ UndoOrder[2] = "app" /\ UndoOrder[3] = "namespace"
  /\ UndoOrder[4] = "dns" /\ UndoOrder[5] = "project"
  BY DEF UndoOrder

LEMMA OrderKnown ==
  ASSUME NEW n \in 1 .. 5
  PROVE  /\ UndoOrder[n] = "quota" => n = 1
         /\ UndoOrder[n] = "project" => n = 5
         /\ UndoOrder[n] = "namespace" => n = 3
         /\ UndoOrder[n] \in {"app", "dns"} => n \in {2, 4}
  <1>1. n = 1 \/ n = 2 \/ n = 3 \/ n = 4 \/ n = 5
    OBVIOUS
  <1>2. QED
    BY <1>1, OrderFacts

LEMMA OneMore ==
  ASSUME NEW undo \in Seq(Undos), InOrder(undo), Len(undo) < 5
  PROVE  LET longer == undo \o <<UndoOrder[Len(undo) + 1]>> IN
           InOrder(longer) /\ Len(longer) = Len(undo) + 1
  <1> DEFINE x == UndoOrder[Len(undo) + 1]
             longer == undo \o <<x>>
  <1>1. Len(undo) \in Nat
    BY LenProperties
  <1>2. x \in Undos
    BY <1>1, OrderFacts DEF Undos, Undoable
  <1>3. <<x>> \in Seq(Undos) /\ Len(<<x>>) = 1 /\ <<x>>[1] = x
    BY <1>2
  <1> HIDE DEF x
  <1>4. /\ Len(longer) = Len(undo) + 1
        /\ \A i \in 1 .. Len(undo) + 1 :
             longer[i] = IF i <= Len(undo) THEN undo[i] ELSE <<x>>[i - Len(undo)]
    BY <1>3, ConcatProperties
  <1>5. \A i \in 1 .. Len(undo) + 1 : longer[i] = UndoOrder[i]
    <2> TAKE i \in 1 .. Len(undo) + 1
    <2>1. CASE i <= Len(undo)
      BY <1>1, <1>4, <2>1 DEF InOrder
    <2>2. CASE i = Len(undo) + 1
      <3>1. longer[i] = <<x>>[1]
        BY <1>1, <1>4, <2>2
      <3>2. QED
        BY <1>3, <2>2, <3>1 DEF x
    <2>3. QED
      BY <1>1, <2>1, <2>2
  <1>6. QED
    BY <1>1, <1>4, <1>5 DEF InOrder, x

LEMMA Shorter ==
  ASSUME NEW undo \in Seq(Undos), undo # <<>>
  PROVE  \E less \in Seq(Undos) :
           /\ less = SubSeq(undo, 1, Len(undo) - 1)
           /\ Len(undo) \in Nat /\ Len(undo) # 0
           /\ Len(less) = Len(undo) - 1 /\ \A i \in 1 .. Len(undo) - 1 : less[i] = undo[i]
  <1> DEFINE n == Len(undo)
             less == SubSeq(undo, 1, n - 1)
  <1>1. n \in Nat /\ n # 0
    BY LenProperties, EmptySeq
  <1>2. \A i \in 1 .. n - 1 : undo[i] \in Undos
    BY <1>1, LenProperties
  <1> HIDE DEF n
  <1>3. /\ less \in Seq(Undos)
        /\ Len(less) = IF 1 <= n - 1 THEN (n - 1) - 1 + 1 ELSE 0
        /\ \A i \in 1 .. (n - 1) - 1 + 1 : less[i] = undo[1 + i - 1]
    BY <1>1, <1>2, SubSeqProperties
  <1> HIDE DEF less
  <1>4. (n - 1) - 1 + 1 = n - 1 /\ (~(1 <= n - 1) => n - 1 = 0)
    BY <1>1
  <1>5. Len(less) = n - 1
    BY <1>3, <1>4
  <1>6. \A i \in 1 .. n - 1 : less[i] = undo[i]
    BY <1>1, <1>3
  <1>7. less = SubSeq(undo, 1, n - 1)
    BY DEF less
  <1>8. QED
    BY <1>1, <1>3, <1>5, <1>6, <1>7 DEF n

LEMMA OneLess ==
  ASSUME NEW undo \in Seq(Undos), InOrder(undo), undo # <<>>,
         NEW less, less = SubSeq(undo, 1, Len(undo) - 1)
  PROVE  /\ InOrder(less) /\ Len(less) = Len(undo) - 1
         /\ undo[Len(undo)] = UndoOrder[Len(undo)] /\ Len(undo) \in 1 .. 5
  <1>1. PICK l \in Seq(Undos) :
          /\ l = less
          /\ Len(undo) \in Nat /\ Len(undo) # 0
          /\ Len(l) = Len(undo) - 1 /\ \A i \in 1 .. Len(undo) - 1 : l[i] = undo[i]
    BY Shorter
  <1>2. \A i \in 1 .. Len(undo) : undo[i] = UndoOrder[i]
    BY DEF InOrder
  <1>3. \A i \in 1 .. Len(undo) - 1 : l[i] = UndoOrder[i]
    BY <1>1, <1>2
  <1>4. Len(undo) <= 5
    BY DEF InOrder
  <1>5. InOrder(l)
    BY <1>1, <1>3, <1>4 DEF InOrder
  <1> DEFINE n == Len(undo)
  <1>6. n \in Nat /\ n # 0 /\ n <= 5 /\ \A i \in 1 .. n : undo[i] = UndoOrder[i]
    BY <1>1, <1>2, <1>4
  <1> HIDE DEF n
  <1>7. n \in 1 .. 5 /\ undo[n] = UndoOrder[n]
    BY <1>6
  <1>8. QED
    BY <1>1, <1>5, <1>7 DEF n

-----------------------------------------------------------------------------
(* What each action does to the record of its creation.                    *)

LEMMA CreateRecord ==
  ASSUME TypeOK, NEW c \in Creates
  PROVE  /\ create[c] \in CreateRecords
         /\ create[c].pc \in CreatePc /\ create[c].undo \in Seq(Undos)
         /\ create[c].step \in 1 .. (Len(Steps) + 1)
         /\ create[c].pc # "idle" => create[c].row \in Rows
  BY DEF TypeOK, CreateTypeOK, CreateRecords

\* A creation only writes its own record.
LEMMA OnlyOwn ==
  ASSUME TypeOK, NEW c \in Creates, CreateStep(c)
  PROVE  /\ \A i \in Creates \ {c} : create'[i] = create[i]
         /\ UNCHANGED <<delete, toggle, updates, crashes>>
  <1>0. create \in [Creates -> CreateRecords]
    BY DEF TypeOK, CreateTypeOK
  <1>1. CASE Begin(c) \/ ReserveLock(c) \/ ReserveCommit(c) \/ Finish(c) \/ Undo(c) \/ Undone(c)
    BY <1>0, <1>1
    DEF Begin, ReserveLock, ReserveCommit, Finish, Undo, Undone, CreateTo, createRest
  <1>2. CASE Make(c) \/ InsertProject(c) \/ InsertDeployment(c)
    BY <1>0, <1>2
    DEF Make, MakeFails, InsertProject, InsertDeployment, Made, CreateTo, createRest
  <1>3. QED
    BY <1>1, <1>2 DEF CreateStep

LEMMA BeginEffect ==
  ASSUME TypeOK, NEW c \in Creates, Begin(c)
  PROVE  /\ create[c].pc = "idle" /\ create'[c].pc = "reserve"
         /\ create'[c].step = create[c].step /\ create'[c].undo = create[c].undo
         /\ create'[c].row \in Rows
         /\ \A i \in Creates : project[i].there => project[i].name # create'[c].row.name
         /\ Busy(create'[c].row.name) => "rival" \in mishaps'
         /\ mishaps \subseteq mishaps' /\ UNCHANGED <<used, project, ext>>
  <1>1. PICK name \in Names, ns \in Namespaces, preset \in Presets :
          /\ \A i \in Creates : project[i].there => project[i].name # name
          /\ create' = [create EXCEPT ![c].pc = "reserve", ![c].row = Row(name, ns, preset)]
          /\ mishaps' = IF Busy(name) THEN mishaps \cup {"rival"} ELSE mishaps
    BY DEF Begin
  <1>2. create \in [Creates -> CreateRecords] /\ create[c] \in CreateRecords
    BY DEF TypeOK, CreateTypeOK
  <1>3. /\ create'[c].pc = "reserve" /\ create'[c].row = Row(name, ns, preset)
        /\ create'[c].step = create[c].step /\ create'[c].undo = create[c].undo
    BY <1>1, <1>2 DEF CreateRecords
  <1>4. Row(name, ns, preset) \in Rows /\ Row(name, ns, preset).name = name
    BY DEF Row, Rows
  <1>5. UNCHANGED <<used, project, ext>>
    BY DEF Begin, quotaVars
  <1>6. create[c].pc = "idle"
    BY DEF Begin
  <1>7. QED
    BY <1>1, <1>3, <1>4, <1>5, <1>6

LEMMA ReserveLockEffect ==
  ASSUME TypeOK, NEW c \in Creates, ReserveLock(c)
  PROVE  /\ create[c].pc = "reserve" /\ create'[c].pc = "write"
         /\ create'[c].row = create[c].row
         /\ create'[c].step = create[c].step /\ create'[c].undo = create[c].undo
         /\ UNCHANGED <<used, project, ext, mishaps>>
  <1>1. create \in [Creates -> CreateRecords] /\ create[c] \in CreateRecords
    BY DEF TypeOK, CreateTypeOK
  <1>2. QED
    BY <1>1 DEF ReserveLock, CreateRecords

LEMMA ReserveCommitEffect ==
  ASSUME TypeOK, ReadIsFresh, NEW c \in Creates, ReserveCommit(c)
  PROVE  /\ create[c].pc = "write" /\ create'[c].row = create[c].row
         /\ create'[c].step = create[c].step
         /\ \/ /\ create'[c].pc = "make" /\ create'[c].undo = <<"quota">>
               /\ used' = Plus(used, create[c].row.preset)
            \/ /\ create'[c].pc = "refused" /\ create'[c].undo = create[c].undo
               /\ used' = used
         /\ UNCHANGED <<project, ext, mishaps>>
  <1>1. create \in [Creates -> CreateRecords] /\ create[c] \in CreateRecords
    BY DEF TypeOK, CreateTypeOK
  <1>2. create[c].pc = "write" /\ create[c].seen = used
    BY DEF ReserveCommit, ReadIsFresh
  <1>3. CASE /\ used' = Plus(create[c].seen, Asked(c).preset)
             /\ create' = [create EXCEPT ![c].pc = "make", ![c].undo = <<"quota">>, ![c].seen = Zero]
    BY <1>1, <1>2, <1>3 DEF ReserveCommit, CreateRecords, Asked
  <1>4. CASE /\ create' = [create EXCEPT ![c].pc = "refused", ![c].seen = Zero]
             /\ UNCHANGED used
    BY <1>1, <1>2, <1>4 DEF ReserveCommit, CreateRecords
  <1>5. QED
    BY <1>3, <1>4 DEF ReserveCommit

LEMMA MadeEffect ==
  ASSUME TypeOK, NEW c \in Creates, NEW register, Made(c, register)
  PROVE  /\ create'[c].pc = create[c].pc /\ create'[c].row = create[c].row
         /\ create'[c].step = create[c].step + 1 /\ create'[c].undo = create[c].undo \o register
  <1>1. create \in [Creates -> CreateRecords] /\ create[c] \in CreateRecords
    BY DEF TypeOK, CreateTypeOK
  <1> DEFINE r == create[c].undo \o register
  <1>2. create' = [create EXCEPT ![c].step = create[c].step + 1, ![c].undo = r]
    BY DEF Made
  <1> HIDE DEF r
  <1>3. /\ create'[c].pc = create[c].pc /\ create'[c].row = create[c].row
        /\ create'[c].step = create[c].step + 1 /\ create'[c].undo = r
    BY <1>1, <1>2 DEF CreateRecords
  <1>4. QED
    BY <1>3 DEF r

LEMMA FailsEffect ==
  ASSUME TypeOK, NEW c \in Creates, NEW pc, CreateTo(c, pc)
  PROVE  /\ create'[c].pc = pc /\ create'[c].row = create[c].row
         /\ create'[c].step = create[c].step /\ create'[c].undo = create[c].undo
  <1>1. create \in [Creates -> CreateRecords] /\ create[c] \in CreateRecords
    BY DEF TypeOK, CreateTypeOK
  <1>2. QED
    BY <1>1 DEF CreateTo, CreateRecords

LEMMA FinishEffect ==
  ASSUME TypeOK, NEW c \in Creates, Finish(c)
  PROVE  /\ create[c].pc = "make" /\ create[c].step > Len(Steps)
         /\ create'[c].pc = "done" /\ create'[c].row = create[c].row
         /\ create'[c].step = 1 /\ create'[c].undo = <<>>
         /\ UNCHANGED <<used, project, ext, mishaps>>
  <1>1. create \in [Creates -> CreateRecords] /\ create[c] \in CreateRecords
    BY DEF TypeOK, CreateTypeOK
  <1>2. QED
    BY <1>1 DEF Finish, CreateRecords, quotaVars

LEMMA UndoneEffect ==
  ASSUME TypeOK, NEW c \in Creates, Undone(c)
  PROVE  /\ create[c].pc = "undo" /\ create[c].undo = <<>>
         /\ create'[c].pc = "failed" /\ create'[c].row = create[c].row
         /\ create'[c].step = 1 /\ create'[c].undo = <<>>
         /\ UNCHANGED <<used, project, ext, mishaps>>
  <1>1. create \in [Creates -> CreateRecords] /\ create[c] \in CreateRecords
    BY DEF TypeOK, CreateTypeOK
  <1>2. QED
    BY <1>1 DEF Undone, CreateRecords, quotaVars

LEMMA CrashEffect ==
  ASSUME TypeOK, Crash, NEW c \in Creates
  PROVE  /\ create'[c].row = create[c].row
         /\ \/ /\ create[c].pc \in {"reserve", "write"} /\ create'[c].pc = "refused"
               /\ create'[c].step = create[c].step /\ create'[c].undo = create[c].undo
            \/ /\ create[c].pc \in {"make", "undo"} /\ create'[c].pc = "gone"
               /\ create'[c].step = 1 /\ create'[c].undo = <<>>
            \/ /\ create[c].pc \notin {"reserve", "write", "make", "undo"}
               /\ create'[c] = create[c]
  <1>1. create[c] \in CreateRecords
    BY DEF TypeOK, CreateTypeOK
  <1>2. CASE create[c].pc \in {"reserve", "write"}
    BY <1>1, <1>2 DEF Crash, CreateRecords
  <1>3. CASE create[c].pc \in {"make", "undo"}
    <2>1. create'[c] = [create[c] EXCEPT !.pc = "gone", !.step = 1, !.undo = <<>>]
      BY <1>3 DEF Crash
    <2>2. QED
      BY <1>1, <1>3, <2>1 DEF CreateRecords
  <1>4. CASE create[c].pc \notin {"reserve", "write", "make", "undo"}
    BY <1>1, <1>4 DEF Crash
  <1>5. QED
    BY <1>2, <1>3, <1>4

LEMMA MakeEffect ==
  ASSUME TypeOK, NEW c \in Creates, Make(c)
  PROVE  LET step == create[c].step
             kind == KindOf(Steps[step])
         IN
         /\ create[c].pc = "make" /\ step \in 1 .. Len(Steps) /\ step \notin {6, 7}
         /\ create'[c].row = create[c].row
         /\ \/ /\ create'[c].pc = "make" /\ create'[c].step = step + 1
               /\ create'[c].undo = create[c].undo \o (IF kind \in Undoable THEN <<kind>> ELSE <<>>)
               /\ kind = "cluster" => create[c].row.ns \in ext["namespace"]
               /\ ext' = With(kind, c, create[c].row)
               /\ kind = "namespace" /\ Shares(c) => "shared" \in mishaps'
            \/ /\ create'[c].pc = "undo" /\ create'[c].step = step
               /\ create'[c].undo = create[c].undo
               /\ \/ ext' = ext
                  \/ ext' = With(kind, c, create[c].row) /\ "lost" \in mishaps'
         /\ mishaps \subseteq mishaps' /\ UNCHANGED <<used, project>>
  <1> DEFINE step == create[c].step
             kind == KindOf(Steps[step])
             register == IF kind \in Undoable THEN <<kind>> ELSE <<>>
  <1>1. create[c].pc = "make" /\ step \in 1 .. Len(Steps)
    BY CreateRecord, StepList DEF Make, AtStep
  <1>2. step \notin {6, 7}
    BY StepList DEF Make, Current
  <1>3. mishaps \subseteq mishaps' /\ UNCHANGED <<used, project>>
    BY DEF Make, quotaVars
  <1>4. CASE /\ kind = "cluster" => Asked(c).ns \in ext["namespace"]
             /\ ext' = With(kind, c, Asked(c))
             /\ Made(c, register)
             /\ mishaps' = IF kind = "namespace" /\ Shares(c)
                           THEN mishaps \cup {"shared"} ELSE mishaps
    <2>1. /\ create'[c].pc = create[c].pc /\ create'[c].row = create[c].row
          /\ create'[c].step = step + 1 /\ create'[c].undo = create[c].undo \o register
      BY <1>4, MadeEffect
    <2>2. QED
      BY <1>1, <1>2, <1>3, <1>4, <2>1 DEF Asked
  <1>5. CASE CreateTo(c, "undo") /\ (ext' = ext \/ (ext' = With(kind, c, Asked(c)) /\ "lost" \in mishaps'))
    <2>1. /\ create'[c].pc = "undo" /\ create'[c].row = create[c].row
          /\ create'[c].step = step /\ create'[c].undo = create[c].undo
      BY <1>5, FailsEffect
    <2>2. QED
      BY <1>1, <1>2, <1>3, <1>5, <2>1 DEF Asked
  <1>6. QED
    BY <1>4, <1>5 DEF Make, MakeFails, Current

LEMMA InsertProjectEffect ==
  ASSUME TypeOK, NEW c \in Creates, InsertProject(c)
  PROVE  /\ create[c].pc = "make" /\ create[c].step = 6
         /\ create'[c].row = create[c].row /\ create'[c].undo = create[c].undo
         /\ \/ /\ create'[c].pc = "make" /\ create'[c].step = 7
               /\ \A i \in Creates : project[i].there => project[i].name # create[c].row.name
               /\ project' = [project EXCEPT ![c] = create[c].row]
            \/ /\ create'[c].pc = "undo" /\ create'[c].step = 6
               /\ project' = project
         /\ UNCHANGED <<used, ext, mishaps>>
  <1>1. create[c].pc = "make" /\ create[c].step \in 1 .. Len(Steps)
    BY CreateRecord, StepList DEF InsertProject, AtStep
  <1>2. create[c].step = 6
    <2>1. Steps[create[c].step] = "project"
      BY DEF InsertProject, Current
    <2>2. QED
      BY <1>1, <2>1, StepList
  <1>3. UNCHANGED <<used, ext, mishaps>>
    BY DEF InsertProject, quotaVars
  <1>4. CASE /\ \A i \in Creates : project[i].there => project[i].name # Asked(c).name
             /\ project' = [project EXCEPT ![c] = Asked(c)]
             /\ Made(c, <<>>)
    <2>1. /\ create'[c].pc = create[c].pc /\ create'[c].row = create[c].row
          /\ create'[c].step = create[c].step + 1 /\ create'[c].undo = create[c].undo \o <<>>
      BY <1>4, MadeEffect
    <2>2. create[c].undo \o <<>> = create[c].undo
      BY CreateRecord, ConcatEmptySeq
    <2>3. QED
      BY <1>1, <1>2, <1>3, <1>4, <2>1, <2>2 DEF Asked
  <1>5. CASE CreateTo(c, "undo") /\ UNCHANGED project
    <2>1. /\ create'[c].pc = "undo" /\ create'[c].row = create[c].row
          /\ create'[c].step = create[c].step /\ create'[c].undo = create[c].undo
      BY <1>5, FailsEffect
    <2>2. QED
      BY <1>1, <1>2, <1>3, <1>5, <2>1
  <1>6. QED
    BY <1>4, <1>5 DEF InsertProject

LEMMA InsertDeploymentEffect ==
  ASSUME TypeOK, NEW c \in Creates, InsertDeployment(c)
  PROVE  /\ create[c].pc = "make" /\ create[c].step = 7 /\ create'[c].row = create[c].row
         /\ \/ /\ create'[c].pc = "make" /\ create'[c].step = 8
               /\ create'[c].undo = create[c].undo \o <<"project">>
            \/ /\ create'[c].pc = "undo" /\ create'[c].step = 7
               /\ create'[c].undo = create[c].undo /\ "orphan" \in mishaps'
         /\ mishaps \subseteq mishaps' /\ UNCHANGED <<used, project, ext>>
  <1>1. create[c].pc = "make" /\ create[c].step \in 1 .. Len(Steps)
    BY CreateRecord, StepList DEF InsertDeployment, AtStep
  <1>2. create[c].step = 7
    <2>1. Steps[create[c].step] = "deployment"
      BY DEF InsertDeployment, Current
    <2>2. QED
      BY <1>1, <2>1, StepList
  <1>3. mishaps \subseteq mishaps' /\ UNCHANGED <<used, project, ext>>
    BY DEF InsertDeployment, quotaVars
  <1>4. CASE Made(c, <<"project">>)
    <2>1. /\ create'[c].pc = create[c].pc /\ create'[c].row = create[c].row
          /\ create'[c].step = create[c].step + 1
          /\ create'[c].undo = create[c].undo \o <<"project">>
      BY <1>4, MadeEffect
    <2>2. create'[c].step = 8
      BY <1>2, <2>1
    <2>3. QED
      BY <1>1, <1>2, <1>3, <2>1, <2>2
  <1>5. CASE CreateTo(c, "undo") /\ mishaps' = mishaps \cup {"orphan"}
    BY <1>1, <1>2, <1>3, <1>5, FailsEffect
  <1>6. QED
    BY <1>4, <1>5 DEF InsertDeployment

LEMMA UndoEffect ==
  ASSUME TypeOK, NEW c \in Creates, Undo(c)
  PROVE  LET undo == create[c].undo
             last == undo[Len(undo)]
         IN
         /\ create[c].pc = "undo" /\ undo # <<>>
         /\ create'[c].pc = "undo" /\ create'[c].row = create[c].row
         /\ create'[c].step = create[c].step
         /\ create'[c].undo = SubSeq(undo, 1, Len(undo) - 1)
         /\ \/ "undo" \in mishaps' /\ UNCHANGED <<used, project, ext>>
            \/ /\ last = "quota" /\ used' = Minus(used, create[c].row.preset)
               /\ UNCHANGED <<project, ext>>
            \/ /\ last = "project" /\ project' = [project EXCEPT ![c] = NoProject]
               /\ UNCHANGED <<used, ext>>
            \/ /\ last = "namespace" /\ ext' = WithoutNamespace(create[c].row.ns)
               /\ UNCHANGED <<used, project>>
            \/ /\ last \in {"app", "dns"} /\ ext' = Without(last, c, create[c].row)
               /\ UNCHANGED <<used, project>>
         /\ mishaps \subseteq mishaps'
  <1> DEFINE undo == create[c].undo
             last == undo[Len(undo)]
             less == SubSeq(undo, 1, Len(undo) - 1)
  <1>1. create \in [Creates -> CreateRecords] /\ create[c] \in CreateRecords
    BY DEF TypeOK, CreateTypeOK
  <1>2. create' = [create EXCEPT ![c].undo = less]
    BY DEF Undo
  <1>3. \/ "undo" \in mishaps' /\ UNCHANGED <<used, project, ext>>
        \/ /\ last = "quota" /\ used' = Minus(used, Asked(c).preset)
           /\ UNCHANGED <<project, ext>>
        \/ /\ last = "project" /\ project' = [project EXCEPT ![c] = NoProject]
           /\ UNCHANGED <<used, ext>>
        \/ /\ last = "namespace" /\ ext' = WithoutNamespace(Asked(c).ns)
           /\ UNCHANGED <<used, project>>
        \/ /\ last \in {"app", "dns"} /\ ext' = Without(last, c, Asked(c))
           /\ UNCHANGED <<used, project>>
    BY DEF Undo, Release, quotaVars
  <1>4. mishaps \subseteq mishaps' /\ create[c].pc = "undo" /\ undo # <<>>
    BY DEF Undo
  <1> HIDE DEF less, last
  <1>5. /\ create'[c].pc = create[c].pc /\ create'[c].row = create[c].row
        /\ create'[c].step = create[c].step /\ create'[c].undo = less
    BY <1>1, <1>2 DEF CreateRecords
  <1>6. QED
    BY <1>3, <1>4, <1>5 DEF Asked, less, last

-----------------------------------------------------------------------------
(* Undo lists.                                                             *)

\* A creation that is under way has registered the undos of the steps it has
\* taken, in this order; any other has none.
UndoLists == \A c \in Creates :
  /\ InOrder(create[c].undo)
  /\ create[c].pc \notin {"make", "undo"} => create[c].undo = <<>> /\ create[c].step = 1
  /\ create[c].pc = "make" => Len(create[c].undo) = Registered(create[c].step)

LEMMA ShortLists ==
  /\ InOrder(<<>>) /\ Len(<<>>) = 0
  /\ InOrder(<<"quota">>) /\ Len(<<"quota">>) = 1
  <1>1. InOrder(<<>>) /\ Len(<<>>) = 0
    BY DEF InOrder
  <1>2. Len(<<"quota">>) = 1 /\ <<"quota">>[1] = "quota"
    OBVIOUS
  <1>3. InOrder(<<"quota">>)
    BY <1>2, OrderFacts DEF InOrder
  <1>4. QED
    BY <1>1, <1>2, <1>3

LEMMA MakeUndo ==
  ASSUME TypeOK, UndoLists, NEW c \in Creates, Make(c), create'[c].pc = "make"
  PROVE  InOrder(create'[c].undo) /\ Len(create'[c].undo) = Registered(create'[c].step)
  <1> DEFINE undo == create[c].undo
             step == create[c].step
             kind == KindOf(Steps[step])
  <1>1. /\ create[c].pc = "make" /\ step \in 1 .. Len(Steps) /\ step \notin {6, 7}
        /\ create'[c].step = step + 1
        /\ create'[c].undo = undo \o (IF kind \in Undoable THEN <<kind>> ELSE <<>>)
    BY MakeEffect
  <1>2. undo \in Seq(Undos) /\ InOrder(undo) /\ Len(undo) = Registered(step) /\ step \in Nat
    BY <1>1, CreateRecord, StepList DEF UndoLists
  <1>3. undo \o <<>> = undo
    BY <1>2, ConcatEmptySeq
  <1>4. CASE step \in {1, 2, 4}
    <2>1. kind = UndoOrder[Len(undo) + 1] /\ kind \in Undoable /\ Len(undo) < 5
      BY <1>2, <1>4, StepList, OrderFacts DEF KindOf, Undoable, Registered
    <2>2. InOrder(undo \o <<kind>>) /\ Len(undo \o <<kind>>) = Len(undo) + 1
      BY <1>2, <2>1, OneMore
    <2>3. Registered(step + 1) = Registered(step) + 1
      BY <1>4 DEF Registered
    <2>4. QED
      BY <1>1, <1>2, <2>1, <2>2, <2>3
  <1>5. CASE step \notin {1, 2, 4}
    <2>1. kind \notin Undoable
      <3>1. CASE step \in {3, 5}
        BY <3>1, StepList DEF KindOf, Undoable
      <3>2. CASE step \in 8 .. Len(Steps)
        <4>1. Steps[step] \in {"workflow", "manifests", "argo"}
          BY <3>2, StepList
        <4>2. QED
          BY <4>1 DEF KindOf, Undoable
      <3>3. step \in {3, 5} \/ step \in 8 .. Len(Steps)
        <4> DEFINE last == Len(Steps)
        <4>1. last \in Nat
          BY StepList
        <4>2. step \in 1 .. last /\ step \notin {6, 7} /\ step \notin {1, 2, 4}
          BY <1>1, <1>5
        <4> HIDE DEF last, step
        <4>3. step \in {3, 5} \/ step \in 8 .. last
          BY <4>1, <4>2
        <4>4. QED
          BY <4>3 DEF last
      <3>4. QED
        BY <3>1, <3>2, <3>3
    <2>2. Registered(step + 1) = Registered(step)
      BY <1>1, <1>2, <1>5 DEF Registered
    <2>3. QED
      BY <1>1, <1>2, <1>3, <2>1, <2>2
  <1>6. QED
    BY <1>4, <1>5

\* The newest undo of a creation, by how many are left.
LEMMA UndoTakesLast ==
  ASSUME TypeOK, UndoLists, NEW c \in Creates, Undo(c)
  PROVE  LET n == Len(create[c].undo)
             last == UndoOrder[n]
         IN
         /\ create[c].pc = "undo" /\ n \in 1 .. 5
         /\ create'[c].pc = "undo" /\ create'[c].row = create[c].row
         /\ create'[c].step = create[c].step
         /\ InOrder(create'[c].undo) /\ Len(create'[c].undo) = n - 1
         /\ \/ "undo" \in mishaps' /\ UNCHANGED <<used, project, ext>>
            \/ /\ n = 1 /\ used' = Minus(used, create[c].row.preset)
               /\ UNCHANGED <<project, ext>>
            \/ /\ n = 5 /\ project' = [project EXCEPT ![c] = NoProject]
               /\ UNCHANGED <<used, ext>>
            \/ /\ n = 3 /\ ext' = WithoutNamespace(create[c].row.ns)
               /\ UNCHANGED <<used, project>>
            \/ /\ n \in {2, 4} /\ ext' = Without(last, c, create[c].row)
               /\ UNCHANGED <<used, project>>
         /\ mishaps \subseteq mishaps'
  <1> DEFINE undo == create[c].undo
             n == Len(undo)
             last == UndoOrder[n]
  <1>1. undo \in Seq(Undos) /\ InOrder(undo) /\ undo # <<>>
    BY UndoEffect, CreateRecord DEF UndoLists
  <1>2. create'[c].undo = SubSeq(undo, 1, Len(undo) - 1)
    BY UndoEffect
  <1>3. /\ InOrder(create'[c].undo) /\ Len(create'[c].undo) = n - 1
        /\ undo[n] = last /\ n \in 1 .. 5
    BY <1>1, <1>2, OneLess
  <1>4. /\ last = "quota" => n = 1
        /\ last = "project" => n = 5
        /\ last = "namespace" => n = 3
        /\ last \in {"app", "dns"} => n \in {2, 4}
    BY <1>3, OrderKnown
  <1>5. /\ create[c].pc = "undo" /\ create'[c].pc = "undo"
        /\ create'[c].row = create[c].row /\ create'[c].step = create[c].step
        /\ mishaps \subseteq mishaps'
    BY UndoEffect
  <1>6. \/ "undo" \in mishaps' /\ UNCHANGED <<used, project, ext>>
        \/ /\ last = "quota" /\ used' = Minus(used, create[c].row.preset)
           /\ UNCHANGED <<project, ext>>
        \/ /\ last = "project" /\ project' = [project EXCEPT ![c] = NoProject]
           /\ UNCHANGED <<used, ext>>
        \/ /\ last = "namespace" /\ ext' = WithoutNamespace(create[c].row.ns)
           /\ UNCHANGED <<used, project>>
        \/ /\ last \in {"app", "dns"} /\ ext' = Without(last, c, create[c].row)
           /\ UNCHANGED <<used, project>>
    BY <1>3, UndoEffect
  <1> HIDE DEF last, n
  <1>7. \/ "undo" \in mishaps' /\ UNCHANGED <<used, project, ext>>
        \/ /\ n = 1 /\ used' = Minus(used, create[c].row.preset)
           /\ UNCHANGED <<project, ext>>
        \/ /\ n = 5 /\ project' = [project EXCEPT ![c] = NoProject]
           /\ UNCHANGED <<used, ext>>
        \/ /\ n = 3 /\ ext' = WithoutNamespace(create[c].row.ns)
           /\ UNCHANGED <<used, project>>
        \/ /\ n \in {2, 4} /\ ext' = Without(last, c, create[c].row)
           /\ UNCHANGED <<used, project>>
    BY <1>4, <1>6
  <1>8. QED
    BY <1>3, <1>5, <1>7 DEF n, last

\* An undo that succeeds.
LEMMA UndoWorks ==
  ASSUME TypeOK, UndoLists, NEW c \in Creates, Undo(c), "undo" \notin mishaps'
  PROVE  LET n == Len(create[c].undo) IN
         /\ n = 1 => used' = Minus(used, create[c].row.preset) /\ UNCHANGED <<project, ext>>
         /\ n = 5 => project' = [project EXCEPT ![c] = NoProject] /\ UNCHANGED <<used, ext>>
         /\ n = 3 => ext' = WithoutNamespace(create[c].row.ns) /\ UNCHANGED <<used, project>>
         /\ n \in {2, 4} =>
              ext' = Without(UndoOrder[n], c, create[c].row) /\ UNCHANGED <<used, project>>
  <1> DEFINE n == Len(create[c].undo)
             last == UndoOrder[n]
  <1>0. n \in 1 .. 5
    BY UndoTakesLast
  <1>1. \/ /\ n = 1 /\ used' = Minus(used, create[c].row.preset)
           /\ UNCHANGED <<project, ext>>
        \/ /\ n = 5 /\ project' = [project EXCEPT ![c] = NoProject]
           /\ UNCHANGED <<used, ext>>
        \/ /\ n = 3 /\ ext' = WithoutNamespace(create[c].row.ns)
           /\ UNCHANGED <<used, project>>
        \/ /\ n \in {2, 4} /\ ext' = Without(last, c, create[c].row)
           /\ UNCHANGED <<used, project>>
    BY UndoTakesLast
  <1> HIDE DEF n, last
  <1>2. /\ n = 1 => used' = Minus(used, create[c].row.preset) /\ UNCHANGED <<project, ext>>
        /\ n = 5 => project' = [project EXCEPT ![c] = NoProject] /\ UNCHANGED <<used, ext>>
        /\ n = 3 => ext' = WithoutNamespace(create[c].row.ns) /\ UNCHANGED <<used, project>>
        /\ n \in {2, 4} => ext' = Without(last, c, create[c].row) /\ UNCHANGED <<used, project>>
    BY <1>0, <1>1
  <1>3. QED
    BY <1>2 DEF n, last

LEMMA RegisteredGrows ==
  ASSUME NEW step \in Nat \ {0}
  PROVE  Registered(step + 1) >= Registered(step) /\ Registered(step) \in Nat
  <1>1. step + 1 \in Nat /\ step + 1 > step
    OBVIOUS
  <1>2. CASE step < 5
    <2>1. step = 1 \/ step = 2 \/ step = 3 \/ step = 4
      BY <1>2
    <2>2. QED
      BY <2>1 DEF Registered
  <1>3. CASE step >= 5
    <2>1. step # 1 /\ step # 2 /\ ~(step < 5)
      BY <1>3
    <2>2. step + 1 # 1 /\ step + 1 # 2 /\ ~(step + 1 < 5)
      BY <1>3
    <2>3. Registered(step) = IF step < 8 THEN 4 ELSE 5
      BY <2>1 DEF Registered
    <2>4. Registered(step + 1) = IF step + 1 < 8 THEN 4 ELSE 5
      BY <2>2 DEF Registered
    <2>5. QED
      BY <1>3, <2>3, <2>4
  <1>4. QED
    BY <1>2, <1>3

LEMMA RegisteredFacts ==
  /\ Registered(1) = 1 /\ Registered(2) = 2 /\ Registered(3) = 3 /\ Registered(5) = 4
  /\ Registered(7) = 4 /\ Registered(8) = 5
  BY DEF Registered

\* The undo list of one creation.
UndoListOf(c) ==
  /\ InOrder(create[c].undo)
  /\ create[c].pc \notin {"make", "undo"} => create[c].undo = <<>> /\ create[c].step = 1
  /\ create[c].pc = "make" => Len(create[c].undo) = Registered(create[c].step)

LEMMA UndoListsOwn ==
  ASSUME TypeOK, ReadIsFresh, UndoLists, NEW c \in Creates, CreateStep(c)
  PROVE  UndoListOf(c)'
  <1>0. UndoListOf(c) /\ create[c].undo \in Seq(Undos)
    BY CreateRecord DEF UndoLists, UndoListOf
  <1>1. CASE Begin(c)
    BY <1>0, <1>1, BeginEffect DEF UndoListOf
  <1>2. CASE ReserveLock(c)
    BY <1>0, <1>2, ReserveLockEffect DEF UndoListOf
  <1>3. CASE ReserveCommit(c)
    <2>1. CASE create'[c].pc = "make"
      <3>1. create'[c].undo = <<"quota">> /\ create'[c].step = 1
        BY <1>0, <1>3, <2>1, ReserveCommitEffect DEF UndoListOf
      <3>2. Registered(1) = 1
        BY DEF Registered
      <3>3. QED
        BY <2>1, <3>1, <3>2, ShortLists DEF UndoListOf
    <2>2. CASE create'[c].pc # "make"
      BY <1>0, <1>3, <2>2, ReserveCommitEffect DEF UndoListOf
    <2>3. QED
      BY <2>1, <2>2
  <1>4. CASE Make(c)
    <2>1. CASE create'[c].pc = "make"
      BY <1>4, <2>1, MakeUndo DEF UndoListOf
    <2>2. CASE create'[c].pc # "make"
      <3>1. create'[c].pc = "undo" /\ create'[c].undo = create[c].undo
        BY <1>4, <2>2, MakeEffect
      <3>2. QED
        BY <1>0, <3>1 DEF UndoListOf
    <2>3. QED
      BY <2>1, <2>2
  <1>5. CASE InsertProject(c)
    <2>1. Registered(6) = Registered(7)
      BY DEF Registered
    <2>2. QED
      BY <1>0, <1>5, <2>1, InsertProjectEffect DEF UndoListOf
  <1>6. CASE InsertDeployment(c)
    <2>1. CASE create'[c].pc = "make"
      <3>1. /\ create[c].pc = "make" /\ create[c].step = 7 /\ create'[c].step = 8
            /\ create'[c].undo = create[c].undo \o <<"project">>
        BY <1>6, <2>1, InsertDeploymentEffect
      <3>2. Registered(7) = 4 /\ Registered(8) = 5
        BY DEF Registered
      <3> DEFINE undo == create[c].undo
                 n == Len(undo)
      <3>3. n = 4 /\ undo \in Seq(Undos) /\ InOrder(undo)
        BY <1>0, <3>1, <3>2 DEF UndoListOf
      <3>4. InOrder(undo \o <<UndoOrder[n + 1]>>) /\ Len(undo \o <<UndoOrder[n + 1]>>) = n + 1
        <4>1. n < 5
          BY <3>3
        <4>2. QED
          BY <3>3, <4>1, OneMore
      <3>5. create'[c].undo = undo \o <<"project">>
        BY <3>1
      <3> HIDE DEF n, undo
      <3>6. n + 1 = 5
        BY <3>3
      <3>7. UndoOrder[n + 1] = "project"
        BY <3>6, OrderFacts
      <3>8. InOrder(create'[c].undo) /\ Len(create'[c].undo) = 5
        BY <3>4, <3>5, <3>6, <3>7
      <3>9. QED
        BY <2>1, <3>1, <3>2, <3>8 DEF UndoListOf
    <2>2. CASE create'[c].pc # "make"
      BY <1>0, <1>6, <2>2, InsertDeploymentEffect DEF UndoListOf
    <2>3. QED
      BY <2>1, <2>2
  <1>7. CASE Finish(c)
    BY <1>7, FinishEffect, ShortLists DEF UndoListOf
  <1>8. CASE Undo(c)
    BY <1>8, UndoTakesLast DEF UndoListOf
  <1>9. CASE Undone(c)
    BY <1>9, UndoneEffect, ShortLists DEF UndoListOf
  <1>10. QED
    BY <1>1, <1>2, <1>3, <1>4, <1>5, <1>6, <1>7, <1>8, <1>9 DEF CreateStep

LEMMA UndoListsInit == Init => UndoLists
  BY ShortLists DEF Init, IdleCreate, UndoLists

LEMMA UndoListsStep ==
  ASSUME TypeOK, ReadIsFresh, UndoLists, [Next]_vars
  PROVE  UndoLists'
  <1>1. CASE \E c \in Creates : CreateStep(c)
    <2>1. PICK c \in Creates : CreateStep(c)
      BY <1>1
    <2>2. UndoListOf(c)'
      BY <2>1, UndoListsOwn
    <2>3. \A i \in Creates \ {c} : create'[i] = create[i]
      BY <2>1, OnlyOwn
    <2>4. QED
      BY <2>2, <2>3 DEF UndoLists, UndoListOf
  <1>2. CASE Crash
    <2> SUFFICES ASSUME NEW c \in Creates PROVE UndoListOf(c)'
      BY DEF UndoLists, UndoListOf
    <2>1. UndoListOf(c)
      BY DEF UndoLists, UndoListOf
    <2>2. QED
      BY <1>2, <2>1, CrashEffect, ShortLists DEF UndoListOf
  <1>3. CASE UNCHANGED create
    BY <1>3 DEF UndoLists
  <1>4. QED
    BY <1>1, <1>2, <1>3
    DEF Next, vars, DeleteStep, DeleteLoad, DeleteCleanup, DeleteCommit, deleteRest, UpdateProject,
        UpdateWorkflow, UpdateQuota

-----------------------------------------------------------------------------
(* The parts of the invariant.                                             *)

\* A creation that is over, one that is under way, a deletion that is under way.
Ended    == {"done", "failed", "gone"}
BusyPc   == {"reserve", "write", "make", "undo"}
ActivePc == CleanupKinds \cup {"commit"}

\* Rows are what was asked for: a project has the name and the namespace of the
\* request, and its preset until somebody changes it ...
RowOfProject(c) ==
  /\ create[c].pc = "idle" => create[c].row = NoProject
  /\ project[c].there =>
       /\ create[c].pc # "idle"
       /\ project[c].name = create[c].row.name /\ project[c].ns = create[c].row.ns
       /\ None({"preset"}) => project[c].preset = create[c].row.preset

\* ... and a deletion has loaded those of a project whose creation is over.
RowOfDeletion(d) ==
  /\ delete[d].pc = "idle" <=> delete[d].id = Nobody
  /\ delete[d].pc # "idle" =>
       LET c == delete[d].id IN
       /\ c \in Creates /\ create[c].pc # "idle"
       /\ delete[d].row.name = create[c].row.name /\ delete[d].row.ns = create[c].row.ns
       /\ None({"preset"}) => delete[d].row.preset = create[c].row.preset
       /\ None({"early"}) => create[c].pc \in Ended

RowsTrue ==
  /\ \A c \in Creates : RowOfProject(c)
  /\ \A d \in Deletes : RowOfDeletion(d)

\* When there is a row: from the sixth step on, until the undo of the seventh.
StageOf(c) ==
  /\ project[c].there =>
       \/ create[c].pc \in {"done", "gone"}
       \/ create[c].pc = "make" /\ create[c].step >= 7
       \/ create[c].pc = "undo" /\ Len(create[c].undo) = 5
       \/ create[c].pc \in {"undo", "failed"} /\ ~None({"orphan", "undo"})
  /\ create[c].pc = "make" /\ create[c].step >= 7 /\ None({"early"}) => project[c].there

Stages == \A c \in Creates : StageOf(c)

\* The application and the DNS records of a creation that is not over have an undo.
OwnedOf(c) == None({"undo", "lost"}) =>
  /\ c \in ext["app"] => create[c].pc \in {"done", "gone"} \/ Len(create[c].undo) >= 2
  /\ c \in ext["dns"] => create[c].pc \in {"done", "gone"} \/ Len(create[c].undo) >= 4

Owned == \A c \in Creates : OwnedOf(c)

\* The names in use: by rows, by creations and by deletions under way.
Named(c) == create[c].pc \in BusyPc \/ project[c].there

UniqueNames == \A c, i \in Creates :
  c # i /\ project[c].there /\ project[i].there => create[c].row.name # create[i].row.name

NamesApart == None({"rival"}) =>
  /\ \A c, i \in Creates :
       c # i /\ create[c].pc \in BusyPc /\ Named(i) => create[c].row.name # create[i].row.name
  /\ \A d \in Deletes, c \in Creates :
       delete[d].pc \in ActivePc /\ delete[d].id # c /\ Named(c) =>
         delete[d].row.name # create[c].row.name

\* A creation or a project that has made its namespace.
Inhabits(c) ==
  \/ project[c].there
  \/ create[c].pc \in {"make", "undo"} /\ Len(create[c].undo) >= 3

SpacesApart == None({"shared"}) =>
  \A c, i \in Creates : c # i /\ Inhabits(c) /\ Inhabits(i) =>
    create[c].row.ns # create[i].row.ns

\* What the first steps of a creation have made is there.
Has(c, j) == LET kind == KindOf(Steps[j]) IN Key(kind, c, create[c].row) \in ext[kind]

WholeOf(c) == None({"shared", "rival"}) /\ ~Deleting(c) =>
  /\ create[c].pc = "make" =>
       \A j \in 1 .. Len(Steps) : j < create[c].step /\ j \notin {6, 7} => Has(c, j)
  /\ create[c].pc = "done" /\ project[c].there =>
       \A j \in 1 .. Len(Steps) : j \notin {6, 7} => Has(c, j)

Whole == \A c \in Creates : WholeOf(c)

\* How far a deletion has come.
Place(pc) ==
  CASE pc = "dns" -> 1 [] pc = "cluster" -> 2 [] pc = "app" -> 3 [] pc = "manifests" -> 4
    [] pc = "workflow" -> 5 [] pc = "argo" -> 6 [] pc = "commit" -> 7 [] pc = "done" -> 8
    [] OTHER -> 0

\* What a deletion without errors has left behind it is gone, and so are the DNS
\* records of a project without a row.
CleanOf(d) == None({"skipped", "early"}) =>
  LET c == delete[d].id IN
  /\ delete[d].pc = "done" => ~delete[d].errors
  /\ delete[d].pc # "idle" /\ ~project[c].there => c \notin ext["dns"]
  /\ ~delete[d].errors =>
       \A kind \in CleanupKinds :
         Place(kind) < Place(delete[d].pc) /\ (kind = "dns" \/ (None({"late"}) /\ ~Renamed(c))) =>
           Key(kind, c, delete[d].row) \notin ext[kind]

Clean == \A d \in Deletes : CleanOf(d)

-----------------------------------------------------------------------------
(* What grows, and what stays.                                             *)

LEMMA NoneShrinks ==
  ASSUME NEW kinds, mishaps \subseteq mishaps', None(kinds)'
  PROVE  None(kinds)
  BY DEF None

LEMMA NoneOf ==
  ASSUME NEW kinds, NEW m \in kinds, m \in mishaps
  PROVE  ~None(kinds)
  BY DEF None

LEMMA MishapsGrow ==
  ASSUME TypeOK, [Next]_vars
  PROVE  mishaps \subseteq mishaps'
  <1>1. CASE \E c \in Creates : CreateStep(c)
    <2>1. PICK c \in Creates : CreateStep(c)
      BY <1>1
    <2>2. CASE Make(c) \/ InsertProject(c) \/ InsertDeployment(c) \/ Undo(c)
      BY <2>2 DEF Make, InsertProject, InsertDeployment, Undo
    <2>3. CASE Begin(c)
      BY <2>3 DEF Begin
    <2>4. CASE ReserveLock(c) \/ ReserveCommit(c) \/ Finish(c) \/ Undone(c)
      BY <2>4 DEF ReserveLock, ReserveCommit, Finish, Undone
    <2>5. QED
      BY <2>1, <2>2, <2>3, <2>4 DEF CreateStep
  <1>2. CASE \E d \in Deletes : DeleteStep(d)
    BY <1>2 DEF DeleteStep, DeleteLoad, DeleteCleanup, DeleteCommit
  <1>3. CASE UpdateProject \/ UpdateWorkflow \/ UpdateQuota \/ Crash
    BY <1>3 DEF UpdateProject, UpdateWorkflow, UpdateQuota, Crash
  <1>4. CASE UNCHANGED vars
    BY <1>4 DEF vars
  <1>5. QED
    BY <1>1, <1>2, <1>3, <1>4 DEF Next

\* A request keeps what it asked for, and a creation that is over does not go on.
LEMMA RequestsStay ==
  ASSUME TypeOK, ReadIsFresh, [Next]_vars, NEW c \in Creates
  PROVE  /\ create[c].pc # "idle" => create'[c].row = create[c].row /\ create'[c].pc # "idle"
         /\ create[c].pc \in Ended => create'[c] = create[c]
         /\ create'[c].pc = "idle" => create'[c] = create[c]
  <1>1. CASE \E i \in Creates : CreateStep(i)
    <2>1. PICK i \in Creates : CreateStep(i)
      BY <1>1
    <2>2. CASE i # c
      BY <2>1, <2>2, OnlyOwn
    <2>3. CASE i = c
      <3>1. CASE Begin(c)
        BY <3>1, BeginEffect DEF Ended
      <3>2. CASE ReserveLock(c) \/ ReserveCommit(c)
        BY <3>2, ReserveLockEffect, ReserveCommitEffect DEF Ended
      <3>3. CASE Make(c)
        BY <3>3, MakeEffect DEF Ended
      <3>4. CASE InsertProject(c) \/ InsertDeployment(c)
        BY <3>4, InsertProjectEffect, InsertDeploymentEffect DEF Ended
      <3>5. CASE Finish(c) \/ Undone(c)
        BY <3>5, FinishEffect, UndoneEffect DEF Ended
      <3>6. CASE Undo(c)
        BY <3>6, UndoEffect DEF Ended
      <3>7. QED
        BY <2>1, <2>3, <3>1, <3>2, <3>3, <3>4, <3>5, <3>6 DEF CreateStep
    <2>4. QED
      BY <2>2, <2>3
  <1>2. CASE Crash
    BY <1>2, CrashEffect DEF Ended
  <1>3. CASE UNCHANGED create
    BY <1>3
  <1>4. QED
    BY <1>1, <1>2, <1>3
    DEF Next, vars, DeleteStep, DeleteLoad, DeleteCleanup, DeleteCommit, deleteRest, UpdateProject,
        UpdateWorkflow, UpdateQuota

\* The creations leave the deletions alone, and the other way round.
LEMMA DeletesOnly ==
  ASSUME TypeOK, NEW d \in Deletes, DeleteStep(d)
  PROVE  /\ create' = create /\ toggle' = toggle /\ crashes' = crashes
         /\ \A i \in Deletes \ {d} : delete'[i] = delete[i]
  <1>1. delete \in [Deletes -> DeleteRecords]
    BY DEF TypeOK, DeleteTypeOK
  <1>2. QED
    BY <1>1 DEF DeleteStep, DeleteLoad, DeleteCleanup, DeleteCommit, deleteRest

LEMMA DeleteLoadEffect ==
  ASSUME TypeOK, NEW d \in Deletes, DeleteLoad(d)
  PROVE  \E c \in Creates :
           /\ delete[d].pc = "idle" /\ project[c].there
           /\ delete'[d] = [pc |-> "dns", id |-> c, row |-> project[c], errors |-> FALSE]
           /\ create[c].pc \in {"make", "undo"} => "early" \in mishaps'
           /\ UNCHANGED <<used, project, ext>>
  <1>1. delete \in [Deletes -> DeleteRecords]
    BY DEF TypeOK, DeleteTypeOK
  <1>2. Cleanup[1] = "dns"
    BY DEF Cleanup
  <1>3. QED
    BY <1>1, <1>2 DEF DeleteLoad, quotaVars

\* The thing after this one.
After(kind) ==
  CASE kind = "dns" -> "cluster" [] kind = "cluster" -> "app" [] kind = "app" -> "manifests"
    [] kind = "manifests" -> "workflow" [] kind = "workflow" -> "argo" [] OTHER -> "commit"

LEMMA DeleteCleanupEffect ==
  ASSUME TypeOK, NEW d \in Deletes, DeleteCleanup(d)
  PROVE  LET kind == delete[d].pc
             id   == delete[d].id
             less == IF kind = "dns" /\ ~project[id].there THEN ext
                     ELSE Without(kind, id, delete[d].row)
         IN
         /\ kind \in CleanupKinds
         /\ delete'[d].pc = After(kind) /\ delete'[d].id = id /\ delete'[d].row = delete[d].row
         /\ \/ ext' = less /\ delete'[d].errors = delete[d].errors
            \/ ext' \in {ext, less} /\ delete'[d].errors
            \/ ext' = ext /\ "skipped" \in mishaps'
         /\ UNCHANGED <<used, project>>
  <1> DEFINE id   == delete[d].id
             Less(kind) == IF kind = "dns" /\ ~project[id].there THEN ext
                           ELSE Without(kind, id, delete[d].row)
             NextOf(j) == IF j < Len(Cleanup) THEN Cleanup[j + 1] ELSE "commit"
  <1>1. delete \in [Deletes -> DeleteRecords] /\ delete[d] \in DeleteRecords
    BY DEF TypeOK, DeleteTypeOK
  <1>2. PICK j \in DOMAIN Cleanup :
          /\ delete[d].pc = Cleanup[j]
          /\ \/ /\ ext' = Less(Cleanup[j])
                /\ delete' = [delete EXCEPT ![d].pc = NextOf(j)]
             \/ /\ ext' \in {ext, Less(Cleanup[j])}
                /\ delete' = [delete EXCEPT ![d].pc = NextOf(j), ![d].errors = TRUE]
             \/ /\ delete' = [delete EXCEPT ![d].pc = NextOf(j)]
                /\ mishaps' = mishaps \cup {"skipped"}
                /\ ext' = ext
    BY DEF DeleteCleanup
  <1>3. j \in 1 .. 6
    BY DEF Cleanup
  <1>4. Cleanup[j] \in CleanupKinds /\ NextOf(j) = After(Cleanup[j])
    <2>1. j = 1 \/ j = 2 \/ j = 3 \/ j = 4 \/ j = 5 \/ j = 6
      BY <1>3
    <2>2. QED
      BY <2>1 DEF Cleanup, CleanupKinds, Kinds, After
  <1>5. UNCHANGED <<used, project>>
    BY DEF DeleteCleanup, quotaVars
  <1> HIDE DEF Less, NextOf
  <1>6. \/ ext' = Less(delete[d].pc) /\ delete'[d] = [delete[d] EXCEPT !.pc = After(delete[d].pc)]
        \/ /\ ext' \in {ext, Less(delete[d].pc)}
           /\ delete'[d] = [delete[d] EXCEPT !.pc = After(delete[d].pc), !.errors = TRUE]
        \/ /\ ext' = ext /\ "skipped" \in mishaps'
           /\ delete'[d] = [delete[d] EXCEPT !.pc = After(delete[d].pc)]
    BY <1>1, <1>2, <1>4
  <1>7. /\ delete'[d].pc = After(delete[d].pc)
        /\ delete'[d].id = id /\ delete'[d].row = delete[d].row
    BY <1>1, <1>6 DEF DeleteRecords
  <1>8. \/ ext' = Less(delete[d].pc) /\ delete'[d].errors = delete[d].errors
        \/ ext' \in {ext, Less(delete[d].pc)} /\ delete'[d].errors
        \/ ext' = ext /\ "skipped" \in mishaps'
    BY <1>1, <1>6 DEF DeleteRecords
  <1>9. QED
    BY <1>2, <1>4, <1>5, <1>7, <1>8 DEF Less

LEMMA DeleteCommitEffect ==
  ASSUME TypeOK, NEW d \in Deletes, DeleteCommit(d)
  PROVE  LET c == delete[d].id IN
         /\ delete[d].pc = "commit" /\ delete'[d].id = c /\ delete'[d].row = delete[d].row
         /\ delete'[d].errors = delete[d].errors /\ ext' = ext
         /\ \/ delete'[d].pc = "refused" /\ UNCHANGED <<used, project>>
            \/ /\ delete'[d].pc = "done" /\ ~delete[d].errors
               /\ project' = [project EXCEPT ![c] = NoProject]
               /\ used' = Minus(used, delete[d].row.preset)
               /\ ~project[c].there => "twice" \in mishaps'
  <1>1. delete \in [Deletes -> DeleteRecords] /\ delete[d] \in DeleteRecords
    BY DEF TypeOK, DeleteTypeOK
  <1>2. CASE delete' = [delete EXCEPT ![d].pc = "refused"] /\ UNCHANGED <<quotaVars, project>>
    BY <1>1, <1>2 DEF DeleteCommit, DeleteRecords, quotaVars
  <1>3. CASE /\ ~delete[d].errors
             /\ project' = [project EXCEPT ![delete[d].id] = NoProject]
             /\ Release(delete[d].row.preset)
             /\ delete' = [delete EXCEPT ![d].pc = "done"]
             /\ mishaps' = IF project[delete[d].id].there THEN mishaps ELSE mishaps \cup {"twice"}
    <2>1. delete'[d] = [delete[d] EXCEPT !.pc = "done"]
      BY <1>1, <1>3
    <2>2. /\ delete'[d].pc = "done" /\ delete'[d].id = delete[d].id
          /\ delete'[d].row = delete[d].row /\ delete'[d].errors = delete[d].errors
      BY <1>1, <2>1 DEF DeleteRecords
    <2>3. delete[d].pc = "commit" /\ ext' = ext
      BY DEF DeleteCommit
    <2>4. QED
      BY <1>3, <2>2, <2>3 DEF Release
  <1>4. QED
    BY <1>2, <1>3 DEF DeleteCommit

\* Where the row of a project comes from.
LEMMA RowsComeFrom ==
  ASSUME TypeOK, ReadIsFresh, UndoLists, [Next]_vars, NEW c \in Creates, project'[c].there
  PROVE  \/ project'[c] = project[c]
         \/ InsertProject(c) /\ project'[c] = create[c].row
         \/ /\ project[c].there /\ "preset" \in mishaps'
            /\ project'[c].name = project[c].name /\ project'[c].ns = project[c].ns
            /\ UNCHANGED <<create, delete>>
  <1>0. project \in [Creates -> Rows \cup {NoProject}] /\ ~NoProject.there
    BY DEF TypeOK, RestTypeOK, NoProject
  <1>1. CASE \E i \in Creates : CreateStep(i)
    <2>1. PICK i \in Creates : CreateStep(i)
      BY <1>1
    <2>2. CASE InsertProject(i)
      <3>1. project' = project \/ project' = [project EXCEPT ![i] = create[i].row]
        BY <2>2, InsertProjectEffect
      <3>2. QED
        BY <1>0, <2>2, <3>1
    <2>3. CASE Undo(i)
      <3>1. project' = project \/ project' = [project EXCEPT ![i] = NoProject]
        BY <2>3, UndoEffect
      <3>2. QED
        BY <1>0, <3>1
    <2>4. CASE ~InsertProject(i) /\ ~Undo(i)
      BY <2>1, <2>4
      DEF CreateStep, Begin, ReserveLock, ReserveCommit, Make, InsertDeployment, Finish, Undone
    <2>5. QED
      BY <2>2, <2>3, <2>4
  <1>2. CASE \E d \in Deletes : DeleteStep(d)
    <2>1. PICK d \in Deletes : DeleteStep(d)
      BY <1>2
    <2>2. CASE DeleteCommit(d)
      <3>1. project' = project \/ project' = [project EXCEPT ![delete[d].id] = NoProject]
        BY <2>2, DeleteCommitEffect
      <3>2. QED
        BY <1>0, <3>1
    <2>3. CASE DeleteLoad(d) \/ DeleteCleanup(d)
      BY <2>3 DEF DeleteLoad, DeleteCleanup
    <2>4. QED
      BY <2>1, <2>2, <2>3 DEF DeleteStep
  <1>3. CASE UpdateProject
    <2>1. PICK i \in Creates :
            /\ project[i].there
            /\ \/ /\ \E preset \in Presets : project' = [project EXCEPT ![i].preset = preset]
                  /\ "preset" \in mishaps'
               \/ project' = project
      BY <1>3 DEF UpdateProject
    <2>2. CASE project' = project
      BY <2>2
    <2>3. CASE /\ \E preset \in Presets : project' = [project EXCEPT ![i].preset = preset]
               /\ "preset" \in mishaps'
      <3>1. PICK preset \in Presets : project' = [project EXCEPT ![i].preset = preset]
        BY <2>3
      <3>2. project[i] \in Rows
        BY <1>0, <2>1
      <3>3. /\ project'[i].name = project[i].name /\ project'[i].ns = project[i].ns
            /\ \A j \in Creates \ {i} : project'[j] = project[j]
        BY <1>0, <3>1, <3>2 DEF Rows
      <3>4. UNCHANGED <<create, delete>>
        BY <1>3 DEF UpdateProject
      <3>5. QED
        BY <2>1, <2>3, <3>3, <3>4
    <2>4. QED
      BY <2>1, <2>2, <2>3
  <1>4. CASE UpdateWorkflow \/ UpdateQuota \/ Crash \/ UNCHANGED vars
    BY <1>4 DEF UpdateWorkflow, UpdateQuota, Crash, vars
  <1>5. QED
    BY <1>1, <1>2, <1>3, <1>4 DEF Next

\* A deletion keeps what it has loaded.
LEMMA DeletionsStay ==
  ASSUME TypeOK, [Next]_vars, NEW d \in Deletes
  PROVE  \/ DeleteLoad(d)
         \/ /\ delete'[d].id = delete[d].id /\ delete'[d].row = delete[d].row
            /\ delete'[d].pc = "idle" <=> delete[d].pc = "idle"
  <1>1. CASE \E c \in Creates : CreateStep(c)
    BY <1>1, OnlyOwn
  <1>2. CASE \E i \in Deletes : DeleteStep(i)
    <2>1. PICK i \in Deletes : DeleteStep(i)
      BY <1>2
    <2>2. CASE i # d
      BY <2>1, <2>2, DeletesOnly
    <2>3. CASE i = d
      <3>1. CASE DeleteCleanup(d)
        <4>1. /\ delete[d].pc \in CleanupKinds /\ delete'[d].pc = After(delete[d].pc)
              /\ delete'[d].id = delete[d].id /\ delete'[d].row = delete[d].row
          BY <3>1, DeleteCleanupEffect
        <4>2. delete'[d].pc # "idle" /\ delete[d].pc # "idle"
          BY <4>1 DEF After, CleanupKinds, Kinds
        <4>3. QED
          BY <4>1, <4>2
      <3>2. CASE DeleteCommit(d)
        BY <3>2, DeleteCommitEffect
      <3>3. QED
        BY <2>1, <2>3, <3>1, <3>2 DEF DeleteStep
    <2>4. QED
      BY <2>2, <2>3
  <1>3. CASE Crash
    <2>1. delete[d] \in DeleteRecords
      BY DEF TypeOK, DeleteTypeOK
    <2>2. delete'[d] = delete[d] \/ (delete[d].pc # "idle" /\ delete'[d] = [delete[d] EXCEPT !.pc = "gone"])
      BY <1>3 DEF Crash
    <2>3. QED
      BY <2>1, <2>2 DEF DeleteRecords
  <1>4. CASE UNCHANGED delete
    BY <1>4
  <1>5. QED
    BY <1>1, <1>2, <1>3, <1>4
    DEF Next, vars, UpdateProject, UpdateWorkflow, UpdateQuota

LEMMA RowsInit == Init => RowsTrue
  <1> SUFFICES ASSUME Init PROVE RowsTrue
    OBVIOUS
  <1>1. \A c \in Creates : RowOfProject(c)
    BY DEF Init, RowOfProject, IdleCreate, NoProject
  <1>2. \A d \in Deletes : RowOfDeletion(d)
    BY DEF Init, RowOfDeletion, IdleDelete
  <1>3. QED
    BY <1>1, <1>2 DEF RowsTrue

LEMMA RowsStep ==
  ASSUME TypeOK, ReadIsFresh, UndoLists, RowsTrue, Stages, [Next]_vars
  PROVE  RowsTrue'
  <1>0. mishaps \subseteq mishaps'
    BY MishapsGrow
  <1>1. ASSUME NEW c \in Creates PROVE RowOfProject(c)'
    <2>1. RowOfProject(c)
      BY DEF RowsTrue
    <2>2. create'[c].pc = "idle" => create'[c].row = NoProject
      BY <2>1, RequestsStay DEF RowOfProject
    <2>3. ASSUME project'[c].there
          PROVE  /\ create'[c].pc # "idle"
                 /\ project'[c].name = create'[c].row.name /\ project'[c].ns = create'[c].row.ns
                 /\ None({"preset"})' => project'[c].preset = create'[c].row.preset
      <3>1. CASE project'[c] = project[c]
        BY <1>0, <2>1, <2>3, <3>1, RequestsStay, NoneShrinks DEF RowOfProject
      <3>2. CASE InsertProject(c) /\ project'[c] = create[c].row
        <4>1. create[c].pc = "make" /\ create'[c].row = create[c].row /\ create'[c].pc # "idle"
          BY <3>2, InsertProjectEffect
        <4>2. QED
          BY <3>2, <4>1
      <3>3. CASE /\ project[c].there /\ "preset" \in mishaps'
                 /\ project'[c].name = project[c].name /\ project'[c].ns = project[c].ns
                 /\ UNCHANGED <<create, delete>>
        <4>1. ~None({"preset"})'
          BY <3>3 DEF None
        <4>2. QED
          BY <2>1, <3>3, <4>1 DEF RowOfProject
      <3>4. QED
        BY <2>3, <3>1, <3>2, <3>3, RowsComeFrom
    <2>4. QED
      BY <2>2, <2>3 DEF RowOfProject
  <1>2. ASSUME NEW d \in Deletes PROVE RowOfDeletion(d)'
    <2>1. RowOfDeletion(d)
      BY DEF RowsTrue
    <2>2. CASE DeleteLoad(d)
      <3>1. PICK c :
              /\ project[c].there
              /\ delete'[d] = [pc |-> "dns", id |-> c, row |-> project[c], errors |-> FALSE]
              /\ create[c].pc \in {"make", "undo"} => "early" \in mishaps'
              /\ c \in Creates
        BY <2>2, DeleteLoadEffect DEF DeleteLoad
      <3>2. RowOfProject(c) /\ StageOf(c)
        BY <3>1 DEF RowsTrue, Stages
      <3>3. create' = create
        BY <2>2 DEF DeleteLoad, deleteRest
      <3>4. None({"early"})' => create[c].pc \in Ended
        BY <3>1, <3>2 DEF StageOf, None, Ended
      <3>5. c # Nobody
        BY <3>1, NobodyAssumption
      <3>6. None({"preset"})' => None({"preset"})
        BY <1>0, NoneShrinks
      <3>7. QED
        BY <3>1, <3>2, <3>3, <3>4, <3>5, <3>6 DEF RowOfDeletion, RowOfProject
    <2>3. CASE ~DeleteLoad(d)
      <3>1. /\ delete'[d].id = delete[d].id /\ delete'[d].row = delete[d].row
            /\ delete'[d].pc = "idle" <=> delete[d].pc = "idle"
        BY <2>3, DeletionsStay
      <3>2. /\ None({"preset"})' => None({"preset"})
            /\ None({"early"})' => None({"early"})
        BY <1>0, NoneShrinks
      <3>3. ASSUME delete[d].pc # "idle"
            PROVE  LET c == delete[d].id IN
                   /\ create'[c].row = create[c].row /\ create'[c].pc # "idle"
                   /\ create[c].pc \in Ended => create'[c].pc \in Ended
        BY <2>1, <3>3, RequestsStay DEF RowOfDeletion
      <3>4. QED
        BY <2>1, <3>1, <3>2, <3>3 DEF RowOfDeletion
    <2>4. QED
      BY <2>2, <2>3
  <1>3. QED
    BY <1>1, <1>2 DEF RowsTrue

-----------------------------------------------------------------------------
(* When there is a row, and what a creation owns.                          *)

\* A record is changed by its own creation and by a restart.
LEMMA RecordMoves ==
  ASSUME TypeOK, [Next]_vars, NEW c \in Creates
  PROVE  CreateStep(c) \/ create'[c] = create[c] \/ Crash
  <1>1. CASE \E i \in Creates : CreateStep(i)
    BY <1>1, OnlyOwn
  <1>2. QED
    BY <1>1
    DEF Next, vars, DeleteStep, DeleteLoad, DeleteCleanup, DeleteCommit, deleteRest, UpdateProject,
        UpdateWorkflow, UpdateQuota

\* Where a row goes.
LEMMA RowsGo ==
  ASSUME TypeOK, UndoLists, [Next]_vars, NEW c \in Creates,
         project[c].there, ~project'[c].there
  PROVE  \/ Undo(c) /\ Len(create[c].undo) = 5
         \/ \E d \in Deletes : DeleteCommit(d) /\ delete[d].id = c /\ delete[d].pc = "commit"
  <1>0. project \in [Creates -> Rows \cup {NoProject}]
    BY DEF TypeOK, RestTypeOK
  <1>1. CASE \E i \in Creates : CreateStep(i)
    <2>1. PICK i \in Creates : CreateStep(i)
      BY <1>1
    <2>2. CASE InsertProject(i)
      <3>1. create[i].row \in Rows
        BY <2>2, InsertProjectEffect, CreateRecord
      <3>2. create[i].row.there
        BY <3>1 DEF Rows
      <3>3. QED
        BY <1>0, <2>2, <3>2, InsertProjectEffect
    <2>3. CASE Undo(i)
      <3>1. \/ project' = project
            \/ Len(create[i].undo) = 5 /\ project' = [project EXCEPT ![i] = NoProject]
        BY <2>3, UndoTakesLast
      <3>2. QED
        BY <1>0, <2>3, <3>1
    <2>4. CASE ~InsertProject(i) /\ ~Undo(i)
      BY <2>1, <2>4
      DEF CreateStep, Begin, ReserveLock, ReserveCommit, Make, InsertDeployment, Finish, Undone
    <2>5. QED
      BY <2>2, <2>3, <2>4
  <1>2. CASE \E d \in Deletes : DeleteStep(d)
    <2>1. PICK d \in Deletes : DeleteStep(d)
      BY <1>2
    <2>2. CASE DeleteCommit(d)
      <3>1. /\ delete[d].pc = "commit"
            /\ project' = project \/ project' = [project EXCEPT ![delete[d].id] = NoProject]
        BY <2>2, DeleteCommitEffect
      <3>2. delete[d].id = c
        BY <1>0, <3>1
      <3>3. QED
        BY <2>2, <3>1, <3>2
    <2>3. CASE DeleteLoad(d) \/ DeleteCleanup(d)
      BY <2>3 DEF DeleteLoad, DeleteCleanup
    <2>4. QED
      BY <2>1, <2>2, <2>3 DEF DeleteStep
  <1>3. CASE UpdateProject
    <2>1. PICK i \in Creates : \/ \E preset \in Presets : project' = [project EXCEPT ![i].preset = preset]
                               \/ project' = project
      BY <1>3 DEF UpdateProject
    <2>2. \/ project'[c] = project[c]
          \/ \E preset \in Presets : project'[c] = [project[c] EXCEPT !.preset = preset]
      BY <1>0, <2>1
    <2>3. project[c] \in Rows
      BY <1>0 DEF NoProject
    <2>4. QED
      BY <2>2, <2>3 DEF Rows
  <1>4. CASE UpdateWorkflow \/ UpdateQuota \/ Crash \/ UNCHANGED vars
    BY <1>4 DEF UpdateWorkflow, UpdateQuota, Crash, vars
  <1>5. QED
    BY <1>1, <1>2, <1>3, <1>4 DEF Next

LEMMA StagesInit == Init => Stages
  BY DEF Init, Stages, StageOf, NoProject, IdleCreate

\* The own steps of a creation.
LEMMA StageOwn ==
  ASSUME TypeOK, ReadIsFresh, UndoLists, RowsTrue, Stages, NEW c \in Creates, CreateStep(c)
  PROVE  StageOf(c)'
  <1>0. /\ StageOf(c) /\ RowOfProject(c) /\ UndoListOf(c)
        /\ project \in [Creates -> Rows \cup {NoProject}]
    BY DEF Stages, RowsTrue, UndoLists, UndoListOf, TypeOK, RestTypeOK
  <1>1. [Next]_vars
    BY DEF Next
  <1>2. mishaps \subseteq mishaps'
    BY <1>1, MishapsGrow
  <1>3. CASE Begin(c)
    BY <1>0, <1>3, BeginEffect DEF StageOf, RowOfProject
  <1>4. CASE ReserveLock(c) \/ ReserveCommit(c)
    <2>1. create[c].pc \in {"reserve", "write"} /\ project' = project
      BY <1>4, ReserveLockEffect, ReserveCommitEffect
    <2>2. ~project'[c].there
      BY <1>0, <2>1 DEF StageOf
    <2>3. create'[c].pc = "make" => create'[c].step = 1
      BY <1>0, <1>4, <2>1, ReserveLockEffect, ReserveCommitEffect DEF UndoListOf
    <2>4. QED
      BY <2>2, <2>3 DEF StageOf
  <1>5. CASE Make(c)
    <2> DEFINE step == create[c].step
    <2>0. step \in Nat
      BY CreateRecord, StepList
    <2>1. /\ create[c].pc = "make" /\ step \in Nat /\ step \notin {6, 7} /\ project' = project
          /\ \/ create'[c].pc = "make" /\ create'[c].step = step + 1
             \/ create'[c].pc = "undo" /\ create'[c].undo = create[c].undo
      BY <1>5, <2>0, MakeEffect
    <2>2. Len(create[c].undo) = Registered(step)
      BY <1>0, <2>1 DEF UndoListOf
    <2>3. step >= 7 => Len(create[c].undo) = 5
      BY <2>1, <2>2 DEF Registered
    <2>4. None({"early"})' => None({"early"})
      BY <1>2, NoneShrinks
    <2>5. step + 1 >= 7 => step >= 7
      BY <2>1
    <2>6. QED
      BY <1>0, <2>1, <2>3, <2>4, <2>5 DEF StageOf
  <1>6. CASE InsertProject(c)
    <2>1. create[c].row \in Rows
      BY <1>6, InsertProjectEffect, CreateRecord
    <2>2. create[c].row.there
      BY <2>1 DEF Rows
    <2>3. ~project[c].there
      BY <1>0, <1>6, InsertProjectEffect DEF StageOf
    <2>4. QED
      BY <1>0, <1>6, <2>2, <2>3, InsertProjectEffect DEF StageOf
  <1>7. CASE InsertDeployment(c)
    <2>1. None({"early"})' => None({"early"})
      BY <1>2, NoneShrinks
    <2>2. CASE create'[c].pc = "make"
      BY <1>0, <1>7, <2>1, <2>2, InsertDeploymentEffect DEF StageOf
    <2>3. CASE create'[c].pc # "make"
      <3>1. create'[c].pc = "undo" /\ "orphan" \in mishaps'
        BY <1>7, <2>3, InsertDeploymentEffect
      <3>2. ~None({"orphan", "undo"})'
        BY <3>1 DEF None
      <3>3. QED
        BY <3>1, <3>2 DEF StageOf
    <2>4. QED
      BY <2>2, <2>3
  <1>8. CASE Finish(c)
    BY <1>8, FinishEffect DEF StageOf
  <1>9. CASE Undo(c)
    <2> DEFINE n == Len(create[c].undo)
    <2>0. /\ create[c].pc = "undo" /\ create'[c].pc = "undo" /\ n \in 1 .. 5
          /\ \/ "undo" \in mishaps'
             \/ n = 1 /\ project' = project
             \/ n = 5 /\ project' = [project EXCEPT ![c] = NoProject]
             \/ n = 3 /\ project' = project
             \/ n \in {2, 4} /\ project' = project
      BY <1>9, UndoTakesLast
    <2> HIDE DEF n
    <2>1. /\ create[c].pc = "undo" /\ create'[c].pc = "undo" /\ n \in 1 .. 5
          /\ \/ "undo" \in mishaps'
             \/ n # 5 /\ project' = project
             \/ n = 5 /\ project' = [project EXCEPT ![c] = NoProject]
      BY <2>0
    <2> USE DEF n
    <2>2. CASE "undo" \in mishaps'
      <3>1. ~None({"orphan", "undo"})'
        BY <2>2 DEF None
      <3>2. QED
        BY <2>1, <3>1 DEF StageOf
    <2>3. CASE n # 5 /\ project' = project
      <3>1. project[c].there => ~None({"orphan", "undo"})
        BY <1>0, <2>1, <2>3 DEF StageOf
      <3>2. project[c].there => ~None({"orphan", "undo"})'
        BY <1>2, <3>1, NoneShrinks
      <3>3. QED
        BY <2>1, <2>3, <3>2 DEF StageOf
    <2>4. CASE n = 5 /\ project' = [project EXCEPT ![c] = NoProject]
      <3>1. ~project'[c].there
        BY <1>0, <2>4 DEF NoProject
      <3>2. QED
        BY <2>1, <3>1 DEF StageOf
    <2>5. QED
      BY <2>1, <2>2, <2>3, <2>4
  <1>10. CASE Undone(c)
    <2>1. /\ create[c].pc = "undo" /\ create'[c].pc = "failed" /\ project' = project
          /\ Len(create[c].undo) = 0
      BY <1>10, UndoneEffect, ShortLists
    <2>2. project[c].there => ~None({"orphan", "undo"})
      BY <1>0, <2>1 DEF StageOf
    <2>3. project[c].there => ~None({"orphan", "undo"})'
      BY <1>2, <2>2, NoneShrinks
    <2>4. QED
      BY <2>1, <2>3 DEF StageOf
  <1>11. QED
    BY <1>3, <1>4, <1>5, <1>6, <1>7, <1>8, <1>9, <1>10 DEF CreateStep

LEMMA StagesStep ==
  ASSUME TypeOK, ReadIsFresh, UndoLists, RowsTrue, Stages, [Next]_vars
  PROVE  Stages'
  <1> SUFFICES ASSUME NEW c \in Creates PROVE StageOf(c)'
    BY DEF Stages
  <1>0. mishaps \subseteq mishaps' /\ StageOf(c)
    BY MishapsGrow DEF Stages
  <1>1. CASE CreateStep(c)
    BY <1>1, StageOwn
  <1>2. CASE ~CreateStep(c)
    <2>1. create'[c] = create[c] \/ Crash
      BY <1>2, RecordMoves
    <2>2. project'[c].there => project[c].there
      BY <1>2, RowsComeFrom DEF CreateStep
    <2>3. None({"early"})' => None({"early"})
      BY <1>0, NoneShrinks
    <2>4. None({"orphan", "undo"})' => None({"orphan", "undo"})
      BY <1>0, NoneShrinks
    <2>5. create[c].pc = "make" /\ None({"early"})' /\ project[c].there => project'[c].there
      <3> SUFFICES ASSUME create[c].pc = "make", project[c].there, ~project'[c].there
                   PROVE  ~None({"early"})
        BY <2>3
      <3>1. PICK d \in Deletes : delete[d].id = c /\ delete[d].pc = "commit"
        BY <1>2, RowsGo DEF CreateStep
      <3>2. RowOfDeletion(d)
        BY DEF RowsTrue
      <3>3. QED
        BY <3>1, <3>2 DEF RowOfDeletion, Ended
    <2>6. CASE create'[c] = create[c]
      BY <1>0, <2>2, <2>3, <2>4, <2>5, <2>6 DEF StageOf
    <2>7. CASE Crash
      BY <1>0, <2>2, <2>4, <2>7, CrashEffect DEF StageOf
    <2>8. QED
      BY <2>1, <2>6, <2>7
  <1>3. QED
    BY <1>1, <1>2

-----------------------------------------------------------------------------
(* What comes into being outside of the database, and what goes.           *)

LEMMA Adds ==
  ASSUME TypeOK, NEW kind \in Kinds, NEW id, NEW row, ext' = With(kind, id, row), NEW k \in Kinds
  PROVE  ext'[k] = IF k = kind THEN ext[k] \cup {Key(kind, id, row)} ELSE ext[k]
  BY DEF TypeOK, RestTypeOK, With

LEMMA Removes ==
  ASSUME TypeOK, NEW kind \in Kinds, NEW id, NEW row, ext' = Without(kind, id, row), NEW k \in Kinds
  PROVE  ext'[k] = IF k = kind THEN ext[k] \ {Key(kind, id, row)} ELSE ext[k]
  BY DEF TypeOK, RestTypeOK, Without

LEMMA Empties ==
  ASSUME TypeOK, NEW ns, ext' = WithoutNamespace(ns), NEW k \in Kinds
  PROVE  ext'[k] = IF k = "namespace" THEN ext[k] \ {ns}
                   ELSE IF k = "cluster" THEN {x \in ext[k] : x[2] # ns} ELSE ext[k]
  <1>1. "namespace" \in DOMAIN ext /\ "cluster" \in DOMAIN ext /\ k \in DOMAIN ext
    BY DEF TypeOK, RestTypeOK, Kinds
  <1>2. QED
    BY <1>1 DEF WithoutNamespace

LEMMA KeyFacts ==
  ASSUME NEW id, NEW row
  PROVE  /\ Key("app", id, row) = id /\ Key("dns", id, row) = id
         /\ Key("namespace", id, row) = row.ns
         /\ Key("cluster", id, row) = <<row.name, row.ns>>
         /\ Key("manifests", id, row) = row.name /\ Key("workflow", id, row) = row.name
         /\ Key("argo", id, row) = row.name
  BY DEF Key

\* What each step makes.
LEMMA StepKinds ==
  ASSUME NEW j \in 1 .. Len(Steps), j \notin {6, 7}
  PROVE  LET kind == KindOf(Steps[j]) IN
         /\ kind \in Kinds
         /\ kind = "app" => j = 1
         /\ kind = "namespace" => j = 2
         /\ kind = "cluster" => j \in {3, 5}
         /\ kind = "dns" => j = 4
         /\ j = 1 => kind = "app"
         /\ j = 2 => kind = "namespace"
         /\ j = 4 => kind = "dns"
  <1>1. CASE j \in 1 .. 5
    <2>1. j = 1 \/ j = 2 \/ j = 3 \/ j = 4 \/ j = 5
      BY <1>1
    <2>2. QED
      BY <2>1, StepList DEF KindOf, Kinds
  <1>2. CASE j \in 8 .. Len(Steps)
    <2>1. Steps[j] \in {"workflow", "manifests", "argo"}
      BY <1>2, StepList
    <2>2. j \notin {1, 2, 3, 4, 5}
      BY <1>2, StepList
    <2>3. QED
      BY <2>1, <2>2 DEF KindOf, Kinds
  <1>3. j \in 1 .. 5 \/ j \in 8 .. Len(Steps)
    <2> DEFINE last == Len(Steps)
    <2>1. last \in Nat
      BY StepList
    <2>2. j \in 1 .. last /\ j \notin {6, 7}
      OBVIOUS
    <2> HIDE DEF last
    <2>3. j \in 1 .. 5 \/ j \in 8 .. last
      BY <2>1, <2>2
    <2>4. QED
      BY <2>3 DEF last
  <1>4. QED
    BY <1>1, <1>2, <1>3

LEMMA ComesFrom ==
  ASSUME TypeOK, ReadIsFresh, UndoLists, [Next]_vars,
         NEW kind \in Kinds, NEW x \in ext'[kind], x \notin ext[kind]
  PROVE  \/ \E i \in Creates :
              /\ Make(i) /\ kind = KindOf(Steps[create[i].step])
              /\ x = Key(kind, i, create[i].row)
         \/ /\ UpdateWorkflow /\ kind = "workflow" /\ toggle.there /\ x = toggle.name
            /\ (\E d \in Deletes : /\ delete[d].pc \notin {"idle", "refused"}
                                   /\ delete[d].row.name = toggle.name) => "late" \in mishaps'
  <1>1. CASE \E i \in Creates : CreateStep(i)
    <2>1. PICK i \in Creates : CreateStep(i)
      BY <1>1
    <2>2. CASE Make(i)
      <3> DEFINE made == KindOf(Steps[create[i].step])
      <3>1. create[i].step \in 1 .. Len(Steps) /\ create[i].step \notin {6, 7}
        BY <2>2, MakeEffect
      <3>2. ext' = ext \/ ext' = With(made, i, create[i].row)
        BY <2>2, MakeEffect
      <3>3. made \in Kinds
        BY <3>1, StepKinds
      <3> HIDE DEF made
      <3>4. ASSUME ext' = With(made, i, create[i].row)
            PROVE  ext'[kind] = IF kind = made THEN ext[kind] \cup {Key(made, i, create[i].row)}
                                ELSE ext[kind]
        BY <3>3, <3>4, Adds
      <3>5. kind = made /\ x = Key(made, i, create[i].row)
        BY <3>2, <3>4
      <3>6. QED
        BY <2>2, <3>5 DEF made
    <2>3. CASE Undo(i)
      <3> DEFINE last == UndoOrder[Len(create[i].undo)]
      <3>1. \/ ext' = ext
            \/ ext' = WithoutNamespace(create[i].row.ns)
            \/ /\ Len(create[i].undo) \in {2, 4} /\ ext' = Without(last, i, create[i].row)
        BY <2>3, UndoTakesLast
      <3>2. Len(create[i].undo) \in {2, 4} => last \in Kinds
        BY OrderFacts DEF Kinds
      <3> HIDE DEF last
      <3>3. ASSUME ext' = Without(last, i, create[i].row), last \in Kinds
            PROVE  ext'[kind] \subseteq ext[kind]
        BY <3>3, Removes
      <3>4. ASSUME ext' = WithoutNamespace(create[i].row.ns)
            PROVE  ext'[kind] \subseteq ext[kind]
        BY <3>4, Empties
      <3>5. QED
        BY <3>1, <3>2, <3>3, <3>4
    <2>4. CASE ~Make(i) /\ ~Undo(i)
      BY <2>1, <2>4
      DEF CreateStep, Begin, ReserveLock, ReserveCommit, InsertProject, InsertDeployment, Finish,
          Undone
    <2>5. QED
      BY <2>2, <2>3, <2>4
  <1>2. CASE \E d \in Deletes : DeleteStep(d)
    <2>1. PICK d \in Deletes : DeleteStep(d)
      BY <1>2
    <2>2. CASE DeleteCleanup(d)
      <3>1. /\ delete[d].pc \in CleanupKinds
            /\ ext' = ext \/ ext' = Without(delete[d].pc, delete[d].id, delete[d].row)
        BY <2>2, DeleteCleanupEffect
      <3>2. delete[d].pc \in Kinds
        BY <3>1 DEF CleanupKinds
      <3>3. ASSUME ext' = Without(delete[d].pc, delete[d].id, delete[d].row)
            PROVE  ext'[kind] = IF kind = delete[d].pc
                                THEN ext[kind] \ {Key(delete[d].pc, delete[d].id, delete[d].row)}
                                ELSE ext[kind]
        BY <3>2, <3>3, Removes
      <3>4. QED
        BY <3>1, <3>3
    <2>3. CASE DeleteLoad(d) \/ DeleteCommit(d)
      BY <2>3 DEF DeleteLoad, DeleteCommit
    <2>4. QED
      BY <2>1, <2>2, <2>3 DEF DeleteStep
  <1>3. CASE UpdateWorkflow
    <2>1. CASE ext' = With("workflow", Nobody, toggle)
      <3>1. "workflow" \in Kinds
        BY DEF Kinds
      <3>2. ext'[kind] = IF kind = "workflow"
                          THEN ext[kind] \cup {Key("workflow", Nobody, toggle)} ELSE ext[kind]
        BY <2>1, <3>1, Adds
      <3>3. kind = "workflow" /\ x = toggle.name
        BY <3>2, KeyFacts
      <3>4. ext' # ext
        OBVIOUS
      <3>5. QED
        BY <1>3, <3>3, <3>4 DEF UpdateWorkflow
    <2>2. CASE ext' = ext
      BY <2>2
    <2>3. QED
      BY <1>3, <2>1, <2>2 DEF UpdateWorkflow
  <1>4. CASE UpdateProject \/ UpdateQuota \/ Crash \/ UNCHANGED vars
    BY <1>4 DEF UpdateProject, UpdateQuota, Crash, vars
  <1>5. QED
    BY <1>1, <1>2, <1>3, <1>4 DEF Next

LEMMA GoesBy ==
  ASSUME TypeOK, ReadIsFresh, UndoLists, [Next]_vars,
         NEW kind \in Kinds, NEW x \in ext[kind], x \notin ext'[kind]
  PROVE  \/ \E i \in Creates :
              /\ Undo(i)
              /\ \/ kind = "namespace" /\ Len(create[i].undo) = 3 /\ x = create[i].row.ns
                 \/ kind = "cluster" /\ Len(create[i].undo) = 3 /\ x[2] = create[i].row.ns
                 \/ kind = "app" /\ Len(create[i].undo) = 2 /\ x = i
                 \/ kind = "dns" /\ Len(create[i].undo) = 4 /\ x = i
         \/ \E d \in Deletes :
              /\ DeleteCleanup(d) /\ delete[d].pc = kind
              /\ x = Key(kind, delete[d].id, delete[d].row)
  <1>1. CASE \E i \in Creates : CreateStep(i)
    <2>1. PICK i \in Creates : CreateStep(i)
      BY <1>1
    <2>2. CASE Make(i)
      <3> DEFINE made == KindOf(Steps[create[i].step])
      <3>1. create[i].step \in 1 .. Len(Steps) /\ create[i].step \notin {6, 7}
        BY <2>2, MakeEffect
      <3>2. ext' = ext \/ ext' = With(made, i, create[i].row)
        BY <2>2, MakeEffect
      <3>3. made \in Kinds
        BY <3>1, StepKinds
      <3> HIDE DEF made
      <3>4. ASSUME ext' = With(made, i, create[i].row)
            PROVE  ext'[kind] = IF kind = made THEN ext[kind] \cup {Key(made, i, create[i].row)}
                                ELSE ext[kind]
        BY <3>3, <3>4, Adds
      <3>5. QED
        BY <3>2, <3>4
    <2>3. CASE Undo(i)
      <3> DEFINE n == Len(create[i].undo)
                 last == UndoOrder[n]
      <3>1. \/ ext' = ext
            \/ n = 3 /\ ext' = WithoutNamespace(create[i].row.ns)
            \/ n \in {2, 4} /\ ext' = Without(last, i, create[i].row)
        BY <2>3, UndoTakesLast
      <3>2. CASE ext' = ext
        BY <3>2
      <3>3. CASE n = 3 /\ ext' = WithoutNamespace(create[i].row.ns)
        <4>1. ext'[kind] = IF kind = "namespace" THEN ext[kind] \ {create[i].row.ns}
                           ELSE IF kind = "cluster" THEN {y \in ext[kind] : y[2] # create[i].row.ns}
                           ELSE ext[kind]
          BY <3>3, Empties
        <4>2. QED
          BY <2>3, <3>3, <4>1
      <3>4. CASE n \in {2, 4} /\ ext' = Without(last, i, create[i].row)
        <4>1. \/ n = 2 /\ last = "app"
              \/ n = 4 /\ last = "dns"
          BY <3>4, OrderFacts
        <4>2. last \in Kinds
          BY <4>1 DEF Kinds
        <4> HIDE DEF last
        <4>3. ext'[kind] = IF kind = last THEN ext[kind] \ {Key(last, i, create[i].row)} ELSE ext[kind]
          BY <3>4, <4>2, Removes
        <4>4. kind = last /\ x = Key(last, i, create[i].row)
          BY <4>3
        <4>5. x = i
          BY <4>1, <4>4, KeyFacts
        <4>6. QED
          BY <2>3, <4>1, <4>4, <4>5
      <3>5. QED
        BY <3>1, <3>2, <3>3, <3>4
    <2>4. CASE ~Make(i) /\ ~Undo(i)
      BY <2>1, <2>4
      DEF CreateStep, Begin, ReserveLock, ReserveCommit, InsertProject, InsertDeployment, Finish,
          Undone
    <2>5. QED
      BY <2>2, <2>3, <2>4
  <1>2. CASE \E d \in Deletes : DeleteStep(d)
    <2>1. PICK d \in Deletes : DeleteStep(d)
      BY <1>2
    <2>2. CASE DeleteCleanup(d)
      <3>1. /\ delete[d].pc \in CleanupKinds
            /\ ext' = ext \/ ext' = Without(delete[d].pc, delete[d].id, delete[d].row)
        BY <2>2, DeleteCleanupEffect
      <3>2. delete[d].pc \in Kinds
        BY <3>1 DEF CleanupKinds
      <3>3. ASSUME ext' = Without(delete[d].pc, delete[d].id, delete[d].row)
            PROVE  ext'[kind] = IF kind = delete[d].pc
                                THEN ext[kind] \ {Key(delete[d].pc, delete[d].id, delete[d].row)}
                                ELSE ext[kind]
        BY <3>2, <3>3, Removes
      <3>4. kind = delete[d].pc /\ x = Key(delete[d].pc, delete[d].id, delete[d].row)
        BY <3>1, <3>3
      <3>5. QED
        BY <2>2, <3>4
    <2>3. CASE DeleteLoad(d) \/ DeleteCommit(d)
      BY <2>3 DEF DeleteLoad, DeleteCommit
    <2>4. QED
      BY <2>1, <2>2, <2>3 DEF DeleteStep
  <1>3. CASE UpdateWorkflow
    <2>1. CASE ext' = With("workflow", Nobody, toggle)
      <3>1. "workflow" \in Kinds
        BY DEF Kinds
      <3>2. ext'[kind] = IF kind = "workflow"
                          THEN ext[kind] \cup {Key("workflow", Nobody, toggle)} ELSE ext[kind]
        BY <2>1, <3>1, Adds
      <3>3. QED
        BY <3>2
    <2>2. CASE ext' = ext
      BY <2>2
    <2>3. QED
      BY <1>3, <2>1, <2>2 DEF UpdateWorkflow
  <1>4. CASE UpdateProject \/ UpdateQuota \/ Crash \/ UNCHANGED vars
    BY <1>4 DEF UpdateProject, UpdateQuota, Crash, vars
  <1>5. QED
    BY <1>1, <1>2, <1>3, <1>4 DEF Next

-----------------------------------------------------------------------------
(* What a creation owns outside of the database.                           *)

\* The undo of this thing is the n-th.
OwnedKind(c, kind, n) ==
  c \in ext[kind] => create[c].pc \in {"done", "gone"} \/ Len(create[c].undo) >= n

LEMMA OwnedInit == Init => Owned
  BY DEF Init, Owned, OwnedOf, Kinds

LEMMA OwnedKept ==
  ASSUME TypeOK, ReadIsFresh, UndoLists, [Next]_vars, NEW c \in Creates,
         None({"undo", "lost"})',
         NEW kind, NEW n, (kind = "app" /\ n = 2) \/ (kind = "dns" /\ n = 4),
         OwnedKind(c, kind, n)
  PROVE  OwnedKind(c, kind, n)'
  <1> SUFFICES ASSUME c \in ext'[kind], create'[c].pc \notin {"done", "gone"}
               PROVE  Len(create'[c].undo) >= n
    BY DEF OwnedKind
  <1> DEFINE left == Len(create[c].undo)
  <1>0. /\ kind \in Kinds /\ UndoListOf(c) /\ n \in Nat /\ create[c].undo \in Seq(Undos)
        /\ left \in Nat
    BY CreateRecord, LenProperties DEF Kinds, UndoLists, UndoListOf
  <1>1. "undo" \notin mishaps' /\ "lost" \notin mishaps'
    BY DEF None
  <1>2. CASE c \notin ext[kind]
    <2>1. PICK i \in Creates :
            /\ Make(i) /\ kind = KindOf(Steps[create[i].step]) /\ c = Key(kind, i, create[i].row)
      BY <1>0, <1>2, ComesFrom
    <2>2. i = c
      BY <2>1, KeyFacts
    <2> DEFINE step == create[c].step
    <2>3. /\ step \in 1 .. Len(Steps) /\ step \notin {6, 7}
          /\ \/ create'[c].pc = "make" /\ create'[c].step = step + 1
             \/ create'[c].pc = "undo" /\ ext' = ext
      BY <1>1, <2>1, <2>2, MakeEffect
    <2>4. kind = "app" => step = 1
      BY <2>1, <2>2, <2>3, StepKinds
    <2>5. kind = "dns" => step = 4
      BY <2>1, <2>2, <2>3, StepKinds
    <2>6. create'[c].pc = "make" /\ create'[c].step = step + 1
      BY <1>2, <2>3
    <2>7. UndoLists'
      BY UndoListsStep
    <2>8. Len(create'[c].undo) = Registered(step + 1)
      BY <2>6, <2>7 DEF UndoLists
    <2>9. Registered(2) = 2 /\ Registered(5) = 4
      BY DEF Registered
    <2>10. QED
      BY <2>4, <2>5, <2>8, <2>9
  <1>3. CASE c \in ext[kind]
    <2>1. create[c].pc \in {"done", "gone"} \/ left >= n
      BY <1>3 DEF OwnedKind
    <2>2. create[c].pc \notin {"done", "gone"}
      BY RequestsStay DEF Ended
    <2>3. left >= n /\ create[c].pc \in {"make", "undo"}
      BY <1>0, <2>1, <2>2, ShortLists DEF UndoListOf
    <2>4. CASE CreateStep(c)
      <3>1. CASE Make(c)
        <4>1. CASE create'[c].pc = "undo"
          BY <2>3, <3>1, <4>1, MakeEffect
        <4>2. CASE create'[c].pc # "undo"
          <5> DEFINE step == create[c].step
          <5>1. create'[c].pc = "make" /\ create'[c].step = step + 1 /\ create[c].pc = "make"
            BY <3>1, <4>2, MakeEffect
          <5>2. UndoLists'
            BY UndoListsStep
          <5>3. Len(create'[c].undo) = Registered(step + 1) /\ left = Registered(step) /\ step \in Nat \ {0}
            BY <1>0, <5>1, <5>2, CreateRecord, StepList DEF UndoLists, UndoListOf
          <5>4. Registered(step + 1) >= Registered(step)
            BY <5>3, RegisteredGrows
          <5>5. QED
            BY <2>3, <5>3, <5>4
        <4>3. QED
          BY <4>1, <4>2
      <3>2. CASE InsertProject(c)
        BY <2>3, <3>2, InsertProjectEffect
      <3>3. CASE InsertDeployment(c)
        <4>1. CASE create'[c].pc = "undo"
          BY <2>3, <3>3, <4>1, InsertDeploymentEffect
        <4>2. CASE create'[c].pc # "undo"
          <5>1. create'[c].pc = "make" /\ create'[c].step = 8
            BY <3>3, <4>2, InsertDeploymentEffect
          <5>2. UndoLists'
            BY UndoListsStep
          <5>3. Len(create'[c].undo) = 5
            BY <5>1, <5>2, RegisteredFacts DEF UndoLists
          <5>4. QED
            BY <5>3
        <4>3. QED
          BY <4>1, <4>2
      <3>4. CASE Undo(c)
        <4> DEFINE last == UndoOrder[left]
        <4>0. left \in 1 .. 5 /\ Len(create'[c].undo) = left - 1
          BY <3>4, UndoTakesLast
        <4>1. /\ left \in 1 .. 5 /\ Len(create'[c].undo) = left - 1
              /\ left = n => ext' = Without(last, c, create[c].row)
          BY <1>1, <3>4, <4>0, UndoWorks
        <4>2. ASSUME left = n PROVE FALSE
          <5>1. last = kind
            BY <4>2, OrderFacts
          <5> HIDE DEF last
          <5>2. ext'[kind] = ext[kind] \ {Key(kind, c, create[c].row)}
            BY <1>0, <4>1, <4>2, <5>1, Removes
          <5>3. QED
            BY <5>2, KeyFacts
        <4> HIDE DEF left
        <4>3. left - 1 >= n
          BY <1>0, <2>3, <4>2
        <4>4. QED
          BY <4>1, <4>3
      <3>5. CASE Undone(c)
        BY <1>0, <2>3, <3>5, UndoneEffect, ShortLists
      <3>6. QED
        BY <2>3, <2>4, <3>1, <3>2, <3>3, <3>4, <3>5, FinishEffect
        DEF CreateStep, Begin, ReserveLock, ReserveCommit
    <2>5. CASE create'[c] = create[c]
      BY <2>3, <2>5
    <2>6. CASE Crash
      BY <2>3, <2>6, CrashEffect
    <2>7. QED
      BY <2>4, <2>5, <2>6, RecordMoves
  <1>4. QED
    BY <1>2, <1>3

LEMMA OwnedStep ==
  ASSUME TypeOK, ReadIsFresh, UndoLists, Owned, [Next]_vars
  PROVE  Owned'
  <1> SUFFICES ASSUME NEW c \in Creates, None({"undo", "lost"})'
               PROVE  OwnedKind(c, "app", 2)' /\ OwnedKind(c, "dns", 4)'
    BY DEF Owned, OwnedOf, OwnedKind
  <1>1. None({"undo", "lost"})
    BY MishapsGrow, NoneShrinks
  <1>2. OwnedKind(c, "app", 2) /\ OwnedKind(c, "dns", 4)
    BY <1>1 DEF Owned, OwnedOf, OwnedKind
  <1>3. QED
    BY <1>2, OwnedKept

\* What the saga is for, from the parts of the invariant.
LEMMA CompensatedFollows ==
  ASSUME UndoLists, Stages, Owned
  PROVE  Compensated
  <1> SUFFICES ASSUME NEW c \in Creates, create[c].pc = "failed"
               PROVE  /\ None({"undo", "orphan"}) => ~project[c].there
                      /\ None({"undo", "lost"}) => c \notin ext["app"] \cup ext["dns"]
    BY DEF Compensated
  <1>1. Len(create[c].undo) = 0
    BY ShortLists DEF UndoLists
  <1>2. None({"undo", "orphan"}) => None({"orphan", "undo"})
    BY DEF None
  <1>3. StageOf(c) /\ OwnedOf(c)
    BY DEF Stages, Owned
  <1>4. QED
    BY <1>1, <1>2, <1>3 DEF StageOf, OwnedOf

-----------------------------------------------------------------------------
(* Names and namespaces.                                                   *)

\* A creation becomes busy when it begins.
LEMMA BusyFrom ==
  ASSUME TypeOK, ReadIsFresh, UndoLists, [Next]_vars, NEW c \in Creates,
         create'[c].pc \in BusyPc
  PROVE  create[c].pc \in BusyPc \/ Begin(c)
  <1>1. CASE CreateStep(c)
    BY <1>1
    DEF CreateStep, ReserveLock, ReserveCommit, Make, AtStep, InsertProject, InsertDeployment, Finish,
        Undo, Undone, BusyPc
  <1>2. CASE Crash
    BY <1>2, CrashEffect DEF BusyPc
  <1>3. QED
    BY <1>1, <1>2, RecordMoves

LEMMA NamedFrom ==
  ASSUME TypeOK, ReadIsFresh, UndoLists, [Next]_vars, NEW c \in Creates, Named(c)'
  PROVE  Named(c) \/ Begin(c)
  <1>1. CASE create'[c].pc \in BusyPc
    BY <1>1, BusyFrom DEF Named
  <1>2. CASE project'[c].there
    <2>1. CASE InsertProject(c)
      BY <2>1, InsertProjectEffect DEF Named, BusyPc
    <2>2. CASE ~InsertProject(c)
      BY <1>2, <2>2, RowsComeFrom DEF Named
    <2>3. QED
      BY <2>1, <2>2
  <1>3. QED
    BY <1>1, <1>2 DEF Named

\* A deletion becomes active when it loads the row.
LEMMA ActiveFrom ==
  ASSUME TypeOK, [Next]_vars, NEW d \in Deletes, delete'[d].pc \in ActivePc
  PROVE  \/ DeleteLoad(d)
         \/ /\ delete[d].pc \in ActivePc
            /\ delete'[d].id = delete[d].id /\ delete'[d].row = delete[d].row
  <1>1. CASE \E c \in Creates : CreateStep(c)
    BY <1>1, OnlyOwn
  <1>2. CASE \E i \in Deletes : DeleteStep(i)
    <2>1. PICK i \in Deletes : DeleteStep(i)
      BY <1>2
    <2>2. CASE i # d
      BY <2>1, <2>2, DeletesOnly
    <2>3. CASE i = d
      <3>1. CASE DeleteCleanup(d)
        BY <3>1, DeleteCleanupEffect DEF ActivePc
      <3>2. CASE DeleteCommit(d)
        BY <3>2, DeleteCommitEffect DEF ActivePc
      <3>3. QED
        BY <2>1, <2>3, <3>1, <3>2 DEF DeleteStep
    <2>4. QED
      BY <2>2, <2>3
  <1>3. CASE Crash
    <2>1. delete[d] \in DeleteRecords
      BY DEF TypeOK, DeleteTypeOK
    <2>2. delete'[d] = delete[d] \/ delete'[d] = [delete[d] EXCEPT !.pc = "gone"]
      BY <1>3 DEF Crash
    <2>3. QED
      BY <2>1, <2>2 DEF DeleteRecords, ActivePc, CleanupKinds, Kinds
  <1>4. CASE UNCHANGED delete
    BY <1>4
  <1>5. QED
    BY <1>1, <1>2, <1>3, <1>4
    DEF Next, vars, UpdateProject, UpdateWorkflow, UpdateQuota

LEMMA NamesInit == Init => UniqueNames /\ NamesApart
  BY DEF Init, UniqueNames, NamesApart, NoProject, IdleCreate, BusyPc, Named

\* A name that is in use is known.
LEMMA NamedStays ==
  ASSUME TypeOK, ReadIsFresh, RowsTrue, [Next]_vars, NEW c \in Creates, Named(c)
  PROVE  create'[c].row = create[c].row
  BY RequestsStay DEF Named, BusyPc, RowsTrue, RowOfProject

LEMMA UniqueStep ==
  ASSUME TypeOK, ReadIsFresh, UndoLists, RowsTrue, UniqueNames, [Next]_vars
  PROVE  UniqueNames'
  <1>1. ASSUME NEW c \in Creates, NEW i \in Creates, c # i, InsertProject(c),
               project'[c].there, project'[i].there
        PROVE  create'[c].row.name # create'[i].row.name
    <2>1. project'[i] = project[i] /\ create'[i] = create[i]
      BY <1>1, InsertProjectEffect, OnlyOwn DEF CreateStep, TypeOK, RestTypeOK
    <2>2. RowOfProject(c) /\ RowOfProject(i)
      BY DEF RowsTrue
    <2>3. create'[c].row = create[c].row
      BY <1>1, InsertProjectEffect
    <2>4. CASE create'[c].pc = "make"
      <3>1. project[i].name # create[c].row.name
        BY <1>1, <2>1, <2>4, InsertProjectEffect
      <3>2. QED
        BY <1>1, <2>1, <2>2, <2>3, <3>1 DEF RowOfProject
    <2>5. CASE create'[c].pc # "make"
      <3>1. project' = project
        BY <1>1, <2>5, InsertProjectEffect
      <3>2. QED
        BY <1>1, <2>1, <2>3, <3>1 DEF UniqueNames
    <2>6. QED
      BY <2>4, <2>5
  <1>2. ASSUME NEW c \in Creates, project'[c].there, ~InsertProject(c)
        PROVE  project[c].there /\ create'[c].row = create[c].row
    <2>1. project[c].there
      BY <1>2, RowsComeFrom
    <2>2. QED
      BY <2>1, NamedStays DEF Named
  <1>3. QED
    BY <1>1, <1>2 DEF UniqueNames

LEMMA NamesStep ==
  ASSUME TypeOK, ReadIsFresh, UndoLists, RowsTrue, UniqueNames, NamesApart, [Next]_vars
  PROVE  NamesApart'
  <1> SUFFICES ASSUME None({"rival"})'
               PROVE  /\ \A c, i \in Creates :
                           c # i /\ create'[c].pc \in BusyPc /\ Named(i)' =>
                             create'[c].row.name # create'[i].row.name
                      /\ \A d \in Deletes, c \in Creates :
                           delete'[d].pc \in ActivePc /\ delete'[d].id # c /\ Named(c)' =>
                             delete'[d].row.name # create'[c].row.name
    BY DEF NamesApart
  <1>0. None({"rival"}) /\ "rival" \notin mishaps'
    BY MishapsGrow, NoneShrinks DEF None
  <1>1. ASSUME NEW c \in Creates, Begin(c)
        PROVE  /\ ~Busy(create'[c].row.name)
               /\ \A i \in Creates : project[i].there => project[i].name # create'[c].row.name
               /\ \A i \in Creates \ {c} : create'[i] = create[i] /\ project'[i] = project[i]
               /\ delete' = delete
    BY <1>0, <1>1, BeginEffect, OnlyOwn DEF CreateStep
  <1>2. ASSUME NEW c \in Creates, NEW i \in Creates, c # i,
               create'[c].pc \in BusyPc, Named(i)'
        PROVE  create'[c].row.name # create'[i].row.name
    <2>1. CASE Begin(c)
      <3>1. create'[i] = create[i] /\ project'[i] = project[i]
        BY <1>1, <1>2, <2>1
      <3>2. CASE create[i].pc \in BusyPc
        BY <1>1, <2>1, <3>1, <3>2 DEF Busy, BusyPc, Asked
      <3>3. CASE project[i].there
        <4>1. RowOfProject(i)
          BY DEF RowsTrue
        <4>2. QED
          BY <1>1, <2>1, <3>1, <3>3, <4>1 DEF RowOfProject
      <3>4. QED
        BY <1>2, <3>1, <3>2, <3>3 DEF Named
    <2>2. CASE ~Begin(c) /\ Begin(i)
      <3>1. create[c].pc \in BusyPc
        BY <1>2, <2>2, BusyFrom
      <3>2. create'[c] = create[c]
        BY <1>1, <1>2, <2>2
      <3>3. QED
        BY <1>1, <2>2, <3>1, <3>2 DEF Busy, BusyPc, Asked
    <2>3. CASE ~Begin(c) /\ ~Begin(i)
      <3>1. create[c].pc \in BusyPc /\ Named(i)
        BY <1>2, <2>3, BusyFrom, NamedFrom
      <3>2. create'[c].row = create[c].row /\ create'[i].row = create[i].row
        BY <3>1, NamedStays DEF Named
      <3>3. QED
        BY <1>0, <1>2, <3>1, <3>2 DEF NamesApart
    <2>4. QED
      BY <2>1, <2>2, <2>3
  <1>3. ASSUME NEW d \in Deletes, NEW c \in Creates,
               delete'[d].pc \in ActivePc, delete'[d].id # c, Named(c)'
        PROVE  delete'[d].row.name # create'[c].row.name
    <2>1. CASE DeleteLoad(d)
      <3>1. PICK e \in Creates :
              /\ project[e].there
              /\ delete'[d] = [pc |-> "dns", id |-> e, row |-> project[e], errors |-> FALSE]
              /\ UNCHANGED <<project, create>>
        BY <2>1, DeleteLoadEffect DEF DeleteLoad, deleteRest
      <3>2. RowOfProject(e) /\ e # c /\ Named(c)
        BY <1>3, <3>1 DEF RowsTrue, Named
      <3>3. create[e].row.name # create[c].row.name
        BY <1>0, <3>1, <3>2 DEF NamesApart, UniqueNames, Named
      <3>4. QED
        BY <3>1, <3>2, <3>3 DEF RowOfProject
    <2>2. CASE ~DeleteLoad(d)
      <3>1. /\ delete[d].pc \in ActivePc
            /\ delete'[d].id = delete[d].id /\ delete'[d].row = delete[d].row
        BY <1>3, <2>2, ActiveFrom
      <3>2. CASE Begin(c)
        BY <1>1, <3>1, <3>2 DEF Busy, ActivePc
      <3>3. CASE ~Begin(c)
        <4>1. Named(c) /\ create'[c].row = create[c].row
          BY <1>3, <3>3, NamedFrom, NamedStays
        <4>2. QED
          BY <1>0, <1>3, <3>1, <4>1 DEF NamesApart
      <3>4. QED
        BY <3>2, <3>3
    <2>3. QED
      BY <2>1, <2>2
  <1>4. QED
    BY <1>2, <1>3

\* A creation comes into its namespace when it has made it.
LEMMA InhabitsFrom ==
  ASSUME TypeOK, ReadIsFresh, UndoLists, [Next]_vars, NEW c \in Creates, Inhabits(c)'
  PROVE  \/ Inhabits(c)
         \/ Make(c) /\ create[c].step = 2 /\ create'[c].pc = "make"
  <1>0. UndoListOf(c) /\ UndoLists' /\ create[c].undo \in Seq(Undos) /\ Len(create[c].undo) \in Nat
    BY CreateRecord, UndoListsStep, LenProperties DEF UndoLists, UndoListOf
  <1>1. CASE project'[c].there
    <2>1. CASE InsertProject(c)
      <3>1. create[c].pc = "make" /\ create[c].step = 6
        BY <2>1, InsertProjectEffect
      <3>2. Len(create[c].undo) = 4
        BY <1>0, <3>1 DEF UndoListOf, Registered
      <3>3. QED
        BY <3>1, <3>2 DEF Inhabits
    <2>2. CASE ~InsertProject(c)
      BY <1>1, <2>2, RowsComeFrom DEF Inhabits
    <2>3. QED
      BY <2>1, <2>2
  <1>2. CASE create'[c].pc \in {"make", "undo"} /\ Len(create'[c].undo) >= 3
    <2>1. CASE Begin(c) \/ ReserveLock(c) \/ Finish(c) \/ Undone(c)
      BY <1>2, <2>1, BeginEffect, ReserveLockEffect, FinishEffect, UndoneEffect
    <2>2. CASE ReserveCommit(c)
      <3>1. create'[c].pc = "refused" \/ create'[c].undo = <<"quota">>
        BY <2>2, ReserveCommitEffect
      <3>2. CASE create'[c].undo = <<"quota">>
        <4>1. Len(create'[c].undo) = 1
          BY <3>2, ShortLists
        <4>2. QED
          BY <1>2, <4>1
      <3>3. QED
        BY <1>2, <3>1, <3>2
    <2>3. CASE Make(c)
      <3>1. CASE create'[c].pc = "undo"
        BY <1>2, <2>3, <3>1, MakeEffect DEF Inhabits
      <3>2. CASE create'[c].pc # "undo"
        <4> DEFINE step == create[c].step
        <4>1. create[c].pc = "make" /\ create'[c].pc = "make" /\ create'[c].step = step + 1
          BY <2>3, <3>2, MakeEffect
        <4>2. step \in Nat \ {0} /\ step + 1 >= 1
          BY CreateRecord, StepList
        <4>3. Len(create[c].undo) = Registered(step) /\ Registered(step + 1) >= 3
          BY <1>0, <1>2, <4>1 DEF UndoListOf, UndoLists
        <4> HIDE DEF step
        <4>4. step = 2 \/ Registered(step) >= 3
          <5>1. CASE step = 1
            BY <4>3, <5>1, RegisteredFacts
          <5>2. CASE step # 1 /\ step # 2
            BY <4>2, <5>2 DEF Registered
          <5>3. QED
            BY <5>1, <5>2
        <4>5. QED
          BY <2>3, <4>1, <4>3, <4>4 DEF Inhabits, step
      <3>3. QED
        BY <3>1, <3>2
    <2>4. CASE InsertProject(c)
      BY <1>2, <2>4, InsertProjectEffect DEF Inhabits
    <2>5. CASE InsertDeployment(c)
      <3>1. create[c].pc = "make" /\ create[c].step = 7
        BY <2>5, InsertDeploymentEffect
      <3>2. Len(create[c].undo) = 4
        BY <1>0, <3>1, RegisteredFacts DEF UndoListOf
      <3>3. QED
        BY <3>1, <3>2 DEF Inhabits
    <2>6. CASE Undo(c)
      <3>1. create[c].pc = "undo" /\ Len(create'[c].undo) = Len(create[c].undo) - 1
        BY <2>6, UndoTakesLast
      <3>2. QED
        BY <1>0, <1>2, <3>1 DEF Inhabits
    <2>7. CASE create'[c] = create[c]
      BY <1>2, <2>7 DEF Inhabits
    <2>8. CASE Crash
      BY <1>2, <2>8, CrashEffect DEF Inhabits
    <2>9. QED
      BY <2>1, <2>2, <2>3, <2>4, <2>5, <2>6, <2>7, <2>8, RecordMoves DEF CreateStep
  <1>3. QED
    BY <1>1, <1>2 DEF Inhabits

LEMMA SpacesInit == Init => SpacesApart
  BY DEF Init, SpacesApart, Inhabits, NoProject, IdleCreate

LEMMA SpacesStep ==
  ASSUME TypeOK, ReadIsFresh, UndoLists, RowsTrue, SpacesApart, [Next]_vars
  PROVE  SpacesApart'
  <1> SUFFICES ASSUME None({"shared"})'
               PROVE  \A c, i \in Creates : c # i /\ Inhabits(c)' /\ Inhabits(i)' =>
                        create'[c].row.ns # create'[i].row.ns
    BY DEF SpacesApart
  <1>0. None({"shared"}) /\ "shared" \notin mishaps'
    BY MishapsGrow, NoneShrinks DEF None
  <1>1. ASSUME NEW c \in Creates, Inhabits(c)
        PROVE  create'[c].row = create[c].row /\ create[c].row.there
    <2>1. create[c].pc # "idle" /\ create[c].row \in Rows
      BY <1>1, CreateRecord DEF Inhabits, RowsTrue, RowOfProject
    <2>2. QED
      BY <2>1, RequestsStay DEF Rows
  <1>2. ASSUME NEW c \in Creates, NEW i \in Creates, c # i,
               Make(c), create[c].step = 2, create'[c].pc = "make", Inhabits(i)
        PROVE  create'[c].row.ns # create'[i].row.ns
    <2>1. KindOf(Steps[create[c].step]) = "namespace"
      BY <1>2, StepList DEF KindOf
    <2>2. create'[c].row = create[c].row /\ ~Shares(c)
      BY <1>0, <1>2, <2>1, MakeEffect
    <2>3. create'[i].row = create[i].row /\ create[i].row.there
      BY <1>1, <1>2
    <2>4. QED
      BY <1>2, <2>2, <2>3 DEF Shares, Asked, Inhabits
  <1>3. ASSUME NEW c \in Creates, NEW i \in Creates, c # i, Inhabits(c)', Inhabits(i)'
        PROVE  create'[c].row.ns # create'[i].row.ns
    <2>1. CASE Inhabits(c) /\ Inhabits(i)
      BY <1>0, <1>1, <1>3, <2>1 DEF SpacesApart
    <2>2. CASE Inhabits(c) /\ ~Inhabits(i)
      BY <1>2, <1>3, <2>2, InhabitsFrom
    <2>3. CASE ~Inhabits(c) /\ Inhabits(i)
      BY <1>2, <1>3, <2>3, InhabitsFrom
    <2>4. CASE ~Inhabits(c) /\ ~Inhabits(i)
      <3>1. Make(c) /\ create'[i].pc = "make" /\ create[i].step = 2 /\ Make(i) /\ create'[c].pc = "make"
            /\ create[c].step = 2
        BY <1>3, <2>4, InhabitsFrom
      <3>2. create'[i] = create[i]
        BY <1>3, <3>1, OnlyOwn DEF CreateStep
      <3>3. create'[i].step = create[i].step + 1
        BY <3>1, MakeEffect
      <3>4. create[i].step = create[i].step + 1
        BY <3>2, <3>3
      <3>5. QED
        BY <3>1, <3>4
    <2>5. QED
      BY <2>1, <2>2, <2>3, <2>4
  <1>4. QED
    BY <1>3

-----------------------------------------------------------------------------
(* What a creation has made stays.                                         *)

LEMMA WholeInit == Init => Whole
  BY DEF Init, Whole, WholeOf, IdleCreate

LEMMA HasStays ==
  ASSUME TypeOK, ReadIsFresh, UndoLists, RowsTrue, UniqueNames, NamesApart, SpacesApart, [Next]_vars,
         None({"shared", "rival"}), NEW c \in Creates, ~Deleting(c),
         NEW j \in 1 .. Len(Steps), j \notin {6, 7}, Has(c, j),
         \/ create[c].pc = "make" /\ j < create[c].step
         \/ create[c].pc = "done" /\ project[c].there
  PROVE  Has(c, j)'
  <1> DEFINE kind == KindOf(Steps[j])
             x == Key(kind, c, create[c].row)
  <1>1. Named(c) /\ create'[c].row = create[c].row
    BY RequestsStay DEF Named, BusyPc
  <1>2. /\ kind \in Kinds /\ x \in ext[kind]
        /\ kind \in {"namespace", "cluster"} => j >= 2
    BY StepKinds DEF Has
  <1>3. None({"shared"}) /\ None({"rival"})
    BY DEF None
  <1>4. kind \in {"namespace", "cluster"} => Inhabits(c)
    <2>1. CASE create[c].pc = "done" /\ project[c].there
      BY <2>1 DEF Inhabits
    <2>2. CASE create[c].pc = "make" /\ j < create[c].step
      <3> DEFINE step == create[c].step
      <3>1. step \in Nat /\ Len(create[c].undo) = Registered(step)
        BY <2>2, CreateRecord, StepList DEF UndoLists
      <3>2. ASSUME j >= 2 PROVE Registered(step) >= 3
        <4>1. step # 1 /\ step # 2
          BY <2>2, <3>2
        <4> HIDE DEF step
        <4>2. QED
          BY <3>1, <4>1 DEF Registered
      <3>3. QED
        BY <1>2, <2>2, <3>1, <3>2 DEF Inhabits
    <2>3. QED
      BY <2>1, <2>2
  <1> SUFFICES ASSUME x \notin ext'[kind] PROVE FALSE
    BY <1>1 DEF Has
  <1>5. CASE \E i \in Creates :
               /\ Undo(i)
               /\ \/ kind = "namespace" /\ Len(create[i].undo) = 3 /\ x = create[i].row.ns
                  \/ kind = "cluster" /\ Len(create[i].undo) = 3 /\ x[2] = create[i].row.ns
                  \/ kind = "app" /\ Len(create[i].undo) = 2 /\ x = i
                  \/ kind = "dns" /\ Len(create[i].undo) = 4 /\ x = i
    <2>1. PICK i \in Creates :
               /\ Undo(i)
               /\ \/ kind = "namespace" /\ Len(create[i].undo) = 3 /\ x = create[i].row.ns
                  \/ kind = "cluster" /\ Len(create[i].undo) = 3 /\ x[2] = create[i].row.ns
                  \/ kind = "app" /\ Len(create[i].undo) = 2 /\ x = i
                  \/ kind = "dns" /\ Len(create[i].undo) = 4 /\ x = i
      BY <1>5
    <2>2. create[i].pc = "undo" /\ i # c
      BY <2>1 DEF Undo
    <2>3. CASE kind \in {"app", "dns"}
      <3>1. x = c
        BY <2>3, KeyFacts
      <3>2. QED
        BY <2>1, <2>2, <2>3, <3>1
    <2>4. CASE kind \in {"namespace", "cluster"}
      <3>1. create[i].row.ns = create[c].row.ns /\ Len(create[i].undo) = 3
        <4>1. CASE kind = "namespace"
          BY <2>1, <4>1, KeyFacts
        <4>2. CASE kind = "cluster"
          BY <2>1, <4>2, KeyFacts
        <4>3. QED
          BY <2>4, <4>1, <4>2
      <3>2. Inhabits(i) /\ Inhabits(c)
        BY <1>4, <2>2, <2>4, <3>1 DEF Inhabits
      <3>3. QED
        BY <1>3, <2>2, <3>1, <3>2 DEF SpacesApart
    <2>5. QED
      BY <2>1, <2>3, <2>4
  <1>6. CASE \E d \in Deletes :
               /\ DeleteCleanup(d) /\ delete[d].pc = kind
               /\ x = Key(kind, delete[d].id, delete[d].row)
    <2>1. PICK d \in Deletes :
               /\ DeleteCleanup(d) /\ delete[d].pc = kind
               /\ x = Key(kind, delete[d].id, delete[d].row)
      BY <1>6
    <2>2. kind \in CleanupKinds /\ delete[d].pc \in ActivePc /\ delete[d].id # c
      BY <2>1, DeleteCleanupEffect DEF ActivePc, Deleting
    <2>3. delete[d].row.name # create[c].row.name
      BY <1>1, <1>3, <2>2 DEF NamesApart
    <2>4. CASE kind \in {"app", "dns"}
      BY <2>1, <2>2, <2>4, KeyFacts
    <2>5. CASE kind = "cluster"
      <3>1. <<create[c].row.name, create[c].row.ns>> = <<delete[d].row.name, delete[d].row.ns>>
        BY <2>1, <2>5, KeyFacts
      <3>2. QED
        BY <2>3, <3>1
    <2>6. CASE kind \in {"manifests", "workflow", "argo"}
      BY <2>1, <2>3, <2>6, KeyFacts
    <2>7. QED
      BY <2>2, <2>4, <2>5, <2>6 DEF CleanupKinds, Kinds
  <1>7. QED
    BY <1>2, <1>5, <1>6, GoesBy

LEMMA WholeStep ==
  ASSUME TypeOK, ReadIsFresh, UndoLists, RowsTrue, UniqueNames, NamesApart, SpacesApart, Whole,
         [Next]_vars
  PROVE  Whole'
  <1> SUFFICES ASSUME NEW c \in Creates, None({"shared", "rival"})', ~Deleting(c)'
               PROVE  /\ create'[c].pc = "make" =>
                           \A j \in 1 .. Len(Steps) :
                             j < create'[c].step /\ j \notin {6, 7} => Has(c, j)'
                      /\ create'[c].pc = "done" /\ project'[c].there =>
                           \A j \in 1 .. Len(Steps) : j \notin {6, 7} => Has(c, j)'
    BY DEF Whole, WholeOf
  <1>1. None({"shared", "rival"})
    BY MishapsGrow, NoneShrinks
  <1>2. ~Deleting(c)
    <2> SUFFICES ASSUME NEW d \in Deletes, delete[d].id = c PROVE delete'[d].id = c
      BY DEF Deleting
    <2>1. delete[d].pc # "idle"
      BY NobodyAssumption DEF RowsTrue, RowOfDeletion
    <2>2. QED
      BY <2>1, DeletionsStay DEF DeleteLoad
  <1>3. WholeOf(c)
    BY DEF Whole
  <1>4. ASSUME NEW j \in 1 .. Len(Steps), j \notin {6, 7},
               create[c].pc = "make" /\ j < create[c].step
        PROVE  Has(c, j)'
    <2>1. Has(c, j)
      BY <1>1, <1>2, <1>3, <1>4 DEF WholeOf
    <2>2. QED
      BY <1>1, <1>2, <1>4, <2>1, HasStays
  <1>5. ASSUME NEW j \in 1 .. Len(Steps), j \notin {6, 7},
               create[c].pc = "done" /\ project[c].there
        PROVE  Has(c, j)'
    <2>1. Has(c, j)
      BY <1>1, <1>2, <1>3, <1>5 DEF WholeOf
    <2>2. QED
      BY <1>1, <1>2, <1>5, <2>1, HasStays
  <1>6. ASSUME create'[c].pc = "make", NEW j \in 1 .. Len(Steps),
               j < create'[c].step, j \notin {6, 7}
        PROVE  Has(c, j)'
    <2>0. create[c].step \in Nat /\ j \in Nat
      BY CreateRecord, StepList
    <2>1. CASE Make(c)
      <3> DEFINE step == create[c].step
                 kind == KindOf(Steps[step])
      <3>1. /\ create[c].pc = "make" /\ create'[c].step = step + 1 /\ create'[c].row = create[c].row
            /\ ext' = With(kind, c, create[c].row) /\ step \in 1 .. Len(Steps) /\ step \notin {6, 7}
        BY <1>6, <2>1, MakeEffect
      <3>2. CASE j = step
        <4>1. kind \in Kinds
          BY <3>1, StepKinds
        <4>2. ext'[kind] = ext[kind] \cup {Key(kind, c, create[c].row)}
          BY <3>1, <4>1, Adds
        <4>3. QED
          BY <3>1, <3>2, <4>2 DEF Has
      <3>3. CASE j < step
        BY <1>4, <1>6, <3>1, <3>3
      <3>4. QED
        BY <1>6, <2>0, <3>1, <3>2, <3>3
    <2>2. CASE InsertProject(c)
      <3>1. create[c].pc = "make" /\ create[c].step = 6 /\ create'[c].step = 7
        BY <1>6, <2>2, InsertProjectEffect
      <3>2. j < 6
        BY <1>6, <2>0, <3>1
      <3>3. QED
        BY <1>4, <1>6, <3>1, <3>2
    <2>3. CASE InsertDeployment(c)
      <3>1. create[c].pc = "make" /\ create[c].step = 7 /\ create'[c].step = 8
        BY <1>6, <2>3, InsertDeploymentEffect
      <3>2. j < 7
        BY <1>6, <2>0, <3>1
      <3>3. QED
        BY <1>4, <1>6, <3>1, <3>2
    <2>4. CASE ReserveCommit(c)
      <3>1. create[c].pc = "write" /\ create'[c].step = create[c].step
        BY <2>4, ReserveCommitEffect
      <3>2. create'[c].step = 1
        BY <3>1 DEF UndoLists
      <3>3. QED
        BY <1>6, <2>0, <3>2
    <2>5. CASE Begin(c) \/ ReserveLock(c) \/ Finish(c) \/ Undo(c) \/ Undone(c)
      BY <1>6, <2>5, BeginEffect, ReserveLockEffect, FinishEffect, UndoEffect, UndoneEffect
    <2>6. CASE create'[c] = create[c]
      BY <1>4, <1>6, <2>6
    <2>7. CASE Crash
      BY <1>6, <1>4, <2>7, CrashEffect
    <2>8. QED
      BY <2>1, <2>2, <2>3, <2>4, <2>5, <2>6, <2>7, RecordMoves DEF CreateStep
  <1>7. ASSUME create'[c].pc = "done", project'[c].there, NEW j \in 1 .. Len(Steps), j \notin {6, 7}
        PROVE  Has(c, j)'
    <2>1. CASE Finish(c)
      <3>1. create[c].pc = "make" /\ create[c].step > Len(Steps)
        BY <2>1, FinishEffect
      <3>2. j < create[c].step
        BY <3>1, StepList, CreateRecord
      <3>3. QED
        BY <1>4, <1>7, <3>1, <3>2
    <2>2. CASE create[c].pc = "done"
      <3>1. ~InsertProject(c)
        BY <2>2, InsertProjectEffect
      <3>2. project[c].there
        BY <1>7, <3>1, RowsComeFrom
      <3>3. QED
        BY <1>5, <1>7, <2>2, <3>2
    <2>3. create[c].pc = "done" \/ Finish(c)
      <3>1. CASE CreateStep(c) /\ ~Make(c)
        BY <1>7, <3>1, BeginEffect, ReserveLockEffect, ReserveCommitEffect, InsertProjectEffect,
           InsertDeploymentEffect, UndoEffect, UndoneEffect DEF CreateStep
      <3>2. CASE Make(c)
        BY <1>7, <3>2, MakeEffect
      <3>3. CASE Crash
        BY <1>7, <3>3, CrashEffect
      <3>4. QED
        BY <1>7, <3>1, <3>2, <3>3, RecordMoves
    <2>4. QED
      BY <2>1, <2>2, <2>3
  <1>8. QED
    BY <1>6, <1>7

LEMMA LiveFollows ==
  ASSUME TypeOK, Whole
  PROVE  LiveProjectIsWhole
  <1> SUFFICES ASSUME NEW c \in Creates, create[c].pc = "done", project[c].there, ~Deleting(c),
                      None({"shared", "rival"}),
                      NEW j \in DOMAIN Steps, Steps[j] \notin {"project", "deployment"}
               PROVE  Key(KindOf(Steps[j]), c, Asked(c)) \in ext[KindOf(Steps[j])]
    BY DEF LiveProjectIsWhole
  <1>1. j \in 1 .. Len(Steps) /\ j \notin {6, 7}
    BY StepList
  <1>2. Has(c, j)
    BY <1>1 DEF Whole, WholeOf
  <1>3. QED
    BY <1>2 DEF Has, Asked

-----------------------------------------------------------------------------
(* What a deletion has removed does not come back.                         *)

LEMMA CleanInit == Init => Clean
  BY DEF Init, Clean, CleanOf, IdleDelete, Place

LEMMA PlaceFacts ==
  /\ \A kind \in CleanupKinds : Place(kind) \in 1 .. 6
  /\ \A kind \in CleanupKinds : Place(After(kind)) = Place(kind) + 1
  /\ \A kind, k \in CleanupKinds : Place(kind) = Place(k) => kind = k
  /\ Place("dns") = 1 /\ Place("commit") = 7 /\ Place("done") = 8
  /\ Place("idle") = 0 /\ Place("refused") = 0 /\ Place("gone") = 0
  BY DEF Place, After, CleanupKinds, Kinds

\* Nothing but a project of the same name brings it back, and a workflow that is
\* written late.
LEMMA StaysAway ==
  ASSUME TypeOK, ReadIsFresh, UndoLists, RowsTrue, [Next]_vars, None({"early"}),
         NEW d \in Deletes, delete[d].pc \notin {"idle", "refused"},
         NEW c, c = delete[d].id, NEW kind \in CleanupKinds,
         kind = "dns" \/ (None({"late"})' /\ ~Renamed(c)'),
         Key(kind, c, delete[d].row) \notin ext[kind]
  PROVE  Key(kind, c, delete[d].row) \notin ext'[kind]
  <1> DEFINE x == Key(kind, c, delete[d].row)
  <1> SUFFICES ASSUME x \in ext'[kind] PROVE FALSE
    OBVIOUS
  <1>1. /\ c \in Creates /\ create[c].pc \in Ended
        /\ delete[d].row.name = create[c].row.name
    BY DEF RowsTrue, RowOfDeletion
  <1>2. kind \in Kinds
    BY DEF CleanupKinds
  <1>3. CASE \E i \in Creates :
               /\ Make(i) /\ kind = KindOf(Steps[create[i].step])
               /\ x = Key(kind, i, create[i].row)
    <2>1. PICK i \in Creates :
               /\ Make(i) /\ kind = KindOf(Steps[create[i].step])
               /\ x = Key(kind, i, create[i].row)
      BY <1>3
    <2>2. create[i].pc = "make" /\ i # c
      BY <1>1, <2>1, MakeEffect DEF Ended
    <2>3. CASE kind \in {"app", "dns"}
      BY <2>1, <2>2, <2>3, KeyFacts
    <2>4. CASE kind \notin {"app", "dns"}
      <3>1. create[i].row.name = create[c].row.name
        <4>1. CASE kind = "cluster"
          <5>1. <<create[i].row.name, create[i].row.ns>> = <<delete[d].row.name, delete[d].row.ns>>
            BY <2>1, <4>1, KeyFacts
          <5>2. QED
            BY <1>1, <5>1
        <4>2. CASE kind \in {"manifests", "workflow", "argo"}
          BY <1>1, <2>1, <4>2, KeyFacts
        <4>3. QED
          BY <2>4, <4>1, <4>2 DEF CleanupKinds, Kinds
      <3>2. create[i].row \in Rows /\ create[c].row \in Rows
        BY <1>1, <2>2, CreateRecord DEF Ended
      <3>3. create'[i].row = create[i].row /\ create'[c].row = create[c].row
        BY <1>1, <2>2, RequestsStay DEF Ended
      <3>4. Renamed(c)'
        BY <2>2, <3>1, <3>2, <3>3 DEF Renamed, Asked, Rows
      <3>5. QED
        BY <2>4, <3>4
    <2>5. QED
      BY <2>3, <2>4
  <1>4. CASE /\ UpdateWorkflow /\ kind = "workflow" /\ toggle.there /\ x = toggle.name
             /\ (\E e \in Deletes : /\ delete[e].pc \notin {"idle", "refused"}
                                    /\ delete[e].row.name = toggle.name) => "late" \in mishaps'
    <2>1. x = delete[d].row.name
      BY <1>4, KeyFacts
    <2>2. "late" \in mishaps'
      BY <1>4, <2>1
    <2>3. QED
      BY <1>4, <2>2 DEF None
  <1>5. QED
    BY <1>2, <1>3, <1>4, ComesFrom

LEMMA CleanStep ==
  ASSUME TypeOK, ReadIsFresh, UndoLists, RowsTrue, Clean, [Next]_vars
  PROVE  Clean'
  <1> SUFFICES ASSUME NEW d \in Deletes, None({"skipped", "early"})'
               PROVE  CleanOf(d)'
    BY DEF Clean, CleanOf
  <1>1. None({"skipped", "early"}) /\ None({"early"}) /\ "skipped" \notin mishaps'
    BY MishapsGrow, NoneShrinks DEF None
  <1>2. CleanOf(d)
    BY DEF Clean
  <1>3. CASE DeleteLoad(d)
    <2>1. PICK c \in Creates :
            /\ project[c].there
            /\ delete'[d] = [pc |-> "dns", id |-> c, row |-> project[c], errors |-> FALSE]
            /\ UNCHANGED <<project, ext>>
      BY <1>3, DeleteLoadEffect DEF DeleteLoad
    <2>2. \A kind \in CleanupKinds : ~(Place(kind) < Place("dns"))
      BY PlaceFacts
    <2>3. QED
      BY <2>1, <2>2 DEF CleanOf
  <1>4. CASE ~DeleteLoad(d)
    <2>0. PICK c : c = delete[d].id
      OBVIOUS
    <2>1. /\ delete'[d].id = c /\ delete'[d].row = delete[d].row
          /\ delete'[d].pc = "idle" <=> delete[d].pc = "idle"
      BY <1>4, <2>0, DeletionsStay
    <2>2. CASE delete[d].pc = "idle"
      <3>1. \A kind \in CleanupKinds : ~(Place(kind) < Place("idle"))
        BY PlaceFacts
      <3>2. QED
        BY <2>1, <2>2, <3>1 DEF CleanOf
    <2>3. CASE delete[d].pc # "idle"
      <3>1. /\ c \in Creates /\ create[c].pc \in Ended
            /\ delete[d].row.name = create[c].row.name
        BY <1>1, <2>0, <2>3 DEF RowsTrue, RowOfDeletion
      \* How the deletion moves.
      <3>2. \/ DeleteCleanup(d)
            \/ /\ delete'[d].errors = delete[d].errors
               /\ \/ delete'[d].pc = delete[d].pc
                  \/ delete'[d].pc \in {"refused", "gone"}
                  \/ delete[d].pc = "commit" /\ delete'[d].pc = "done" /\ ~delete[d].errors
        <4>1. CASE \E i \in Creates : CreateStep(i)
          BY <4>1, OnlyOwn
        <4>2. CASE \E e \in Deletes : DeleteStep(e)
          <5>1. PICK e \in Deletes : DeleteStep(e)
            BY <4>2
          <5>2. CASE e # d
            BY <5>1, <5>2, DeletesOnly
          <5>3. CASE DeleteCommit(d)
            BY <5>3, DeleteCommitEffect
          <5>4. QED
            BY <1>4, <5>1, <5>2, <5>3 DEF DeleteStep
        <4>3. CASE Crash
          <5>1. delete[d] \in DeleteRecords
            BY DEF TypeOK, DeleteTypeOK
          <5>2. delete'[d] = delete[d] \/ delete'[d] = [delete[d] EXCEPT !.pc = "gone"]
            BY <4>3 DEF Crash
          <5>3. QED
            BY <5>1, <5>2 DEF DeleteRecords
        <4>4. CASE UNCHANGED delete
          BY <4>4
        <4>5. QED
          BY <4>1, <4>2, <4>3, <4>4
          DEF Next, vars, UpdateProject, UpdateWorkflow, UpdateQuota
      <3>3. DeleteCleanup(d) =>
              /\ delete[d].pc \in CleanupKinds /\ delete'[d].pc = After(delete[d].pc)
              /\ ~delete'[d].errors => ~delete[d].errors
              /\ ~delete'[d].errors =>
                   ext' = IF delete[d].pc = "dns" /\ ~project[c].there THEN ext
                          ELSE Without(delete[d].pc, c, delete[d].row)
        <4>1. delete[d] \in DeleteRecords /\ delete'[d].errors \in BOOLEAN
          <5>1. TypeOK'
            BY StepInv DEF LifecycleInv
          <5>2. QED
            BY <5>1 DEF TypeOK, DeleteTypeOK, DeleteRecords
        <4>2. QED
          BY <1>1, <2>0, <4>1, DeleteCleanupEffect DEF DeleteRecords
      <3>4. delete'[d].pc = "done" => ~delete'[d].errors
        <4>1. CASE DeleteCleanup(d)
          <5>1. delete'[d].pc # "done"
            BY <3>3, <4>1 DEF After
          <5>2. QED
            BY <5>1
        <4>2. QED
          BY <1>1, <1>2, <3>2, <4>1 DEF CleanOf
      <3>5. ASSUME ~project'[c].there PROVE c \notin ext'["dns"]
        <4>1. ~project[c].there => c \notin ext["dns"]
          BY <1>1, <1>2, <2>0, <2>3 DEF CleanOf
        <4>2. ASSUME project[c].there PROVE c \notin ext["dns"]
          <5>1. ~Undo(c)
            BY <3>1 DEF Undo, Ended
          <5>2. PICK e \in Deletes : DeleteCommit(e) /\ delete[e].id = c /\ delete[e].pc = "commit"
            BY <3>1, <3>5, <4>2, <5>1, RowsGo
          <5>3. ~delete[e].errors
            BY <3>5, <4>2, <5>2, DeleteCommitEffect
          <5>4. "dns" \in CleanupKinds /\ Place("dns") < Place("commit")
            BY PlaceFacts DEF CleanupKinds, Kinds
          <5>5. Key("dns", c, delete[e].row) \notin ext["dns"]
            BY <1>1, <5>2, <5>3, <5>4 DEF Clean, CleanOf
          <5>6. QED
            BY <5>5, KeyFacts
        <4>3. c \notin ext["dns"] /\ "dns" \in CleanupKinds
          BY <4>1, <4>2 DEF CleanupKinds, Kinds
        <4>4. "dns" \in Kinds
          BY DEF Kinds
        <4>5. ASSUME c \in ext'["dns"] PROVE FALSE
          <5>1. PICK i \in Creates : Make(i) /\ c = Key("dns", i, create[i].row)
            BY <4>3, <4>4, <4>5, ComesFrom
          <5>2. i = c
            BY <5>1, KeyFacts
          <5>3. QED
            BY <3>1, <5>1, <5>2, MakeEffect DEF Ended
        <4>6. QED
          BY <4>5
      <3>6. ASSUME ~delete'[d].errors, NEW kind \in CleanupKinds,
                   Place(kind) < Place(delete'[d].pc),
                   kind = "dns" \/ (None({"late"})' /\ ~Renamed(c)')
            PROVE  Key(kind, c, delete[d].row) \notin ext'[kind]
        <4>1. ~delete[d].errors
          BY <3>2, <3>3, <3>6
        <4>2. kind = "dns" \/ (None({"late"}) /\ ~Renamed(c))
          <5>1. None({"late"})' => None({"late"})
            BY MishapsGrow, NoneShrinks
          <5>2. Renamed(c) => Renamed(c)'
            <6> SUFFICES ASSUME NEW i \in Creates \ {c}, create[i].row.there,
                                create[i].row.name = create[c].row.name
                         PROVE  Renamed(c)'
              BY DEF Renamed, Asked
            <6>1. create[i].pc # "idle"
              BY DEF RowsTrue, RowOfProject, NoProject
            <6>2. create'[i].row = create[i].row /\ create'[c].row = create[c].row
              BY <3>1, <6>1, RequestsStay DEF Ended
            <6>3. QED
              BY <6>2 DEF Renamed, Asked
          <5>3. QED
            BY <3>6, <5>1, <5>2
        <4>3. ASSUME Place(kind) < Place(delete[d].pc)
              PROVE  Key(kind, c, delete[d].row) \notin ext'[kind]
          <5>1. Key(kind, c, delete[d].row) \notin ext[kind]
            BY <1>1, <1>2, <2>0, <4>1, <4>2, <4>3 DEF CleanOf
          <5>2. delete[d].pc \notin {"idle", "refused"}
            BY <4>3, PlaceFacts
          <5>3. QED
            BY <1>1, <2>0, <3>6, <5>1, <5>2, StaysAway
        <4>4. CASE DeleteCleanup(d)
          <5>1. Place(delete'[d].pc) = Place(delete[d].pc) + 1
            BY <3>3, <4>4, PlaceFacts
          <5>2. Place(kind) \in Nat /\ Place(delete[d].pc) \in Nat
            BY <3>3, <4>4, PlaceFacts
          <5>3. Place(kind) < Place(delete[d].pc) \/ Place(kind) = Place(delete[d].pc)
            BY <3>6, <5>1, <5>2
          <5>4. CASE Place(kind) = Place(delete[d].pc)
            <6>1. kind = delete[d].pc /\ kind \in Kinds
              BY <3>3, <4>4, <5>4, PlaceFacts DEF CleanupKinds
            <6>2. CASE kind = "dns" /\ ~project[c].there
              <7>1. c \notin ext["dns"] /\ ext' = ext
                BY <1>1, <1>2, <2>0, <2>3, <3>3, <3>6, <4>4, <6>1, <6>2 DEF CleanOf
              <7>2. QED
                BY <6>2, <7>1, KeyFacts
            <6>3. CASE ~(kind = "dns" /\ ~project[c].there)
              <7>1. ext' = Without(kind, c, delete[d].row)
                BY <3>3, <3>6, <4>4, <6>1, <6>3
              <7>2. ext'[kind] = ext[kind] \ {Key(kind, c, delete[d].row)}
                BY <6>1, <7>1, Removes
              <7>3. QED
                BY <7>2
            <6>4. QED
              BY <6>2, <6>3
          <5>5. QED
            BY <4>3, <5>3, <5>4
        <4>5. CASE delete'[d].pc = delete[d].pc
          BY <3>6, <4>3, <4>5
        <4>6. CASE delete'[d].pc \in {"refused", "gone"}
          <5>1. Place(delete'[d].pc) = 0 /\ Place(kind) \in 1 .. 6
            BY <4>6, PlaceFacts
          <5>2. QED
            BY <3>6, <5>1
        <4>7. CASE delete[d].pc = "commit"
          <5>1. Place(kind) < Place(delete[d].pc)
            BY <4>7, PlaceFacts
          <5>2. QED
            BY <4>3, <5>1
        <4>8. QED
          BY <3>2, <4>4, <4>5, <4>6, <4>7
      <3>7. QED
        BY <2>1, <3>4, <3>5, <3>6 DEF CleanOf, Renamed
    <2>4. QED
      BY <2>2, <2>3
  <1>5. QED
    BY <1>3, <1>4

LEMMA CleanFollows ==
  ASSUME TypeOK, RowsTrue, Clean
  PROVE  DeletedIsClean
  <1> SUFFICES ASSUME NEW d \in Deletes, delete[d].pc = "done", None({"skipped", "early", "late"}),
                      ~Renamed(delete[d].id), NEW kind \in CleanupKinds
               PROVE  Key(kind, delete[d].id, Asked(delete[d].id)) \notin ext[kind]
    BY DEF DeletedIsClean
  <1>1. None({"skipped", "early"}) /\ None({"late"})
    BY DEF None
  <1>2. CleanOf(d) /\ RowOfDeletion(d)
    BY DEF Clean, RowsTrue
  <1>3. Place(kind) < Place(delete[d].pc)
    BY PlaceFacts
  <1>4. Key(kind, delete[d].id, delete[d].row) \notin ext[kind]
    BY <1>1, <1>2, <1>3 DEF CleanOf
  <1>5. Key(kind, delete[d].id, delete[d].row) = Key(kind, delete[d].id, Asked(delete[d].id))
    BY <1>2 DEF Key, RowOfDeletion, Asked
  <1>6. QED
    BY <1>4, <1>5

-----------------------------------------------------------------------------
(* The use of the quota.                                                   *)

\* The units of several owners, weight[i] of them each.
UnitsOf(owners, weight) == UNION {{i} \X (1 .. weight[i]) : i \in owners}

LEMMA OwnUnits ==
  ASSUME NEW i, NEW n \in Nat
  PROVE  IsFiniteSet({i} \X (1 .. n)) /\ Cardinality({i} \X (1 .. n)) = n
  <1>1. IsFiniteSet(1 .. n) /\ Cardinality(1 .. n) = n
    <2>1. /\ IsFiniteSet(1 .. n)
          /\ Cardinality(1 .. n) = IF 1 > n THEN 0 ELSE n - 1 + 1
      BY FS_Interval
    <2>2. QED
      BY <2>1
  <1>2. IsFiniteSet({i}) /\ Cardinality({i}) = 1
    BY FS_Singleton
  <1>3. /\ IsFiniteSet({i} \X (1 .. n))
        /\ Cardinality({i} \X (1 .. n)) = Cardinality({i}) * Cardinality(1 .. n)
    BY <1>1, <1>2, FS_Product
  <1>4. QED
    BY <1>1, <1>2, <1>3

LEMMA UnitsFinite ==
  ASSUME NEW owners, IsFiniteSet(owners), NEW weight, \A i \in owners : weight[i] \in Nat
  PROVE  IsFiniteSet(UnitsOf(owners, weight)) /\ Cardinality(UnitsOf(owners, weight)) \in Nat
  <1> DEFINE S == {{i} \X (1 .. weight[i]) : i \in owners}
             f == [i \in owners |-> {i} \X (1 .. weight[i])]
  <1>1. f \in Surjection(owners, S)
    BY DEF Surjection
  <1>2. IsFiniteSet(S)
    BY <1>1, FS_Surjection
  <1>3. \A T \in S : IsFiniteSet(T)
    <2> TAKE T \in S
    <2>1. PICK i \in owners : T = {i} \X (1 .. weight[i])
      OBVIOUS
    <2>2. QED
      BY <2>1, OwnUnits
  <1>4. IsFiniteSet(UNION S)
    BY <1>2, <1>3, FS_UNION
  <1>5. QED
    BY <1>4, FS_CardinalityType DEF UnitsOf

LEMMA UnitsMore ==
  ASSUME NEW owners, IsFiniteSet(owners), NEW i, i \notin owners,
         NEW weight, \A j \in owners \cup {i} : weight[j] \in Nat
  PROVE  Cardinality(UnitsOf(owners \cup {i}, weight)) =
           Cardinality(UnitsOf(owners, weight)) + weight[i]
  <1> DEFINE U == UnitsOf(owners, weight)
             V == {i} \X (1 .. weight[i])
  <1>1. UnitsOf(owners \cup {i}, weight) = U \cup V
    BY DEF UnitsOf
  <1>2. U \cap V = {}
    BY DEF UnitsOf
  <1>3. IsFiniteSet(U) /\ Cardinality(U) \in Nat
    BY UnitsFinite
  <1>4. IsFiniteSet(V) /\ Cardinality(V) = weight[i]
    BY OwnUnits
  <1>5. Cardinality(U \cup V) = Cardinality(U) + Cardinality(V) - Cardinality(U \cap V)
    BY <1>3, <1>4, FS_Union
  <1>6. Cardinality({}) = 0
    BY FS_EmptySet
  <1>7. weight[i] \in Nat
    OBVIOUS
  <1> HIDE DEF U, V
  <1>8. Cardinality(U \cup V) = Cardinality(U) + weight[i] - 0
    BY <1>2, <1>4, <1>5, <1>6
  <1>9. Cardinality(U \cup V) = Cardinality(U) + weight[i]
    BY <1>3, <1>7, <1>8
  <1>10. QED
    BY <1>1, <1>9 DEF U

LEMMA UnitsFewer ==
  ASSUME NEW owners, IsFiniteSet(owners), NEW fewer \in SUBSET owners,
         NEW weight, \A j \in owners : weight[j] \in Nat
  PROVE  Cardinality(UnitsOf(fewer, weight)) <= Cardinality(UnitsOf(owners, weight))
  <1>1. UnitsOf(fewer, weight) \in SUBSET UnitsOf(owners, weight)
    BY DEF UnitsOf
  <1>2. QED
    BY <1>1, UnitsFinite, FS_Subset

\* The units of a counter that a creation would hold.
Weight(k) == [c \in Creates |->
  IF create[c].pc # "idle" THEN Cost[create[c].row.preset][k] ELSE 0]

Holders == {c \in Creates : Holds(c)}

LEMMA WeightFacts ==
  ASSUME TypeOK, NEW k \in Counters, NEW c \in Creates
  PROVE  /\ Weight(k)[c] \in Nat
         /\ create[c].pc # "idle" =>
              Weight(k)[c] = Cost[create[c].row.preset][k] /\ create[c].row.preset \in Presets
  <1>1. create[c].pc # "idle" =>
          create[c].row.preset \in Presets /\ Cost[create[c].row.preset][k] \in Nat
    BY CreateRecord, QuotaAssumption DEF Rows
  <1>2. QED
    BY <1>1 DEF Weight

LEMMA HoldersKnown ==
  ASSUME RowsTrue, NEW c \in Creates, Holds(c)
  PROVE  create[c].pc # "idle"
  BY DEF Holds, RowsTrue, RowOfProject

LEMMA HeldIs ==
  ASSUME TypeOK, RowsTrue, NEW k \in Counters
  PROVE  Held(k) = Cardinality(UnitsOf(Holders, Weight(k)))
  <1>1. \A c \in Holders : Units(c, k) = {c} \X (1 .. Weight(k)[c])
    BY HoldersKnown, WeightFacts DEF Holders, Units, Asked
  <1>2. HeldUnits(k) = UnitsOf(Holders, Weight(k))
    BY <1>1 DEF HeldUnits, UnitsOf, Holders
  <1>3. QED
    BY <1>2 DEF Held

\* After a step the units can be counted with the weights of before.
LEMMA HeldNext ==
  ASSUME TypeOK, ReadIsFresh, UndoLists, RowsTrue, Stages, [Next]_vars, NEW k \in Counters,
         \A c \in Creates : Holds(c)' => create[c].pc # "idle"
  PROVE  Held(k)' = Cardinality(UnitsOf(Holders', Weight(k)))
  <1>1. TypeOK' /\ RowsTrue'
    BY StepInv, RowsStep DEF LifecycleInv
  <1>2. ASSUME NEW c \in Creates, Holds(c)'
        PROVE  Units(c, k)' = {c} \X (1 .. Weight(k)[c])
    <2>1. create'[c].row = create[c].row /\ create[c].pc # "idle"
      BY <1>2, RequestsStay
    <2>2. QED
      BY <2>1, WeightFacts DEF Units, Asked
  <1>3. HeldUnits(k)' = UnitsOf(Holders', Weight(k))
    BY <1>2 DEF HeldUnits, UnitsOf, Holders
  <1>4. QED
    BY <1>3 DEF Held

\* The accidents after which the use is not accounted for.
Unaccounted == {"orphan", "undo", "twice", "early", "preset"}

LEMMA UnaccountedFacts ==
  ASSUME [Next]_vars, TypeOK, None(Unaccounted)'
  PROVE  /\ None(Unaccounted) /\ None({"early"}) /\ None({"orphan", "undo"}) /\ None({"preset"})
         /\ Unaccounted \cap mishaps' = {}
  BY MishapsGrow DEF None, Unaccounted

LEMMA OnlyOwnRow ==
  ASSUME TypeOK, NEW c \in Creates, CreateStep(c), NEW i \in Creates, i # c
  PROVE  Holds(i)' <=> Holds(i)
  <1>1. create'[i] = create[i]
    BY OnlyOwn
  <1>2. project'[i] = project[i]
    <2>1. \/ project' = project
          \/ \E row : project' = [project EXCEPT ![c] = row]
      <3>1. CASE InsertProject(c) \/ Undo(c)
        BY <3>1, InsertProjectEffect, UndoEffect
      <3>2. CASE ~InsertProject(c) /\ ~Undo(c)
        BY <3>2
        DEF CreateStep, Begin, ReserveLock, ReserveCommit, Make, InsertDeployment, Finish, Undone
      <3>3. QED
        BY <3>1, <3>2
    <2>2. QED
      BY <2>1 DEF TypeOK, RestTypeOK
  <1>3. QED
    BY <1>1, <1>2 DEF Holds

\* Whether a creation holds its reservation, by the number of its undos.
LEMMA HoldsByCount ==
  ASSUME TypeOK, UndoLists, NEW c \in Creates
  PROVE  /\ Holds(c) <=> \/ project[c].there
                         \/ create[c].pc \in {"make", "undo"} /\ Len(create[c].undo) # 0
         /\ create[c].pc = "make" => Len(create[c].undo) # 0
  <1>1. create[c].undo \in Seq(Undos) /\ create[c].step \in Nat \ {0}
    BY CreateRecord, StepList
  <1>2. Len(create[c].undo) = 0 <=> create[c].undo = <<>>
    BY <1>1, EmptySeq
  <1>3. create[c].pc = "make" => Len(create[c].undo) # 0
    BY <1>1 DEF UndoLists, Registered
  <1>4. QED
    BY <1>2, <1>3 DEF Holds

\* What a step of a creation does to its reservation.
LEMMA OwnHolds ==
  ASSUME TypeOK, ReadIsFresh, UndoLists, RowsTrue, Stages, None(Unaccounted)',
         NEW c \in Creates, CreateStep(c)
  PROVE  \/ /\ ~Holds(c) /\ Holds(c)' /\ create[c].pc # "idle"
            /\ used' = Plus(used, create[c].row.preset)
         \/ Holds(c) /\ ~Holds(c)' /\ used' = Minus(used, create[c].row.preset)
         \/ (Holds(c)' <=> Holds(c)) /\ used' = used
  <1>0. [Next]_vars
    BY DEF Next
  <1>1. TypeOK' /\ UndoLists'
    BY <1>0, StepInv, UndoListsStep DEF LifecycleInv
  <1>2. /\ None({"early"}) /\ None({"orphan", "undo"})
        /\ "orphan" \notin mishaps' /\ "undo" \notin mishaps'
    BY <1>0, UnaccountedFacts DEF Unaccounted
  <1>3. StageOf(c) /\ RowOfProject(c) /\ UndoListOf(c)
    BY DEF Stages, RowsTrue, UndoLists, UndoListOf
  <1>4. /\ Holds(c) <=> \/ project[c].there
                        \/ create[c].pc \in {"make", "undo"} /\ Len(create[c].undo) # 0
        /\ create[c].pc = "make" => Len(create[c].undo) # 0
    BY HoldsByCount
  <1>5. /\ Holds(c)' <=> \/ project'[c].there
                         \/ create'[c].pc \in {"make", "undo"} /\ Len(create'[c].undo) # 0
        /\ create'[c].pc = "make" => Len(create'[c].undo) # 0
    <2>1. /\ Holds(c)' <=> \/ project'[c].there
                           \/ create'[c].pc \in {"make", "undo"} /\ create'[c].undo # <<>>
          /\ create'[c].pc = "make" => Len(create'[c].undo) = Registered(create'[c].step)
      BY <1>1 DEF Holds, UndoLists
    <2>2. create'[c].undo \in Seq(Undos) /\ create'[c].step \in Nat \ {0}
      BY <1>1, StepList DEF TypeOK, CreateTypeOK, CreateRecords
    <2>3. Len(create'[c].undo) = 0 <=> create'[c].undo = <<>>
      BY <2>2, EmptySeq
    <2>4. Registered(create'[c].step) # 0
      BY <2>2 DEF Registered
    <2>5. QED
      BY <2>1, <2>3, <2>4
  <1>6. CASE Begin(c) \/ ReserveLock(c)
    BY <1>4, <1>5, <1>6, BeginEffect, ReserveLockEffect
  <1>7. CASE ReserveCommit(c)
    <2>1. create[c].pc = "write" /\ project' = project
      BY <1>7, ReserveCommitEffect
    <2>2. ~Holds(c)
      BY <1>3, <1>4, <2>1 DEF StageOf
    <2>3. CASE create'[c].pc = "make"
      <3>1. Holds(c)' /\ used' = Plus(used, create[c].row.preset)
        BY <1>5, <1>7, <2>3, ReserveCommitEffect
      <3>2. QED
        BY <2>1, <2>2, <3>1
    <2>4. CASE create'[c].pc # "make"
      <3>1. create'[c].pc = "refused" /\ used' = used
        BY <1>7, <2>4, ReserveCommitEffect
      <3>2. QED
        BY <1>4, <1>5, <2>1, <2>2, <3>1
    <2>5. QED
      BY <2>3, <2>4
  <1>8. CASE Make(c)
    <2>1. create[c].pc = "make" /\ used' = used
      BY <1>8, MakeEffect
    <2>2. create'[c].pc = "make" \/ (create'[c].pc = "undo" /\ create'[c].undo = create[c].undo)
      BY <1>8, MakeEffect
    <2>3. QED
      BY <1>4, <1>5, <2>1, <2>2
  <1>9. CASE InsertProject(c) \/ InsertDeployment(c)
    <2>1. create[c].pc = "make" /\ used' = used
      BY <1>9, InsertProjectEffect, InsertDeploymentEffect
    <2>2. create'[c].pc = "make" \/ (create'[c].pc = "undo" /\ create'[c].undo = create[c].undo)
      BY <1>9, InsertProjectEffect, InsertDeploymentEffect
    <2>3. QED
      BY <1>4, <1>5, <2>1, <2>2
  <1>10. CASE Finish(c)
    <2>1. /\ create[c].pc = "make" /\ create[c].step > Len(Steps)
          /\ used' = used /\ project' = project
      BY <1>10, FinishEffect
    <2>2. create[c].step >= 7
      BY <2>1, StepList, CreateRecord
    <2>3. project[c].there
      BY <1>2, <1>3, <2>1, <2>2 DEF StageOf
    <2>4. QED
      BY <1>4, <1>5, <2>1, <2>3
  <1>11. CASE Undo(c)
    <2> DEFINE n == Len(create[c].undo)
    <2>1. /\ create[c].pc = "undo" /\ create'[c].pc = "undo" /\ n \in 1 .. 5
          /\ Len(create'[c].undo) = n - 1
      BY <1>11, UndoTakesLast
    <2>2. Holds(c)
      BY <1>4, <2>1
    <2>3. CASE n = 1
      <3>1. used' = Minus(used, create[c].row.preset) /\ project' = project
        BY <1>2, <1>11, <2>3, UndoWorks
      <3>2. ~project[c].there
        BY <1>2, <1>3, <2>1, <2>3 DEF StageOf
      <3>3. Len(create'[c].undo) = 0
        BY <2>1, <2>3
      <3>4. QED
        BY <1>5, <2>2, <3>1, <3>2, <3>3
    <2>4. CASE n # 1
      <3>1. Len(create'[c].undo) # 0
        BY <2>1, <2>4
      <3>2. used' = used
        <4>1. n = 2 \/ n = 3 \/ n = 4 \/ n = 5
          BY <2>1, <2>4
        <4>2. QED
          BY <1>2, <1>11, <4>1, UndoWorks
      <3>3. QED
        BY <1>5, <2>1, <2>2, <3>1, <3>2
    <2>5. QED
      BY <2>3, <2>4
  <1>12. CASE Undone(c)
    <2>1. /\ create[c].pc = "undo" /\ create[c].undo = <<>> /\ create'[c].pc = "failed"
          /\ used' = used /\ project' = project
      BY <1>12, UndoneEffect
    <2>2. QED
      BY <1>4, <1>5, <2>1, ShortLists
  <1>13. QED
    BY <1>6, <1>7, <1>8, <1>9, <1>10, <1>11, <1>12 DEF CreateStep

\* What any step does to the reservations.
LEMMA HoldersMove ==
  ASSUME TypeOK, ReadIsFresh, UndoLists, RowsTrue, Stages, None(Unaccounted)', [Next]_vars
  PROVE  \/ /\ used' = used /\ Holders' = Holders /\ crashes' = crashes
         \/ \E c \in Creates \ Holders :
              /\ Holders' = Holders \cup {c} /\ create[c].pc # "idle"
              /\ used' = Plus(used, create[c].row.preset) /\ crashes' = crashes
         \/ \E c \in Holders :
              /\ Holders' = Holders \ {c}
              /\ used' = Minus(used, create[c].row.preset) /\ crashes' = crashes
         \/ used' = used /\ Holders' \subseteq Holders /\ crashes' # 0
  <1>0. None({"early"}) /\ None({"preset"}) /\ Unaccounted \cap mishaps' = {}
    BY UnaccountedFacts
  <1>1. CASE \E c \in Creates : CreateStep(c)
    <2>1. PICK c \in Creates : CreateStep(c)
      BY <1>1
    <2>2. \A i \in Creates \ {c} : Holds(i)' <=> Holds(i)
      BY <2>1, OnlyOwnRow
    <2>3. crashes' = crashes
      BY <2>1, OnlyOwn
    <2>4. CASE /\ ~Holds(c) /\ Holds(c)' /\ create[c].pc # "idle"
               /\ used' = Plus(used, create[c].row.preset)
      <3>1. Holders' = Holders \cup {c} /\ c \notin Holders
        BY <2>2, <2>4 DEF Holders
      <3>2. QED
        BY <2>3, <2>4, <3>1
    <2>5. CASE Holds(c) /\ ~Holds(c)' /\ used' = Minus(used, create[c].row.preset)
      <3>1. Holders' = Holders \ {c} /\ c \in Holders
        BY <2>2, <2>5 DEF Holders
      <3>2. QED
        BY <2>3, <2>5, <3>1
    <2>6. CASE (Holds(c)' <=> Holds(c)) /\ used' = used
      <3>1. Holders' = Holders
        BY <2>2, <2>6 DEF Holders
      <3>2. QED
        BY <2>3, <2>6, <3>1
    <2>7. QED
      BY <2>1, <2>4, <2>5, <2>6, OwnHolds
  <1>2. CASE \E d \in Deletes : DeleteStep(d)
    <2>1. PICK d \in Deletes : DeleteStep(d)
      BY <1>2
    <2>2. create' = create /\ crashes' = crashes
      BY <2>1, DeletesOnly
    <2>3. CASE project' = project /\ used' = used
      <3>1. Holders' = Holders
        BY <2>2, <2>3 DEF Holders, Holds
      <3>2. QED
        BY <2>2, <2>3, <3>1
    <2>4. CASE DeleteCommit(d) /\ project' # project
      <3>0. PICK c : c = delete[d].id
        OBVIOUS
      <3>1. /\ delete[d].pc = "commit" /\ project' = [project EXCEPT ![c] = NoProject]
            /\ used' = Minus(used, delete[d].row.preset)
            /\ ~project[c].there => "twice" \in mishaps'
        BY <2>4, <3>0, DeleteCommitEffect
      <3>2. /\ c \in Creates /\ create[c].pc \in Ended
            /\ delete[d].row.preset = create[c].row.preset
        BY <1>0, <3>0, <3>1 DEF RowsTrue, RowOfDeletion
      <3>3. project[c].there
        BY <1>0, <3>1 DEF Unaccounted
      <3>4. ~project'[c].there /\ \A i \in Creates \ {c} : project'[i] = project[i]
        BY <3>1, <3>2 DEF TypeOK, RestTypeOK, NoProject
      <3>5. Holders' = Holders \ {c} /\ c \in Holders
        BY <2>2, <3>2, <3>3, <3>4 DEF Holders, Holds, Ended
      <3>6. QED
        BY <2>2, <3>1, <3>2, <3>5
    <2>5. CASE DeleteCommit(d) /\ project' = project
      <3>0. PICK c : c = delete[d].id
        OBVIOUS
      <3>1. \/ used' = used
            \/ /\ delete[d].pc = "commit" /\ project' = [project EXCEPT ![c] = NoProject]
               /\ ~project[c].there => "twice" \in mishaps'
        BY <2>5, <3>0, DeleteCommitEffect
      <3>2. CASE /\ delete[d].pc = "commit" /\ project' = [project EXCEPT ![c] = NoProject]
                 /\ ~project[c].there => "twice" \in mishaps'
        <4>1. c \in Creates
          BY <3>0, <3>2 DEF RowsTrue, RowOfDeletion
        <4>2. ~project[c].there
          BY <2>5, <3>2, <4>1 DEF TypeOK, RestTypeOK, NoProject
        <4>3. QED
          BY <1>0, <3>2, <4>2 DEF Unaccounted
      <3>3. QED
        BY <2>3, <2>5, <3>1, <3>2
    <2>6. CASE DeleteLoad(d) \/ DeleteCleanup(d)
      <3>1. project' = project /\ used' = used
        BY <2>6, DeleteLoadEffect, DeleteCleanupEffect
      <3>2. QED
        BY <2>3, <3>1
    <2>7. QED
      BY <2>1, <2>4, <2>5, <2>6 DEF DeleteStep
  <1>3. CASE UpdateProject
    <2>1. /\ UNCHANGED <<used, create, crashes>>
          /\ project' = project \/ "preset" \in mishaps'
      BY <1>3 DEF UpdateProject, quotaVars
    <2>2. project' = project
      BY <1>0, <2>1 DEF Unaccounted
    <2>3. Holders' = Holders
      BY <2>1, <2>2 DEF Holders, Holds
    <2>4. QED
      BY <2>1, <2>3
  <1>4. CASE UpdateWorkflow \/ UpdateQuota \/ UNCHANGED vars
    <2>1. UNCHANGED <<used, create, crashes, project>>
      BY <1>4 DEF UpdateWorkflow, UpdateQuota, vars, quotaVars
    <2>2. Holders' = Holders
      BY <2>1 DEF Holders, Holds
    <2>3. QED
      BY <2>1, <2>2
  <1>5. CASE Crash
    <2>1. used' = used /\ project' = project /\ crashes' = crashes + 1
      BY <1>5 DEF Crash
    <2>2. crashes' # 0
      BY <2>1 DEF TypeOK, RestTypeOK
    <2>3. ASSUME NEW c \in Creates, Holds(c)' PROVE Holds(c)
      BY <1>5, <2>1, <2>3, CrashEffect DEF Holds
    <2>4. Holders' \subseteq Holders
      BY <2>3 DEF Holders
    <2>5. QED
      BY <2>1, <2>2, <2>4
  <1>6. QED
    BY <1>1, <1>2, <1>3, <1>4, <1>5 DEF Next

LEMMA AccountedInit == Init => QuotaAccounted
  <1> SUFFICES ASSUME Init, NEW k \in Counters PROVE used[k] = Held(k) /\ used[k] \in Nat
    BY DEF QuotaAccounted
  <1>1. {c \in Creates : Holds(c)} = {}
    BY DEF Init, Holds, NoProject, IdleCreate
  <1>2. HeldUnits(k) = {}
    BY <1>1 DEF HeldUnits
  <1>3. Held(k) = 0
    BY <1>2, FS_EmptySet DEF Held
  <1>4. QED
    BY <1>3 DEF Init, Zero

LEMMA AccountedStep ==
  ASSUME TypeOK, ReadIsFresh, UndoLists, RowsTrue, Stages, QuotaAccounted, [Next]_vars
  PROVE  QuotaAccounted'
  <1> SUFFICES ASSUME None(Unaccounted)', NEW k \in Counters
               PROVE  used'[k] >= Held(k)' /\ (crashes' = 0 => used'[k] = Held(k)')
    BY DEF QuotaAccounted, Unaccounted
  <1> DEFINE h  == Cardinality(UnitsOf(Holders, Weight(k)))
             hn == Cardinality(UnitsOf(Holders', Weight(k)))
  <1>1. used[k] >= h /\ (crashes = 0 => used[k] = h)
    BY UnaccountedFacts, HeldIs DEF QuotaAccounted, Unaccounted
  <1>2. IsFiniteSet(Holders) /\ \A c \in Creates : Weight(k)[c] \in Nat
    BY FiniteAssumption, FS_Subset, WeightFacts DEF Holders
  <1>3. used[k] \in Nat /\ h \in Nat
    BY <1>2, UnitsFinite DEF TypeOK, QuotaTypeOK, Holders
  <1>4. \A c \in Holders : create[c].pc # "idle"
    BY HoldersKnown DEF Holders
  <1>5. CASE used' = used /\ Holders' = Holders /\ crashes' = crashes
    <2>1. \A c \in Creates : Holds(c)' => create[c].pc # "idle"
      BY <1>4, <1>5 DEF Holders
    <2>2. Held(k)' = h
      BY <1>5, <2>1, HeldNext
    <2>3. QED
      BY <1>1, <1>5, <2>2
  <1>6. CASE \E c \in Creates \ Holders :
               /\ Holders' = Holders \cup {c} /\ create[c].pc # "idle"
               /\ used' = Plus(used, create[c].row.preset) /\ crashes' = crashes
    <2>1. PICK c \in Creates \ Holders :
               /\ Holders' = Holders \cup {c} /\ create[c].pc # "idle"
               /\ used' = Plus(used, create[c].row.preset) /\ crashes' = crashes
      BY <1>6
    <2>2. \A i \in Creates : Holds(i)' => create[i].pc # "idle"
      BY <1>4, <2>1 DEF Holders
    <2>3. Held(k)' = hn
      BY <2>2, HeldNext
    <2>4. hn = h + Weight(k)[c]
      BY <1>2, <2>1, UnitsMore DEF Holders
    <2>5. used'[k] = used[k] + Weight(k)[c] /\ Weight(k)[c] \in Nat
      BY <2>1, WeightFacts DEF Plus
    <2> HIDE DEF h, hn
    <2>6. QED
      BY <1>1, <1>3, <2>1, <2>3, <2>4, <2>5
  <1>7. CASE \E c \in Holders :
               /\ Holders' = Holders \ {c}
               /\ used' = Minus(used, create[c].row.preset) /\ crashes' = crashes
    <2>1. PICK c \in Holders :
               /\ Holders' = Holders \ {c}
               /\ used' = Minus(used, create[c].row.preset) /\ crashes' = crashes
      BY <1>7
    <2>2. \A i \in Creates : Holds(i)' => create[i].pc # "idle"
      BY <1>4, <2>1 DEF Holders
    <2>3. Held(k)' = hn
      BY <2>2, HeldNext
    <2>4. c \in Creates /\ Holders = Holders' \cup {c} /\ c \notin Holders' /\ IsFiniteSet(Holders')
      BY <1>2, <2>1, FS_RemoveElement DEF Holders
    <2>5. h = hn + Weight(k)[c] /\ hn \in Nat
      <3>1. \A j \in Holders' \cup {c} : Weight(k)[j] \in Nat
        BY <1>2, <2>4 DEF Holders
      <3>2. Cardinality(UnitsOf(Holders' \cup {c}, Weight(k))) = hn + Weight(k)[c]
        BY <2>4, <3>1, UnitsMore
      <3>3. QED
        BY <2>4, <3>1, <3>2, UnitsFinite
    <2>6. /\ used'[k] = IF used[k] >= Weight(k)[c] THEN used[k] - Weight(k)[c] ELSE 0
          /\ Weight(k)[c] \in Nat
      BY <1>4, <2>1, <2>4, WeightFacts DEF Minus
    <2> HIDE DEF h, hn
    <2>7. QED
      BY <1>1, <1>3, <2>1, <2>3, <2>5, <2>6
  <1>8. CASE used' = used /\ Holders' \subseteq Holders /\ crashes' # 0
    <2>1. \A c \in Creates : Holds(c)' => create[c].pc # "idle"
      BY <1>4, <1>8 DEF Holders
    <2>2. Held(k)' = hn
      BY <2>1, HeldNext
    <2>3. hn <= h /\ hn \in Nat
      <3>1. Holders' \in SUBSET Holders /\ \A j \in Holders : Weight(k)[j] \in Nat
        BY <1>2, <1>8 DEF Holders
      <3>2. IsFiniteSet(Holders')
        BY <1>2, <3>1, FS_Subset
      <3>3. \A j \in Holders' : Weight(k)[j] \in Nat
        BY <3>1
      <3>4. QED
        BY <1>2, <3>1, <3>2, <3>3, UnitsFewer, UnitsFinite
    <2> HIDE DEF h, hn
    <2>4. QED
      BY <1>1, <1>3, <1>8, <2>2, <2>3
  <1>9. QED
    BY <1>5, <1>6, <1>7, <1>8, HoldersMove

-----------------------------------------------------------------------------
(* The theorems.                                                           *)

SagaInv ==
  /\ LifecycleInv /\ RowsTrue /\ UndoLists /\ Stages /\ Owned
  /\ UniqueNames /\ NamesApart /\ SpacesApart /\ Whole /\ Clean /\ QuotaAccounted

LEMMA SagaInit == Init => SagaInv
  BY InitInv, RowsInit, UndoListsInit, StagesInit, OwnedInit, NamesInit, SpacesInit, WholeInit,
     CleanInit, AccountedInit
  DEF SagaInv

LEMMA SagaStep == SagaInv /\ [Next]_vars => SagaInv'
  <1> SUFFICES ASSUME SagaInv, [Next]_vars PROVE SagaInv'
    OBVIOUS
  <1>1. /\ LifecycleInv /\ TypeOK /\ ReadIsFresh /\ RowsTrue /\ UndoLists /\ Stages /\ Owned
        /\ UniqueNames /\ NamesApart /\ SpacesApart /\ Whole /\ Clean /\ QuotaAccounted
    BY DEF SagaInv, LifecycleInv
  <1>2. LifecycleInv'
    BY <1>1, StepInv
  <1>3. RowsTrue' /\ UndoLists' /\ Stages' /\ Owned'
    BY <1>1, RowsStep, UndoListsStep, StagesStep, OwnedStep
  <1>4. UniqueNames' /\ NamesApart' /\ SpacesApart'
    BY <1>1, UniqueStep, NamesStep, SpacesStep
  <1>5. Whole' /\ Clean' /\ QuotaAccounted'
    BY <1>1, WholeStep, CleanStep, AccountedStep
  <1>6. QED
    BY <1>2, <1>3, <1>4, <1>5 DEF SagaInv

\* The use in resource_quotas covers every project and every creation under way,
\* and is exactly that while no restart has cut a creation off: Reserve, the
\* roll-back of CreateProject and DeleteProject keep the books, for any number
\* of calls at the same time.
THEOREM QuotaIsAccounted == Spec => []QuotaAccounted
  <1>1. SagaInv => QuotaAccounted
    BY DEF SagaInv
  <1>2. QED
    BY SagaInit, SagaStep, <1>1, PTL DEF Spec

\* A creation that fails, wherever it fails, leaves no row, no application in
\* BasaltPass and no DNS record: rollback() of CreateProject undoes all of them.
THEOREM FailedCreationIsCompensated == Spec => []Compensated
  <1>1. SagaInv => Compensated
    BY CompensatedFollows DEF SagaInv
  <1>2. QED
    BY SagaInit, SagaStep, <1>1, PTL DEF Spec

\* A project that was created and that nobody deletes has everything that
\* CreateProject made for it: no roll-back and no clean-up of another project
\* takes any of it away.
THEOREM LiveProjectStaysWhole == Spec => []LiveProjectIsWhole
  <1>1. SagaInv => LiveProjectIsWhole
    BY LiveFollows DEF SagaInv, LifecycleInv
  <1>2. QED
    BY SagaInit, SagaStep, <1>1, PTL DEF Spec

\* A DeleteProject that succeeds leaves nothing of the project behind, and
\* nothing of it comes back.
THEOREM DeletionIsClean == Spec => []DeletedIsClean
  <1>1. SagaInv => DeletedIsClean
    BY CleanFollows DEF SagaInv, LifecycleInv
  <1>2. QED
    BY SagaInit, SagaStep, <1>1, PTL DEF Spec
=============================================================================
