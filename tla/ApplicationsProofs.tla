-------------------------- MODULE ApplicationsProofs --------------------------
(***************************************************************************)
(* Theorems about Applications and DependencyCredentials, and about their  *)
(* composition, for every value of their constants.                        *)
(***************************************************************************)
EXTENDS MCApplications, WellFoundedInduction, TLAPS

\* A request that is under way, or has been, has a row with a user; its job is
\* there only after it was created; what runs may still have failures.
RowsFirst ==
  \A c \in CredRequests :
    /\ caller[c] = "none" <=> record[c].status = "absent"
    /\ record[c].status # "absent" => record[c].user \in DbUsers
    /\ caller[c] \in {"none", "look", "reconcile"} => job[c].status = "none"
    /\ job[c].status = "none" => job[c].failures = 0
    /\ job[c].status = "runs" => job[c].failures < MaxAttempts

\* The password on the server is that of a credential of this user, whose job
\* has been created.
HolderIsCredential ==
  \A u \in DbUsers : server[u] # Nobody =>
    record[server[u]].user = u /\ record[server[u]].status # "absent"
      /\ job[server[u]].status # "none"

\* The server is passed over, with a client of the cluster, only for a credential
\* that was stored with the dependency.
PassedOver ==
  \A c \in CredRequests :
    /\ c \in passedOver => record[c].status # "absent" /\ (client => c \in withDependency)
    /\ caller[c] = "look" => c \in withDependency

\* A job that has succeeded has left a password for its user, and a request
\* that has ended with a ready credential has seen that, or is unmarked or passed
\* over.
SuccessIsSeen ==
  \A c \in CredRequests :
    /\ job[c].status = "succeeded" => server[record[c].user] # Nobody
    /\ caller[c] = "done" /\ record[c].status = "ready" /\ c \notin unmarked \cup passedOver =>
         job[c].status = "succeeded"

DependencyInv ==
  DependencyTypeOK /\ RowsFirst /\ HolderIsCredential /\ PassedOver /\ SuccessIsSeen

LEMMA DependencyInitInv == DependencyInit => DependencyInv
  BY DependencyAssumption DEF DependencyInit, DependencyInv, DependencyTypeOK, RowsFirst,
     HolderIsCredential, PassedOver, SuccessIsSeen, Nobody

LEMMA PodFailedInv ==
  ASSUME DependencyInv, NEW c \in CredRequests, job[c].status = "runs", PodFailed(c),
         UNCHANGED <<dbExternal, client, record, caller, unmarked, withDependency, passedOver>>,
         server' = server \/ server' = [server EXCEPT ![record[c].user] = c]
  PROVE  DependencyInv'
  <1>1. /\ job' \in [CredRequests -> [status : {"none", "runs", "succeeded", "failed"},
                                      failures : 0..MaxAttempts]]
        /\ job'[c].status \in {"runs", "failed"}
        /\ job'[c].status = "runs" => job'[c].failures < MaxAttempts
        /\ \A d \in CredRequests : d # c => job'[d] = job[d]
    <2>1. /\ job \in [CredRequests -> [status : {"none", "runs", "succeeded", "failed"},
                                       failures : 0..MaxAttempts]]
          /\ MaxAttempts \in Nat /\ job[c].failures < MaxAttempts
      BY DependencyAssumption DEF DependencyInv, DependencyTypeOK, RowsFirst
    <2> QED
      BY <2>1 DEF PodFailed
  <1> USE DependencyAssumption DEF DependencyInv, DependencyTypeOK, PodFailed
  <1>2. record[c].user \in DbUsers /\ record[c].status # "absent"
    BY DEF RowsFirst
  <1>3. DependencyTypeOK'
    BY <1>1, <1>2
  <1>4. RowsFirst'
    BY <1>1 DEF RowsFirst
  <1>5. HolderIsCredential'
    BY <1>1, <1>2 DEF HolderIsCredential, Nobody
  <1>6. SuccessIsSeen'
    BY <1>1, <1>2 DEF SuccessIsSeen, RowsFirst
  <1>7. PassedOver'
    BY DEF PassedOver
  <1> QED
    BY <1>3, <1>4, <1>5, <1>6, <1>7

LEMMA DependencyNextInv == DependencyInv /\ [DependencyNext]_dependencyVars => DependencyInv'
  <1> SUFFICES ASSUME DependencyInv, [DependencyNext]_dependencyVars PROVE DependencyInv'
    OBVIOUS
  <1> USE DependencyAssumption DEF DependencyInv, DependencyTypeOK, CallerTo
  <1>1. ASSUME NEW c \in CredRequests, NEW u \in DbUsers, InsertCredential(c, u)
        PROVE  DependencyInv'
    BY <1>1 DEF InsertCredential, Insert, RowsFirst, HolderIsCredential, PassedOver, SuccessIsSeen
  <1>2. ASSUME NEW c \in CredRequests, CreateJob(c) PROVE DependencyInv'
    BY <1>2 DEF CreateJob, RowsFirst, HolderIsCredential, PassedOver, SuccessIsSeen
  <1>3. ASSUME NEW c \in CredRequests, ReconcileFails(c) PROVE DependencyInv'
    BY <1>3 DEF ReconcileFails, RowsFirst, HolderIsCredential, PassedOver, SuccessIsSeen
  <1>4. ASSUME NEW c \in CredRequests, PodSetsPassword(c) PROVE DependencyInv'
    <2>1. CASE PodFailed(c)
      BY <1>4, <2>1, PodFailedInv DEF PodSetsPassword
    <2>2. CASE job' = [job EXCEPT ![c].status = "succeeded"]
      <3>1. record[c].user \in DbUsers /\ record[c].status # "absent"
        BY <1>4 DEF PodSetsPassword, RowsFirst
      <3> QED
        BY <1>4, <2>2, <3>1 DEF PodSetsPassword, RowsFirst, HolderIsCredential, PassedOver, SuccessIsSeen, Nobody
    <2> QED
      BY <1>4, <2>1, <2>2 DEF PodSetsPassword
  <1>5. ASSUME NEW c \in CredRequests, PodFails(c) PROVE DependencyInv'
    BY <1>5, PodFailedInv DEF PodFails
  <1>6. ASSUME NEW c \in CredRequests, JobSucceeds(c) PROVE DependencyInv'
    BY <1>6 DEF JobSucceeds, RowsFirst, HolderIsCredential, PassedOver, SuccessIsSeen
  <1>7. ASSUME NEW c \in CredRequests, WaitEnds(c) PROVE DependencyInv'
    BY <1>7 DEF WaitEnds, RowsFirst, HolderIsCredential, PassedOver, SuccessIsSeen
  <1>8. ASSUME NEW c \in CredRequests, MarkFailed(c) PROVE DependencyInv'
    <2>1. CASE UNCHANGED record
      BY <1>8, <2>1 DEF MarkFailed, RowsFirst, HolderIsCredential, PassedOver, SuccessIsSeen
    <2>2. CASE record' = [record EXCEPT ![c].status = "failed"] /\ UNCHANGED unmarked
      <3>1. /\ \A d \in CredRequests : record'[d].user = record[d].user
            /\ \A d \in CredRequests : d # c => record'[d] = record[d]
            /\ record[c].status # "absent" /\ record'[c].status = "failed"
        BY <1>8, <2>2 DEF MarkFailed, RowsFirst
      <3>2. DependencyTypeOK'
        BY <1>8, <2>2 DEF MarkFailed
      <3>3. RowsFirst' /\ PassedOver' /\ SuccessIsSeen'
        BY <1>8, <2>2, <3>1 DEF MarkFailed, RowsFirst, PassedOver, SuccessIsSeen
      <3>4. HolderIsCredential'
        BY <1>8, <3>1, \A u \in DbUsers : server[u] = Nobody \/ server[u] \in CredRequests
        DEF MarkFailed, HolderIsCredential
      <3> QED
        BY <3>2, <3>3, <3>4
    <2> QED
      BY <1>8, <2>1, <2>2 DEF MarkFailed
  <1>9. ASSUME NEW c \in CredRequests, LoseRequest(c) PROVE DependencyInv'
    BY <1>9 DEF LoseRequest, RowsFirst, HolderIsCredential, PassedOver, SuccessIsSeen
  <1>11. ASSUME NEW c \in CredRequests, NEW u \in DbUsers, StoreCredential(c, u)
         PROVE  DependencyInv'
    BY <1>11 DEF StoreCredential, Insert, RowsFirst, HolderIsCredential, PassedOver, SuccessIsSeen
  <1>12. ASSUME NEW c \in CredRequests, FindCredential(c) PROVE DependencyInv'
    BY <1>12 DEF FindCredential, RowsFirst, HolderIsCredential, PassedOver, SuccessIsSeen
  <1>13. ASSUME NEW c \in CredRequests, SkipServer(c) PROVE DependencyInv'
    BY <1>13 DEF SkipServer, RowsFirst, HolderIsCredential, PassedOver, SuccessIsSeen
  <1>10. CASE UNCHANGED dependencyVars
    BY <1>10 DEF dependencyVars, RowsFirst, HolderIsCredential, PassedOver, SuccessIsSeen
  <1> QED
    BY <1>1, <1>2, <1>3, <1>4, <1>5, <1>6, <1>7, <1>8, <1>9, <1>10, <1>11, <1>12,
       <1>13 DEF DependencyNext

LEMMA DependencySpecInv == DependencySpec => []DependencyInv
  BY DependencyInitInv, DependencyNextInv, PTL DEF DependencySpec

\* A ready credential whose request has ended is one that somebody can log in
\* with, however jobs outlast the requests that wait for them, unless the server
\* was not asked; which, with a client of the cluster, happens only to a credential
\* that was stored with its dependency (DependencyService.CreateCredential, Create,
\* waitForJob).
THEOREM ReadyPasswordWorks == DependencySpec => []PasswordWorks
  <1>1. DependencyInv => PasswordWorks
    BY DependencyAssumption DEF DependencyInv, DependencyTypeOK, RowsFirst, HolderIsCredential,
       PassedOver, SuccessIsSeen, PasswordWorks, Nobody
  <1> QED
    BY <1>1, DependencySpecInv, PTL
-----------------------------------------------------------------------------
(* Applications: the invariant.                                            *)

Wiring ==
  /\ app \in {"absent", "creating", "active", "partial_failed", "deleting", "partial_deleted",
              "gone"}
  /\ creator = [pc |-> creator.pc, at |-> creator.at, made |-> creator.made,
                known |-> creator.known, bad |-> creator.bad]
  /\ creator.pc \in {"none", "dependency", "insert", "component", "link", "finish"}
  /\ creator.bad \in BOOLEAN
  /\ remover = [r \in Deletions |-> remover[r]]
  /\ \A r \in Deletions :
       /\ remover[r] = [pc |-> remover[r].pc, left |-> remover[r].left, bad |-> remover[r].bad]
       /\ remover[r].pc \in {"none", "find", "projects"} /\ remover[r].bad \in BOOLEAN

\* A request creates what a valid document says, from its beginning; what it
\* takes over it has found.
Places ==
  /\ app = "absent" => creator = NoCreator /\ adding = {} /\ ~Removing
  /\ Creating => Validate(document)
  /\ creator.pc \in {"dependency", "insert"} => creator.at \in DOMAIN document.deps
  /\ creator.pc = "insert" /\ Dependency.other => Dependency.id \in DOMAIN Others
  /\ creator.pc \in {"component", "link"} => creator.at \in DOMAIN document.comps

OwnRow(row) == \/ row[1] = "document" /\ row[2] \in NamesOf(document.deps)
               \/ row[1] = "added" /\ \E d \in Additions : row[2] = d.name

Rows ==
  /\ \A row \in own : OwnRow(row)
  /\ othersLeft \subseteq DOMAIN Others /\ adding \subseteq Additions
  /\ \A r \in Deletions : remover[r].left \subseteq DOMAIN project
  /\ failed \in 0..MaxFailed /\ kills \in 0..MaxKills
  /\ disturbed \in BOOLEAN /\ late \in BOOLEAN

\* The components that the request has not yet made
Ahead(i) ==
  \/ app = "absent" \/ creator.pc \in {"dependency", "insert"}
  \/ creator.pc \in {"component", "link"} /\ creator.at <= i

Untouched(n) == ~project[n].linked /\ \A r \in Deletions : n \notin remover[r].left

ProjectsInv ==
  /\ project = [n \in NamesOf(document.comps) |-> project[n]]
  /\ \A n \in DOMAIN project :
       /\ project[n] = [there |-> project[n].there, linked |-> project[n].linked,
                        env |-> project[n].env, secret |-> project[n].secret]
       /\ project[n].linked => project[n].there
  /\ \A i \in DOMAIN document.comps : Ahead(i) => Untouched(document.comps[i].name)
  /\ creator.pc = "link" => project[document.comps[creator.at].name].there

\* Who deletes is alone, or with others that delete.
Alone ==
  ~disturbed =>
    /\ Creating => app = "creating" /\ ~Removing
    /\ adding # {} => HasRow /\ ~Removing
    /\ Removing => app \in {"deleting", "partial_deleted", "gone"}
    /\ ~late

\* The dependency at j has been taken over from others, in a row with the name of
\* the one at i.
InPlace(i, j) ==
  LET d == document.deps[j] IN
  d.other /\ d.id \in DOMAIN Others /\ Others[d.id].name = document.deps[i].name

\* Dependencies that the request has got, with their credential, unless a later
\* one is in their place.
Got(i) ==
  LET d == document.deps[i] IN
  ~d.other =>
    /\ d.name \in DOMAIN creator.known
    /\ \/ creator.known[d.name] = <<"document", d.name>>
       \/ \E j \in i + 1 .. Len(document.deps) :
            InPlace(i, j) /\ creator.known[d.name] = <<"other", document.deps[j].id>>
    /\ d.credential # "" => <<<<"document", d.name>>, d.credential>> \in credentials

\* The dependencies that a request is through with.
Through(i) ==
  \/ creator.pc \in {"dependency", "insert"} /\ i < creator.at
  \/ creator.pc \in {"component", "link", "finish"}

KnownInv ==
  ~disturbed /\ ~creator.bad => \A i \in DOMAIN document.deps : Through(i) => Got(i)

Planned(i) ==
  LET c == document.comps[i] p == project[c.name] IN
  /\ \A ref \in c.refs : Plain(ref) => envNamesForDependency(document, ref) \subseteq p.env
  /\ (\A ref \in c.refs : Plain(ref)) =>
       p.env = UNION {envNamesForDependency(document, ref) : ref \in c.refs}
  /\ p.secret = resolveComponentSecrets(document)[i]

Behind(i) ==
  \/ app = "active"
  \/ ~creator.bad /\ creator.pc = "finish"
  \/ ~creator.bad /\ creator.pc \in {"component", "link"} /\ i < creator.at

PlannedInv ==
  ~disturbed =>
    /\ app = "active" => Validate(document)
    /\ \A i \in DOMAIN document.comps :
         /\ Behind(i) => Planned(i) /\ project[document.comps[i].name].linked
         /\ ~creator.bad /\ creator.pc = "link" /\ i = creator.at =>
              Planned(i)

Missing ==
  failed > 0 \/ \E i \in DOMAIN document.deps :
    document.deps[i].other /\ document.deps[i].id \notin othersLeft

MissingInv ==
  ~disturbed => ((creator.bad \/ app = "partial_failed") => Missing)

GoneInv ==
  /\ app = "gone" /\ ~late => own = {} /\ rows = {}
  /\ ~disturbed =>
       /\ \A r \in Deletions : remover[r].pc = "projects" /\ ~remover[r].bad =>
            \A n \in DOMAIN project : project[n].linked => n \in remover[r].left
       /\ app = "gone" => \A n \in DOMAIN project : ~project[n].linked

AppInv ==
  /\ document \in Documents
  /\ Wiring /\ Places /\ Rows /\ ProjectsInv /\ Alone /\ KnownInv /\ PlannedInv /\ MissingInv
  /\ GoneInv

-----------------------------------------------------------------------------
(* Applications: where a request goes.                                     *)

Made(pc, at, made, known, bad) ==
  [pc |-> pc, at |-> at, made |-> made, known |-> known, bad |-> bad]

LEMMA DocumentFacts ==
  ASSUME document \in Documents
  PROVE  /\ Len(document.deps) \in Nat /\ DOMAIN document.deps = 1..Len(document.deps)
         /\ Len(document.comps) \in Nat /\ DOMAIN document.comps = 1..Len(document.comps)
         /\ document.comps # <<>> => Len(document.comps) > 0
         /\ IsDocument(document)
  <1>1. IsDocument(document)
    BY ApplicationAssumption
  <1>2. \A S : document.comps \in Seq(S) /\ document.comps # <<>> => Len(document.comps) > 0
    OBVIOUS
  <1> QED
    BY <1>1, <1>2 DEF IsDocument

\* The next dependency, or the first component; the next component, or the end.
LEMMA NextPlaces ==
  ASSUME Wiring, NEW i
  PROVE  /\ ToDependency(i) =
              Made(IF i <= Len(document.deps) THEN "dependency" ELSE "component",
                   IF i <= Len(document.deps) THEN i ELSE 1,
                   creator.made, creator.known, creator.bad)
         /\ ToComponent(i) =
              Made(IF i <= Len(document.comps) THEN "component" ELSE "finish",
                   IF i <= Len(document.comps) THEN i ELSE 1,
                   creator.made, creator.known, creator.bad)
  <1>1. ASSUME NEW pc, NEW at
        PROVE  [creator EXCEPT !.pc = pc, !.at = at] =
                 Made(pc, at, creator.made, creator.known, creator.bad)
    <2> DEFINE e == [creator EXCEPT !.pc = pc]
    <2>1. e = Made(pc, creator.at, creator.made, creator.known, creator.bad)
      BY DEF Wiring, Made
    <2>2. [creator EXCEPT !.pc = pc, !.at = at] = [e EXCEPT !.at = at]
      OBVIOUS
    <2> HIDE DEF e
    <2>3. [e EXCEPT !.at = at] = Made(pc, at, creator.made, creator.known, creator.bad)
      BY <2>1 DEF Made
    <2> QED
      BY <2>2, <2>3
  <1> QED
    BY <1>1 DEF ToDependency, ToComponent

LEMMA MadeFields ==
  ASSUME NEW pc, NEW at, NEW made, NEW known, NEW bad
  PROVE  LET c == Made(pc, at, made, known, bad) IN
         /\ c = [pc |-> c.pc, at |-> c.at, made |-> c.made, known |-> c.known, bad |-> c.bad]
         /\ c.pc = pc /\ c.at = at /\ c.made = made /\ c.known = known /\ c.bad = bad
  BY DEF Made

\* What a step makes of the request, its fields one by one.
Goes(pc, at, known, bad) ==
  /\ creator'.pc = pc /\ creator'.at = at /\ creator'.known = known /\ creator'.bad = bad
  /\ creator' = [pc |-> creator'.pc, at |-> creator'.at, made |-> creator'.made,
                 known |-> creator'.known, bad |-> creator'.bad]

LEMMA GoesWhereMade ==
  ASSUME NEW pc, NEW at, NEW made, NEW known, NEW bad, creator' = Made(pc, at, made, known, bad)
  PROVE  Goes(pc, at, known, bad)
  BY MadeFields DEF Goes

\* Steps of a request, without their effects.
NextDependency(known, bad) ==
  LET i == creator.at + 1 last == i > Len(document.deps) IN
  Goes(IF last THEN "component" ELSE "dependency", IF last THEN 1 ELSE i, known, bad)

NextComponent(bad) ==
  LET i == creator.at + 1 last == i > Len(document.comps) IN
  Goes(IF last THEN "finish" ELSE "component", IF last THEN 1 ELSE i, creator.known, bad)

LEMMA CreatorMoves ==
  ASSUME AppInv
  PROVE  /\ Apply => Goes(IF Len(document.deps) > 0 THEN "dependency" ELSE "component", 1,
                          creator.known, creator.bad)
         /\ FindApplication => Goes("insert", creator.at, creator.known, creator.bad)
         /\ CreateDependency =>
              NextDependency(Known(creator.known, Dependency), creator.bad)
         /\ DependencyFails => NextDependency(creator.known, TRUE)
         /\ CreateComponent => Goes("link", creator.at, creator.known, creator.bad)
         /\ ComponentFails => NextComponent(TRUE)
         /\ LinkComponent => NextComponent(creator.bad)
  <1> DEFINE d == ToDependency(creator.at + 1)
             c == ToComponent(creator.at + 1)
  <1>1. Wiring /\ Len(document.deps) \in Nat /\ Len(document.comps) \in Nat
    BY DocumentFacts DEF AppInv
  <1>2. /\ creator.pc \in {"dependency", "insert"} => creator.at \in Nat
        /\ creator.pc \in {"component", "link"} => creator.at \in Nat
    BY DocumentFacts DEF AppInv, Places
  <1>3. d = Made(d.pc, d.at, d.made, d.known, d.bad) /\ c = Made(c.pc, c.at, c.made, c.known, c.bad)
        /\ d.known = creator.known /\ d.bad = creator.bad /\ c.known = creator.known
        /\ c.bad = creator.bad
    BY <1>1, NextPlaces, MadeFields
  <1>4. creator.at \in Nat =>
        /\ d.pc = (IF creator.at + 1 > Len(document.deps) THEN "component" ELSE "dependency")
        /\ d.at = (IF creator.at + 1 > Len(document.deps) THEN 1 ELSE creator.at + 1)
        /\ c.pc = (IF creator.at + 1 > Len(document.comps) THEN "finish" ELSE "component")
        /\ c.at = (IF creator.at + 1 > Len(document.comps) THEN 1 ELSE creator.at + 1)
    BY <1>1, NextPlaces, MadeFields
  <1>5. ASSUME Apply
        PROVE  Goes(IF Len(document.deps) > 0 THEN "dependency" ELSE "component", 1,
                    creator.known, creator.bad)
    <2>1. creator' = Made(IF 1 <= Len(document.deps) THEN "dependency" ELSE "component",
                          1, creator.made, creator.known, creator.bad)
      BY <1>1, <1>5, NextPlaces DEF Apply
    <2> QED
      BY <1>1, <2>1 DEF Goes, Made
  <1> HIDE DEF d, c
  <1>6. ASSUME CreateDependency
        PROVE  NextDependency(Known(creator.known, Dependency), creator.bad)
    <2> DEFINE k == Known(creator.known, Dependency)
    <2>1. creator' = [d EXCEPT !.known = Known(d.known, Dependency)] /\ creator.at \in Nat
      BY <1>2, <1>6 DEF CreateDependency, d
    <2> HIDE DEF k
    <2>2. creator' = [d EXCEPT !.known = k]
      BY <1>3, <2>1 DEF k
    <2>3. creator' = Made(d.pc, d.at, d.made, k, d.bad)
      BY <1>3, <2>2 DEF Made
    <2>4. Goes(d.pc, d.at, k, d.bad)
      BY <2>3, GoesWhereMade
    <2> QED
      BY <1>3, <1>4, <2>1, <2>4 DEF NextDependency, k
  <1>7. ASSUME DependencyFails PROVE NextDependency(creator.known, TRUE)
    <2>1. creator' = [d EXCEPT !.bad = TRUE] /\ creator.at \in Nat
      BY <1>2, <1>7 DEF DependencyFails, d
    <2>2. creator' = Made(d.pc, d.at, d.made, d.known, TRUE)
      BY <1>3, <2>1 DEF Made
    <2>3. Goes(d.pc, d.at, d.known, TRUE)
      BY <2>2, GoesWhereMade
    <2> QED
      BY <1>3, <1>4, <2>1, <2>3 DEF NextDependency
  <1>8. ASSUME CreateComponent PROVE Goes("link", creator.at, creator.known, creator.bad)
    <2>1. creator' = Made("link", creator.at, creator.made, creator.known, creator.bad)
      BY <1>1, <1>8 DEF CreateComponent, Wiring, Made
    <2> QED
      BY <2>1, MadeFields DEF Goes
  <1>11. ASSUME FindApplication
         PROVE  Goes("insert", creator.at, creator.known, creator.bad)
    <2>1. creator' = Made("insert", creator.at, creator.made, creator.known, creator.bad)
      BY <1>1, <1>11 DEF FindApplication, Wiring, Made
    <2> QED
      BY <2>1, MadeFields DEF Goes
  <1>9. ASSUME ComponentFails PROVE NextComponent(TRUE)
    <2>1. creator' = [c EXCEPT !.bad = TRUE] /\ creator.at \in Nat
      BY <1>2, <1>9 DEF ComponentFails, c
    <2>2. creator' = Made(c.pc, c.at, c.made, c.known, TRUE)
      BY <1>3, <2>1 DEF Made
    <2>3. Goes(c.pc, c.at, c.known, TRUE)
      BY <2>2, GoesWhereMade
    <2> QED
      BY <1>3, <1>4, <2>1, <2>3 DEF NextComponent
  <1>10. ASSUME LinkComponent PROVE NextComponent(creator.bad)
    <2>1. creator' = [c EXCEPT !.made = TRUE] /\ creator.at \in Nat
      BY <1>2, <1>10 DEF LinkComponent, c
    <2>2. creator' = Made(c.pc, c.at, TRUE, c.known, c.bad)
      BY <1>3, <2>1 DEF Made
    <2>3. Goes(c.pc, c.at, c.known, c.bad)
      BY <2>2, GoesWhereMade
    <2> QED
      BY <1>3, <1>4, <2>1, <2>3 DEF NextComponent
  <1> QED
    BY <1>5, <1>6, <1>7, <1>8, <1>9, <1>10, <1>11

\* What a step makes of one deletion; the others stay.
Removes(r, pc, left, bad) ==
  /\ remover' = [q \in Deletions |-> remover'[q]]
  /\ remover'[r] = [pc |-> pc, left |-> left, bad |-> bad]
  /\ \A q \in Deletions \ {r} : remover'[q] = remover[q]

Linked == {n \in DOMAIN project : project[n].linked}

LEMMA RemoverMoves ==
  ASSUME AppInv, NEW r \in Deletions
  PROVE  /\ BeginDelete(r) => Removes(r, "find", {}, FALSE)
         /\ FindProjects(r) => \/ Removes(r, "projects", Linked, remover[r].bad)
                              \/ Removes(r, "none", {}, FALSE)
         /\ \A n : DeleteProjectOf(r, n) =>
              \/ project' = [project EXCEPT ![n] = NoProject]
                   /\ Removes(r, "projects", remover[r].left \ {n}, remover[r].bad)
              \/ UNCHANGED project /\ Removes(r, "projects", remover[r].left \ {n}, TRUE)
         /\ EndDelete(r) => Removes(r, "none", {}, FALSE)
  <1>1. /\ remover = [q \in Deletions |-> remover[q]]
        /\ remover[r] = [pc |-> remover[r].pc, left |-> remover[r].left, bad |-> remover[r].bad]
    BY DEF AppInv, Wiring
  <1>2. ASSUME NEW pc, NEW left, NEW bad,
               remover' = [remover EXCEPT ![r] = [pc |-> pc, left |-> left, bad |-> bad]]
        PROVE  Removes(r, pc, left, bad)
    <2> DEFINE rec == [pc |-> pc, left |-> left, bad |-> bad]
    <2> HIDE DEF rec
    <2>1. remover' = [q \in Deletions |-> IF q = r THEN rec ELSE remover[q]]
      BY <1>1, <1>2 DEF rec
    <2>2. \A q \in Deletions : remover'[q] = IF q = r THEN rec ELSE remover[q]
      BY <2>1
    <2>3. remover' = [q \in Deletions |-> remover'[q]]
      BY <2>1, <2>2
    <2> QED
      BY <2>2, <2>3 DEF Removes, rec
  <1>3. ASSUME NEW x, NEW y, x = [pc |-> x.pc, left |-> x.left, bad |-> x.bad]
        PROVE  /\ [x EXCEPT !.left = y] = [pc |-> x.pc, left |-> y, bad |-> x.bad]
               /\ [x EXCEPT !.pc = y] = [pc |-> y, left |-> x.left, bad |-> x.bad]
               /\ [x EXCEPT !.bad = y] = [pc |-> x.pc, left |-> x.left, bad |-> y]
    BY <1>3
  <1>4. ASSUME BeginDelete(r) PROVE Removes(r, "find", {}, FALSE)
    <2>1. [NoRemover EXCEPT !.pc = "find"] = [pc |-> "find", left |-> {}, bad |-> FALSE]
      <3>1. /\ NoRemover = [pc |-> NoRemover.pc, left |-> NoRemover.left, bad |-> NoRemover.bad]
            /\ NoRemover.left = {} /\ NoRemover.bad = FALSE
        BY DEF NoRemover
      <3>2. [NoRemover EXCEPT !.pc = "find"] =
              [pc |-> "find", left |-> NoRemover.left, bad |-> NoRemover.bad]
        BY <1>3, <3>1
      <3> QED
        BY <3>1, <3>2
    <2>2. remover' = [remover EXCEPT ![r] = [pc |-> "find", left |-> {}, bad |-> FALSE]]
      BY <1>4, <2>1 DEF BeginDelete
    <2> QED
      BY <1>2, <2>2
  <1>5. remover' = [remover EXCEPT ![r] = NoRemover] => Removes(r, "none", {}, FALSE)
    BY <1>2 DEF NoRemover
  <1>6. ASSUME FindProjects(r)
        PROVE  Removes(r, "projects", Linked, remover[r].bad) \/ Removes(r, "none", {}, FALSE)
    <2> DEFINE e == [remover[r] EXCEPT !.pc = "projects"]
    <2>1. e = [pc |-> "projects", left |-> remover[r].left, bad |-> remover[r].bad]
      BY <1>1, <1>3
    <2>2. \/ remover' = [remover EXCEPT ![r] = [e EXCEPT !.left = Linked]]
          \/ remover' = [remover EXCEPT ![r] = NoRemover]
      BY <1>6 DEF FindProjects, Linked
    <2> HIDE DEF e
    <2>3. [e EXCEPT !.left = Linked] =
            [pc |-> "projects", left |-> Linked, bad |-> remover[r].bad]
      BY <2>1
    <2> QED
      BY <1>2, <1>5, <2>2, <2>3
  <1>7. ASSUME NEW n, DeleteProjectOf(r, n)
        PROVE  \/ /\ project' = [project EXCEPT ![n] = NoProject]
                  /\ Removes(r, "projects", remover[r].left \ {n}, remover[r].bad)
               \/ UNCHANGED project /\ Removes(r, "projects", remover[r].left \ {n}, TRUE)
    <2> DEFINE e == [remover[r] EXCEPT !.left = remover[r].left \ {n}]
    <2>1. e = [pc |-> "projects", left |-> remover[r].left \ {n}, bad |-> remover[r].bad]
      <3>1. remover[r].pc = "projects"
        BY <1>7 DEF DeleteProjectOf
      <3> QED
        BY <1>1, <1>3, <3>1
    <2>2. \/ /\ project' = [project EXCEPT ![n] = NoProject]
             /\ remover' = [remover EXCEPT ![r].left = @ \ {n}]
          \/ /\ UNCHANGED project
             /\ remover' = [remover EXCEPT ![r] = [remover[r] EXCEPT !.left = @ \ {n}, !.bad = TRUE]]
      BY <1>7 DEF DeleteProjectOf
    <2>3. [remover EXCEPT ![r].left = @ \ {n}] = [remover EXCEPT ![r] = e]
      OBVIOUS
    <2>4. [remover EXCEPT ![r] = [remover[r] EXCEPT !.left = @ \ {n}, !.bad = TRUE]] =
            [remover EXCEPT ![r] = [e EXCEPT !.bad = TRUE]]
      <3>1. \A x : [x EXCEPT !.left = @ \ {n}, !.bad = TRUE] =
                     [[x EXCEPT !.left = @ \ {n}] EXCEPT !.bad = TRUE]
        OBVIOUS
      <3>2. [remover[r] EXCEPT !.left = @ \ {n}, !.bad = TRUE] = [e EXCEPT !.bad = TRUE]
        BY <3>1
      <3> QED
        BY <3>2
    <2> HIDE DEF e
    <2>5. [e EXCEPT !.bad = TRUE] =
            [pc |-> "projects", left |-> remover[r].left \ {n}, bad |-> TRUE]
      <3>1. /\ e.pc = "projects" /\ e.left = remover[r].left \ {n}
            /\ e = [pc |-> e.pc, left |-> e.left, bad |-> e.bad]
        BY <2>1
      <3>2. [e EXCEPT !.bad = TRUE] = [pc |-> e.pc, left |-> e.left, bad |-> TRUE]
        BY <1>3, <3>1
      <3> QED
        BY <3>1, <3>2
    <2>6. CASE /\ project' = [project EXCEPT ![n] = NoProject]
               /\ remover' = [remover EXCEPT ![r].left = @ \ {n}]
      <3>1. remover' = [remover EXCEPT ![r] =
              [pc |-> "projects", left |-> remover[r].left \ {n}, bad |-> remover[r].bad]]
        BY <2>1, <2>3, <2>6
      <3> QED
        BY <1>2, <2>6, <3>1
    <2>7. CASE /\ UNCHANGED project
               /\ remover' = [remover EXCEPT ![r] = [remover[r] EXCEPT !.left = @ \ {n}, !.bad = TRUE]]
      <3>1. remover' = [remover EXCEPT ![r] =
              [pc |-> "projects", left |-> remover[r].left \ {n}, bad |-> TRUE]]
        BY <2>4, <2>5, <2>7
      <3> QED
        BY <1>2, <2>7, <3>1
    <2> QED
      BY <2>2, <2>6, <2>7
  <1>8. ASSUME EndDelete(r) PROVE Removes(r, "none", {}, FALSE)
    BY <1>5, <1>8 DEF EndDelete
  <1> QED
    BY <1>4, <1>6, <1>7, <1>8

-----------------------------------------------------------------------------
(* Applications: secrets.                                                  *)

LEMMA LeastNumber ==
  ASSUME NEW T, T \subseteq Nat, T # {}
  PROVE  \E x \in T : \A y \in T : x <= y
  <1>1. \E x \in T : \A y \in T : <<y, x>> \notin OpToRel(<, Nat)
    BY NatLessThanWellFounded, WFMin
  <1>2. \A x, y \in Nat : <<y, x>> \notin OpToRel(<, Nat) => x <= y
    BY DEF OpToRel
  <1> QED
    BY <1>1, <1>2

Sources(comps, i) == {j \in 1 .. i - 1 : comps[j].name = comps[i].secret}

SecretAt(comps, s, i) ==
  IF comps[i].secret = "generate" THEN comps[i].name
  ELSE IF Sources(comps, i) = {} THEN "none" ELSE s[CHOOSE j \in Sources(comps, i) : TRUE]

\* The equation of resolveComponentSecrets has a solution: a secret is taken
\* over from an earlier component.
LEMMA SecretsResolve ==
  ASSUME NEW doc \in Documents, NEW i \in DOMAIN doc.comps
  PROVE  resolveComponentSecrets(doc)[i] =
           SecretAt(doc.comps, resolveComponentSecrets(doc), i)
  <1> DEFINE comps == doc.comps
             n == Len(doc.comps)
             Solves(f, m) == f = [k \in 1..m |-> SecretAt(comps, f, k)]
             Unsolved == {m \in 0..n : \A f : ~Solves(f, m)}
  <1>1. n \in Nat /\ DOMAIN comps = 1..n
    <2>1. IsDocument(doc)
      BY ApplicationAssumption
    <2> QED
      BY <2>1 DEF IsDocument
  <1> HIDE DEF comps, n
  <1>2. Unsolved = {}
    <2> SUFFICES ASSUME Unsolved # {} PROVE FALSE
      OBVIOUS
    <2>1. Unsolved \subseteq Nat
      BY <1>1
    <2> HIDE DEF Unsolved
    <2>2. PICK m \in Unsolved : \A k \in Unsolved : m <= k
      BY <2>1, LeastNumber
    <2>3. m \in 0..n /\ \A f : ~Solves(f, m)
      BY <2>2 DEF Unsolved
    <2>4. m # 0
      <3> DEFINE f == [k \in 1..0 |-> "none"]
      <3>1. Solves(f, 0)
        OBVIOUS
      <3> QED
        BY <2>3, <3>1
    <2>5. m - 1 \in 0..n /\ m - 1 \notin Unsolved
      BY <1>1, <2>2, <2>3, <2>4
    <2>6. PICK f : Solves(f, m - 1)
      BY <2>5 DEF Unsolved
    <2> DEFINE g == [k \in 1..m |-> IF k = m THEN SecretAt(comps, f, m) ELSE f[k]]
    <2>7. ASSUME NEW k \in 1..m PROVE SecretAt(comps, g, k) = SecretAt(comps, f, k)
      <3>1. CASE Sources(comps, k) = {}
        BY <3>1 DEF SecretAt
      <3>2. CASE Sources(comps, k) # {}
        <4> DEFINE j == CHOOSE j \in Sources(comps, k) : TRUE
        <4>1. j \in 1 .. k - 1
          BY <3>2 DEF Sources
        <4> HIDE DEF j
        <4>2. j \in 1..m /\ j # m
          BY <2>3, <2>4, <4>1
        <4>3. g[j] = f[j]
          BY <4>2
        <4> HIDE DEF g
        <4> QED
          BY <4>3 DEF SecretAt, j
      <3> QED
        BY <3>1, <3>2
    <2>8. ASSUME NEW k \in 1..m PROVE g[k] = SecretAt(comps, f, k)
      <3>1. CASE k = m
        BY <3>1
      <3>2. CASE k # m
        <4>1. k \in 1 .. m - 1
          BY <2>3, <2>4, <3>2
        <4> QED
          BY <2>6, <3>2, <4>1
      <3> QED
        BY <3>1, <3>2
    <2>9. g = [k \in 1..m |-> SecretAt(comps, g, k)]
      <3>1. g = [k \in 1..m |-> g[k]]
        OBVIOUS
      <3> HIDE DEF g
      <3> QED
        BY <2>7, <2>8, <3>1
    <2> HIDE DEF g
    <2> QED
      BY <2>3, <2>9
  <1>3. \E f : Solves(f, n)
    BY <1>1, <1>2
  <1> DEFINE sol == CHOOSE f : Solves(f, n)
  <1>4. Solves(sol, n)
    BY <1>3, Zenon
  <1>5. resolveComponentSecrets(doc) = sol
    <2>1. DOMAIN comps = 1..n
      BY <1>1
    <2> QED
      BY <2>1 DEF resolveComponentSecrets, SecretAt, Sources, comps
  <1> HIDE DEF sol
  <1>6. sol[i] = SecretAt(comps, sol, i)
    BY <1>1, <1>4 DEF comps
  <1> QED
    BY <1>5, <1>6 DEF comps

\* A component that takes over the secret of an earlier one has that secret.
LEMMA SecretsAreTaken ==
  ASSUME NEW doc \in Documents, NamesUnique(doc.comps), NEW i \in DOMAIN doc.comps,
         NEW j \in 1 .. i - 1, doc.comps[j].name = doc.comps[i].secret
  PROVE  resolveComponentSecrets(doc)[i] = resolveComponentSecrets(doc)[j]
  <1>1. IsDocument(doc)
    BY ApplicationAssumption
  <1>2. Len(doc.comps) \in Nat /\ DOMAIN doc.comps = 1..Len(doc.comps)
    BY <1>1 DEF IsDocument
  <1>3. j \in DOMAIN doc.comps /\ j \in Sources(doc.comps, i)
    BY <1>2 DEF Sources
  <1>4. \A k \in Sources(doc.comps, i) : k = j
    <2> SUFFICES ASSUME NEW k \in Sources(doc.comps, i) PROVE k = j
      OBVIOUS
    <2>1. k \in DOMAIN doc.comps /\ doc.comps[k].name = doc.comps[j].name
      BY <1>2 DEF Sources
    <2> QED
      BY <1>3, <2>1 DEF NamesUnique
  <1>5. (CHOOSE k \in Sources(doc.comps, i) : TRUE) = j
    BY <1>3, <1>4
  <1>6. doc.comps[i].secret # "generate"
    BY <1>1, <1>3 DEF IsDocument
  <1>7. Sources(doc.comps, i) # {}
    BY <1>3
  <1> QED
    BY <1>5, <1>6, <1>7, SecretsResolve DEF SecretAt

-----------------------------------------------------------------------------
(* Applications: a step keeps the invariant, part by part.                 *)

LEMMA DocumentStays ==
  ASSUME AppNext
  PROVE  document' = document
  BY DEF AppNext, Apply, FindApplication, CreateDependency, DependencyFails, CreateComponent,
         ComponentFails, LinkComponent, FinishCreation, BeginAddition, EndAddition, BeginDelete,
         FindProjects, DeleteProjectOf, EndDelete, DeleteOthers, Kill

\* Steps of the request that creates, of those that add and delete, and others.
CreatesNext ==
  \/ Apply \/ FindApplication \/ CreateDependency \/ DependencyFails
  \/ CreateComponent \/ ComponentFails \/ LinkComponent
AddsNext == \E d \in Additions : BeginAddition(d) \/ EndAddition(d)
RemovesNext ==
  \E r \in Deletions : \/ BeginDelete(r) \/ FindProjects(r) \/ EndDelete(r)
                       \/ \E n \in DOMAIN project : DeleteProjectOf(r, n)

LEMMA NextSplits ==
  AppNext <=> CreatesNext \/ FinishCreation \/ AddsNext \/ RemovesNext \/ DeleteOthers \/ Kill
  BY DEF AppNext, CreatesNext, AddsNext, RemovesNext

LEMMA CreatorBusy ==
  ASSUME AppInv, CreatesNext, ~Apply
  PROVE  Creating /\ app # "absent" /\ UNCHANGED app
  <1>1. creator.pc \in {"dependency", "insert", "component", "link"} /\ UNCHANGED app
    BY DEF CreatesNext, FindApplication, CreateDependency, DependencyFails, CreateComponent,
           ComponentFails, LinkComponent
  <1>2. Creating
    BY <1>1 DEF Creating
  <1> QED
    BY <1>1, <1>2 DEF AppInv, Places, NoCreator, Creating

LEMMA Frames ==
  ASSUME AppInv
  PROVE  /\ CreatesNext => UNCHANGED <<adding, remover, kills, disturbed, othersLeft>>
                           /\ IF app = "absent" THEN app' = "creating" ELSE UNCHANGED app
         /\ FinishCreation => UNCHANGED <<adding, remover, kills, disturbed, othersLeft>>
                              /\ creator' = NoCreator /\ app # "absent"
         /\ AddsNext => UNCHANGED <<app, project, creator, remover, kills, othersLeft>>
                        /\ app # "absent"
         /\ RemovesNext => UNCHANGED <<creator, adding, kills, othersLeft>> /\ app # "absent"
                           /\ app' \in {app, "deleting", "gone", "partial_deleted"}
         /\ DeleteOthers => UNCHANGED <<app, creator, adding, remover, kills, disturbed>>
         /\ Kill => creator' = NoCreator /\ adding' = {} /\ disturbed'
                    /\ remover' = [r \in Deletions |-> NoRemover]
                    /\ UNCHANGED <<app, othersLeft>> /\ app # "absent"
  <1>1. app = "absent" =>
          creator.pc = "none" /\ adding = {} /\ \A r \in Deletions : remover[r].pc = "none"
    BY DEF AppInv, Places, NoCreator, Removing
  <1>2. ASSUME CreatesNext
        PROVE  UNCHANGED <<adding, remover, kills, disturbed, othersLeft>>
               /\ IF app = "absent" THEN app' = "creating" ELSE UNCHANGED app
    <2>1. UNCHANGED <<adding, remover, kills, disturbed, othersLeft>>
      BY <1>2 DEF CreatesNext, Apply, FindApplication, CreateDependency, DependencyFails,
                  CreateComponent, ComponentFails, LinkComponent
    <2>2. Apply => app = "absent" /\ app' = "creating"
      BY DEF Apply
    <2> QED
      BY <1>2, <2>1, <2>2, CreatorBusy
  <1>3. FinishCreation => UNCHANGED <<adding, remover, kills, disturbed, othersLeft>>
                          /\ creator' = NoCreator /\ app # "absent"
    BY <1>1 DEF FinishCreation
  <1>4. AddsNext => UNCHANGED <<app, project, creator, remover, kills, othersLeft>>
                    /\ app # "absent"
    BY <1>1 DEF AddsNext, BeginAddition, EndAddition, Available, HasRow
  <1>5. RemovesNext => UNCHANGED <<creator, adding, kills, othersLeft>> /\ app # "absent"
                       /\ app' \in {app, "deleting", "gone", "partial_deleted"}
    BY <1>1 DEF RemovesNext, BeginDelete, HasRow, FindProjects, DeleteProjectOf, EndDelete
  <1>6. Kill => creator' = NoCreator /\ adding' = {} /\ disturbed'
                /\ remover' = [r \in Deletions |-> NoRemover]
                /\ UNCHANGED <<app, othersLeft>> /\ app # "absent"
    BY <1>1 DEF Kill, Creating, Removing
  <1> QED
    BY <1>2, <1>3, <1>4, <1>5, <1>6 DEF DeleteOthers

\* What becomes of the deletions, whoever moves.
LEMMA RemoversMove ==
  ASSUME AppInv, AppNext
  PROVE  /\ remover' = [r \in Deletions |-> remover'[r]]
         /\ \A r \in Deletions :
              \/ UNCHANGED remover[r]
              \/ /\ remover'[r] = [pc |-> remover'[r].pc, left |-> remover'[r].left,
                                   bad |-> remover'[r].bad]
                 /\ remover'[r].pc \in {"none", "find", "projects"} /\ remover'[r].bad \in BOOLEAN
                 /\ \/ remover'[r].left \in {{}, Linked}
                    \/ \E n : remover'[r].left = remover[r].left \ {n}
  <1>1. /\ remover = [r \in Deletions |-> remover[r]]
        /\ \A r \in Deletions : remover[r].bad \in BOOLEAN
    BY DEF AppInv, Wiring
  <1>2. CASE RemovesNext
    <2>1. PICK r \in Deletions : \/ BeginDelete(r) \/ FindProjects(r) \/ EndDelete(r)
                                 \/ \E n \in DOMAIN project : DeleteProjectOf(r, n)
      BY <1>2 DEF RemovesNext
    <2>2. \/ Removes(r, "find", {}, FALSE) \/ Removes(r, "projects", Linked, remover[r].bad)
          \/ Removes(r, "none", {}, FALSE)
          \/ \E n : \/ Removes(r, "projects", remover[r].left \ {n}, remover[r].bad)
                    \/ Removes(r, "projects", remover[r].left \ {n}, TRUE)
      BY <2>1, RemoverMoves
    <2>3. PICK pc, left, bad :
            /\ pc \in {"none", "find", "projects"} /\ bad \in BOOLEAN
            /\ left \in {{}, Linked} \/ \E n : left = remover[r].left \ {n}
            /\ Removes(r, pc, left, bad)
      BY <1>1, <2>2
    <2> QED
      BY <2>3 DEF Removes
  <1>3. CASE Kill
    <2>1. remover' = [r \in Deletions |-> NoRemover]
      BY <1>3, Frames
    <2>2. \A r \in Deletions : remover'[r] = NoRemover
      BY <2>1
    <2>3. \A c : [r \in Deletions |-> c] = [r \in Deletions |-> [q \in Deletions |-> c][r]]
      OBVIOUS
    <2>4. remover' = [r \in Deletions |-> remover'[r]]
      BY <2>1, <2>3
    <2>5. /\ NoRemover = [pc |-> NoRemover.pc, left |-> NoRemover.left, bad |-> NoRemover.bad]
          /\ NoRemover.pc = "none" /\ NoRemover.left = {} /\ NoRemover.bad = FALSE
      BY DEF NoRemover
    <2> QED
      BY <2>2, <2>4, <2>5
  <1>4. CASE ~RemovesNext /\ ~Kill
    BY <1>1, <1>4, NextSplits, Frames
  <1> QED
    BY <1>2, <1>3, <1>4

LEMMA WiringKept ==
  ASSUME AppInv, AppNext
  PROVE  Wiring'
  <1>1. /\ creator'.pc \in {"none", "dependency", "insert", "component", "link", "finish"}
        /\ creator'.bad \in BOOLEAN
        /\ creator' = [pc |-> creator'.pc, at |-> creator'.at, made |-> creator'.made,
                       known |-> creator'.known, bad |-> creator'.bad]
    <2>1. creator.bad \in BOOLEAN
      BY DEF AppInv, Wiring
    <2>2. CASE Apply \/ FindApplication \/ CreateComponent
      <3>1. PICK pc, at : pc \in {"dependency", "insert", "component", "link"}
                          /\ Goes(pc, at, creator.known, creator.bad)
        BY <2>2, CreatorMoves
      <3> QED
        BY <2>1, <3>1 DEF Goes
    <2>3. CASE CreateDependency \/ DependencyFails
      <3>1. PICK known, bad : bad \in BOOLEAN /\ NextDependency(known, bad)
        BY <2>1, <2>3, CreatorMoves
      <3>2. PICK pc, at : pc \in {"dependency", "component"} /\ Goes(pc, at, known, bad)
        BY <3>1 DEF NextDependency
      <3> QED
        BY <3>1, <3>2 DEF Goes
    <2>4. CASE ComponentFails \/ LinkComponent
      <3>1. PICK bad : bad \in BOOLEAN /\ NextComponent(bad)
        BY <2>1, <2>4, CreatorMoves
      <3>2. PICK pc, at : pc \in {"component", "finish"} /\ Goes(pc, at, creator.known, bad)
        BY <3>1 DEF NextComponent
      <3> QED
        BY <3>1, <3>2 DEF Goes
    <2>5. CASE creator' = NoCreator
      BY <2>5 DEF NoCreator
    <2>6. CASE UNCHANGED creator
      BY <2>6 DEF AppInv, Wiring
    <2> QED
      BY <2>2, <2>3, <2>4, <2>5, <2>6, NextSplits, Frames DEF CreatesNext
  <1>2. app' \in {"absent", "creating", "active", "partial_failed", "deleting",
                  "partial_deleted", "gone"}
    <2>1. app' \in {app, "creating", "active", "partial_failed", "deleting", "partial_deleted",
                    "gone"}
      BY NextSplits, Frames DEF FinishCreation
    <2> QED
      BY <2>1 DEF AppInv, Wiring
  <1>3. \A r \in Deletions :
          /\ remover'[r] = [pc |-> remover'[r].pc, left |-> remover'[r].left,
                            bad |-> remover'[r].bad]
          /\ remover'[r].pc \in {"none", "find", "projects"} /\ remover'[r].bad \in BOOLEAN
    BY RemoversMove DEF AppInv, Wiring
  <1> QED
    BY <1>1, <1>2, <1>3, RemoversMove DEF Wiring

LEMMA PlacesKept ==
  ASSUME AppInv, AppNext
  PROVE  Places'
  <1>1. document' = document /\ Validate(document)' = Validate(document)
    BY DocumentStays
  <1>2. /\ Creating => Validate(document)
        /\ Validate(document) => Len(document.comps) > 0
    BY DocumentFacts DEF AppInv, Places, Validate
  <1>3. /\ Len(document.deps) \in Nat /\ Len(document.comps) \in Nat
        /\ DOMAIN document.deps = 1..Len(document.deps)
        /\ DOMAIN document.comps = 1..Len(document.comps)
    BY DocumentFacts DEF AppInv
  <1>4. ASSUME CreatesNext
        PROVE  /\ Validate(document)
               /\ creator'.pc \in {"dependency", "insert"} =>
                    creator'.at \in 1..Len(document.deps)
               /\ creator'.pc = "insert" /\ document.deps[creator'.at].other =>
                    document.deps[creator'.at].id \in DOMAIN Others
               /\ creator'.pc \in {"component", "link"} => creator'.at \in 1..Len(document.comps)
    <2>1. Validate(document)
      BY <1>2, <1>4, CreatorBusy DEF Apply
    <2>2. Len(document.comps) > 0
      BY <1>2, <2>1
    <2>3. CASE Apply
      <3>1. Goes(IF Len(document.deps) > 0 THEN "dependency" ELSE "component", 1,
                 creator.known, creator.bad)
        BY <2>3, CreatorMoves
      <3>2. /\ creator'.pc = IF Len(document.deps) > 0 THEN "dependency" ELSE "component"
            /\ creator'.at = 1
        BY <3>1 DEF Goes
      <3> QED
        BY <1>3, <2>1, <2>2, <3>2
    <2>4. CASE FindApplication
      <3>1. creator'.pc = "insert" /\ creator'.at = creator.at
        BY <2>4, CreatorMoves DEF Goes
      <3>2. creator.at \in DOMAIN document.deps
        BY <2>4 DEF FindApplication, AppInv, Places
      <3>3. document.deps[creator.at].other => document.deps[creator.at].id \in DOMAIN Others
        BY <2>4 DEF FindApplication, Available, Dependency, AppInv, Rows
      <3> QED
        BY <1>3, <2>1, <3>1, <3>2, <3>3
    <2>5. CASE CreateDependency \/ DependencyFails
      <3>1. creator.at \in 1..Len(document.deps)
        BY <1>3, <2>5 DEF CreateDependency, DependencyFails, AppInv, Places
      <3>2. \E known, bad : NextDependency(known, bad)
        BY <2>5, CreatorMoves
      <3>3. LET i == creator.at + 1 last == i > Len(document.deps) IN
            /\ creator'.pc = IF last THEN "component" ELSE "dependency"
            /\ creator'.at = IF last THEN 1 ELSE i
        BY <3>2 DEF NextDependency, Goes
      <3> QED
        BY <1>3, <2>1, <2>2, <3>1, <3>3
    <2>6. CASE CreateComponent \/ ComponentFails \/ LinkComponent
      <3>1. creator.at \in 1..Len(document.comps)
        BY <1>3, <2>6 DEF CreateComponent, ComponentFails, LinkComponent, AppInv, Places
      <3>2. \/ \E known, bad : Goes("link", creator.at, known, bad)
            \/ \E bad : NextComponent(bad)
        BY <2>6, CreatorMoves
      <3>3. CASE \E known, bad : Goes("link", creator.at, known, bad)
        <4>1. creator'.pc = "link" /\ creator'.at = creator.at
          BY <3>3 DEF Goes
        <4> QED
          BY <1>3, <2>1, <3>1, <4>1
      <3>4. CASE \E bad : NextComponent(bad)
        <4>1. LET i == creator.at + 1 last == i > Len(document.comps) IN
              /\ creator'.pc = IF last THEN "finish" ELSE "component"
              /\ creator'.at = IF last THEN 1 ELSE i
          BY <3>4 DEF NextComponent, Goes
        <4> QED
          BY <1>3, <2>1, <3>1, <4>1
      <3> QED
        BY <3>2, <3>3, <3>4
    <2> QED
      BY <1>4, <2>1, <2>3, <2>4, <2>5, <2>6 DEF CreatesNext
  <1>5. CASE CreatesNext
    <2>1. app' # "absent"
      BY <1>5, Frames
    <2> QED
      BY <1>1, <1>3, <1>4, <1>5, <2>1 DEF Places, Dependency
  <1>6. CASE FinishCreation \/ Kill
    <2>1. app' # "absent" /\ creator'.pc = "none"
      BY <1>6, Frames DEF FinishCreation, NoCreator
    <2> QED
      BY <1>1, <2>1 DEF Places, Creating
  <1>7. CASE AddsNext \/ RemovesNext
    <2>1. app' # "absent" /\ UNCHANGED creator
      BY <1>7, Frames
    <2> QED
      BY <1>1, <2>1 DEF Places, Creating, Dependency, AppInv
  <1>8. CASE DeleteOthers
    <2>1. UNCHANGED <<app, creator, adding, remover>>
      BY <1>8, Frames
    <2> QED
      BY <1>1, <2>1 DEF Places, Creating, Removing, Dependency, AppInv
  <1> QED
    BY <1>5, <1>6, <1>7, <1>8, NextSplits

LEMMA RowsKept ==
  ASSUME AppInv, AppNext
  PROVE  Rows'
  <1>1. \A row : OwnRow(row)' <=> OwnRow(row)
    BY DocumentStays DEF OwnRow
  <1>2. \A row \in own' : OwnRow(row)
    <2>1. \A row \in own : OwnRow(row)
      BY DEF AppInv, Rows
    <2>2. CASE CreateDependency \/ DependencyFails
      <3>1. creator.at \in DOMAIN document.deps
        BY <2>2 DEF CreateDependency, DependencyFails, AppInv, Places
      <3>2. OwnRow(<<"document", Dependency.name>>)
        BY <3>1 DEF OwnRow, Dependency, NamesOf
      <3>3. own' = own \/ own' = own \cup {<<"document", Dependency.name>>}
        BY <2>2 DEF CreateDependency, DependencyFails, Writes, DependencyRows, attachExisting
      <3> QED
        BY <2>1, <3>2, <3>3
    <2>3. CASE AddsNext
      <3>1. PICK d \in Additions : own' = own \/ own' = own \cup {<<"added", d.name>>}
        BY <2>3 DEF AddsNext, BeginAddition, EndAddition, Writes, DependencyRows, attachExisting
      <3>2. OwnRow(<<"added", d.name>>)
        BY DEF OwnRow
      <3> QED
        BY <2>1, <3>1, <3>2
    <2>4. CASE ~CreateDependency /\ ~DependencyFails /\ ~AddsNext
      <3>1. own' = own \/ own' = {}
        BY <2>4 DEF AppNext, AddsNext, Apply, FindApplication, CreateComponent, ComponentFails,
             LinkComponent, FinishCreation, BeginDelete, FindProjects, DeleteProjectOf,
             EndDelete, DeleteOthers, Kill
      <3> QED
        BY <2>1, <3>1
    <2> QED
      BY <2>2, <2>3, <2>4
  <1>3. othersLeft' \subseteq DOMAIN Others
    <2>1. othersLeft' = othersLeft \/ othersLeft' = {}
      BY NextSplits, Frames DEF DeleteOthers
    <2> QED
      BY <2>1 DEF AppInv, Rows
  <1>4. adding' \subseteq Additions
    <2>1. adding \subseteq Additions
      BY DEF AppInv, Rows
    <2>2. CASE AddsNext
      BY <2>1, <2>2 DEF AddsNext, BeginAddition, EndAddition
    <2> QED
      BY <2>1, <2>2, NextSplits, Frames
  <1>5. DOMAIN project' = DOMAIN project
    BY DEF AppNext, Apply, FindApplication, CreateDependency, DependencyFails, CreateComponent,
         ComponentFails, LinkComponent, FinishCreation, BeginAddition, EndAddition, BeginDelete,
         FindProjects, DeleteProjectOf, EndDelete, DeleteOthers, Kill
  <1>6. \A r \in Deletions : remover'[r].left \subseteq DOMAIN project
    <2>1. \A r \in Deletions : remover[r].left \subseteq DOMAIN project
      BY DEF AppInv, Rows
    <2> QED
      BY <2>1, RemoversMove DEF Linked
  <1>7. failed' \in 0..MaxFailed
    <2>1. MaxFailed \in Nat /\ failed \in 0..MaxFailed
      BY ApplicationAssumption DEF AppInv, Rows
    <2>2. failed' = failed \/ Fails
      BY DEF AppNext, Apply, FindApplication, CreateDependency, DependencyFails, CreateComponent,
         ComponentFails, LinkComponent, FinishCreation, BeginAddition, EndAddition, BeginDelete,
         FindProjects, DeleteProjectOf, EndDelete, DeleteOthers, Kill
    <2> QED
      BY <2>1, <2>2 DEF Fails
  <1>8. kills' \in 0..MaxKills
    <2>1. MaxKills \in Nat /\ kills \in 0..MaxKills
      BY ApplicationAssumption DEF AppInv, Rows
    <2>2. kills' = kills \/ (kills < MaxKills /\ kills' = kills + 1)
      BY NextSplits, Frames DEF Kill
    <2> QED
      BY <2>1, <2>2
  <1>9. disturbed' \in BOOLEAN
    <2>1. disturbed \in BOOLEAN
      BY DEF AppInv, Rows
    <2>2. \/ disturbed' \in {disturbed, TRUE} \/ disturbed' = (disturbed \/ Removing)
          \/ disturbed' = (disturbed \/ Creating \/ adding # {})
      BY Frames, NextSplits DEF AddsNext, BeginAddition, EndAddition, RemovesNext, BeginDelete,
         FindProjects, DeleteProjectOf, EndDelete
    <2> QED
      BY <2>1, <2>2
  <1>10. late' \in BOOLEAN
    <2>1. late \in BOOLEAN
      BY DEF AppInv, Rows
    <2>2. late' = late \/ late' = (late \/ app = "gone")
      BY DEF AppNext, Apply, FindApplication, CreateDependency, DependencyFails, CreateComponent,
         ComponentFails, LinkComponent, FinishCreation, BeginAddition, EndAddition, BeginDelete,
         FindProjects, DeleteProjectOf, EndDelete, DeleteOthers, Kill, Writes
    <2> QED
      BY <2>1, <2>2
  <1> QED
    BY <1>1, <1>2, <1>3, <1>4, <1>5, <1>6, <1>7, <1>8, <1>9, <1>10 DEF Rows

-----------------------------------------------------------------------------
(* Applications: projects.                                                 *)

\* What a step makes of the project of one component.
NewProject ==
  [there |-> TRUE, linked |-> FALSE, env |-> componentEnvWithDependencies(Component),
   secret |-> resolveComponentSecrets(document)[creator.at]]
WithLink(p) == [there |-> p.there, linked |-> TRUE, env |-> p.env, secret |-> p.secret]

\* A deletion is at the project of n.
Deletes(n) == \E r \in Deletions : n \in remover[r].left /\ DeleteProjectOf(r, n)

LEMMA ProjectMoves ==
  ASSUME AppInv, AppNext
  PROVE  /\ project' = [n \in NamesOf(document.comps) |-> project'[n]]
         /\ CreateComponent => project'[Component.name] = NewProject
         /\ LinkComponent => project'[Component.name] = WithLink(project[Component.name])
         /\ \A n \in NamesOf(document.comps) :
              \/ project'[n] = project[n]
              \/ n = Component.name /\ (CreateComponent \/ LinkComponent)
              \/ Deletes(n) /\ project'[n] = NoProject
         /\ ~(CreateComponent \/ LinkComponent \/ (\E n : Deletes(n))) => project' = project
  <1> DEFINE names == NamesOf(document.comps)
  <1>1. project = [n \in names |-> project[n]]
    BY DEF AppInv, ProjectsInv
  <1>2. creator.pc \in {"component", "link"} => Component.name \in names
    BY DEF AppInv, Places, Component, NamesOf
  <1> HIDE DEF names
  <1>3. ASSUME NEW m, NEW p, project' = [project EXCEPT ![m] = p]
        PROVE  /\ project' = [n \in names |-> project'[n]]
               /\ m \in names => project'[m] = p
               /\ \A n \in names : project'[n] = project[n] \/ (n = m /\ project'[n] = p)
    <2>1. DOMAIN project = names
      BY <1>1
    <2>2. DOMAIN project' = names /\ project' = [n \in names |-> IF n = m THEN p ELSE project[n]]
      BY <1>3, <2>1
    <2>3. \A n \in names : project'[n] = (IF n = m THEN p ELSE project[n])
      BY <2>2
    <2>4. project' = [n \in names |-> project'[n]]
      BY <2>2, <2>3
    <2> QED
      BY <2>3, <2>4
  <1>4. ASSUME CreateComponent
        PROVE  creator.pc = "component" /\ project' = [project EXCEPT ![Component.name] = NewProject]
    BY <1>4 DEF CreateComponent, NewProject
  <1>5. ASSUME LinkComponent
        PROVE  /\ creator.pc = "link"
               /\ project' = [project EXCEPT ![Component.name] = WithLink(project[Component.name])]
    <2>1. creator.pc = "link"
      BY <1>5 DEF LinkComponent
    <2> DEFINE p == project[Component.name]
    <2>2. p = [there |-> p.there, linked |-> p.linked, env |-> p.env, secret |-> p.secret]
      BY <1>1, <1>2, <2>1 DEF AppInv, ProjectsInv
    <2>3. project' = [project EXCEPT ![Component.name] = [p EXCEPT !.linked = TRUE]]
      BY <1>5 DEF LinkComponent
    <2> HIDE DEF p
    <2>4. [p EXCEPT !.linked = TRUE] = WithLink(p)
      <3>1. ASSUME NEW r, NEW b, r = [there |-> r.there, linked |-> r.linked, env |-> r.env,
                                      secret |-> r.secret]
            PROVE  [r EXCEPT !.linked = b] =
                     [there |-> r.there, linked |-> b, env |-> r.env, secret |-> r.secret]
        BY <3>1
      <3> QED
        BY <2>2, <3>1 DEF WithLink
    <2> QED
      BY <2>1, <2>3, <2>4 DEF p
  <1>6. ASSUME NEW n, Deletes(n)
        PROVE  UNCHANGED project \/ project' = [project EXCEPT ![n] = NoProject]
    BY <1>6 DEF Deletes, DeleteProjectOf
  <1>7. ~(CreateComponent \/ LinkComponent \/ (\E n : Deletes(n))) => project' = project
    <2>1. (\E r \in Deletions : \E n : DeleteProjectOf(r, n)) => \E n : Deletes(n)
      BY DEF Deletes, DeleteProjectOf
    <2> QED
      BY <2>1 DEF AppNext, Apply, FindApplication, CreateDependency, DependencyFails,
         ComponentFails, FinishCreation, BeginAddition, EndAddition, BeginDelete, FindProjects,
         EndDelete, DeleteOthers, Kill
  <1>8. CASE UNCHANGED project
    <2>1. ~CreateComponent \/ project'[Component.name] = NewProject
      BY <1>2, <1>3, <1>4
    <2>2. ~LinkComponent \/ project'[Component.name] = WithLink(project[Component.name])
      BY <1>2, <1>3, <1>5
    <2> QED
      BY <1>1, <1>8, <2>1, <2>2 DEF names
  <1>9. CASE CreateComponent
    <2>1. ~LinkComponent
      BY <1>4, <1>9 DEF LinkComponent
    <2> QED
      BY <1>2, <1>3, <1>4, <1>9, <2>1 DEF names
  <1>10. CASE LinkComponent
    <2>1. ~CreateComponent
      BY <1>5, <1>10 DEF CreateComponent
    <2> QED
      BY <1>2, <1>3, <1>5, <1>10, <2>1 DEF names
  <1>11. ASSUME NEW n, Deletes(n), project' = [project EXCEPT ![n] = NoProject],
                ~CreateComponent, ~LinkComponent
         PROVE  /\ project' = [m \in names |-> project'[m]]
                /\ \A m \in names : \/ project'[m] = project[m]
                                    \/ Deletes(m) /\ project'[m] = NoProject
    BY <1>3, <1>11
  <1> QED
    BY <1>6, <1>7, <1>8, <1>9, <1>10, <1>11 DEF names

\* A component that is still ahead has been ahead before.
LEMMA AheadBefore ==
  ASSUME AppInv, AppNext, NEW i \in DOMAIN document.comps, Ahead(i)'
  PROVE  Ahead(i) /\ (LinkComponent => creator.at < i)
  <1>1. Len(document.comps) \in Nat /\ DOMAIN document.comps = 1..Len(document.comps)
    BY DocumentFacts DEF AppInv
  <1>2. \/ app' = "absent" \/ creator'.pc \in {"dependency", "insert"}
        \/ creator'.pc \in {"component", "link"} /\ creator'.at <= i
    BY DEF Ahead
  <1>3. ~FinishCreation /\ ~Kill
    <2>1. FinishCreation => app' # "absent"
      BY Frames DEF FinishCreation
    <2>2. Kill => app' # "absent"
      BY Frames
    <2> QED
      BY <1>2, <2>1, <2>2, Frames DEF NoCreator
  <1>4. CASE AddsNext \/ RemovesNext \/ DeleteOthers
    <2>1. app' = "absent" => app = "absent"
      BY <1>4, Frames
    <2>2. UNCHANGED creator
      BY <1>4, Frames
    <2>3. ~LinkComponent
      <3>1. LinkComponent => creator.pc = "link"
        BY DEF LinkComponent
      <3>2. LinkComponent => creator'.pc \in {"component", "finish"}
        BY CreatorMoves DEF NextComponent, Goes
      <3> QED
        BY <2>2, <3>1, <3>2
    <2> QED
      BY <1>2, <2>1, <2>2, <2>3 DEF Ahead
  <1>5. CASE Apply
    BY <1>5 DEF Apply, Ahead, LinkComponent, AppInv, Places, NoCreator
  <1>6. CASE FindApplication \/ CreateDependency \/ DependencyFails
    BY <1>6 DEF FindApplication, CreateDependency, DependencyFails, Ahead, LinkComponent
  <1>7. CASE CreateComponent
    <2>1. creator.pc = "component" /\ UNCHANGED app
      BY <1>7 DEF CreateComponent
    <2>2. creator'.pc = "link" /\ creator'.at = creator.at
      BY <1>7, CreatorMoves DEF Goes
    <2> QED
      BY <1>2, <2>1, <2>2 DEF Ahead, LinkComponent
  <1>8. CASE ComponentFails \/ LinkComponent
    <2>1. creator.pc \in {"component", "link"} /\ UNCHANGED app
      BY <1>8 DEF ComponentFails, LinkComponent
    <2>2. app # "absent" /\ creator.at \in 1..Len(document.comps)
      BY <1>1, <2>1 DEF AppInv, Places, NoCreator
    <2>3. PICK bad : NextComponent(bad)
      BY <1>8, CreatorMoves
    <2>4. LET j == creator.at + 1 last == j > Len(document.comps) IN
          /\ creator'.pc = IF last THEN "finish" ELSE "component"
          /\ creator'.at = IF last THEN 1 ELSE j
      BY <2>3 DEF NextComponent, Goes
    <2>5. creator.at < i
      BY <1>1, <1>2, <2>1, <2>2, <2>4
    <2> QED
      BY <1>1, <2>1, <2>2, <2>5 DEF Ahead
  <1> QED
    BY <1>3, <1>4, <1>5, <1>6, <1>7, <1>8, NextSplits DEF CreatesNext

LEMMA ProjectsInvKept ==
  ASSUME AppInv, AppNext
  PROVE  ProjectsInv'
  <1> DEFINE names == NamesOf(document.comps)
  <1>1. document' = document /\ NamesOf(document.comps)' = names
    BY DocumentStays
  <1>2. /\ project = [n \in names |-> project[n]]
        /\ \A n \in names :
             /\ project[n] = [there |-> project[n].there, linked |-> project[n].linked,
                              env |-> project[n].env, secret |-> project[n].secret]
             /\ project[n].linked => project[n].there
    BY DEF AppInv, ProjectsInv
  <1>3. project' = [n \in names |-> project'[n]]
    BY ProjectMoves
  <1>4. creator.pc \in {"component", "link"} =>
          creator.at \in DOMAIN document.comps /\ Component.name \in names
    BY DEF AppInv, Places, Component, NamesOf
  <1>5. creator.pc = "link" => project[Component.name].there
    BY DEF AppInv, ProjectsInv, Component
  <1>6. \A i \in DOMAIN document.comps : Ahead(i) => Untouched(document.comps[i].name)
    BY DEF AppInv, ProjectsInv
  <1>7. \A i \in DOMAIN document.comps : document.comps[i].name \in names
    BY DEF NamesOf
  <1>8. LinkComponent \/ CreateComponent => creator.pc \in {"component", "link"}
    BY DEF CreateComponent, LinkComponent
  <1>9. LinkComponent => creator.pc = "link"
    BY DEF LinkComponent
  <1> HIDE DEF names
  <1>10. ASSUME NEW n \in names
         PROVE  /\ project'[n] = [there |-> project'[n].there, linked |-> project'[n].linked,
                                  env |-> project'[n].env, secret |-> project'[n].secret]
                /\ project'[n].linked => project'[n].there
    <2>1. CASE project'[n] = project[n]
      BY <1>2, <2>1
    <2>2. CASE n = Component.name /\ CreateComponent
      BY <2>2, ProjectMoves DEF NewProject
    <2>3. CASE n = Component.name /\ LinkComponent
      BY <1>5, <1>9, <2>3, ProjectMoves DEF WithLink
    <2>4. CASE project'[n] = NoProject
      BY <2>4 DEF NoProject
    <2> QED
      BY <2>1, <2>2, <2>3, <2>4, ProjectMoves DEF names
  <1>11. ASSUME NEW i \in DOMAIN document.comps, Ahead(i)'
         PROVE  /\ ~project'[document.comps[i].name].linked
                /\ \A r \in Deletions : document.comps[i].name \notin remover'[r].left
    <2> DEFINE n == document.comps[i].name
    <2>1. Ahead(i) /\ (LinkComponent => creator.at < i)
      BY <1>11, AheadBefore
    <2>2. ~project[n].linked /\ \A r \in Deletions : n \notin remover[r].left
      BY <1>6, <2>1 DEF Untouched
    <2>3. n \in names
      BY <1>7
    <2>4. LinkComponent => n # Component.name
      <3> SUFFICES ASSUME LinkComponent, n = Component.name PROVE FALSE
        OBVIOUS
      <3>1. creator.at \in DOMAIN document.comps /\ creator.at < i
        BY <1>4, <1>8, <2>1
      <3>2. NamesUnique(document.comps)
        BY <1>9 DEF AppInv, Places, Creating, Validate
      <3>3. creator.at \in Nat
        BY <3>1, DocumentFacts DEF AppInv
      <3> QED
        BY <3>1, <3>2, <3>3 DEF NamesUnique, Component
    <2> HIDE DEF n
    <2>5. ~project'[n].linked
      <3>1. n = Component.name /\ CreateComponent => ~project'[n].linked
        BY ProjectMoves DEF NewProject
      <3>2. project'[n] = NoProject => ~project'[n].linked
        BY DEF NoProject
      <3> QED
        BY <2>2, <2>3, <2>4, <3>1, <3>2, ProjectMoves DEF names
    <2>6. \A r \in Deletions : n \notin remover'[r].left
      <3>1. n \notin Linked
        BY <2>2 DEF Linked
      <3> QED
        BY <2>2, <3>1, RemoversMove
    <2> QED
      BY <2>5, <2>6 DEF n
  <1>12. ASSUME creator'.pc = "link"
         PROVE  project'[document.comps[creator'.at].name].there
    <2>1. CASE CreateComponent
      <3>1. creator'.at = creator.at
        BY <2>1, CreatorMoves DEF Goes
      <3> QED
        BY <2>1, <3>1, ProjectMoves DEF NewProject, Component
    <2>2. CASE ~CreateComponent
      <3>1. UNCHANGED creator /\ ~LinkComponent
        <4>1. ~FinishCreation /\ ~Kill
          BY <1>12, Frames DEF NoCreator
        <4>2. ~Apply
          BY <1>12, CreatorMoves DEF Goes
        <4>3. ~FindApplication /\ ~CreateDependency /\ ~DependencyFails
          BY <1>12, CreatorMoves DEF NextDependency, Goes
        <4>4. ~ComponentFails /\ ~LinkComponent
          BY <1>12, CreatorMoves DEF NextComponent, Goes
        <4> QED
          BY <2>2, <4>1, <4>2, <4>3, <4>4, NextSplits, Frames DEF CreatesNext
      <3>2. Ahead(creator.at) /\ creator.at \in DOMAIN document.comps
        <4>1. creator.pc = "link"
          BY <1>12, <3>1
        <4>2. creator.at \in DOMAIN document.comps
          BY <1>4, <4>1
        <4>3. creator.at \in Nat
          BY <4>2, DocumentFacts DEF AppInv
        <4> QED
          BY <4>1, <4>2, <4>3 DEF Ahead
      <3>3. Component.name \in names /\ ~Deletes(Component.name)
        BY <1>6, <1>7, <3>2 DEF Untouched, Component, Deletes
      <3>4. project'[Component.name] = project[Component.name]
        BY <2>2, <3>1, <3>3, ProjectMoves DEF names
      <3> QED
        BY <1>5, <1>12, <3>1, <3>4 DEF Component
    <2> QED
      BY <2>1, <2>2
  <1> QED
    BY <1>1, <1>3, <1>10, <1>11, <1>12 DEF ProjectsInv, Untouched

-----------------------------------------------------------------------------
(* Applications: one request at a time, and what it knows.                 *)

LEMMA DisturbedStays ==
  ASSUME AppInv, AppNext, ~disturbed'
  PROVE  /\ ~disturbed /\ ~Kill
         /\ \A r \in Deletions : BeginDelete(r) => ~Creating /\ adding = {}
         /\ \A d \in Additions : BeginAddition(d) => ~Removing
  <1>1. \A r \in Deletions : BeginDelete(r) => disturbed' = (disturbed \/ Creating \/ adding # {})
    BY DEF BeginDelete
  <1>2. \A d \in Additions : BeginAddition(d) => disturbed' = (disturbed \/ Removing)
    BY DEF BeginAddition
  <1>3. AddsNext => disturbed' = disturbed \/ \E d \in Additions : BeginAddition(d)
    BY DEF AddsNext, EndAddition
  <1>4. RemovesNext => disturbed' = disturbed \/ \E r \in Deletions : BeginDelete(r)
    BY DEF RemovesNext, FindProjects, DeleteProjectOf, EndDelete
  <1>5. ~Kill
    BY DEF Kill
  <1>6. ~disturbed
    BY <1>1, <1>2, <1>3, <1>4, <1>5, NextSplits, Frames
  <1> QED
    BY <1>1, <1>2, <1>5, <1>6

LEMMA AloneKept ==
  ASSUME AppInv, AppNext
  PROVE  Alone'
  <1> SUFFICES ASSUME ~disturbed'
               PROVE  /\ (Creating => app = "creating" /\ ~Removing)'
                      /\ (adding # {} => HasRow /\ ~Removing)'
                      /\ (Removing => app \in {"deleting", "partial_deleted", "gone"})'
                      /\ ~late'
    BY DEF Alone
  <1>1. /\ ~disturbed /\ ~Kill
        /\ \A r \in Deletions : BeginDelete(r) => ~Creating /\ adding = {}
        /\ \A d \in Additions : BeginAddition(d) => ~Removing
    BY DisturbedStays
  <1>2. /\ Creating => app = "creating" /\ ~Removing
        /\ adding # {} => HasRow /\ ~Removing
        /\ Removing => app \in {"deleting", "partial_deleted", "gone"}
        /\ ~late
    BY <1>1 DEF AppInv, Alone
  <1>3. UNCHANGED remover => Removing' = Removing
    BY DEF Removing
  <1>4. UNCHANGED creator => Creating' = Creating
    BY DEF Creating
  <1>5. CASE Apply
    <2>1. app = "absent" /\ app' = "creating" /\ UNCHANGED <<adding, remover, late>>
      BY <1>5 DEF Apply
    <2>2. adding = {} /\ ~Removing
      BY <2>1 DEF AppInv, Places
    <2> QED
      BY <1>2, <1>3, <2>1, <2>2
  <1>6. CASE CreatesNext /\ ~Apply
    <2>1. Creating /\ UNCHANGED <<app, adding, remover>>
      BY <1>6, CreatorBusy, Frames
    <2>2. app = "creating" /\ app # "gone" /\ ~Removing
      BY <1>2, <2>1
    <2>3. late' = late \/ late' = (late \/ app = "gone")
      BY <1>6 DEF CreatesNext, FindApplication, CreateDependency, DependencyFails, Writes,
                  CreateComponent, ComponentFails, LinkComponent
    <2>4. ~late'
      BY <1>2, <2>2, <2>3, Zenon
    <2> QED
      BY <1>2, <1>3, <2>1, <2>2, <2>4 DEF HasRow
  <1>7. CASE FinishCreation
    <2>1. Creating /\ UNCHANGED <<adding, remover, late>> /\ creator'.pc = "none"
      BY <1>7 DEF FinishCreation, Creating, NoCreator
    <2>2. app = "creating" /\ app' \in {app, "partial_failed", "active"}
      BY <1>2, <1>7, <2>1 DEF FinishCreation
    <2> QED
      BY <1>2, <1>3, <2>1, <2>2 DEF Creating, HasRow
  <1>8. ASSUME NEW d \in Additions, BeginAddition(d) \/ EndAddition(d)
        PROVE  ~Removing /\ HasRow /\ ~late'
    <2>1. CASE BeginAddition(d)
      BY <1>1, <1>2, <2>1 DEF BeginAddition, Available
    <2>2. CASE EndAddition(d)
      <3>1. HasRow /\ app # "gone" /\ ~Removing
        BY <1>2, <2>2 DEF EndAddition, HasRow
      <3>2. late' = late \/ late' = (late \/ app = "gone")
        BY <2>2 DEF EndAddition, Writes
      <3>3. ~late'
        BY <1>2, <3>1, <3>2, Zenon
      <3> QED
        BY <3>1, <3>3
    <2> QED
      BY <1>8, <2>1, <2>2
  <1>9. CASE AddsNext
    <2>1. ~Removing /\ HasRow /\ ~late'
      BY <1>8, <1>9 DEF AddsNext
    <2>2. UNCHANGED <<app, creator, remover>>
      BY <1>9, Frames
    <2> QED
      BY <1>2, <1>3, <1>4, <2>1, <2>2 DEF HasRow
  <1>10. CASE RemovesNext
    <2>1. PICK r \in Deletions : \/ BeginDelete(r) \/ FindProjects(r) \/ EndDelete(r)
                                 \/ \E n \in DOMAIN project : DeleteProjectOf(r, n)
      BY <1>10 DEF RemovesNext
    <2>2. UNCHANGED <<creator, adding>> /\ app' \in {app, "deleting", "gone", "partial_deleted"}
      BY <1>10, Frames
    <2>3. UNCHANGED late
      BY <2>1 DEF BeginDelete, FindProjects, EndDelete, DeleteProjectOf
    <2>4. CASE BeginDelete(r)
      <3>1. ~Creating /\ adding = {} /\ app' = "deleting"
        BY <1>1, <2>4 DEF BeginDelete
      <3> QED
        BY <1>2, <1>4, <2>2, <2>3, <3>1
    <2>5. CASE ~BeginDelete(r)
      <3>1. Removing
        BY <2>1, <2>5 DEF FindProjects, EndDelete, DeleteProjectOf, Removing
      <3>2. ~Creating /\ adding = {} /\ app' \in {"deleting", "partial_deleted", "gone"}
        BY <1>2, <2>2, <3>1
      <3> QED
        BY <1>2, <1>4, <2>2, <2>3, <3>2
    <2> QED
      BY <2>4, <2>5
  <1>11. CASE DeleteOthers
    <2>1. UNCHANGED <<app, creator, adding, remover, late>>
      BY <1>11 DEF DeleteOthers
    <2> QED
      BY <1>2, <1>3, <1>4, <2>1 DEF HasRow
  <1> QED
    BY <1>1, <1>5, <1>6, <1>7, <1>9, <1>10, <1>11, NextSplits

LEMMA CredentialsStay ==
  ASSUME AppNext
  PROVE  credentials \subseteq credentials'
  BY DEF AppNext, Apply, FindApplication, CreateDependency, DependencyFails, Writes,
         DependencyRows, attachExisting, CreateComponent, ComponentFails, LinkComponent,
         FinishCreation, BeginAddition, EndAddition, BeginDelete, FindProjects,
         DeleteProjectOf, EndDelete, DeleteOthers, Kill

\* A dependency that is created takes a name only from one of the document that
\* it is in the place of.
LEMMA DependencyKnown ==
  ASSUME AppInv, AppNext, CreateDependency, NEW i \in DOMAIN document.deps, i <= creator.at,
         i < creator.at => Got(i), creator'.known = Known(creator.known, Dependency)
  PROVE  Got(i)'
  <1> DEFINE k == creator.at
             d == document.deps[i]
  <1>1. document' = document /\ credentials \subseteq credentials'
    BY DocumentStays, CredentialsStay
  <1>2. /\ creator.pc = "insert" /\ k \in DOMAIN document.deps /\ Dependency = document.deps[k]
        /\ NamesUnique(document.deps) /\ (Dependency.other => Dependency.id \in DOMAIN Others)
    BY DEF CreateDependency, AppInv, Places, Creating, Validate, Dependency
  <1>3. DOMAIN document.deps = 1..Len(document.deps) /\ Len(document.deps) \in Nat
    BY DocumentFacts DEF AppInv
  <1>4. /\ DOMAIN creator'.known = DOMAIN creator.known \cup NamesFor(Dependency)
        /\ \A n \in NamesFor(Dependency) : creator'.known[n] = RowOf(Dependency)
        /\ \A n \in DOMAIN creator.known \ NamesFor(Dependency) :
             creator'.known[n] = creator.known[n]
    BY DEF Known
  <1> SUFFICES ASSUME ~d.other
               PROVE  /\ d.name \in DOMAIN creator'.known
                      /\ \/ creator'.known[d.name] = <<"document", d.name>>
                         \/ \E j \in i + 1 .. Len(document.deps) :
                              /\ InPlace(i, j)
                              /\ creator'.known[d.name] = <<"other", document.deps[j].id>>
                      /\ d.credential # "" =>
                           <<<<"document", d.name>>, d.credential>> \in credentials'
    BY <1>1 DEF Got, InPlace
  <1>5. CASE i = k
    <2>1. d.name \in NamesFor(Dependency) /\ RowOf(Dependency) = <<"document", d.name>>
      BY <1>2, <1>5 DEF NamesFor, RowOf
    <2>2. d.credential # "" => <<<<"document", d.name>>, d.credential>> \in credentials'
      BY <1>2, <1>5 DEF CreateDependency, Writes, DependencyRows
    <2> QED
      BY <1>4, <2>1, <2>2
  <1>6. CASE i # k
    <2>1. i < k /\ k \in i + 1 .. Len(document.deps)
      BY <1>2, <1>3, <1>6
    <2>2. /\ d.name \in DOMAIN creator.known
          /\ \/ creator.known[d.name] = <<"document", d.name>>
             \/ \E j \in i + 1 .. Len(document.deps) :
                  InPlace(i, j) /\ creator.known[d.name] = <<"other", document.deps[j].id>>
          /\ d.credential # "" => <<<<"document", d.name>>, d.credential>> \in credentials
      BY <2>1 DEF Got
    <2>3. CASE d.name \notin NamesFor(Dependency)
      <3>1. d.name \in DOMAIN creator'.known /\ creator'.known[d.name] = creator.known[d.name]
        BY <1>4, <2>2, <2>3
      <3> QED
        BY <1>1, <2>2, <3>1
    <2>4. CASE d.name \in NamesFor(Dependency)
      <3>1. d.name # Dependency.name
        BY <1>2, <1>6 DEF NamesUnique
      <3>2. Dependency.other /\ d.name = Others[Dependency.id].name
        BY <2>4, <3>1 DEF NamesFor
      <3>3. InPlace(i, k) /\ RowOf(Dependency) = <<"other", document.deps[k].id>>
        BY <1>2, <3>2 DEF InPlace, RowOf
      <3>4. d.name \in DOMAIN creator'.known
            /\ creator'.known[d.name] = <<"other", document.deps[k].id>>
        BY <1>4, <2>4, <3>3
      <3> QED
        BY <1>1, <2>1, <2>2, <3>3, <3>4
    <2> QED
      BY <2>3, <2>4
  <1> QED
    BY <1>5, <1>6

LEMMA KnownInvKept ==
  ASSUME AppInv, AppNext
  PROVE  KnownInv'
  <1>1. document' = document
    BY DocumentStays
  <1> SUFFICES ASSUME ~disturbed', ~creator'.bad, NEW i \in DOMAIN document.deps, Through(i)'
               PROVE  Got(i)'
    BY <1>1 DEF KnownInv, Through
  <1>2. ~disturbed /\ ~Kill
    BY DisturbedStays
  <1>3. Len(document.deps) \in Nat /\ DOMAIN document.deps = 1..Len(document.deps)
    BY DocumentFacts DEF AppInv
  <1>4. ~creator.bad /\ Through(i) => Got(i)
    BY <1>2 DEF AppInv, KnownInv, Through
  <1>5. ASSUME ~creator.bad, Through(i), creator'.known = creator.known
        PROVE  Got(i)'
    <2>1. Got(i)
      BY <1>4, <1>5
    <2> QED
      BY <1>1, <1>5, <2>1, CredentialsStay DEF Got, InPlace
  <1>6. CASE Apply
    <2>1. Goes(IF Len(document.deps) > 0 THEN "dependency" ELSE "component", 1,
               creator.known, creator.bad)
      BY <1>6, CreatorMoves
    <2>2. /\ creator'.pc = IF Len(document.deps) > 0 THEN "dependency" ELSE "component"
          /\ creator'.at = 1
      BY <2>1 DEF Goes
    <2> QED
      BY <1>3, <2>2 DEF Through
  <1>7. CASE CreateDependency
    <2>1. NextDependency(Known(creator.known, Dependency), creator.bad)
      BY <1>7, CreatorMoves
    <2>2. /\ creator'.known = Known(creator.known, Dependency) /\ creator'.bad = creator.bad
          /\ creator'.pc \in {"dependency", "component"}
          /\ creator'.pc = "dependency" => creator'.at = creator.at + 1
          /\ creator'.pc = "component" => creator.at + 1 > Len(document.deps)
      BY <2>1 DEF NextDependency, Goes
    <2>3. creator.pc = "insert" /\ creator.at \in 1..Len(document.deps)
      BY <1>3, <1>7 DEF CreateDependency, AppInv, Places
    <2>4. i <= creator.at
      BY <1>3, <2>2, <2>3 DEF Through
    <2>5. i < creator.at => Got(i)
      BY <1>4, <2>2, <2>3 DEF Through
    <2> QED
      BY <1>7, <2>2, <2>4, <2>5, DependencyKnown
  <1>8. CASE DependencyFails \/ ComponentFails
    BY <1>8, CreatorMoves DEF NextDependency, NextComponent, Goes
  <1>9. CASE FindApplication \/ CreateComponent \/ LinkComponent
    <2>1. creator.pc \in {"dependency", "component", "link"}
      BY <1>9 DEF FindApplication, CreateComponent, LinkComponent
    <2>2. /\ creator'.known = creator.known /\ creator'.bad = creator.bad
          /\ creator.pc = "dependency" => creator'.pc = "insert" /\ creator'.at = creator.at
      BY <1>9, CreatorMoves DEF NextComponent, Goes, CreateComponent, LinkComponent
    <2> QED
      BY <1>5, <2>1, <2>2 DEF Through
  <1>10. CASE FinishCreation
    BY <1>10 DEF FinishCreation, NoCreator, Through
  <1>11. CASE AddsNext \/ RemovesNext \/ DeleteOthers
    <2>1. UNCHANGED creator
      BY <1>11, Frames
    <2> QED
      BY <1>5, <2>1 DEF Through
  <1> QED
    BY <1>2, <1>6, <1>7, <1>8, <1>9, <1>10, <1>11, NextSplits DEF CreatesNext

-----------------------------------------------------------------------------
(* Applications: the plan.                                                 *)

\* With every dependency at hand a component gets what the plan has named.
LEMMA EnvFollowsPlan ==
  ASSUME AppInv, ~disturbed, ~creator.bad, creator.pc = "component", NEW ref, Plain(ref)
  PROVE  ref.dep \in DOMAIN creator.known /\ Injected(ref) = envNamesForDependency(document, ref)
  <1> DEFINE presets == PresetsOf(document, ref.dep)
             row == creator.known[ref.dep]
  <1>1. PICK i \in DOMAIN document.deps :
          /\ document.deps[i].name = ref.dep /\ ~document.deps[i].other /\ ~Shadowed(i, ref)
          /\ ref.credential \in {"", document.deps[i].credential}
    BY DEF Plain
  <1>2. Got(i)
    BY DEF AppInv, KnownInv, Through
  <1>3. ref.dep \in DOMAIN creator.known
    BY <1>1, <1>2 DEF Got
  <1>4. /\ PresetsIn(row) = presets
        /\ ref.credential = "" \/ <<row, ref.credential>> \in credentials
    <2>1. CASE row = <<"document", ref.dep>>
      <3>1. PresetsIn(row) = presets
        BY <2>1 DEF PresetsIn
      <3> QED
        BY <1>1, <1>2, <2>1, <3>1 DEF Got
    <2>2. ASSUME NEW j \in i + 1 .. Len(document.deps), InPlace(i, j),
                 row = <<"other", document.deps[j].id>>
          PROVE  PresetsIn(row) = presets /\ ref.credential = ""
      <3>1. ref.credential = "" /\ Definitions[Others[document.deps[j].id].type] = presets
        BY <1>1, <2>2 DEF InPlace, Shadowed
      <3>2. \A id : PresetsIn(<<"other", id>>) = Definitions[Others[id].type]
        BY DEF PresetsIn
      <3> QED
        BY <2>2, <3>1, <3>2
    <2>3. \/ row = <<"document", ref.dep>>
          \/ \E j \in i + 1 .. Len(document.deps) :
               InPlace(i, j) /\ row = <<"other", document.deps[j].id>>
      BY <1>1, <1>2 DEF Got
    <2> HIDE DEF presets, row
    <2> QED
      BY <2>1, <2>2, <2>3
  <1>5. ref.preset = "" \/ ref.preset \in DOMAIN presets
    BY DEF Plain
  <1> HIDE DEF presets, row
  <1>6. Injected(ref) = ref.mappings \cup (IF ref.preset = "" THEN {} ELSE presets[ref.preset])
    BY <1>4, <1>5 DEF Injected, row
  <1> QED
    BY <1>3, <1>5, <1>6 DEF envNamesForDependency, presets

LEMMA ComponentFollowsPlan ==
  ASSUME AppInv, ~disturbed, ~creator.bad, creator.pc = "component"
  PROVE  /\ \A ref \in Component.refs : Plain(ref) =>
              envNamesForDependency(document, ref) \subseteq componentEnvWithDependencies(Component)
         /\ (\A ref \in Component.refs : Plain(ref)) =>
              componentEnvWithDependencies(Component) =
                UNION {envNamesForDependency(document, ref) : ref \in Component.refs}
  <1>1. \A ref : Plain(ref) =>
          /\ ref.dep \in DOMAIN creator.known
          /\ Injected(ref) = envNamesForDependency(document, ref)
    BY EnvFollowsPlan
  <1>2. ASSUME NEW ref \in Component.refs, Plain(ref)
        PROVE  envNamesForDependency(document, ref) \subseteq componentEnvWithDependencies(Component)
    <2>1. ref \in {r \in Component.refs : r.dep \in DOMAIN creator.known}
      BY <1>1, <1>2
    <2>2. Injected(ref) \subseteq componentEnvWithDependencies(Component)
      BY <2>1 DEF componentEnvWithDependencies
    <2> QED
      BY <1>1, <1>2, <2>2
  <1>3. ASSUME \A ref \in Component.refs : Plain(ref)
        PROVE  componentEnvWithDependencies(Component) =
                 UNION {envNamesForDependency(document, ref) : ref \in Component.refs}
    <2>1. {r \in Component.refs : r.dep \in DOMAIN creator.known} = Component.refs
      BY <1>1, <1>3
    <2>2. {Injected(ref) : ref \in Component.refs} =
            {envNamesForDependency(document, ref) : ref \in Component.refs}
      BY <1>1, <1>3
    <2> QED
      BY <2>1, <2>2 DEF componentEnvWithDependencies
  <1> QED
    BY <1>2, <1>3

LEMMA PlannedStays ==
  ASSUME document' = document, NEW i \in DOMAIN document.comps, Planned(i),
         project'[document.comps[i].name].env = project[document.comps[i].name].env,
         project'[document.comps[i].name].secret = project[document.comps[i].name].secret
  PROVE  Planned(i)'
  <1>1. /\ \A ref : Plain(ref)' <=> Plain(ref)
        /\ \A ref : envNamesForDependency(document, ref)' = envNamesForDependency(document, ref)
        /\ resolveComponentSecrets(document)' = resolveComponentSecrets(document)
    BY DEF Plain, Shadowed
  <1>2. {envNamesForDependency(document, ref)' : ref \in document.comps[i].refs} =
          {envNamesForDependency(document, ref) : ref \in document.comps[i].refs}
    BY <1>1
  <1> QED
    BY <1>1, <1>2 DEF Planned

\* Nobody else's hand is on the projects while they are created or after that.
LEMMA ProjectsAlone ==
  ASSUME AppInv, AppNext, ~disturbed', Creating \/ app = "active"
  PROVE  /\ RemovesNext => UNCHANGED project /\ ~Creating /\ app' # "active"
         /\ \A n : ~Deletes(n)
         /\ app = "active" => ~Creating
         /\ Creating => app = "creating"
  <1>1. ~disturbed /\ \A r \in Deletions : BeginDelete(r) => ~Creating
    BY DisturbedStays
  <1>2. ~Removing /\ (Creating => app = "creating")
    BY <1>1 DEF AppInv, Alone
  <1>3. /\ \A r \in Deletions : ~FindProjects(r) /\ ~EndDelete(r) /\ \A n : ~DeleteProjectOf(r, n)
        /\ \A n : ~Deletes(n)
    BY <1>2 DEF Removing, FindProjects, EndDelete, DeleteProjectOf, Deletes
  <1>4. RemovesNext => \E r \in Deletions : BeginDelete(r)
    BY <1>3 DEF RemovesNext
  <1>5. \A r \in Deletions : BeginDelete(r) => UNCHANGED project /\ app' = "deleting"
    BY DEF BeginDelete
  <1> QED
    BY <1>1, <1>2, <1>3, <1>4, <1>5

LEMMA PlannedInvKept ==
  ASSUME AppInv, AppNext
  PROVE  PlannedInv'
  <1>1. document' = document
    BY DocumentStays
  <1> SUFFICES ASSUME ~disturbed'
               PROVE  /\ app' = "active" => Validate(document)
                      /\ \A i \in DOMAIN document.comps :
                           /\ Behind(i)' => Planned(i)' /\ project'[document.comps[i].name].linked
                           /\ ~creator'.bad /\ creator'.pc = "link" /\ i = creator'.at =>
                                Planned(i)'
    BY <1>1 DEF PlannedInv
  <1>2. ~disturbed /\ ~Kill
    BY DisturbedStays
  <1>3. /\ app = "active" => Validate(document)
        /\ \A i \in DOMAIN document.comps :
             /\ Behind(i) => Planned(i) /\ project[document.comps[i].name].linked
             /\ ~creator.bad /\ creator.pc = "link" /\ i = creator.at => Planned(i)
    BY <1>2 DEF AppInv, PlannedInv
  <1>4. /\ Len(document.comps) \in Nat /\ DOMAIN document.comps = 1..Len(document.comps)
        /\ Creating => Validate(document)
        /\ creator.pc \in {"component", "link"} => creator.at \in 1..Len(document.comps)
    BY DocumentFacts DEF AppInv, Places
  <1>5. \A i \in DOMAIN document.comps : document.comps[i].name \in NamesOf(document.comps)
    BY DEF NamesOf
  <1>6. ASSUME NEW i \in DOMAIN document.comps, Planned(i), project[document.comps[i].name].linked,
               project'[document.comps[i].name] = project[document.comps[i].name]
        PROVE  Planned(i)' /\ project'[document.comps[i].name].linked
    BY <1>1, <1>6, PlannedStays
  <1>7. CASE CreateComponent
    <2>1. creator.pc = "component" /\ Creating /\ UNCHANGED app
      BY <1>7 DEF CreateComponent, Creating
    <2>2. creator'.pc = "link" /\ creator'.at = creator.at /\ creator'.bad = creator.bad
      BY <1>7, CreatorMoves DEF Goes
    <2>3. app = "creating" /\ (\A n : ~Deletes(n))
      BY <2>1, ProjectsAlone
    <2>4. creator.at \in 1..Len(document.comps) /\ NamesUnique(document.comps)
      BY <1>4, <2>1 DEF Validate
    <2>5. ASSUME NEW i \in DOMAIN document.comps, Behind(i)'
          PROVE  Planned(i)' /\ project'[document.comps[i].name].linked
      <3>1. i < creator.at /\ ~creator.bad
        BY <2>1, <2>2, <2>3, <2>5 DEF Behind
      <3>2. Behind(i)
        BY <2>1, <3>1 DEF Behind
      <3>3. document.comps[i].name # Component.name
        BY <1>4, <2>4, <3>1 DEF NamesUnique, Component
      <3>4. project'[document.comps[i].name] = project[document.comps[i].name]
        BY <1>5, <2>3, <3>3, ProjectMoves
      <3> QED
        BY <1>3, <1>6, <3>2, <3>4
    <2>6. ASSUME ~creator.bad PROVE Planned(creator.at)'
      <3> DEFINE p == project'[Component.name]
      <3>1. p.env = componentEnvWithDependencies(Component)
            /\ p.secret = resolveComponentSecrets(document)[creator.at]
        BY <1>7, ProjectMoves DEF NewProject
      <3>2. /\ \A ref \in Component.refs : Plain(ref) =>
                 envNamesForDependency(document, ref) \subseteq p.env
            /\ (\A ref \in Component.refs : Plain(ref)) =>
                 p.env = UNION {envNamesForDependency(document, ref) : ref \in Component.refs}
        BY <1>2, <2>1, <2>6, <3>1, ComponentFollowsPlan
      <3>3. /\ \A ref : Plain(ref)' <=> Plain(ref)
            /\ \A ref : envNamesForDependency(document, ref)' = envNamesForDependency(document, ref)
            /\ resolveComponentSecrets(document)' = resolveComponentSecrets(document)
        BY <1>1 DEF Plain, Shadowed
      <3>4. {envNamesForDependency(document, ref)' : ref \in Component.refs} =
              {envNamesForDependency(document, ref) : ref \in Component.refs}
        BY <3>3
      <3> HIDE DEF p
      <3> QED
        BY <1>1, <2>2, <3>1, <3>2, <3>3, <3>4 DEF Planned, Component, p
    <2> QED
      BY <2>1, <2>2, <2>3, <2>5, <2>6
  <1>8. CASE LinkComponent
    <2>1. creator.pc = "link" /\ Creating /\ UNCHANGED app
      BY <1>8 DEF LinkComponent, Creating
    <2>2. LET j == creator.at + 1 last == j > Len(document.comps) IN
          /\ creator'.pc = IF last THEN "finish" ELSE "component"
          /\ creator'.at = IF last THEN 1 ELSE j
          /\ creator'.bad = creator.bad
      BY <1>8, CreatorMoves DEF NextComponent, Goes
    <2>3. app = "creating" /\ (\A n : ~Deletes(n))
      BY <2>1, ProjectsAlone
    <2>4. creator.at \in 1..Len(document.comps) /\ NamesUnique(document.comps)
      BY <1>4, <2>1 DEF Validate
    <2>5. ASSUME NEW i \in DOMAIN document.comps, Behind(i)'
          PROVE  Planned(i)' /\ project'[document.comps[i].name].linked
      <3>1. ~creator.bad /\ i <= creator.at
        BY <1>4, <2>1, <2>2, <2>3, <2>4, <2>5 DEF Behind
      <3>2. CASE i = creator.at
        <4>1. Planned(i)
          BY <1>3, <2>1, <3>1, <3>2
        <4>2. project'[Component.name] = WithLink(project[Component.name])
          BY <1>8, ProjectMoves
        <4> QED
          BY <1>1, <3>2, <4>1, <4>2, PlannedStays DEF WithLink, Component
      <3>3. CASE i # creator.at
        <4>1. Behind(i)
          BY <1>4, <2>1, <2>4, <3>1, <3>3 DEF Behind
        <4>2. document.comps[i].name # Component.name
          BY <1>4, <2>4, <3>3 DEF NamesUnique, Component
        <4>3. project'[document.comps[i].name] = project[document.comps[i].name]
          BY <1>5, <2>3, <4>2, ProjectMoves
        <4> QED
          BY <1>3, <1>6, <4>1, <4>3
      <3> QED
        BY <3>2, <3>3
    <2>6. creator'.pc # "link"
      BY <2>2
    <2> QED
      BY <2>1, <2>3, <2>5, <2>6
  <1>9. CASE Apply \/ FindApplication \/ CreateDependency \/ DependencyFails
    <2>1. app' # "active"
      <3>1. CASE Apply
        BY <3>1 DEF Apply
      <3>2. CASE ~Apply
        <4>1. Creating /\ UNCHANGED app
          BY <1>9, <3>2, CreatorBusy DEF CreatesNext
        <4> QED
          BY <4>1, ProjectsAlone
      <3> QED
        BY <3>1, <3>2
    <2>2. /\ creator'.pc \in {"dependency", "insert", "component"}
          /\ creator'.pc = "component" => creator'.at = 1
      BY <1>9, CreatorMoves DEF NextDependency, Goes
    <2>3. \A i \in DOMAIN document.comps : ~(i < 1)
      BY <1>4
    <2> QED
      BY <2>1, <2>2, <2>3 DEF Behind
  <1>10. CASE ComponentFails
    <2>1. Creating /\ UNCHANGED app
      BY <1>10 DEF ComponentFails, Creating
    <2>2. app' # "active"
      BY <2>1, ProjectsAlone
    <2>3. creator'.bad
      BY <1>10, CreatorMoves DEF NextComponent, Goes
    <2> QED
      BY <2>2, <2>3 DEF Behind
  <1>11. CASE FinishCreation
    <2>1. creator.pc = "finish" /\ Creating /\ UNCHANGED project /\ creator'.pc = "none"
      BY <1>11 DEF FinishCreation, NoCreator, Creating
    <2>2. app = "creating"
      BY <2>1, ProjectsAlone
    <2>3. app' = "active" => ~creator.bad
      BY <1>11, <2>2 DEF FinishCreation
    <2>4. ASSUME NEW i \in DOMAIN document.comps, Behind(i)'
          PROVE  Planned(i)' /\ project'[document.comps[i].name].linked
      <3>1. Behind(i)
        BY <2>1, <2>3, <2>4 DEF Behind
      <3> QED
        BY <1>3, <1>6, <2>1, <3>1
    <2> QED
      BY <1>4, <2>1, <2>4
  <1>12. CASE AddsNext \/ RemovesNext \/ DeleteOthers
    <2>1. UNCHANGED creator
      BY <1>12, Frames
    <2>2. app' = "active" => app = "active"
      BY <1>12, Frames
    <2>3. ASSUME Creating \/ app' = "active" PROVE UNCHANGED project
      <3>1. CASE AddsNext \/ DeleteOthers
        BY <3>1, Frames DEF DeleteOthers
      <3>2. CASE RemovesNext
        BY <2>2, <2>3, <3>2, ProjectsAlone
      <3> QED
        BY <1>12, <3>1, <3>2
    <2>4. ASSUME NEW i \in DOMAIN document.comps, Behind(i)'
          PROVE  Planned(i)' /\ project'[document.comps[i].name].linked
      <3>1. Behind(i) /\ (Creating \/ app' = "active")
        BY <2>1, <2>2, <2>4 DEF Behind, Creating
      <3> QED
        BY <1>3, <1>6, <2>3, <3>1
    <2>5. ASSUME NEW i \in DOMAIN document.comps, ~creator.bad, creator.pc = "link", i = creator.at
          PROVE  Planned(i)'
      <3>1. UNCHANGED project
        BY <2>3, <2>5 DEF Creating
      <3> QED
        BY <1>1, <1>3, <2>5, <3>1, PlannedStays
    <2> QED
      BY <1>3, <2>1, <2>2, <2>4, <2>5
  <1> QED
    BY <1>2, <1>7, <1>8, <1>9, <1>10, <1>11, <1>12, NextSplits DEF CreatesNext

-----------------------------------------------------------------------------
(* Applications: what is missing, and what is gone.                        *)

LEMMA MissingStays ==
  ASSUME AppInv, AppNext, Missing
  PROVE  Missing'
  <1>1. document' = document
    BY DocumentStays
  <1>2. failed' = failed \/ failed' = failed + 1
    BY DEF AppNext, Apply, FindApplication, CreateDependency, DependencyFails, CreateComponent,
         ComponentFails, LinkComponent, FinishCreation, BeginAddition, EndAddition, BeginDelete,
         FindProjects, DeleteProjectOf, EndDelete, DeleteOthers, Kill, Fails
  <1>3. failed \in Nat
    BY DEF AppInv, Rows
  <1>4. othersLeft' \subseteq othersLeft
    BY NextSplits, Frames DEF DeleteOthers
  <1>5. failed > 0 => failed' > 0
    BY <1>2, <1>3
  <1> QED
    BY <1>1, <1>4, <1>5 DEF Missing

LEMMA MissingInvKept ==
  ASSUME AppInv, AppNext
  PROVE  MissingInv'
  <1> SUFFICES ASSUME ~disturbed', creator'.bad \/ app' = "partial_failed"
               PROVE  Missing'
    BY DEF MissingInv
  <1>1. ~disturbed /\ ~Kill
    BY DisturbedStays
  <1>2. creator.bad \/ app = "partial_failed" => Missing'
    <2>1. creator.bad \/ app = "partial_failed" => Missing
      BY <1>1 DEF AppInv, MissingInv
    <2> QED
      BY <2>1, MissingStays
  <1>3. document' = document
    BY DocumentStays
  <1>4. failed \in Nat
    BY DEF AppInv, Rows
  <1>5. Fails => Missing'
    BY <1>4 DEF Fails, Missing
  <1>6. CASE DependencyFails
    <2>1. app = "creating" /\ creator.at \in DOMAIN document.deps
      BY <1>1, <1>6 DEF DependencyFails, Creating, AppInv, Alone, Places
    <2>2. CASE ~Fails
      <3>1. Dependency.other /\ Dependency.id \notin othersLeft /\ othersLeft' = othersLeft
        BY <1>6, <2>1, <2>2 DEF DependencyFails, Available, HasRow
      <3> QED
        BY <1>3, <2>1, <3>1 DEF Missing, Dependency
    <2> QED
      BY <1>5, <2>2
  <1>7. CASE ComponentFails
    BY <1>5, <1>7 DEF ComponentFails
  <1>8. CASE FinishCreation
    <2>1. ~creator'.bad
      BY <1>8, Frames DEF NoCreator
    <2>2. app' = "partial_failed" => app = "partial_failed" \/ creator.bad
      BY <1>8 DEF FinishCreation
    <2> QED
      BY <1>2, <2>1, <2>2
  <1>9. CASE CreatesNext /\ ~DependencyFails /\ ~ComponentFails
    <2>1. creator'.bad => creator.bad
      BY <1>9, CreatorMoves DEF CreatesNext, NextDependency, NextComponent, Goes
    <2>2. app' = "partial_failed" => app = "partial_failed"
      BY <1>9, Frames
    <2> QED
      BY <1>2, <2>1, <2>2
  <1>10. CASE AddsNext \/ RemovesNext \/ DeleteOthers
    <2>1. UNCHANGED creator
      BY <1>10, Frames
    <2>2. app' = "partial_failed" => app = "partial_failed"
      BY <1>10, Frames
    <2> QED
      BY <1>2, <2>1, <2>2
  <1> QED
    BY <1>1, <1>6, <1>7, <1>8, <1>9, <1>10, NextSplits

LEMMA GoneInvKept ==
  ASSUME AppInv, AppNext
  PROVE  GoneInv'
  <1> DEFINE names == NamesOf(document.comps)
  <1>1. DOMAIN project = names /\ DOMAIN project' = names
    BY ProjectMoves DEF AppInv, ProjectsInv
  <1> HIDE DEF names
  <1>2. ASSUME app' = "gone", ~late' PROVE own' = {} /\ rows' = {}
    <2>1. app = "gone" /\ ~late => own = {} /\ rows = {}
      BY DEF AppInv, GoneInv
    <2>2. \/ own' = {} /\ rows' = {}
          \/ app = "gone" /\ UNCHANGED <<late, own, rows>>
      <3>1. CASE CreatesNext
        <4>1. app = "gone"
          BY <1>2, <3>1, CreatorBusy DEF Apply
        <4>2. UNCHANGED <<late, own, rows>> \/ late' = (late \/ app = "gone")
          BY <3>1 DEF CreatesNext, Apply, FindApplication, CreateDependency, DependencyFails,
                      Writes, CreateComponent, ComponentFails, LinkComponent
        <4>3. UNCHANGED <<late, own, rows>>
          BY <1>2, <4>1, <4>2, Zenon
        <4> QED
          BY <4>1, <4>3
      <3>2. CASE AddsNext
        <4>1. app = "gone"
          BY <1>2, <3>2, Frames
        <4>2. UNCHANGED <<late, own, rows>> \/ late' = (late \/ app = "gone")
          BY <3>2 DEF AddsNext, BeginAddition, EndAddition, Writes
        <4>3. UNCHANGED <<late, own, rows>>
          BY <1>2, <4>1, <4>2, Zenon
        <4> QED
          BY <4>1, <4>3
      <3>3. CASE FinishCreation \/ RemovesNext \/ DeleteOthers \/ Kill
        BY <1>2, <3>3 DEF FinishCreation, RemovesNext, BeginDelete, FindProjects,
           DeleteProjectOf, EndDelete, DeleteOthers, Kill
      <3> QED
        BY <3>1, <3>2, <3>3, NextSplits
    <2> QED
      BY <1>2, <2>1, <2>2
  <1> DEFINE Ends == app' = "gone" => \A n \in names : ~project'[n].linked
             Finds(r) == remover'[r].pc = "projects" /\ ~remover'[r].bad =>
                           \A n \in names : project'[n].linked => n \in remover'[r].left
  <1> SUFFICES ASSUME ~disturbed' PROVE Ends /\ \A r \in Deletions : Finds(r)
    BY <1>1, <1>2 DEF GoneInv
  <1>3. ~disturbed /\ ~Kill
    BY DisturbedStays
  <1>4. /\ \A r \in Deletions : remover[r].pc = "projects" /\ ~remover[r].bad =>
             \A n \in names : project[n].linked => n \in remover[r].left
        /\ app = "gone" => \A n \in names : ~project[n].linked
    BY <1>1, <1>3 DEF AppInv, GoneInv
  <1>5. Creating => app = "creating" /\ ~Removing
    BY <1>3 DEF AppInv, Alone
  <1>6. CASE CreatesNext \/ FinishCreation
    <2>1. app \in {"absent", "creating"} /\ ~Removing /\ UNCHANGED remover
      <3>1. CASE Apply
        BY <3>1 DEF Apply, AppInv, Places
      <3>2. CASE ~Apply
        <4>1. Creating /\ UNCHANGED remover
          BY <1>6, <3>2, CreatorBusy, Frames DEF FinishCreation, Creating
        <4> QED
          BY <1>5, <4>1
      <3> QED
        BY <3>1, <3>2
    <2>2. app' # "gone"
      BY <1>6, <2>1, Frames DEF FinishCreation
    <2> QED
      BY <2>1, <2>2 DEF Removing
  <1>7. CASE AddsNext \/ DeleteOthers
    <2>1. UNCHANGED <<app, project, remover>>
      BY <1>7, Frames DEF DeleteOthers
    <2> QED
      BY <1>4, <2>1
  <1>8. ASSUME NEW r \in Deletions, BeginDelete(r) \/ FindProjects(r) \/ EndDelete(r)
        PROVE  Ends /\ \A q \in Deletions : Finds(q)
    <2>1. UNCHANGED project
      BY <1>8 DEF BeginDelete, FindProjects, EndDelete
    <2>2. \/ Removes(r, "find", {}, FALSE) \/ Removes(r, "projects", Linked, remover[r].bad)
          \/ Removes(r, "none", {}, FALSE)
      BY <1>8, RemoverMoves
    <2>3. Finds(r)
      BY <1>1, <2>1, <2>2 DEF Removes, Linked
    <2>4. \A q \in Deletions \ {r} : Finds(q)
      BY <1>4, <2>1, <2>2 DEF Removes
    <2>5. Ends
      <3>1. CASE EndDelete(r) /\ app' # app
        <4>1. app' = "gone" => remover[r].pc = "projects" /\ remover[r].left = {}
                               /\ ~remover[r].bad
          BY <3>1 DEF EndDelete
        <4> QED
          BY <1>4, <2>1, <4>1
      <3>2. CASE ~EndDelete(r) \/ app' = app
        <4>1. app' = "gone" => app = "gone"
          BY <1>8, <3>2 DEF BeginDelete, FindProjects
        <4> QED
          BY <1>4, <2>1, <4>1
      <3> QED
        BY <3>1, <3>2
    <2> QED
      BY <2>3, <2>4, <2>5
  <1>9. ASSUME NEW r \in Deletions, NEW n, DeleteProjectOf(r, n)
        PROVE  Ends /\ \A q \in Deletions : Finds(q)
    <2>1. UNCHANGED app /\ remover[r].pc = "projects"
      BY <1>9 DEF DeleteProjectOf
    <2>2. CASE UNCHANGED project /\ Removes(r, "projects", remover[r].left \ {n}, TRUE)
      <3>1. Finds(r)
        BY <2>2 DEF Removes
      <3>2. \A q \in Deletions \ {r} : Finds(q)
        BY <1>4, <2>2 DEF Removes
      <3> QED
        BY <1>4, <2>1, <2>2, <3>1, <3>2
    <2>3. CASE /\ project' = [project EXCEPT ![n] = NoProject]
               /\ Removes(r, "projects", remover[r].left \ {n}, remover[r].bad)
      <3>1. \A m \in names : project'[m].linked => m # n /\ project[m].linked
        BY <1>1, <2>3 DEF NoProject
      <3>2. remover'[r].left = remover[r].left \ {n} /\ remover'[r].bad = remover[r].bad
        BY <2>3 DEF Removes
      <3>3. \A q \in Deletions \ {r} : remover'[q] = remover[q]
        BY <2>3 DEF Removes
      <3>4. Finds(r)
        BY <1>4, <2>1, <3>1, <3>2
      <3>5. \A q \in Deletions \ {r} : Finds(q)
        BY <1>4, <3>1, <3>3
      <3> QED
        BY <1>4, <2>1, <3>1, <3>4, <3>5
    <2> QED
      BY <1>9, <2>2, <2>3, RemoverMoves
  <1> HIDE DEF Ends, Finds
  <1> QED
    BY <1>3, <1>6, <1>7, <1>8, <1>9, NextSplits DEF RemovesNext

-----------------------------------------------------------------------------
(* Applications: theorems.                                                 *)

LEMMA AppStarts ==
  ASSUME AppInit
  PROVE  AppInv
  <1>1. document \in Documents /\ IsDocument(document)
    BY ApplicationAssumption DEF AppInit
  <1>2. /\ app = "absent" /\ own = {} /\ rows = {} /\ othersLeft = DOMAIN Others /\ adding = {}
        /\ remover = [r \in Deletions |-> NoRemover]
        /\ \A r \in Deletions : remover[r] = NoRemover
        /\ project = [n \in NamesOf(document.comps) |-> NoProject]
        /\ creator = NoCreator /\ disturbed = FALSE /\ late = FALSE
    BY DEF AppInit
  <1>3. /\ NoRemover = [pc |-> NoRemover.pc, left |-> NoRemover.left, bad |-> NoRemover.bad]
        /\ NoRemover.pc = "none" /\ NoRemover.left = {} /\ NoRemover.bad = FALSE
    BY DEF NoRemover
  <1>4. /\ NoCreator = [pc |-> NoCreator.pc, at |-> NoCreator.at, made |-> NoCreator.made,
                        known |-> NoCreator.known, bad |-> NoCreator.bad]
        /\ NoCreator.pc = "none" /\ NoCreator.bad = FALSE
    BY DEF NoCreator
  <1>5. Wiring
    <2>1. remover = [r \in Deletions |-> remover[r]]
      BY <1>2
    <2> QED
      BY <1>2, <1>3, <1>4, <2>1 DEF Wiring
  <1>6. Places /\ Alone /\ KnownInv /\ PlannedInv /\ MissingInv /\ GoneInv
    BY <1>2, <1>3, <1>4 DEF Places, Alone, KnownInv, Through, PlannedInv, MissingInv, GoneInv,
                            Behind, Creating, Removing
  <1>7. Rows
    <2>1. failed \in 0..MaxFailed /\ kills \in 0..MaxKills
      BY ApplicationAssumption DEF AppInit
    <2> QED
      BY <1>2, <1>3, <2>1 DEF Rows
  <1>8. ProjectsInv
    <2>1. \A i \in DOMAIN document.comps : document.comps[i].name \in NamesOf(document.comps)
      BY DEF NamesOf
    <2> QED
      BY <1>2, <1>3, <1>4, <2>1 DEF ProjectsInv, Untouched, NoProject
  <1> QED
    BY <1>1, <1>5, <1>6, <1>7, <1>8 DEF AppInv

LEMMA AppStep ==
  ASSUME AppInv, [AppNext]_appVars
  PROVE  AppInv'
  <1>1. CASE AppNext
    <2>1. (document \in Documents)'
      BY <1>1, DocumentStays DEF AppInv
    <2> QED
      BY <1>1, <2>1, WiringKept, PlacesKept, RowsKept, ProjectsInvKept, AloneKept, KnownInvKept,
         PlannedInvKept, MissingInvKept, GoneInvKept DEF AppInv
  <1>2. CASE UNCHANGED appVars
    <2>1. UNCHANGED appVars
      BY <1>2
    <2>2. UNCHANGED <<document, app, own, credentials, othersLeft, rows, project, creator,
                      adding, remover, failed, kills, disturbed, late>>
      BY <2>1 DEF appVars
    <2>3. Wiring' /\ MissingInv' /\ GoneInv'
      BY <2>2 DEF AppInv, Wiring, MissingInv, Missing, GoneInv
    <2>4. Places' /\ Alone'
      BY <2>2 DEF AppInv, Places, Alone, Creating, Removing, HasRow, Dependency
    <2>5. Rows'
      BY <2>2 DEF AppInv, Rows, OwnRow
    <2>6. ProjectsInv'
      BY <2>2 DEF AppInv, ProjectsInv, Ahead, Untouched
    <2>7. KnownInv'
      BY <2>2 DEF AppInv, KnownInv, Got, InPlace, Through
    <2>8. PlannedInv'
      <3>1. \A i \in DOMAIN document.comps : Planned(i) => Planned(i)'
        BY <2>2, PlannedStays
      <3> QED
        BY <2>2, <3>1 DEF AppInv, PlannedInv, Behind
    <2> QED
      BY <2>2, <2>3, <2>4, <2>5, <2>6, <2>7, <2>8 DEF AppInv
  <1> QED
    BY <1>1, <1>2

LEMMA AppSpecInv == AppSpec => []AppInv
  BY AppStarts, AppStep, PTL DEF AppSpec

\* Every variable of the application has its type: a request is at a dependency
\* or a component of the document, a linked project is there, only linked
\* projects are deleted (ApplicationService.ApplyFromRepo, CreateMonorepo,
\* Delete).
THEOREM AppTyped == AppSpec => []AppTypeOK
  <1>1. AppInv => AppTypeOK
    <2> SUFFICES ASSUME AppInv PROVE AppTypeOK
      OBVIOUS
    <2>1. DOMAIN project = NamesOf(document.comps)
      BY DEF AppInv, ProjectsInv
    <2> QED
      BY <2>1 DEF AppTypeOK, AppInv, Wiring, Places, Rows, OwnRow, ProjectsInv
  <1> QED
    BY <1>1, AppSpecInv, PTL

\* An application that is active is what its document has been planned to be,
\* whatever the document, also one whose shared dependencies have the names of
\* its own: each component has a linked project, with the variables that Plan
\* named for the references that are not hit by such a name, and the secret of
\* the component that it takes it from; one that is partly failed misses
\* something (CreateMonorepo, componentEnvWithDependencies,
\* resolveComponentSecrets).
THEOREM AppliesAsPlanned == AppSpec => []ApplyFollowsPlan
  <1>1. AppInv => ApplyFollowsPlan
    <2> SUFFICES ASSUME AppInv, ~disturbed
                 PROVE  /\ app = "active" => \A i \in DOMAIN document.comps :
                             LET c == document.comps[i] p == project[document.comps[i].name] IN
                             /\ Planned(i) /\ p.linked
                             /\ \A j \in 1 .. i - 1 : document.comps[j].name = c.secret =>
                                  p.secret = project[c.secret].secret
                        /\ app = "partial_failed" => Missing
      BY DEF ApplyFollowsPlan, Planned, Missing
    <2>1. app = "partial_failed" => Missing
      BY DEF AppInv, MissingInv
    <2>2. ASSUME app = "active", NEW i \in DOMAIN document.comps
          PROVE  Planned(i) /\ project[document.comps[i].name].linked
      BY <2>2 DEF AppInv, PlannedInv, Behind
    <2>3. ASSUME app = "active", NEW i \in DOMAIN document.comps, NEW j \in 1 .. i - 1,
                 document.comps[j].name = document.comps[i].secret
          PROVE  project[document.comps[i].name].secret =
                   project[document.comps[i].secret].secret
      <3>1. NamesUnique(document.comps)
        BY <2>3 DEF AppInv, PlannedInv, Validate
      <3>2. resolveComponentSecrets(document)[i] = resolveComponentSecrets(document)[j]
        BY <2>3, <3>1, SecretsAreTaken DEF AppInv
      <3>3. j \in DOMAIN document.comps
        BY DocumentFacts DEF AppInv
      <3>4. /\ project[document.comps[i].name].secret = resolveComponentSecrets(document)[i]
            /\ project[document.comps[j].name].secret = resolveComponentSecrets(document)[j]
        BY <2>2, <2>3, <3>3 DEF Planned
      <3> QED
        BY <2>3, <3>2, <3>4
    <2> QED
      BY <2>1, <2>2, <2>3
  <1> QED
    BY <1>1, AppSpecInv, PTL

\* An application that is gone has no component and no dependency of its own but
\* those that requests wrote after it had gone, however many deletions there were
\* and however often they failed; and when no creation and no addition of a
\* dependency overlapped with them there are none of these, and no project is
\* linked to it (ApplicationService.Delete, DependencyService.Create).
THEOREM DeletedIsGone == AppSpec => []DeletedApplicationIsGone
  <1>1. AppInv => DeletedApplicationIsGone
    BY DEF AppInv, Alone, GoneInv, DeletedApplicationIsGone
  <1> QED
    BY <1>1, AppSpecInv, PTL

\* The application and the credentials of its dependencies share no variable.
LEMMA ApplicationsOnTheirOwn == ApplicationsSpec => AppSpec /\ DependencySpec
  <1>1. ApplicationsInit => AppInit /\ DependencyInit
    BY DEF ApplicationsInit
  <1>2. [ApplicationsNext]_applicationVars =>
          [AppNext]_appVars /\ [DependencyNext]_dependencyVars
    BY DEF ApplicationsNext, applicationVars
  <1> QED
    BY <1>1, <1>2, PTL DEF ApplicationsSpec, AppSpec, DependencySpec

\* What TLC checks of the two together, for every value of the constants: the
\* types of applications and of credentials.
THEOREM ApplicationsTyped == ApplicationsSpec => []ApplicationsTypeOK
  <1>1. DependencyInv => DependencyTypeOK
    BY DEF DependencyInv
  <1> QED
    BY <1>1, ApplicationsOnTheirOwn, AppTyped, DependencySpecInv, PTL DEF ApplicationsTypeOK

=============================================================================
