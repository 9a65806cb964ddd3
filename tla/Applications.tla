---------------------------- MODULE Applications ----------------------------
(***************************************************************************)
(* An application described by a document of its repository: the document  *)
(* is validated and planned, applied by CreateMonorepo one dependency and  *)
(* one component after another; its user adds dependencies to it and       *)
(* deletes it at any moment, also with several requests at a time.         *)
(***************************************************************************)
EXTENDS Integers, Sequences, FiniteSets

CONSTANTS
  Documents,    \* the documents that a repository may hold
  Definitions,  \* Definitions[type]: the presets of a type of dependency, and the
                \* names of variables that each of them sets
  Others,       \* Others[id]: the name and the type of a dependency that another
                \* application shares; a document refers to it by its id, and
                \* gives it a name of its own
  Additions,    \* dependencies that the user adds to the application by requests
  Deletions,    \* requests that delete the application
  MaxFailed,    \* bound on steps that fail
  MaxKills      \* bound on restarts of the controller

\* "generate" marks a secret, and is no component.
IsDocument(doc) ==
  /\ doc.deps \in Seq({doc.deps[i] : i \in DOMAIN doc.deps})
  /\ doc.comps \in Seq({doc.comps[i] : i \in DOMAIN doc.comps})
  /\ \A i \in DOMAIN doc.comps : doc.comps[i].name # "generate"

ASSUME ApplicationAssumption ==
  /\ MaxFailed \in Nat /\ MaxKills \in Nat /\ \A doc \in Documents : IsDocument(doc)
  /\ \A id \in DOMAIN Others : Others[id].type \in DOMAIN Definitions

VARIABLES
  document,
  app,          \* the row of the application: "absent", its status, or "gone"
  own,          \* the dependencies of the application: who made them, their names
  credentials,  \* pairs: a dependency and the name of a credential of it
  othersLeft,   \* the dependencies of the other application
  rows,         \* rows of application_components: kinds and names
  project,      \* project[component]: whether there is a project, whether it is
                \* linked to the application, its environment and its secret
  creator,      \* the request that applies the document
  adding,       \* additions that have found the application, and write next
  remover,      \* remover[r]: how far a request is that deletes the application
  failed, kills,
  disturbed,    \* history: a deletion was under way together with a creation or an
                \* addition, or a restart ended one of them
  late          \* history: a row was written for an application that was gone

appVars == <<document, app, own, credentials, othersLeft, rows, project, creator, adding,
             remover, failed, kills, disturbed, late>>
-----------------------------------------------------------------------------
\* Validation and planning.
NamesOf(s) == {s[i].name : i \in DOMAIN s}
NamesUnique(s) == \A i, j \in DOMAIN s : s[i].name = s[j].name => i = j
NoPresets == [p \in {} |-> {}]

\* Metadata, ports, probes, volumes and paths are summed up in `sound`; `other`
\* is a dependency of another application, `external` one that is controlled.
DependencyValid(d) == d.other \/ d.type \in DOMAIN Definitions

\* The presets of the type that the document gives for a dependency.
PresetsOf(doc, name) ==
  LET types == {doc.deps[i].type : i \in {j \in DOMAIN doc.deps : doc.deps[j].name = name}}
               \cap DOMAIN Definitions
  IN  IF types = {} THEN NoPresets ELSE Definitions[CHOOSE t \in types : TRUE]

ReferenceValid(doc, ref) ==
  \/ ref.byId
  \/ /\ ref.dep \in NamesOf(doc.deps)
     /\ ref.preset # "" \/ ref.mappings # {}
     /\ ref.preset = "" \/ PresetsOf(doc, ref.dep) = NoPresets
          \/ ref.preset \in DOMAIN PresetsOf(doc, ref.dep)

Validate(doc) ==
  /\ doc.sound /\ doc.comps # <<>>
  /\ NamesUnique(doc.deps) /\ NamesUnique(doc.comps)
  /\ \A i \in DOMAIN doc.deps : DependencyValid(doc.deps[i])
  /\ \A i \in DOMAIN doc.comps : \A ref \in doc.comps[i].refs : ReferenceValid(doc, ref)

\* Plan: the variables that a reference will set.
envNamesForDependency(doc, ref) ==
  ref.mappings \cup
  (IF ref.preset # "" /\ ref.preset \in DOMAIN PresetsOf(doc, ref.dep)
   THEN PresetsOf(doc, ref.dep)[ref.preset] ELSE {})

\* The secrets of the components, in the order of the document: the name of the
\* component that a secret was generated for.
resolveComponentSecrets(doc) ==
  LET comps == doc.comps
      secret[i \in DOMAIN comps] ==
        LET sources == {j \in 1 .. i - 1 : comps[j].name = comps[i].secret} IN
        IF comps[i].secret = "generate" THEN comps[i].name
        ELSE IF sources = {} THEN "none" ELSE secret[CHOOSE j \in sources : TRUE]
  IN  secret
-----------------------------------------------------------------------------
NoProject == [there |-> FALSE, linked |-> FALSE, env |-> {}, secret |-> "none"]
NoCreator == [pc |-> "none", at |-> 1, made |-> FALSE, known |-> [n \in {} |-> << >>],
              bad |-> FALSE]
NoRemover == [pc |-> "none", left |-> {}, bad |-> FALSE]

AppInit ==
  /\ document \in Documents
  /\ app = "absent" /\ own = {} /\ rows = {} /\ othersLeft = DOMAIN Others
  /\ credentials = {<<<<"other", id>>, "default">> : id \in DOMAIN Others}
  /\ project = [n \in NamesOf(document.comps) |-> NoProject]
  /\ creator = NoCreator /\ adding = {} /\ remover = [r \in Deletions |-> NoRemover]
  /\ failed = 0 /\ kills = 0 /\ disturbed = FALSE /\ late = FALSE

Creating == creator.pc # "none"
Removing == \E r \in Deletions : remover[r].pc # "none"
HasRow == app \notin {"absent", "gone"}
Fails == failed < MaxFailed /\ failed' = failed + 1

Dependency == document.deps[creator.at]
Component == document.comps[creator.at]

\* What the creator does next: the dependency or the component at i, or the end.
\* Variant, ToComponentOver: one component too many.
ToDependency(i) ==
  [creator EXCEPT !.pc = IF i <= Len(document.deps) THEN "dependency" ELSE "component",
                  !.at = IF i <= Len(document.deps) THEN i ELSE 1]
ToComponentOver(i) ==
  [creator EXCEPT !.pc = IF i <= Len(document.comps) + 1 THEN "component" ELSE "finish",
                  !.at = IF i <= Len(document.comps) + 1 THEN i ELSE 1]
ToComponent(i) ==
  [creator EXCEPT !.pc = IF i <= Len(document.comps) THEN "component" ELSE "finish",
                  !.at = IF i <= Len(document.comps) THEN i ELSE 1]

\* ApplyFromRepo, CreateMonorepo.
Apply ==
  /\ app = "absent" /\ Validate(document)
  /\ app' = "creating" /\ creator' = ToDependency(1)
  /\ UNCHANGED <<document, own, credentials, othersLeft, rows, project, adding, remover, failed,
                 kills, disturbed, late>>

\* DependencyService.Create reads the application, and attachExisting the
\* dependency that is shared, ...
Available(d) == HasRow /\ (d.other => d.id \in othersLeft)

\* ... and writes later: the dependency, its credential and a component of the
\* application in one transaction,
DependencyRows(by, d) ==
  /\ own' = own \cup {<<by, d.name>>}
  /\ credentials' = credentials \cup
       (IF d.credential # "" THEN {<<<<by, d.name>>, d.credential>>}
        ELSE IF d.external THEN {} ELSE {<<<<by, d.name>>, "default">>})
  /\ rows' = rows \cup {<<"dependency", d.name>>}

\* or only the component.
attachExisting(d) ==
  UNCHANGED <<own, credentials>> /\ rows' = rows \cup {<<"dependency", d.name>>}

\* Nothing asks whether the application is still there.
Writes(by, d) ==
  /\ IF d.other THEN attachExisting(d) ELSE DependencyRows(by, d)
  /\ late' = (late \/ app = "gone")

FindApplication ==
  /\ creator.pc = "dependency" /\ Available(Dependency)
  /\ creator' = [creator EXCEPT !.pc = "insert"]
  /\ UNCHANGED <<document, app, own, credentials, othersLeft, rows, project, adding, remover,
                 failed, kills, disturbed, late>>

\* A dependency is known by the name in its row and by that of the document, in
\* the place of an earlier one of that name.
NamesFor(d) == {d.name} \cup (IF d.other THEN {Others[d.id].name} ELSE {})
RowOf(d) == IF d.other THEN <<"other", d.id>> ELSE <<"document", d.name>>
Known(known, d) ==
  [n \in DOMAIN known \cup NamesFor(d) |-> IF n \in NamesFor(d) THEN RowOf(d) ELSE known[n]]

CreateDependency ==
  /\ creator.pc = "insert" /\ Writes("document", Dependency)
  /\ creator' = [ToDependency(creator.at + 1) EXCEPT !.known = Known(@, Dependency)]
  /\ UNCHANGED <<document, app, othersLeft, project, adding, remover, failed, kills, disturbed>>

\* A dependency fails and the next one is created: of one whose credential
\* cannot be brought about on its server the rows are left.  Without the row of
\* the application, or of a dependency that others share, it always fails.
DependencyFails ==
  /\ creator.pc \in {"dependency", "insert"}
  /\ IF creator.pc = "insert" \/ Available(Dependency) THEN Fails ELSE UNCHANGED failed
  /\ \/ UNCHANGED <<own, credentials, rows, late>>
     \/ /\ creator.pc = "insert" /\ ~Dependency.other
        /\ Dependency.external /\ Dependency.credential # "" /\ Writes("document", Dependency)
  /\ creator' = [ToDependency(creator.at + 1) EXCEPT !.bad = TRUE]
  /\ UNCHANGED <<document, app, othersLeft, project, adding, remover, kills, disturbed>>

\* The user adds a dependency, whatever the status of the application.
BeginAddition(d) ==
  /\ d \notin adding /\ Available(d) /\ adding' = adding \cup {d}
  /\ disturbed' = (disturbed \/ Removing)
  /\ UNCHANGED <<document, app, own, credentials, othersLeft, rows, project, creator, remover,
                 failed, kills, late>>

\* It is written, or refused, or fails.
EndAddition(d) ==
  /\ d \in adding /\ adding' = adding \ {d}
  /\ Writes("added", d) \/ UNCHANGED <<own, credentials, rows, late>>
  /\ UNCHANGED <<document, app, othersLeft, project, creator, remover, failed, kills, disturbed>>

\* EnvForDependencyCredential, with the definition of the dependency itself.
PresetsIn(row) ==
  IF row[1] = "other" THEN Definitions[Others[row[2]].type] ELSE PresetsOf(document, row[2])

Injected(ref) ==
  LET row == creator.known[ref.dep]
      presets == PresetsIn(row)
      fails == \/ ref.credential # "" /\ <<row, ref.credential>> \notin credentials
               \/ ref.preset # "" /\ ref.preset \notin DOMAIN presets
  IN  IF fails THEN {}
      ELSE ref.mappings \cup (IF ref.preset = "" THEN {} ELSE presets[ref.preset])

\* A dependency that is not known is passed over, and one whose outputs cannot
\* be had.
componentEnvWithDependencies(component) ==
  UNION {Injected(ref) : ref \in {r \in component.refs : r.dep \in DOMAIN creator.known}}

CreateComponent ==
  /\ creator.pc = "component"
  /\ project' = [project EXCEPT ![Component.name] =
       [there |-> TRUE, linked |-> FALSE, env |-> componentEnvWithDependencies(Component),
        secret |-> resolveComponentSecrets(document)[creator.at]]]
  /\ creator' = [creator EXCEPT !.pc = "link"]
  /\ UNCHANGED <<document, app, own, credentials, othersLeft, rows, adding, remover, failed,
                 kills, disturbed, late>>

\* Variant: the link of a project may fail unnoticed.
ComponentFailsQuietly ==
  /\ creator.pc \in {"component", "link"} /\ Fails
  /\ creator' = [ToComponent(creator.at + 1) EXCEPT !.bad = @ \/ creator.pc = "component",
                                                    !.made = TRUE]
  /\ UNCHANGED <<document, app, own, credentials, othersLeft, rows, project, adding, remover,
                 kills, disturbed, late>>

\* The project cannot be created, or cannot be linked to the application.
ComponentFails ==
  /\ creator.pc \in {"component", "link"} /\ Fails
  /\ creator' = [ToComponent(creator.at + 1) EXCEPT !.bad = TRUE]
  /\ UNCHANGED <<document, app, own, credentials, othersLeft, rows, project, adding, remover,
                 kills, disturbed, late>>

\* The project becomes a component; an error of its row is ignored.
LinkComponent ==
  /\ creator.pc = "link"
  /\ project' = [project EXCEPT ![Component.name].linked = TRUE]
  /\ \/ /\ rows' = rows \cup {<<"service", Component.name>>}
        /\ late' = (late \/ app = "gone") /\ UNCHANGED failed
     \/ Fails /\ UNCHANGED <<rows, late>>
  /\ creator' = [ToComponent(creator.at + 1) EXCEPT !.made = TRUE]
  /\ UNCHANGED <<document, app, own, credentials, othersLeft, adding, remover, kills,
                 disturbed>>

\* The status of the application, if its row is there and can be written.
FinishCreation ==
  /\ creator.pc = "finish"
  /\ \/ app' = (IF ~HasRow THEN app ELSE IF creator.bad THEN "partial_failed" ELSE "active")
        /\ UNCHANGED failed
     \/ Fails /\ UNCHANGED app
  /\ creator' = NoCreator
  /\ UNCHANGED <<document, own, credentials, othersLeft, rows, project, adding, remover, kills,
                 disturbed, late>>

\* Delete, at any status; other requests may be deleting the application too.
BeginDelete(r) ==
  /\ HasRow /\ remover[r].pc = "none"
  /\ app' = "deleting" /\ remover' = [remover EXCEPT ![r] = [NoRemover EXCEPT !.pc = "find"]]
  /\ disturbed' = (disturbed \/ Creating \/ adding # {})
  /\ UNCHANGED <<document, own, credentials, othersLeft, rows, project, creator, adding, failed,
                 kills, late>>

FindProjects(r) ==
  /\ remover[r].pc = "find"
  /\ \/ remover' = [remover EXCEPT ![r] =
            [@ EXCEPT !.pc = "projects", !.left = {n \in DOMAIN project : project[n].linked}]]
        /\ UNCHANGED failed
     \/ Fails /\ remover' = [remover EXCEPT ![r] = NoRemover]
  /\ UNCHANGED <<document, app, own, credentials, othersLeft, rows, project, creator, adding,
                 kills, disturbed, late>>

DeleteProjectOf(r, n) ==
  /\ remover[r].pc = "projects" /\ n \in remover[r].left
  /\ \/ /\ project' = [project EXCEPT ![n] = NoProject]
        /\ remover' = [remover EXCEPT ![r].left = @ \ {n}] /\ UNCHANGED failed
     \/ /\ Fails /\ UNCHANGED project
        /\ remover' = [remover EXCEPT ![r] = [remover[r] EXCEPT !.left = @ \ {n}, !.bad = TRUE]]
  /\ UNCHANGED <<document, app, own, credentials, othersLeft, rows, creator, adding, kills,
                 disturbed, late>>

\* Variant: the application is deleted whatever has become of its projects.
EndDeleteAnyway(r) ==
  /\ remover[r].pc = "projects" /\ remover[r].left = {}
  /\ app' = "gone" /\ own' = {} /\ rows' = {}
  /\ remover' = [remover EXCEPT ![r] = NoRemover]
  /\ UNCHANGED <<document, credentials, othersLeft, project, creator, adding, failed, kills,
                 disturbed, late>>

\* The components, the dependencies that the application owns and its row go in
\* one transaction, unless a project is left; an error of the status that says so
\* is ignored.
EndDelete(r) ==
  /\ remover[r].pc = "projects" /\ remover[r].left = {}
  /\ remover' = [remover EXCEPT ![r] = NoRemover]
  /\ \/ Fails /\ UNCHANGED <<app, own, rows>>
     \/ ~remover[r].bad /\ app' = "gone" /\ own' = {} /\ rows' = {} /\ UNCHANGED failed
     \/ /\ remover[r].bad /\ app' = (IF HasRow THEN "partial_deleted" ELSE app)
        /\ UNCHANGED <<own, rows, failed>>
  /\ UNCHANGED <<document, credentials, othersLeft, project, creator, adding, kills, disturbed,
                 late>>

\* The other application is deleted, with its dependencies.
DeleteOthers ==
  /\ othersLeft # {} /\ othersLeft' = {}
  /\ UNCHANGED <<document, app, own, credentials, rows, project, creator, adding, remover,
                 failed, kills, disturbed, late>>

Kill ==
  /\ kills < MaxKills /\ kills' = kills + 1
  /\ Creating \/ Removing \/ adding # {}
  /\ creator' = NoCreator /\ adding' = {} /\ remover' = [r \in Deletions |-> NoRemover]
  /\ disturbed' = TRUE
  /\ UNCHANGED <<document, app, own, credentials, othersLeft, rows, project, failed, late>>

AppNext ==
  \/ Apply \/ FindApplication \/ CreateDependency \/ DependencyFails
  \/ CreateComponent \/ ComponentFails \/ LinkComponent \/ FinishCreation
  \/ \E d \in Additions : BeginAddition(d) \/ EndAddition(d)
  \/ \E r \in Deletions :
       \/ BeginDelete(r) \/ FindProjects(r) \/ EndDelete(r)
       \/ \E n \in DOMAIN project : DeleteProjectOf(r, n)
  \/ DeleteOthers \/ Kill

AppSpec == AppInit /\ [][AppNext]_appVars
-----------------------------------------------------------------------------
AppTypeOK ==
  /\ app \in {"absent", "creating", "active", "partial_failed", "deleting", "partial_deleted",
              "gone"}
  /\ \A row \in own : \/ row[1] = "document" /\ row[2] \in NamesOf(document.deps)
                      \/ row[1] = "added" /\ \E d \in Additions : row[2] = d.name
  /\ othersLeft \subseteq DOMAIN Others /\ adding \subseteq Additions
  /\ creator.pc \in {"none", "dependency", "insert", "component", "link", "finish"}
  /\ creator.pc \in {"dependency", "insert"} => creator.at \in DOMAIN document.deps
  /\ creator.pc \in {"component", "link"} => creator.at \in DOMAIN document.comps
  /\ \A r \in Deletions : /\ remover[r].pc \in {"none", "find", "projects"}
                          /\ remover[r].left \subseteq DOMAIN project
  /\ DOMAIN project = NamesOf(document.comps)
  /\ \A n \in DOMAIN project : project[n].linked => project[n].there
  /\ failed \in 0..MaxFailed /\ kills \in 0..MaxKills

\* The name of the dependency at i is also that of a row that the document takes
\* over from another application after it, and that has something else to offer.
Shadowed(i, ref) ==
  \E j \in i + 1 .. Len(document.deps) :
    LET d == document.deps[j] IN
    /\ d.other /\ d.id \in DOMAIN Others /\ Others[d.id].name = document.deps[i].name
    /\ ref.credential # "" \/ Definitions[Others[d.id].type] # PresetsOf(document, ref.dep)

\* References whose variables the plan can know: to a dependency of the document
\* itself, with a preset of its type, and with no credential but the one that the
\* document creates; unless its name is taken by another one.
Plain(ref) ==
  /\ ~ref.byId /\ (ref.preset = "" \/ ref.preset \in DOMAIN PresetsOf(document, ref.dep))
  /\ \E i \in DOMAIN document.deps :
       LET d == document.deps[i] IN
       /\ d.name = ref.dep /\ ~d.other /\ ~Shadowed(i, ref)
       /\ ref.credential \in {"", d.credential}

\* An application that is active is what its document has been planned to be:
\* every component has a project that is linked to it, with the variables that
\* the plan has named for its references, and a secret that a component takes
\* from an earlier one is that one's.  When only a part has failed, something
\* is missing.
ApplyFollowsPlan ==
  ~disturbed =>
    /\ app = "active" => \A i \in DOMAIN document.comps :
         LET c == document.comps[i] p == project[document.comps[i].name] IN
         /\ p.linked
         /\ \A ref \in c.refs : Plain(ref) => envNamesForDependency(document, ref) \subseteq p.env
         /\ (\A ref \in c.refs : Plain(ref)) =>
              p.env = UNION {envNamesForDependency(document, ref) : ref \in c.refs}
         /\ \A j \in 1 .. i - 1 : document.comps[j].name = c.secret =>
              p.secret = project[c.secret].secret
    /\ app = "partial_failed" => failed > 0 \/ \E i \in DOMAIN document.deps :
         document.deps[i].other /\ document.deps[i].id \notin othersLeft

\* An application that is gone has no component and no dependency of its own but
\* those that were written after it had gone, by requests that had found it before;
\* and if none of these overlapped with a deletion, and no restart ended one, then
\* there are none, and no project is linked to it.  Projects that never were linked
\* are left.
DeletedApplicationIsGone ==
  app = "gone" =>
    /\ ~late => own = {} /\ rows = {}
    /\ ~disturbed => ~late /\ \A n \in DOMAIN project : ~project[n].linked
=============================================================================
