--------------------------- MODULE MCApplications ---------------------------
(* Model checking of applications, their dependencies and the credentials of *)
(* these.  The two models share no state: one of them, the focus, is drawn   *)
(* at the beginning and moves.  That of applications moves either with many  *)
(* documents and one addition and one deletion at a time, or with one        *)
(* document and all of them at once.                                         *)
EXTENDS Applications, DependencyCredentials, TLC

VARIABLE focus

applicationVars == <<appVars, dependencyVars, focus>>

\* Users of the database are interchangeable, and requests that delete the
\* application.  So are those that create credentials, but as many permutations
\* cost more time than they save.
Symmetry == Permutations(DbUsers) \cup Permutations(Deletions)

MCDefinitions ==
  [mysql |-> [std |-> {"HOST", "PASSWORD"}, url |-> {"URL"}], queue |-> NoPresets]
MCOthers == [s1 |-> [name |-> "pool", type |-> "mysql"], s2 |-> [name |-> "db", type |-> "queue"],
             s3 |-> [name |-> "db", type |-> "mysql"]]

Dep(name, type, external, credential) ==
  [name |-> name, type |-> type, other |-> FALSE, id |-> "", external |-> external,
   credential |-> credential]
Shared(name, type, id) ==
  [name |-> name, type |-> type, other |-> TRUE, id |-> id, external |-> FALSE,
   credential |-> ""]
Ref(dep, byId, preset, mappings, credential) ==
  [dep |-> dep, byId |-> byId, preset |-> preset, mappings |-> mappings,
   credential |-> credential]
Comp(name, refs, secret) == [name |-> name, refs |-> refs, secret |-> secret]
Doc(sound, deps, comps) == [sound |-> sound, deps |-> deps, comps |-> comps]

DbDep == Dep("db", "mysql", FALSE, "")
ExternalDep == Dep("ext", "mysql", TRUE, "owner")
QueueDep == Dep("jobs", "queue", FALSE, "")
WebRefs == {Ref("db", FALSE, "std", {}, ""), Ref("ext", FALSE, "url", {"X"}, "owner")}
DbRef == {Ref("db", FALSE, "std", {}, "")}

\* Documents that are accepted: dependencies of each kind; references with a
\* preset, with mappings, with a credential there is not, with a preset that no
\* definition has, by an identifier, by the name of a row, to a dependency that
\* nobody shares; shared rows with the name of a dependency of the document, before
\* and after it, of another type and of the same; secrets that are generated and
\* taken over, from a later component too.
Accepted == {
  Doc(TRUE, <<DbDep, ExternalDep>>,
      <<Comp("web", WebRefs, "generate"), Comp("api", {Ref("db", FALSE, "", {"H"}, "")}, "web")>>),
  Doc(TRUE, <<Shared("shared", "mysql", "s1"), QueueDep>>,
      <<Comp("web", {Ref("shared", FALSE, "url", {}, "")}, "api"),
        Comp("api", {Ref("jobs", FALSE, "std", {}, ""), Ref("shared", FALSE, "std", {}, "ghost")},
             "generate"),
        Comp("job", {}, "web")>>),
  Doc(TRUE, <<Shared("shared", "", "s1")>>,
      <<Comp("web", {Ref("shared", FALSE, "none", {}, "default")}, "none"),
        Comp("api", {Ref("pool", TRUE, "std", {}, "")}, "none")>>),
  Doc(TRUE, <<Shared("lost", "", "s0")>>,
      <<Comp("web", {Ref("lost", FALSE, "std", {}, "")}, "none")>>),
  Doc(TRUE, <<DbDep, Shared("mq", "queue", "s2")>>, <<Comp("web", DbRef, "none")>>),
  Doc(TRUE, <<Shared("mq", "queue", "s2"), DbDep>>, <<Comp("web", DbRef, "none")>>),
  Doc(TRUE, <<DbDep, Shared("sql", "mysql", "s3")>>, <<Comp("web", DbRef, "none")>>),
  Doc(TRUE, << >>, <<Comp("web", {}, "none")>>)}

\* Documents that validation has to refuse.
Refused == {
  Doc(FALSE, << >>, <<Comp("web", {}, "none")>>),
  Doc(TRUE, <<DbDep, DbDep>>, <<Comp("web", {}, "none")>>),
  Doc(TRUE, <<DbDep>>, <<Comp("web", {}, "none"), Comp("web", {}, "none")>>),
  Doc(TRUE, <<Dep("db", "oracle", FALSE, "")>>, <<Comp("web", {}, "none")>>),
  Doc(TRUE, <<DbDep>>, <<Comp("web", {Ref("ghost", FALSE, "std", {}, "")}, "none")>>),
  Doc(TRUE, <<DbDep>>, <<Comp("web", {Ref("db", FALSE, "jdbc", {}, "")}, "none")>>),
  Doc(TRUE, <<DbDep>>, <<Comp("web", {Ref("db", FALSE, "", {}, "")}, "none")>>)}

\* The document that is deleted: one dependency of each kind.
MCDeletedDocument ==
  Doc(TRUE, <<ExternalDep, Shared("shared", "mysql", "s1")>>,
      <<Comp("web", {Ref("ext", FALSE, "url", {}, "owner")}, "none"), Comp("api", {}, "none")>>)

\* The user adds one of its own, or a row that is shared.
MCAddition == Dep("extra", "mysql", TRUE, "owner")
MCAdditions == {MCAddition, Shared("more", "", "s1")}

MCDocuments == Accepted \cup Refused \cup {MCDeletedDocument}
OneAtATime ==
  adding \subseteq {MCAddition} /\ Cardinality({r \in Deletions : remover[r].pc # "none"}) <= 1

ApplicationsInit ==
  /\ focus \in {"documents", "deletions", "credentials"}
  /\ AppInit /\ (focus = "documents" <=> document # MCDeletedDocument)
  /\ DependencyInit /\ (focus # "credentials" => dbExternal /\ client)

ApplicationsNext ==
  /\ \/ focus = "documents" /\ AppNext /\ OneAtATime' /\ UNCHANGED dependencyVars
     \/ focus = "deletions" /\ AppNext /\ UNCHANGED dependencyVars
     \/ focus = "credentials" /\ DependencyNext /\ UNCHANGED appVars
  /\ UNCHANGED focus

ApplicationsSpec == ApplicationsInit /\ [][ApplicationsNext]_applicationVars

\* Every variable of these components has its type.
ApplicationsTypeOK == AppTypeOK /\ DependencyTypeOK
=============================================================================
