---------------------------- MODULE GitOpsFiles ----------------------------
(***************************************************************************)
(* The directory of one name in the GitOps repository, written by calls of *)
(* GitOpsService: commits of all manifests of a project, updates of the    *)
(* image tag alone, deletions of the directory, and commits of a managed   *)
(* dependency whose application has the same name.  Every file is read and *)
(* written through the contents API of GitHub, one at a time: a call is a  *)
(* sequence of requests, and calls interleave between any two of them.     *)
(*                                                                         *)
(* The SHA of a file is the hash of what is in it, so that the content     *)
(* stands for both.                                                        *)
(***************************************************************************)
EXTENDS Integers, FiniteSets

CONSTANTS
  Writers,     \* calls of GitOpsService
  Images,      \* pairs of the name of an image and its tag
  FirstImage,  \* the image of the project at the beginning
  Shapes,      \* what a project may have: ports, a claim for a volume
  MaxRetries,  \* maxRetries of putFile
  MaxDisturbances  \* bound on requests that go wrong, and on changes of the
                   \* project by its owner

ASSUME GitAssumption ==
  /\ MaxRetries \in Nat /\ MaxDisturbances \in Nat
  /\ \A image \in Images : image = <<image[1], image[2]>>
  /\ FirstImage \in Images
  /\ Shapes \subseteq SUBSET {"service", "pvc"}

VARIABLES
  repo,     \* the content of every path, Absent where there is no file
  project,  \* the row of projects: its image, and its ports and volumes as far
            \* as they add a service or a claim to the manifests
  writer,   \* calls of GitOpsService
  disturbances,
  accidents \* history: the kinds of accident that have happened

gitVars == <<repo, project, writer, disturbances, accidents>>

\* failed: a call returned an error.  skipped: a deletion ended without one
\* though it could not list the directory.  raced: something else was written
\* during a deletion.  stale: an image was written that is no longer the one
\* of the project.  renamed: an image of another name was written to the
\* overlay alone, or by two calls at a time. 
Accidents == {"failed", "skipped", "raced", "stale", "renamed"}

Spared(kinds) == accidents \cap kinds = {}

-----------------------------------------------------------------------------
(* What is rendered.                                                       *)

Absent == <<>>
NoFile == "none"

ProjectRows == [image : Images, shape : Shapes]

BaseFiles == {"deployment", "service", "pvc", "kustomization"}
DependencyFiles == {"application", "values", "dependency-kustomization"}
Folder ==
  [base |-> BaseFiles, overlays |-> {"overlay"}, dependencies |-> DependencyFiles]
Folders == DOMAIN Folder
Files == BaseFiles \cup {"overlay"} \cup DependencyFiles

\* renderBaseKustomization
Listed(row) == {"deployment"} \cup row.shape

\* Variant: a claim is listed and its manifest not rendered.
RenderedWithoutClaim(row) == {"kustomization", "overlay"} \cup (Listed(row) \ {"pvc"})

Rendered(row) == {"kustomization", "overlay"} \cup Listed(row)

\* RenderManifests.  The overlay selects containers by the name of their image,
\* and gives them the name and the tag of the same image.
Manifest(row, file) ==
  CASE file \in {"deployment", "overlay"} -> row.image
    [] file = "kustomization"             -> <<Listed(row)>>
    [] OTHER                             -> <<{file}>>

Contents ==
  [f \in Files |-> {Absent} \cup
     CASE f \in {"deployment", "overlay"} -> Images
       [] f = "kustomization"             -> {<<l>> : l \in SUBSET BaseFiles}
       [] OTHER                           -> {<<{f}>>}]

Exists(file) == repo[file] # Absent

-----------------------------------------------------------------------------
(* Calls.                                                                  *)

IdleWriter ==
  [pc |-> "idle", row |-> Absent, todo |-> {}, file |-> NoFile, seen |-> Absent,
   attempt |-> 0, found |-> {}]

GitInit ==
  /\ project \in ProjectRows /\ project.image = FirstImage
  \* Nothing committed yet, or a commit long ago.
  /\ \/ repo = [f \in Files |-> Absent]
     \/ repo = [f \in Files |->
                  IF f \in Rendered(project) THEN Manifest(project, f) ELSE Absent]
  /\ writer = [w \in Writers |-> IdleWriter]
  /\ disturbances = 0 /\ accidents = {}

Busy(w) == writer[w].pc \notin {"idle", "done", "failed"}
Quiet == \A w \in Writers : ~Busy(w)
Deleting(w) == writer[w].pc \in {"list", "folder", "delete"}

Happen(kinds) == accidents' = accidents \cup kinds
\* A request that goes wrong.
Fault == disturbances < MaxDisturbances /\ disturbances' = disturbances + 1

\* Two calls that write the project's image, of different names.
Renamed(image) ==
  IF \E w \in Writers : Busy(w) /\ writer[w].row # Absent
                         /\ writer[w].row.image[1] # image[1]
  THEN {"renamed"} ELSE {}
Raced ==
  IF \E w \in Writers : Deleting(w) THEN {"raced"} ELSE {}

\* CommitProjectManifests with the row as it was read.
StartCommit(w) ==
  /\ writer[w].pc = "idle"
  /\ writer' = [writer EXCEPT ![w].pc = "put", ![w].row = project,
                              ![w].todo = Rendered(project)]
  /\ Happen(Raced \cup Renamed(project.image))
  /\ UNCHANGED <<repo, project, disturbances>>

\* HandleGitHubWebhook and reconcileDeployment store the image, then call
\* UpdateImageTag.
StartTag(w) ==
  /\ writer[w].pc = "idle"
  /\ \E image \in Images :
       /\ project' = [project EXCEPT !.image = image]
       /\ writer' = [writer EXCEPT ![w].pc = "tag", ![w].row = project']
       /\ Happen(Raced \cup Renamed(image))
  /\ UNCHANGED <<repo, disturbances>>

\* CommitDependencyManifests of an application that has the project's name.
StartDependency(w) ==
  /\ writer[w].pc = "idle"
  /\ writer' = [writer EXCEPT ![w].pc = "put", ![w].todo = DependencyFiles]
  /\ Happen(Raced)
  /\ UNCHANGED <<repo, project, disturbances>>

StartDelete(w) ==
  /\ writer[w].pc = "idle"
  /\ writer' = [writer EXCEPT ![w].pc = "list"]
  /\ Happen(IF Quiet THEN {} ELSE {"raced"})
  /\ UNCHANGED <<repo, project, disturbances>>

\* UpdateProject: the row changes, the repository does not.
EditProject ==
  /\ disturbances < MaxDisturbances /\ disturbances' = disturbances + 1
  /\ \E shape \in Shapes : project' = [project EXCEPT !.shape = shape]
  /\ UNCHANGED <<repo, writer, accidents>>

End(w, pc) == writer' = [writer EXCEPT ![w] = [IdleWriter EXCEPT !.pc = pc]]
Fail(w) == End(w, "failed") /\ Happen({"failed"})

-----------------------------------------------------------------------------
(* putFile.                                                                *)

\* The SHA of the file.  Without any answer the file is taken for absent.
PutRead(w) ==
  /\ writer[w].pc = "put"
  /\ \E f \in IF writer[w].file = NoFile THEN writer[w].todo ELSE {writer[w].file} :
       \/ /\ \/ UNCHANGED disturbances /\ writer' = [writer EXCEPT
                   ![w].pc = "write", ![w].file = f, ![w].seen = repo[f]]
             \/ Fault /\ writer' = [writer EXCEPT
                   ![w].pc = "write", ![w].file = f, ![w].seen = Absent]
          /\ UNCHANGED accidents
       \/ Fault /\ Fail(w)
  /\ UNCHANGED <<repo, project>>

PutContent(w, file) ==
  repo' = [repo EXCEPT ![file] = Manifest(writer[w].row, file)]

Stale(w, file) ==
  IF file = "overlay" /\ writer[w].row.image # project.image THEN {"stale"} ELSE {}

\* Variant: one retry more.
RetryOnceMore(w) ==
  IF writer[w].attempt <= MaxRetries
  THEN /\ writer' = [writer EXCEPT ![w].pc = "put", ![w].attempt = @ + 1]
       /\ UNCHANGED accidents
  ELSE Fail(w)

\* A conflict, until the retries are used up.
Retry(w) ==
  IF writer[w].attempt < MaxRetries
  THEN /\ writer' = [writer EXCEPT ![w].pc = "put", ![w].attempt = @ + 1]
       /\ UNCHANGED accidents
  ELSE Fail(w)

\* GitHub answers a write over another content with 409, which is retried,
\* and a creation over a file with 422, which is not.  409 is also the answer
\* when the branch has moved.
PutWrite(w) ==
  LET f == writer[w].file
      rest == writer[w].todo \ {f} IN
  /\ writer[w].pc = "write"
  /\ \/ /\ writer[w].seen = repo[f] /\ PutContent(w, f)
        /\ IF rest = {} THEN End(w, "done")
           ELSE writer' = [writer EXCEPT ![w].pc = "put", ![w].todo = rest,
                  ![w].file = NoFile, ![w].seen = Absent, ![w].attempt = 0]
        /\ Happen(Stale(w, f)) /\ UNCHANGED disturbances
     \/ /\ writer[w].seen # repo[f] /\ UNCHANGED <<repo, disturbances>>
        /\ IF writer[w].seen = Absent THEN Fail(w) ELSE Retry(w)
     \/ Fault /\ Retry(w) /\ UNCHANGED repo
     \/ Fault /\ Fail(w) /\ (UNCHANGED repo \/ (writer[w].seen = repo[f] /\ PutContent(w, f)))
  /\ UNCHANGED project

-----------------------------------------------------------------------------
(* UpdateImageTag.                                                         *)

\* Variant: only the tags are compared.
TagReadByTag(w) ==
  /\ writer[w].pc = "tag"
  /\ IF ~Exists("overlay")
     THEN writer' = [writer EXCEPT ![w].pc = "put", ![w].todo = Rendered(writer[w].row)]
     ELSE IF repo["overlay"][2] = writer[w].row.image[2] THEN End(w, "done")
     ELSE writer' = [writer EXCEPT ![w].seen = repo["overlay"], ![w].pc = "retag"]
  /\ UNCHANGED <<repo, project, disturbances, accidents>>

TagRead(w) ==
  /\ writer[w].pc = "tag"
  /\ \/ /\ UNCHANGED <<disturbances, accidents>>
        /\ \/ ~Exists("overlay") /\ writer' = [writer EXCEPT ![w].pc = "put",
                ![w].todo = Rendered(writer[w].row)]
           \/ repo["overlay"] = writer[w].row.image /\ End(w, "done")
           \/ /\ repo["overlay"] \notin {Absent, writer[w].row.image}
              /\ writer' = [writer EXCEPT ![w].seen = repo["overlay"], ![w].pc = "retag"]
     \/ Fault /\ Fail(w)
  /\ UNCHANGED <<repo, project>>

\* One attempt, under the SHA that was read.
TagWrite(w) ==
  /\ writer[w].pc = "retag"
  /\ \/ /\ writer[w].seen = repo["overlay"] /\ PutContent(w, "overlay")
        /\ End(w, "done")
        /\ Happen(Stale(w, "overlay") \cup
             IF writer[w].seen[1] # writer[w].row.image[1] THEN {"renamed"} ELSE {})
        /\ UNCHANGED disturbances
     \/ writer[w].seen # repo["overlay"] /\ Fail(w) /\ UNCHANGED <<repo, disturbances>>
     \/ /\ Fault /\ Fail(w)
        /\ UNCHANGED repo \/ (writer[w].seen = repo["overlay"] /\ PutContent(w, "overlay"))
  /\ UNCHANGED project

-----------------------------------------------------------------------------
(* DeleteProjectManifests.                                                 *)

\* An error of the listing ends the deletion as if there were nothing.
Skip(w) == Fault /\ End(w, "done") /\ Happen({"skipped"})

ListRoot(w) ==
  /\ writer[w].pc = "list"
  /\ \/ /\ UNCHANGED <<disturbances, accidents>>
        /\ LET dirs == {d \in Folders : \E f \in Folder[d] : Exists(f)} IN
           IF dirs = {} THEN End(w, "done")
           ELSE writer' = [writer EXCEPT ![w].todo = dirs, ![w].pc = "folder"]
     \/ Skip(w)
  /\ UNCHANGED <<repo, project>>

ListFolder(w) ==
  /\ writer[w].pc = "folder"
  /\ \/ /\ UNCHANGED <<disturbances, accidents>>
        /\ \E d \in writer[w].todo :
             LET found == writer[w].found \cup {<<f, repo[f]>> : f \in {x \in Folder[d] : Exists(x)}}
                 rest == writer[w].todo \ {d} IN
             IF rest = {} /\ found = {} THEN End(w, "done")
             ELSE writer' = [writer EXCEPT ![w].todo = rest, ![w].found = found,
                    ![w].pc = IF rest = {} THEN "delete" ELSE "folder"]
     \/ Skip(w)
  /\ UNCHANGED <<repo, project>>

\* File by file, in the order of the listing; the first error ends it.
DeleteFile(w) ==
  /\ writer[w].pc = "delete"
  /\ \E x \in writer[w].found :
       LET rest == writer[w].found \ {x} IN
       \/ /\ repo[x[1]] = x[2] /\ repo' = [repo EXCEPT ![x[1]] = Absent]
          /\ IF rest = {} THEN End(w, "done")
             ELSE writer' = [writer EXCEPT ![w].found = rest]
          /\ UNCHANGED <<disturbances, accidents>>
       \/ repo[x[1]] # x[2] /\ Fail(w) /\ UNCHANGED <<repo, disturbances>>
       \/ /\ Fault /\ Fail(w)
          /\ UNCHANGED repo \/ (repo[x[1]] = x[2] /\ repo' = [repo EXCEPT ![x[1]] = Absent])
  /\ UNCHANGED project

Step(w) ==
  PutRead(w) \/ PutWrite(w) \/ TagRead(w) \/ TagWrite(w) \/ ListRoot(w) \/ ListFolder(w)
    \/ DeleteFile(w)

Start(w) == StartCommit(w) \/ StartTag(w) \/ StartDependency(w) \/ StartDelete(w)

GitNext == EditProject \/ \E w \in Writers : Start(w) \/ Step(w)

GitSpec == GitInit /\ [][GitNext]_gitVars
-----------------------------------------------------------------------------
(* Properties.                                                             *)

Pcs == {"idle", "put", "write", "tag", "retag", "list", "folder", "delete", "done", "failed"}

GitTypeOK ==
  /\ \A f \in Files : repo[f] \in Contents[f]
  /\ project \in ProjectRows
  /\ \A w \in Writers :
       /\ writer[w].pc \in Pcs /\ writer[w].file \in Files \cup {NoFile}
       /\ writer[w].todo \in (SUBSET Files) \cup (SUBSET Folders)
       /\ writer[w].attempt \in 0..MaxRetries
       /\ writer[w].pc = "write" => writer[w].file \in writer[w].todo
  /\ accidents \subseteq Accidents

\* Commits, updates of the tag and deletions may interleave, each with the row
\* it has read, and a commit writes its files in any order: when no call has
\* failed and none has written during a deletion, and all have ended, every
\* manifest that the kustomization of the base or of the dependency names
\* exists, so that Argo CD can build the directory.
DirectoryBuilds ==
  Quiet /\ Spared({"failed", "raced", "skipped"}) =>
    /\ Exists("kustomization") =>
         Exists("overlay") /\ \A f \in repo["kustomization"][1] : Exists(f)
    /\ Exists("overlay") => Exists("kustomization")
    /\ Exists("dependency-kustomization") <=> Exists("application") /\ Exists("values")

\* What Argo CD deploys: kustomize replaces the image of a container only when
\* the overlay names it, else the image written in the base stays.
EffectiveImage ==
  IF repo["overlay"][1] = repo["deployment"][1] THEN repo["overlay"]
  ELSE repo["deployment"]

\* When the calls have ended, the image that the directory deploys is that of
\* the project's row, unless a call failed, wrote during a deletion, was
\* overtaken by a later one, or changed the name of the image in the overlay
\* alone: a commit after a new name brings base and overlay together again.
DeploysTheProjectsImage ==
  Quiet /\ accidents = {} /\ Exists("overlay") => EffectiveImage = project.image

=============================================================================
