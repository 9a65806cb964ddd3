---------------------------- MODULE Credentials ----------------------------
(***************************************************************************)
(* One credential: its row, the roles of users on it (user_credentials),   *)
(* the projects that refer to it, and the client that ClientRegistry keeps *)
(* for it.  Handlers check a role, then read and write; other handlers run *)
(* between any two of their steps.                                         *)
(***************************************************************************)
EXTENDS Integers, FiniteSets

CONSTANTS
  Users,
  CredCalls,      \* calls of the API at one time
  MaxVersion,     \* bound on the contents that the row has had
  MaxProjects     \* bound on the projects that refer to the credential

ASSUME CredentialAssumption == MaxVersion \in Nat \ {0} /\ MaxProjects \in Nat

VARIABLES
  credRow,    \* the content of the row, a number, 0 when there is no row
  lastVersion,\* the last content that anybody has written
  role,       \* role[u]: "owner", "user" or "none"
  references, \* how many projects refer to the credential
  client,     \* the content that the client in the registry was built from, or 0
  credCall,   \* credCall[c]: where the call is, who makes it, what it has read
  overlapped, \* history: another call was under way during a deletion
  late        \* history: the row was written while a call was building a client

credVars == <<credRow, lastVersion, role, references, client, credCall, overlapped, late>>

IdleCall == [pc |-> "idle", kind |-> "none", by |-> "none", to |-> "none",
             as |-> "none", seen |-> 0]

CredentialInit ==
  /\ credRow = 0 /\ lastVersion = 0 /\ references = 0 /\ client = 0
  /\ role = [u \in Users |-> "none"]
  /\ credCall = [c \in CredCalls |-> IdleCall]
  /\ overlapped = FALSE /\ late = FALSE

InCall(c) == credCall[c].pc # "idle"
To(c, pc) == credCall' = [credCall EXCEPT ![c].pc = pc]
EndCall(c) == credCall' = [credCall EXCEPT ![c] = IdleCall]

\* RequireAccess, CredentialAccess.
HasAccess(u, ownerOnly) == IF ownerOnly THEN role[u] = "owner" ELSE role[u] # "none"

\* CreateCloudflare, CreateGitHub, CreateBasaltPass: the row and the role of
\* its owner in one transaction.
CreateCredential(u) ==
  /\ lastVersion = 0
  /\ credRow' = 1 /\ lastVersion' = 1
  /\ role' = [role EXCEPT ![u] = "owner"]
  /\ UNCHANGED <<references, client, credCall, overlapped, late>>

\* A handler starts: the role is checked, and then the first thing it does.
FirstStep == [share |-> "share", revoke |-> "revoke", delete |-> "count", update |-> "read",
              health |-> "client", use |-> "refer"]

BeginCall(c, kind, u, v, r) ==
  /\ ~InCall(c) /\ HasAccess(u, kind \notin {"health", "use"})
  /\ kind \in {"share", "revoke"} \/ v = u
  /\ kind = "share" \/ r = "user"
  /\ credCall' = [credCall EXCEPT ![c] =
                    [IdleCall EXCEPT !.pc = FirstStep[kind], !.kind = kind, !.by = u,
                                     !.to = v, !.as = r]]
  /\ overlapped' = (overlapped \/
       \E d \in CredCalls : InCall(d) /\ "delete" \in {kind, credCall[d].kind})
  /\ UNCHANGED <<credRow, lastVersion, role, references, client, late>>

\* Share: inserts the role or changes it, whether the credential is there or not.
Share(c) ==
  /\ credCall[c].pc = "share"
  /\ role' = [role EXCEPT ![credCall[c].to] = credCall[c].as]
  /\ EndCall(c)
  /\ UNCHANGED <<credRow, lastVersion, references, client, overlapped, late>>

Revoke(c) ==
  /\ credCall[c].pc = "revoke"
  /\ role' = [role EXCEPT ![credCall[c].to] = "none"]
  /\ EndCall(c)
  /\ UNCHANGED <<credRow, lastVersion, references, client, overlapped, late>>

\* Variant: projects are not counted.
CountNothing(c) ==
  /\ credCall[c].pc = "count" /\ To(c, "remove")
  /\ UNCHANGED <<credRow, lastVersion, role, references, client, overlapped, late>>

\* Delete: refuses while a project refers to the credential.
CountProjects(c) ==
  /\ credCall[c].pc = "count"
  /\ IF references > 0 THEN EndCall(c) ELSE To(c, "remove")
  /\ UNCHANGED <<credRow, lastVersion, role, references, client, overlapped, late>>

ClientUnderWay == \E c \in CredCalls : credCall[c].pc = "store"

RemoveCredential(c) ==
  /\ credCall[c].pc = "remove"
  /\ credRow' = 0 /\ role' = [u \in Users |-> "none"]
  /\ To(c, "invalidate")
  /\ late' = (late \/ ClientUnderWay)
  /\ UNCHANGED <<lastVersion, references, client, overlapped>>

\* UpdateCloudflare, UpdateGitHub, UpdateBasaltPass: the row is read ...
ReadForUpdate(c) ==
  /\ credCall[c].pc = "read"
  /\ IF credRow = 0 THEN EndCall(c)
     ELSE credCall' = [credCall EXCEPT ![c].pc = "save", ![c].seen = credRow]
  /\ UNCHANGED <<credRow, lastVersion, role, references, client, overlapped, late>>

\* ... and saved as a whole, which inserts it again if it has been deleted.
SaveCredential(c) ==
  /\ credCall[c].pc = "save" /\ lastVersion < MaxVersion
  /\ credRow' = lastVersion + 1 /\ lastVersion' = lastVersion + 1
  /\ credCall' = [credCall EXCEPT ![c].pc = "invalidate", ![c].seen = 0]
  /\ late' = (late \/ ClientUnderWay)
  /\ UNCHANGED <<role, references, client, overlapped>>

\* Variant: only the client of a credential that is gone is dropped.
InvalidateDeleted(c) ==
  /\ credCall[c].pc = "invalidate"
  /\ client' = IF credRow = 0 THEN 0 ELSE client
  /\ EndCall(c)
  /\ UNCHANGED <<credRow, lastVersion, role, references, overlapped, late>>

Invalidate(c) ==
  /\ credCall[c].pc = "invalidate"
  /\ client' = 0
  /\ EndCall(c)
  /\ UNCHANGED <<credRow, lastVersion, role, references, overlapped, late>>

\* CreateProject, between the check of the credentials and the client: the row
\* of the project.
InsertReference(c) ==
  /\ credCall[c].pc = "refer" /\ references < MaxProjects
  /\ references' = references + 1
  /\ To(c, "client")
  /\ UNCHANGED <<credRow, lastVersion, role, client, overlapped, late>>

\* DeleteProject asks for the client too, whatever the role of its caller.
BeginRelease(c) ==
  /\ ~InCall(c) /\ references > 0
  /\ ~\E d \in CredCalls : credCall[d].kind = "release"
  /\ credCall' = [credCall EXCEPT ![c] = [IdleCall EXCEPT !.pc = "client", !.kind = "release"]]
  /\ overlapped' = (overlapped \/ \E d \in CredCalls : credCall[d].kind = "delete")
  /\ UNCHANGED <<credRow, lastVersion, role, references, client, late>>

\* What follows the client: nothing, or the deletion of the project's row.
AfterClient(c) == IF credCall[c].kind = "release" THEN To(c, "drop") ELSE EndCall(c)

DropReference(c) ==
  /\ credCall[c].pc = "drop"
  /\ references' = references - 1
  /\ EndCall(c)
  /\ UNCHANGED <<credRow, lastVersion, role, client, overlapped, late>>

\* GetClientForInstance: the client that is there, or else the row.
GetClient(c) ==
  /\ credCall[c].pc = "client"
  /\ IF client # 0 \/ credRow = 0 THEN AfterClient(c)
     ELSE credCall' = [credCall EXCEPT ![c].pc = "store", ![c].seen = credRow]
  /\ UNCHANGED <<credRow, lastVersion, role, references, client, overlapped, late>>

StoreClient(c) ==
  /\ credCall[c].pc = "store"
  /\ client' = credCall[c].seen
  /\ IF credCall[c].kind = "release"
     THEN credCall' = [credCall EXCEPT ![c].pc = "drop", ![c].seen = 0] ELSE EndCall(c)
  /\ UNCHANGED <<credRow, lastVersion, role, references, overlapped, late>>

CredentialNext ==
  \/ \E u \in Users : CreateCredential(u)
  \/ \E c \in CredCalls :
       \/ \E kind \in DOMAIN FirstStep, u, v \in Users, r \in {"owner", "user"} :
            BeginCall(c, kind, u, v, r)
       \/ Share(c) \/ Revoke(c) \/ CountProjects(c) \/ RemoveCredential(c)
       \/ ReadForUpdate(c) \/ SaveCredential(c) \/ Invalidate(c)
       \/ InsertReference(c) \/ BeginRelease(c) \/ DropReference(c)
       \/ GetClient(c) \/ StoreClient(c)

CredentialSpec == CredentialInit /\ [][CredentialNext]_credVars
-----------------------------------------------------------------------------
CallSteps == {"idle", "share", "revoke", "count", "remove", "read", "save", "invalidate",
              "refer", "client", "store", "drop"}

CredentialTypeOK ==
  /\ lastVersion \in 0..MaxVersion /\ credRow \in 0..lastVersion /\ client \in 0..lastVersion
  /\ role \in [Users -> {"none", "user", "owner"}]
  /\ references \in 0..MaxProjects
  /\ credCall \in [CredCalls ->
       [pc : CallSteps, kind : DOMAIN FirstStep \cup {"none", "release"},
        by : Users \cup {"none"}, to : Users \cup {"none"}, as : {"none", "user", "owner"},
        seen : 0..lastVersion]]
  /\ overlapped \in BOOLEAN /\ late \in BOOLEAN

\* A credential that has been deleted leaves nothing behind: no role of a user
\* and no project that refers to it, and no call brings it back, unless a call
\* was under way at the same time as the deletion.
DeletedLeavesNothing ==
  lastVersion > 0 /\ credRow = 0 /\ ~overlapped =>
    references = 0 /\ \A u \in Users : role[u] = "none"

\* The client that the registry hands out was built from the row as it is now:
\* except between the write of a row and the invalidation that follows, and
\* when a row was written after a call had read it to build a client.
ClientIsCurrent ==
  client # 0 /\ ~late /\ (\A c \in CredCalls : credCall[c].pc # "invalidate") =>
    client = credRow
=============================================================================
