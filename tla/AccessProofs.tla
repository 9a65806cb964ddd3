---------------------------- MODULE AccessProofs ----------------------------
(***************************************************************************)
(* Theorems about Credentials, RequestAuth and ManagedBasaltPass, for      *)
(* every value of their constants.                                         *)
(***************************************************************************)
EXTENDS MCAccess, TLAPS

Kinds == {"share", "revoke", "delete", "update", "health", "use"}

LEMMA FirstSteps ==
  /\ DOMAIN FirstStep = Kinds
  /\ FirstStep["share"] = "share" /\ FirstStep["revoke"] = "revoke"
  /\ FirstStep["delete"] = "count" /\ FirstStep["update"] = "read"
  /\ FirstStep["health"] = "client" /\ FirstStep["use"] = "refer"
  BY DEF FirstStep, Kinds

Records(n) ==
  [pc : CallSteps, kind : Kinds \cup {"none", "release"},
   by : Users \cup {"none"}, to : Users \cup {"none"}, as : {"none", "user", "owner"},
   seen : 0..n]

\* The type invariant, call by call.
Typed ==
  /\ lastVersion \in 0..MaxVersion /\ credRow \in 0..lastVersion /\ client \in 0..lastVersion
  /\ role \in [Users -> {"none", "user", "owner"}]
  /\ references \in 0..MaxProjects
  /\ credCall \in [CredCalls -> Records(lastVersion)]
  /\ overlapped \in BOOLEAN /\ late \in BOOLEAN

LEMMA TypedIsTypeOK == CredentialTypeOK <=> Typed
  BY FirstSteps, Zenon DEF CredentialTypeOK, Typed, Records

LEMMA IdleTyped == \A n \in Nat : IdleCall \in Records(n)
  BY DEF IdleCall, Records, CallSteps

\* A call that becomes another record of its type keeps the type.
LEMMA CallTyped ==
  ASSUME NEW m \in Nat, NEW n \in Nat, m <= n, credCall \in [CredCalls -> Records(m)],
         NEW c \in CredCalls, NEW record \in Records(n),
         credCall' = [credCall EXCEPT ![c] = record]
  PROVE  credCall' \in [CredCalls -> Records(n)]
  <1>1. \A d \in CredCalls : credCall[d] \in Records(n)
    BY DEF Records
  <1> QED
    BY <1>1

\* What a call of a kind goes through.
KindOfStep ==
  \A c \in CredCalls :
    /\ credCall[c].pc = "idle" => credCall[c].kind = "none"
    /\ credCall[c].pc \in {"count", "remove"} => credCall[c].kind = "delete"
    /\ credCall[c].pc \in {"read", "save"} => credCall[c].kind = "update"
    /\ credCall[c].pc = "invalidate" => credCall[c].kind \in {"delete", "update"}
    /\ credCall[c].pc = "drop" => credCall[c].kind = "release"
    /\ credCall[c].pc \in {"share", "revoke", "refer"} => credCall[c].kind \notin {"release", "delete"}
    /\ credCall[c].pc \in {"client", "store"} => credCall[c].kind # "delete"

\* One call at a time deletes a project that refers to the credential, and that
\* project is counted until it does.
OneRelease ==
  \A c \in CredCalls : credCall[c].kind = "release" =>
    references > 0 /\ \A d \in CredCalls : credCall[d].kind = "release" => d = c

\* Before the credential is created there is nothing of it.
NothingBefore ==
  lastVersion = 0 =>
    /\ references = 0 /\ \A u \in Users : role[u] = "none"
    /\ \A c \in CredCalls : credCall[c].pc = "idle"

\* A call that is about to store a client has read the row as it is.
StoresCurrent ==
  ~late => \A c \in CredCalls : credCall[c].pc = "store" => credCall[c].seen = credRow

\* A deletion is alone, has counted no project when it removes the row, and
\* after that nothing is left and nobody can begin.
DeletesAlone ==
  ~overlapped =>
    /\ \A c, d \in CredCalls :
         credCall[c].kind = "delete" /\ credCall[d].pc # "idle" => d = c
    /\ \A c \in CredCalls : credCall[c].pc = "remove" => references = 0
    /\ lastVersion > 0 /\ credRow = 0 =>
         /\ references = 0 /\ \A u \in Users : role[u] = "none"
         /\ \A c \in CredCalls : credCall[c].pc = "idle"
              \/ (credCall[c].kind = "delete" /\ credCall[c].pc = "invalidate")

CredentialInv ==
  /\ Typed /\ KindOfStep /\ OneRelease /\ NothingBefore
  /\ StoresCurrent /\ ClientIsCurrent /\ DeletesAlone

LEMMA CredentialInitInv == CredentialInit => CredentialInv
  <1> SUFFICES ASSUME CredentialInit PROVE CredentialInv
    OBVIOUS
  <1> USE CredentialAssumption DEF CredentialInit
  <1>1. Typed
    <2>1. IdleCall \in Records(0)
      BY IdleTyped
    <2>2. credCall \in [CredCalls -> Records(lastVersion)]
      BY <2>1
    <2>3. role \in [Users -> {"none", "user", "owner"}]
      OBVIOUS
    <2>4. lastVersion \in 0..MaxVersion /\ references \in 0..MaxProjects
      OBVIOUS
    <2>5. credRow \in 0..lastVersion /\ client \in 0..lastVersion
      OBVIOUS
    <2> QED
      BY <2>2, <2>3, <2>4, <2>5 DEF Typed
  <1>2. KindOfStep /\ OneRelease /\ NothingBefore
    BY DEF KindOfStep, OneRelease, NothingBefore, IdleCall
  <1>3. StoresCurrent /\ ClientIsCurrent /\ DeletesAlone
    BY DEF StoresCurrent, ClientIsCurrent, DeletesAlone, IdleCall
  <1> QED
    BY <1>1, <1>2, <1>3 DEF CredentialInv

LEMMA CredentialNextInv == CredentialInv /\ [CredentialNext]_credVars => CredentialInv'
  <1> SUFFICES ASSUME CredentialInv, [CredentialNext]_credVars PROVE CredentialInv'
    OBVIOUS
  <1> USE CredentialAssumption, FirstSteps
      DEF CredentialInv, Typed, Records, CallSteps, Kinds, IdleCall, InCall, To, EndCall
  <1>1. ASSUME NEW u \in Users, CreateCredential(u) PROVE CredentialInv'
    <2> USE <1>1 DEF CreateCredential
    <2>1. Typed' /\ KindOfStep' /\ OneRelease' /\ NothingBefore'
      BY DEF KindOfStep, OneRelease, NothingBefore
    <2>2. StoresCurrent' /\ ClientIsCurrent'
      BY DEF NothingBefore, StoresCurrent, ClientIsCurrent
    <2>3. DeletesAlone'
      BY DEF NothingBefore, DeletesAlone
    <2> QED
      BY <2>1, <2>2, <2>3
  <1>2. ASSUME NEW c \in CredCalls, NEW kind \in DOMAIN FirstStep, NEW u \in Users,
               NEW v \in Users, NEW r \in {"owner", "user"}, BeginCall(c, kind, u, v, r)
        PROVE  CredentialInv'
    <2> USE <1>2 DEF BeginCall, HasAccess
    <2>1. /\ credCall'[c] = [pc |-> FirstStep[kind], kind |-> kind, by |-> u, to |-> v,
                             as |-> r, seen |-> 0]
          /\ \A d \in CredCalls : d # c => credCall'[d] = credCall[d]
          /\ credCall[c].pc = "idle" /\ role[u] # "none"
      OBVIOUS
    <2>2. Typed'
      <3>1. FirstStep[kind] \in CallSteps /\ kind \in Kinds
        OBVIOUS
      <3>2. credCall'[c] \in Records(lastVersion)
        BY <2>1, <3>1 DEF Records, Typed
      <3>3. credCall' = [credCall EXCEPT ![c] = credCall'[c]]
        OBVIOUS
      <3>4. credCall' \in [CredCalls -> Records(lastVersion)]
        BY <3>2, <3>3, CallTyped DEF Typed
      <3> QED
        BY <3>4 DEF Typed
    <2>3. KindOfStep' /\ OneRelease'
      BY <2>1 DEF KindOfStep, OneRelease
    <2>4. NothingBefore' /\ StoresCurrent' /\ ClientIsCurrent'
      BY <2>1 DEF NothingBefore, StoresCurrent, ClientIsCurrent
    <2>5. DeletesAlone'
      <3> SUFFICES ASSUME ~overlapped' PROVE DeletesAlone'
        BY DEF DeletesAlone
      <3>1. ~overlapped /\ \A d \in CredCalls : credCall[d].pc # "idle" =>
              kind # "delete" /\ credCall[d].kind # "delete"
        OBVIOUS
      <3>2. \A d \in CredCalls : credCall[d].kind = "delete" => credCall[d].pc # "idle"
        BY DEF KindOfStep
      <3>3. \A d, e \in CredCalls :
              credCall'[d].kind = "delete" /\ credCall'[e].pc # "idle" => d = e
        BY <2>1, <3>1, <3>2
      <3>4. FirstStep[kind] # "remove"
        BY DEF Kinds
      <3>5. ~(lastVersion > 0 /\ credRow = 0)
        BY <2>1, <3>1 DEF DeletesAlone
      <3> QED
        BY <2>1, <3>1, <3>3, <3>4, <3>5 DEF DeletesAlone
    <2> QED
      BY <2>2, <2>3, <2>4, <2>5
  <1>3. ASSUME NEW c \in CredCalls, Share(c) \/ Revoke(c) PROVE CredentialInv'
    <2> USE <1>3 DEF Share, Revoke
    <2>1. /\ credCall' = [credCall EXCEPT ![c] = IdleCall]
          /\ \E u \in Users \cup {"none"}, r \in {"none", "user", "owner"} :
               role' = [role EXCEPT ![u] = r]
          /\ credCall[c].pc \in {"share", "revoke"}
          /\ UNCHANGED <<credRow, lastVersion, references, client, overlapped, late>>
      OBVIOUS
    <2>2. Typed'
      <3>1. credCall' \in [CredCalls -> Records(lastVersion)]
        BY <2>1, IdleTyped, CallTyped DEF Typed
      <3>2. role' \in [Users -> {"none", "user", "owner"}]
        BY <2>1
      <3> QED
        BY <2>1, <3>1, <3>2 DEF Typed
    <2>5. KindOfStep' /\ OneRelease'
      BY <2>1 DEF KindOfStep, OneRelease
    <2>3. NothingBefore' /\ StoresCurrent' /\ ClientIsCurrent'
      BY <2>1 DEF NothingBefore, StoresCurrent, ClientIsCurrent
    <2>4. DeletesAlone'
      BY <2>1 DEF DeletesAlone, KindOfStep
    <2> QED
      BY <2>2, <2>3, <2>4, <2>5
  <1>4. ASSUME NEW c \in CredCalls, CountProjects(c) PROVE CredentialInv'
    <2> USE <1>4 DEF CountProjects
    <2>1. Typed' /\ KindOfStep' /\ OneRelease'
      BY DEF KindOfStep, OneRelease
    <2>2. NothingBefore' /\ StoresCurrent' /\ ClientIsCurrent'
      BY DEF NothingBefore, StoresCurrent, ClientIsCurrent
    <2>3. DeletesAlone'
      BY DEF DeletesAlone, KindOfStep
    <2> QED
      BY <2>1, <2>2, <2>3
  <1>5. ASSUME NEW c \in CredCalls, RemoveCredential(c) PROVE CredentialInv'
    <2> USE <1>5 DEF RemoveCredential, ClientUnderWay
    <2>1. Typed' /\ KindOfStep' /\ OneRelease'
      BY DEF KindOfStep, OneRelease
    <2>2. NothingBefore' /\ StoresCurrent' /\ ClientIsCurrent'
      BY DEF NothingBefore, StoresCurrent, ClientIsCurrent
    <2>3. DeletesAlone'
      <3> SUFFICES ASSUME ~overlapped PROVE DeletesAlone'
        BY DEF DeletesAlone
      <3>1. /\ credCall'[c].pc = "invalidate" /\ credCall'[c].kind = "delete"
            /\ \A d \in CredCalls : d # c => credCall'[d] = credCall[d]
        BY DEF KindOfStep
      <3>2. references = 0 /\ \A d \in CredCalls : d # c => credCall[d].pc = "idle"
        BY DEF DeletesAlone, KindOfStep
      <3>3. \A d \in CredCalls : d # c => credCall[d].kind # "delete"
        BY <3>2 DEF KindOfStep
      <3>4. \A d, e \in CredCalls :
              credCall'[d].kind = "delete" /\ credCall'[e].pc # "idle" => d = e
        BY <3>1, <3>2, <3>3
      <3>5. \A d \in CredCalls :
              /\ credCall'[d].pc # "remove"
              /\ credCall'[d].pc = "idle" \/
                   (credCall'[d].kind = "delete" /\ credCall'[d].pc = "invalidate")
        <4> SUFFICES ASSUME NEW d \in CredCalls
                     PROVE  /\ credCall'[d].pc # "remove"
                            /\ credCall'[d].pc = "idle" \/
                                 (credCall'[d].kind = "delete" /\ credCall'[d].pc = "invalidate")
          OBVIOUS
        <4>1. CASE d = c
          BY <3>1, <4>1
        <4>2. CASE d # c
          BY <3>1, <3>2, <4>2
        <4> QED
          BY <4>1, <4>2
      <3>6. references' = 0 /\ \A u \in Users : role'[u] = "none"
        BY <3>2
      <3> QED
        BY <3>4, <3>5, <3>6 DEF DeletesAlone
    <2> QED
      BY <2>1, <2>2, <2>3
  <1>6. ASSUME NEW c \in CredCalls, ReadForUpdate(c) PROVE CredentialInv'
    <2> USE <1>6 DEF ReadForUpdate
    <2>1. Typed'
      OBVIOUS
    <2>2. KindOfStep' /\ OneRelease'
      BY DEF KindOfStep, OneRelease
    <2>3. NothingBefore' /\ StoresCurrent' /\ ClientIsCurrent'
      BY DEF NothingBefore, StoresCurrent, ClientIsCurrent
    <2>4. DeletesAlone'
      BY DEF DeletesAlone, KindOfStep
    <2> QED
      BY <2>1, <2>2, <2>3, <2>4
  <1>7. ASSUME NEW c \in CredCalls, SaveCredential(c) PROVE CredentialInv'
    <2> USE <1>7 DEF SaveCredential, ClientUnderWay
    <2>1. /\ credCall'[c] = [credCall[c] EXCEPT !.pc = "invalidate", !.seen = 0]
          /\ \A d \in CredCalls : d # c => credCall'[d] = credCall[d]
          /\ credCall' = [credCall EXCEPT ![c] = credCall'[c]]
      OBVIOUS
    <2>2. Typed'
      <3>2. lastVersion \in Nat /\ lastVersion' \in 0..MaxVersion /\ lastVersion <= lastVersion'
        OBVIOUS
      <3>1. credCall'[c] \in Records(lastVersion')
        <4>1. credCall[c] \in Records(lastVersion)
          BY DEF Typed
        <4> QED
          BY <2>1, <3>2, <4>1 DEF Records
      <3>3. credCall' \in [CredCalls -> Records(lastVersion')]
        BY <2>1, <3>1, <3>2, CallTyped DEF Typed
      <3>4. client' \in 0..lastVersion' /\ credRow' \in 0..lastVersion' /\ late' \in BOOLEAN
        OBVIOUS
      <3> QED
        BY <3>2, <3>3, <3>4 DEF Typed
    <2>4. KindOfStep' /\ OneRelease'
      BY <2>1 DEF KindOfStep, OneRelease
    <2>5. NothingBefore' /\ StoresCurrent' /\ ClientIsCurrent'
      <3>1. lastVersion' # 0
        OBVIOUS
      <3>2. ~late' => \A d \in CredCalls : credCall[d].pc # "store"
        OBVIOUS
      <3>3. \A d \in CredCalls : credCall[d].pc # "store" => credCall'[d].pc # "store"
        BY <2>1
      <3> QED
        BY <2>1, <3>1, <3>2, <3>3 DEF NothingBefore, StoresCurrent, ClientIsCurrent
    <2>3. DeletesAlone'
      BY DEF DeletesAlone, KindOfStep
    <2> QED
      BY <2>2, <2>3, <2>4, <2>5
  <1>8. ASSUME NEW c \in CredCalls, Invalidate(c) PROVE CredentialInv'
    <2> USE <1>8 DEF Invalidate
    <2>1. Typed' /\ KindOfStep' /\ OneRelease'
      BY DEF KindOfStep, OneRelease
    <2>2. NothingBefore' /\ StoresCurrent' /\ ClientIsCurrent'
      BY DEF NothingBefore, StoresCurrent, ClientIsCurrent
    <2>3. DeletesAlone'
      <3> SUFFICES ASSUME ~overlapped PROVE DeletesAlone'
        BY DEF DeletesAlone
      <3>1. /\ credCall'[c].pc = "idle" /\ credCall'[c].kind = "none"
            /\ \A d \in CredCalls : d # c => credCall'[d] = credCall[d]
        OBVIOUS
      <3>2. \A d, e \in CredCalls :
              credCall'[d].kind = "delete" /\ credCall'[e].pc # "idle" => d = e
        BY <3>1 DEF DeletesAlone
      <3>3. \A d \in CredCalls : credCall'[d].pc = "remove" => references = 0
        BY <3>1 DEF DeletesAlone
      <3>4. lastVersion > 0 /\ credRow = 0 =>
              /\ references = 0 /\ \A u \in Users : role[u] = "none"
              /\ \A d \in CredCalls : credCall'[d].pc = "idle"
                   \/ (credCall'[d].kind = "delete" /\ credCall'[d].pc = "invalidate")
        <4> SUFFICES ASSUME lastVersion > 0, credRow = 0, NEW d \in CredCalls
                     PROVE  credCall'[d].pc = "idle"
                              \/ (credCall'[d].kind = "delete" /\ credCall'[d].pc = "invalidate")
          BY DEF DeletesAlone
        <4>1. CASE d = c
          BY <3>1, <4>1
        <4>2. CASE d # c
          BY <3>1, <4>2 DEF DeletesAlone
        <4> QED
          BY <4>1, <4>2
      <3> QED
        BY <3>2, <3>3, <3>4 DEF DeletesAlone
    <2> QED
      BY <2>1, <2>2, <2>3
  <1>9. ASSUME NEW c \in CredCalls, InsertReference(c) PROVE CredentialInv'
    <2> USE <1>9 DEF InsertReference
    <2>4. /\ credCall'[c] = [credCall[c] EXCEPT !.pc = "client"]
          /\ \A d \in CredCalls : d # c => credCall'[d] = credCall[d]
      OBVIOUS
    <2>1. Typed' /\ KindOfStep' /\ OneRelease'
      <3>1. Typed'
        OBVIOUS
      <3>2. KindOfStep'
        BY <2>4 DEF KindOfStep
      <3>3. OneRelease'
        BY <2>4 DEF OneRelease, KindOfStep
      <3> QED
        BY <3>1, <3>2, <3>3
    <2>2. NothingBefore' /\ StoresCurrent' /\ ClientIsCurrent'
      BY DEF NothingBefore, StoresCurrent, ClientIsCurrent
    <2>3. DeletesAlone'
      BY DEF DeletesAlone, KindOfStep
    <2> QED
      BY <2>1, <2>2, <2>3
  <1>10. ASSUME NEW c \in CredCalls, BeginRelease(c) PROVE CredentialInv'
    <2> USE <1>10 DEF BeginRelease
    <2>4. /\ credCall'[c] = [IdleCall EXCEPT !.pc = "client", !.kind = "release"]
          /\ \A d \in CredCalls : d # c => credCall'[d] = credCall[d]
          /\ references > 0 /\ \A d \in CredCalls : credCall[d].kind # "release"
      OBVIOUS
    <2>1. Typed' /\ KindOfStep' /\ OneRelease'
      <3>1. Typed'
        <4>0. credCall'[c] = [pc |-> "client", kind |-> "release", by |-> "none",
                              to |-> "none", as |-> "none", seen |-> 0]
          BY <2>4
        <4>1. credCall'[c] \in Records(lastVersion)
          BY <4>0
        <4>2. credCall' = [credCall EXCEPT ![c] = credCall'[c]]
          OBVIOUS
        <4>3. credCall' \in [CredCalls -> Records(lastVersion)]
          BY <4>1, <4>2, CallTyped
        <4>4. overlapped' \in BOOLEAN
          OBVIOUS
        <4> QED
          BY <4>3, <4>4
      <3>2. KindOfStep'
        BY <2>4 DEF KindOfStep
      <3>3. OneRelease'
        BY <2>4 DEF OneRelease
      <3> QED
        BY <3>1, <3>2, <3>3
    <2>2. NothingBefore' /\ StoresCurrent' /\ ClientIsCurrent'
      BY DEF NothingBefore, StoresCurrent, ClientIsCurrent
    <2>3. DeletesAlone'
      <3> SUFFICES ASSUME ~overlapped' PROVE DeletesAlone'
        BY DEF DeletesAlone
      <3>1. ~overlapped /\ \A d \in CredCalls : credCall[d].kind # "delete"
        OBVIOUS
      <3>2. \A d \in CredCalls : credCall'[d].kind # "delete"
        BY <2>4, <3>1
      <3>3. \A d \in CredCalls : credCall'[d].pc = "remove" => references = 0
        BY <2>4, <3>1 DEF DeletesAlone
      <3>4. ~(lastVersion > 0 /\ credRow = 0)
        BY <2>4, <3>1 DEF DeletesAlone
      <3> QED
        BY <3>2, <3>3, <3>4 DEF DeletesAlone
    <2> QED
      BY <2>1, <2>2, <2>3
  <1>11. ASSUME NEW c \in CredCalls, DropReference(c) PROVE CredentialInv'
    <2> USE <1>11 DEF DropReference
    <2>1. Typed' /\ KindOfStep' /\ OneRelease'
      BY DEF KindOfStep, OneRelease
    <2>2. NothingBefore' /\ StoresCurrent' /\ ClientIsCurrent'
      BY DEF NothingBefore, StoresCurrent, ClientIsCurrent
    <2>3. DeletesAlone'
      BY DEF DeletesAlone, KindOfStep
    <2> QED
      BY <2>1, <2>2, <2>3
  <1>12. ASSUME NEW c \in CredCalls, GetClient(c) PROVE CredentialInv'
    <2> USE <1>12 DEF GetClient, AfterClient
    <2>1. Typed' /\ KindOfStep' /\ OneRelease'
      BY DEF KindOfStep, OneRelease
    <2>2. NothingBefore' /\ StoresCurrent' /\ ClientIsCurrent'
      BY DEF NothingBefore, StoresCurrent, ClientIsCurrent
    <2>3. DeletesAlone'
      BY DEF DeletesAlone, KindOfStep
    <2> QED
      BY <2>1, <2>2, <2>3
  <1>13. ASSUME NEW c \in CredCalls, StoreClient(c) PROVE CredentialInv'
    <2> USE <1>13 DEF StoreClient
    <2>1. Typed' /\ KindOfStep' /\ OneRelease'
      BY DEF KindOfStep, OneRelease
    <2>2. NothingBefore' /\ StoresCurrent' /\ ClientIsCurrent'
      BY DEF NothingBefore, StoresCurrent, ClientIsCurrent
    <2>3. DeletesAlone'
      BY DEF DeletesAlone, KindOfStep
    <2> QED
      BY <2>1, <2>2, <2>3
  <1>14. CASE UNCHANGED credVars
    BY <1>14 DEF credVars, KindOfStep, OneRelease, NothingBefore, StoresCurrent,
       ClientIsCurrent, DeletesAlone
  <1> QED
    BY <1>1, <1>2, <1>3, <1>4, <1>5, <1>6, <1>7, <1>8, <1>9, <1>10, <1>11, <1>12, <1>13, <1>14
    DEF CredentialNext

LEMMA CredentialSpecInv == CredentialSpec => []CredentialInv
  BY CredentialInitInv, CredentialNextInv, PTL DEF CredentialSpec

\* Every variable keeps its type; no project is taken off twice
\* (CredentialService, ClientRegistry).
THEOREM CredentialTyped == CredentialSpec => []CredentialTypeOK
  <1>1. CredentialInv => CredentialTypeOK
    BY TypedIsTypeOK DEF CredentialInv
  <1> QED
    BY <1>1, CredentialSpecInv, PTL

\* Outside the gap between a write and its Invalidate, and unless a write came
\* while a client was being built, the registry's client is that of the row.
THEOREM RegistryIsCurrent == CredentialSpec => []ClientIsCurrent
  BY CredentialSpecInv, PTL DEF CredentialInv

\* A deletion that no other call overlaps leaves no role and no project.
THEOREM DeletionLeavesNothing == CredentialSpec => []DeletedLeavesNothing
  <1>1. CredentialInv => DeletedLeavesNothing
    BY CredentialAssumption DEF CredentialInv, Typed, DeletesAlone, DeletedLeavesNothing
  <1> QED
    BY <1>1, CredentialSpecInv, PTL

-----------------------------------------------------------------------------
\* A request that waits has not waited for longer than it may.
Timely ==
  \A r \in Requests : request[r].pc # "idle" =>
    request[r].since <= time /\ time <= request[r].since + AuthTimeout

\* What a request was told was true when it began to wait, or became false
\* afterwards.
ToldBefore ==
  \A r \in Requests :
    /\ request[r].pc = "active" => request[r].since <= tokenRevoked
    /\ request[r].pc = "key" => request[r].since <= keyRevoked

\* The entry of the cache ends with the token, in time, and not long after a
\* revocation.
EntryBounded ==
  /\ entry <= tokenEnds /\ entry <= time + TokenTTL
  /\ entry <= tokenRevoked + AuthTimeout + TokenTTL

AuthInv ==
  AuthTypeOK /\ Timely /\ ToldBefore /\ EntryBounded /\ accepted.at <= time /\ AcceptedWasValid

LEMMA AuthInitInv == AuthInit => AuthInv
  <1> SUFFICES ASSUME AuthInit PROVE AuthInv
    OBVIOUS
  <1> USE AuthAssumption DEF AuthInit, Never, IdleRequest
  <1>1. AuthTypeOK
    BY DEF AuthTypeOK
  <1>2. Timely /\ ToldBefore /\ EntryBounded /\ accepted.at <= time /\ AcceptedWasValid
    BY DEF Timely, ToldBefore, EntryBounded, AcceptedWasValid
  <1> QED
    BY <1>1, <1>2 DEF AuthInv

LEMMA AuthNextInv == AuthInv /\ [AuthNext]_authVars => AuthInv'
  <1> SUFFICES ASSUME AuthInv, [AuthNext]_authVars PROVE AuthInv'
    OBVIOUS
  <1> USE AuthAssumption DEF AuthInv, AuthTypeOK, Never, IdleRequest
  <1>1. CASE RevokeKey
    BY <1>1 DEF RevokeKey, Timely, ToldBefore, EntryBounded, AcceptedWasValid
  <1>2. CASE RevokeToken
    BY <1>2 DEF RevokeToken, Timely, ToldBefore, EntryBounded, AcceptedWasValid
  <1>3. CASE AuthTick
    BY <1>3 DEF AuthTick, Timely, ToldBefore, EntryBounded, AcceptedWasValid
  <1>4. ASSUME NEW r \in Requests, CachedToken(r) PROVE AuthInv'
    BY <1>4 DEF CachedToken, Accept, Timely, ToldBefore, EntryBounded, AcceptedWasValid
  <1>5. ASSUME NEW r \in Requests, AskBasaltPass(r) PROVE AuthInv'
    BY <1>5 DEF AskBasaltPass, Waits, Timely, ToldBefore, EntryBounded, AcceptedWasValid
  <1>6. ASSUME NEW r \in Requests, BasaltPassAnswers(r) PROVE AuthInv'
    BY <1>6 DEF BasaltPassAnswers, Timely, ToldBefore, EntryBounded, AcceptedWasValid
  <1>7. ASSUME NEW r \in Requests, AcceptToken(r) PROVE AuthInv'
    <2> USE <1>7 DEF AcceptToken, Accept, Ends
    <2>1. /\ entry' \in 0..Never /\ entry' <= tokenEnds /\ entry' <= time + TokenTTL
      BY DEF EntryEnd, Earlier
    <2>2. time <= tokenRevoked + AuthTimeout
      BY DEF Timely, ToldBefore
    <2>3. AuthTypeOK' /\ Timely' /\ ToldBefore'
      BY <2>1 DEF Timely, ToldBefore
    <2>4. EntryBounded'
      BY <2>1, <2>2 DEF EntryBounded
    <2>5. (accepted.at <= time)' /\ AcceptedWasValid'
      BY <2>2 DEF AcceptedWasValid
    <2> QED
      BY <2>3, <2>4, <2>5
  <1>8. ASSUME NEW r \in Requests, RefuseToken(r) PROVE AuthInv'
    BY <1>8 DEF RefuseToken, Ends, Timely, ToldBefore, EntryBounded, AcceptedWasValid
  <1>9. ASSUME NEW r \in Requests, ReadKey(r) PROVE AuthInv'
    BY <1>9 DEF ReadKey, Waits, Timely, ToldBefore, EntryBounded, AcceptedWasValid
  <1>10. ASSUME NEW r \in Requests, AcceptKey(r) PROVE AuthInv'
    BY <1>10 DEF AcceptKey, Accept, Ends, Timely, ToldBefore, EntryBounded, AcceptedWasValid
  <1>11. ASSUME NEW r \in Requests, RefuseKey(r) PROVE AuthInv'
    BY <1>11 DEF RefuseKey, Ends, Timely, ToldBefore, EntryBounded, AcceptedWasValid
  <1>12. CASE UNCHANGED authVars
    BY <1>12 DEF authVars, Timely, ToldBefore, EntryBounded, AcceptedWasValid
  <1> QED
    BY <1>1, <1>2, <1>3, <1>4, <1>5, <1>6, <1>7, <1>8, <1>9, <1>10, <1>11, <1>12 DEF AuthNext

LEMMA AuthSpecInv == AuthSpec => []AuthInv
  BY AuthInitInv, AuthNextInv, PTL DEF AuthSpec

\* Every variable keeps its type (middleware.Auth and the cache it keeps).
THEOREM AuthTyped == AuthSpec => []AuthTypeOK
  BY AuthSpecInv, PTL DEF AuthInv

\* No request ever passes with a token or a key that has expired, and none
\* longer after a revocation than a query, and for a token the memory of the
\* cache, may take: however requests, revocations and time interleave.
THEOREM AcceptedIsValid == AuthSpec => []AcceptedWasValid
  BY AuthSpecInv, PTL DEF AuthInv

-----------------------------------------------------------------------------
\* A worker's record.
Workers ==
  [pc : {"none", "boot", "start", "work", "apply", "finish", "fail", "failed", "succeed",
         "succeeded"},
   step : 1..Len(Steps), active : 0..Len(Steps)]

\* A process has a worker from its creation until its end or a restart.
WorkerOfProcess(d) ==
  /\ worker[d].pc = "none" => worker[d] = NoWorker
  /\ worker[d].pc = "boot" => process[d] = "queued" /\ worker[d].step = 1
  /\ worker[d].pc # "none" => process[d] \in {"queued", "running"}
  /\ worker[d].pc = "apply" => worker[d].step = 2
  /\ worker[d].step > 2 => runtime[SpaceOf[d]] \in Instances
  /\ worker[d].pc \in {"succeed", "succeeded"} => worker[d].step = Len(Steps)

\* The credential is stored by the last step, and the process says so or nothing.
StoredAtTheEnd(d) ==
  /\ worker[d].pc \in {"succeed", "succeeded"} => d \in stored
  /\ d \in stored =>
       worker[d].pc \in {"none", "succeed", "succeeded"} /\ process[d] \notin {"absent", "failed"}
  /\ process[d] = "succeeded" => d \in stored

\* The jobs before the n-th have succeeded, the n-th stands as it says, those
\* after it are queued.
JobsStand(d, n, status) ==
  \A i \in 1..Len(Steps) :
    jobs[d][i] = IF i < n THEN "succeeded" ELSE IF i = n THEN status ELSE "queued"

\* While every record could be written, the jobs are as the worker has left them.
JobsAreTold(d) ==
  LET w == worker[d] IN
  CASE w.pc = "none" ->
         /\ process[d] \in {"queued", "running"} => InOrder(d)
         /\ process[d] = "succeeded" => JobsStand(d, Len(Steps), "succeeded")
         /\ process[d] = "failed" => \E n \in 1..Len(Steps) : JobsStand(d, n, "failed")
    [] w.pc = "boot" -> JobsStand(d, 1, "queued")
    [] w.pc = "start" -> JobsStand(d, w.step, "queued")
    [] w.pc \in {"work", "apply", "fail", "succeed"} ->
         w.active = w.step /\ JobsStand(d, w.step, "running")
    [] w.pc = "finish" -> w.active = w.step - 1 /\ w.active # 0 /\ JobsStand(d, w.active, "running")
    [] OTHER -> JobsStand(d, w.step, w.pc)

\* A tenant comes from the runtime of its deployment, as long as that is there:
\* once the runtime has been replaced, it does not come back.
TenantIsOwn(d) ==
  (worker[d].step = Len(Steps) \/ d \in stored) =>
    (via[d] = "instance" /\ runtime[SpaceOf[d]] = d => <<d, d>> \in tenants)

KeptFor(d) ==
  /\ WorkerOfProcess(d) /\ StoredAtTheEnd(d) /\ TenantIsOwn(d)
  /\ recordErrors = 0 => JobsAreTold(d)

ManagedInv == ManagedTypeOK /\ \A d \in Instances : KeptFor(d)

LEMMA StepNames ==
  /\ Len(Steps) = 6
  /\ Steps[1] = "validate" /\ Steps[2] = "runtime" /\ Steps[3] = "dns"
  /\ Steps[4] = "health" /\ Steps[5] = "tenant" /\ Steps[6] = "store"
  BY DEF Steps

LEMMA ManagedInitInv == ManagedInit => ManagedInv
  <1> SUFFICES ASSUME ManagedInit PROVE ManagedInv
    OBVIOUS
  <1> USE ManagedAssumption, StepNames DEF ManagedInit, NoWorker
  <1>1. ManagedTypeOK
    BY DEF ManagedTypeOK
  <1>2. ASSUME NEW d \in Instances PROVE KeptFor(d)
    BY DEF KeptFor, WorkerOfProcess, StoredAtTheEnd, TenantIsOwn, JobsAreTold
  <1> QED
    BY <1>1, <1>2 DEF ManagedInv

\* The database of a step that creates a tenant is there.
LEMMA TenantTyped ==
  ASSUME ManagedInv, NEW d \in Instances, worker[d].step > 2
  PROVE  TenantIn(d) \in Instances \cup {"management"}
  BY DEF ManagedInv, KeptFor, WorkerOfProcess, TenantIn

\* Every action keeps the types.
LEMMA ManagedTypes ==
  ASSUME ManagedInv, ManagedNext
  PROVE  ManagedTypeOK'
  <1> USE ManagedAssumption, StepNames
  <1>0. ManagedTypeOK /\ worker \in [Instances -> Workers]
    BY DEF ManagedInv, ManagedTypeOK, Workers
  <1>s. \A d \in Instances : SpaceOf[d] \in Spaces
    BY DEF Spaces
  <1>1. CASE RestartController
    BY <1>0, <1>1 DEF RestartController, NoWorker, ManagedTypeOK
  <1>2. ASSUME NEW d \in Instances, CreateProcessOf(d) PROVE ManagedTypeOK'
    <2>1. worker' \in [Instances -> Workers]
      BY <1>0, <1>2 DEF CreateProcessOf, Workers
    <2> QED
      BY <1>0, <1>2, <2>1 DEF CreateProcessOf, Workers, ManagedTypeOK
  <1>3. ASSUME NEW d \in Instances, BootDeployment(d) PROVE ManagedTypeOK'
    <2>1. worker' \in [Instances -> Workers]
      BY <1>0, <1>3 DEF BootDeployment, Turns, Workers
    <2>2. /\ recordErrors' \in 0..MaxErrors
          /\ process' \in [Instances -> {"absent", "queued", "running", "failed", "succeeded"}]
      BY <1>0, <1>3 DEF BootDeployment, Recorded, ManagedTypeOK
    <2> QED
      BY <1>0, <1>3, <2>1, <2>2 DEF BootDeployment, Workers, ManagedTypeOK
  <1>4. ASSUME NEW d \in Instances, FinishJob(d) PROVE ManagedTypeOK'
    BY <1>0, <1>4 DEF FinishJob, Recorded, Turns, ManagedTypeOK
  <1>5. ASSUME NEW d \in Instances, StartJob(d) PROVE ManagedTypeOK'
    <2>0. worker[d] \in Workers
      BY <1>0
    <2>1. worker' \in [Instances -> Workers]
      <3>1. PICK ok \in BOOLEAN :
              worker' = [worker EXCEPT ![d].pc = "work",
                                       ![d].active = IF ok THEN worker[d].step ELSE @]
        BY <1>5 DEF StartJob
      <3>2. CASE ok
        <4>1. worker' = [worker EXCEPT ![d] = [@ EXCEPT !.pc = "work", !.active = worker[d].step]]
          BY <1>0, <3>1, <3>2
        <4>2. \A active \in 0..Len(Steps) :
                [worker[d] EXCEPT !.pc = "work", !.active = active] \in Workers
          BY <2>0 DEF Workers
        <4>3. worker[d].step \in 0..Len(Steps)
          BY <2>0 DEF Workers
        <4> QED
          BY <1>0, <4>1, <4>2, <4>3
      <3>3. CASE ~ok
        <4>1. worker' = [worker EXCEPT ![d] = [@ EXCEPT !.pc = "work", !.active = worker[d].active]]
          BY <1>0, <3>1, <3>3
        <4>2. [worker[d] EXCEPT !.pc = "work", !.active = worker[d].active] \in Workers
          BY <2>0 DEF Workers
        <4> QED
          BY <1>0, <4>1, <4>2
      <3> QED
        BY <3>2, <3>3
    <2>2. jobs' \in [Instances -> [1..Len(Steps) ->
                      {"absent", "queued", "running", "failed", "succeeded"}]]
      BY <1>0, <1>5 DEF StartJob, ManagedTypeOK
    <2> QED
      BY <1>0, <1>5, <2>1, <2>2 DEF StartJob, Recorded, Workers, ManagedTypeOK
  <1>6. ASSUME NEW d \in Instances,
               \/ CheckRequest(d) \/ PrepareImages(d) \/ WriteDNS(d) \/ HealthAnswers(d)
        PROVE  ManagedTypeOK'
    <2>1. worker[d].step < 6
      BY <1>0, <1>6 DEF CheckRequest, PrepareImages, WriteDNS, HealthAnswers, In, ManagedTypeOK
    <2>2. NextStep(d) \/ Turns(d, "apply")
      BY <1>6 DEF CheckRequest, PrepareImages, WriteDNS, HealthAnswers
    <2>3. worker' \in [Instances -> Workers]
      BY <1>0, <2>1, <2>2 DEF Turns, NextStep, Workers
    <2> QED
      BY <1>0, <1>6, <2>3 DEF CheckRequest, PrepareImages, WriteDNS, HealthAnswers, Workers,
         ManagedTypeOK
  <1>7. ASSUME NEW d \in Instances, ApplyRuntime(d) PROVE ManagedTypeOK'
    <2>1. worker[d].step = 2
      BY <1>7 DEF ApplyRuntime, At, ManagedInv, KeptFor, WorkerOfProcess
    <2> QED
      BY <1>0, <1>s, <1>7, <2>1 DEF ApplyRuntime, NextStep, ManagedTypeOK
  <1>8. ASSUME NEW d \in Instances, CreateTenant(d) PROVE ManagedTypeOK'
    <2>1. worker[d].step = 5
      BY <1>0, <1>8 DEF CreateTenant, In, ManagedTypeOK
    <2>2. TenantIn(d) \in Instances \cup {"management"}
      BY <2>1, TenantTyped
    <2> QED
      BY <1>0, <1>8, <2>1, <2>2 DEF CreateTenant, NextStep, ManagedTypeOK
  <1>9. ASSUME NEW d \in Instances, StoreInstance(d) PROVE ManagedTypeOK'
    BY <1>0, <1>9 DEF StoreInstance, Turns, ManagedTypeOK
  <1>10. ASSUME NEW d \in Instances, StepFails(d) PROVE ManagedTypeOK'
    <2>1. tenants' \subseteq Instances \X (Instances \cup {"management"})
      <3>1. ASSUME In(d, "tenant") PROVE TenantIn(d) \in Instances \cup {"management"}
        <4>1. worker[d].step = 5
          BY <1>0, <3>1 DEF In, ManagedTypeOK
        <4> QED
          BY <4>1, TenantTyped
      <3> QED
        BY <1>0, <1>10, <3>1 DEF StepFails, ManagedTypeOK
    <2>2. runtime' \in [Spaces -> Instances \cup {"none"}]
      BY <1>0, <1>s, <1>10 DEF StepFails, ManagedTypeOK
    <2>3. worker' \in [Instances -> Workers]
      BY <1>0, <1>10 DEF StepFails, Turns, Workers
    <2>4. UNCHANGED <<via, process, jobs, stored, recordErrors, restarts>>
      BY <1>10 DEF StepFails
    <2> QED
      BY <1>0, <2>1, <2>2, <2>3, <2>4 DEF Workers, ManagedTypeOK
  <1>11. ASSUME NEW d \in Instances, EndJob(d) PROVE ManagedTypeOK'
    <2>1. worker' \in [Instances -> Workers]
      BY <1>0, <1>11 DEF EndJob, Turns, Workers
    <2>2. jobs' \in [Instances -> [1..Len(Steps) ->
                      {"absent", "queued", "running", "failed", "succeeded"}]]
      BY <1>0, <1>11 DEF EndJob, ManagedTypeOK
    <2> QED
      BY <1>0, <1>11, <2>1, <2>2 DEF EndJob, Recorded, Workers, ManagedTypeOK
  <1>12. ASSUME NEW d \in Instances, EndProcessOf(d) PROVE ManagedTypeOK'
    BY <1>0, <1>12 DEF EndProcessOf, Recorded, NoWorker, ManagedTypeOK
  <1> QED
    BY <1>1, <1>2, <1>3, <1>4, <1>5, <1>6, <1>7, <1>8, <1>9, <1>10, <1>11, <1>12 DEF ManagedNext

\* What another deployment does leaves a deployment as it is.
LEMMA OthersAreKept ==
  ASSUME NEW d \in Instances, KeptFor(d),
         process'[d] = process[d], jobs'[d] = jobs[d], worker'[d] = worker[d],
         d \in stored' <=> d \in stored, via' = via, tenants \subseteq tenants',
         runtime'[SpaceOf[d]] \in {runtime[SpaceOf[d]]} \cup (Instances \ {d}),
         recordErrors' = 0 => recordErrors = 0
  PROVE  KeptFor(d)'
  BY DEF KeptFor, WorkerOfProcess, StoredAtTheEnd, TenantIsOwn, JobsAreTold, InOrder, JobsStand

\* What a step of a deployment does to it.
LEMMA MoverIsKept ==
  ASSUME ManagedInv, NEW d \in Instances,
         \/ CreateProcessOf(d) \/ BootDeployment(d) \/ FinishJob(d) \/ StartJob(d)
         \/ CheckRequest(d) \/ PrepareImages(d) \/ ApplyRuntime(d) \/ WriteDNS(d)
         \/ HealthAnswers(d) \/ CreateTenant(d)
         \/ StoreInstance(d) \/ StepFails(d) \/ EndJob(d) \/ EndProcessOf(d)
  PROVE  KeptFor(d)'
  <1> USE StepNames
  <1>0. /\ ManagedTypeOK /\ worker \in [Instances -> Workers] /\ KeptFor(d)
        /\ SpaceOf[d] \in Spaces /\ recordErrors \in Nat
    BY ManagedAssumption DEF ManagedInv, ManagedTypeOK, Workers, Spaces
  <1> USE DEF KeptFor, WorkerOfProcess, StoredAtTheEnd, TenantIsOwn
  <1>1. CASE CreateProcessOf(d)
    BY <1>0, <1>1 DEF CreateProcessOf, ManagedTypeOK, NoWorker, JobsAreTold, JobsStand
  <1>2. CASE BootDeployment(d)
    BY <1>0, <1>2 DEF BootDeployment, Recorded, Turns, At, ManagedTypeOK, JobsAreTold, JobsStand
  <1>3. CASE FinishJob(d)
    <2>1. /\ worker' = [worker EXCEPT ![d].pc = "start"] /\ worker[d].pc = "finish"
          /\ UNCHANGED <<via, process, runtime, tenants, stored>>
      BY <1>3 DEF FinishJob, Turns, At
    <2>2. ASSUME recordErrors' = 0 PROVE JobsAreTold(d)'
      <3>1. recordErrors = 0 /\ (worker[d].active # 0 =>
              jobs' = [jobs EXCEPT ![d][worker[d].active] = "succeeded"])
        BY <1>0, <1>3, <2>2 DEF FinishJob, Recorded
      <3> QED
        BY <1>0, <2>1, <3>1 DEF ManagedTypeOK, JobsAreTold, JobsStand
    <2> QED
      BY <1>0, <2>1, <2>2 DEF ManagedTypeOK
  <1>4. CASE StartJob(d)
    <2>0. PICK ok \in BOOLEAN :
            /\ Recorded(ok)
            /\ jobs' = IF ok THEN [jobs EXCEPT ![d][worker[d].step] = "running"] ELSE jobs
            /\ worker' = [worker EXCEPT ![d].pc = "work",
                             ![d].active = IF ok THEN worker[d].step ELSE @]
      BY <1>4 DEF StartJob
    <2>1. /\ worker'[d].pc = "work" /\ worker'[d].step = worker[d].step
          /\ worker[d].pc = "start" /\ UNCHANGED <<via, process, runtime, tenants, stored>>
      <3>1. worker[d].pc = "start" /\ UNCHANGED <<via, process, runtime, tenants, stored>>
        BY <1>4 DEF StartJob, At
      <3>2. worker'[d] = [worker[d] EXCEPT !.pc = "work", !.active = IF ok THEN worker[d].step ELSE @]
        BY <1>0, <2>0
      <3>3. worker[d] \in Workers
        BY <1>0
      <3> QED
        BY <3>1, <3>2, <3>3 DEF Workers
    <2>2. ASSUME recordErrors' = 0 PROVE JobsAreTold(d)'
      <3>1. ok /\ recordErrors = 0
        BY <1>0, <2>0, <2>2 DEF Recorded
      <3>2. /\ jobs' = [jobs EXCEPT ![d][worker[d].step] = "running"]
            /\ worker' = [worker EXCEPT ![d].pc = "work", ![d].active = worker[d].step]
        BY <2>0, <3>1
      <3> QED
        BY <1>0, <2>1, <3>1, <3>2 DEF ManagedTypeOK, JobsAreTold, JobsStand
    <2> QED
      BY <1>0, <2>1, <2>2 DEF ManagedTypeOK
  <1>5. ASSUME worker[d].pc \in {"work", "apply"}, worker[d].step < 6, NextStep(d),
               UNCHANGED <<via, process, jobs, stored, recordErrors>>,
               tenants \subseteq tenants',
               worker[d].step >= 2 => runtime'[SpaceOf[d]] \in Instances,
               worker[d].step = 5 => TenantIsOwn(d)'
        PROVE  KeptFor(d)'
    <2>1. /\ worker'[d].pc = "finish" /\ worker'[d].step = worker[d].step + 1
          /\ worker'[d].active = worker[d].active
      BY <1>0, <1>5 DEF NextStep, Workers
    <2>2. worker[d].step \in 1..6 /\ d \notin stored
      BY <1>0, <1>5 DEF ManagedTypeOK
    <2>3. recordErrors' = 0 => JobsAreTold(d)'
      BY <1>0, <1>5, <2>1, <2>2 DEF JobsAreTold, JobsStand
    <2>4. TenantIsOwn(d)'
      BY <1>5, <2>1, <2>2
    <2> QED
      BY <1>0, <1>5, <2>1, <2>2, <2>3, <2>4
  <1>6. CASE CheckRequest(d) \/ WriteDNS(d) \/ HealthAnswers(d)
    <2>1. worker[d].pc = "work" /\ worker[d].step \in {1, 3, 4}
      BY <1>0, <1>6 DEF CheckRequest, WriteDNS, HealthAnswers, In, At, ManagedTypeOK
    <2> QED
      BY <1>0, <1>5, <1>6, <2>1 DEF CheckRequest, WriteDNS, HealthAnswers
  <1>7. CASE PrepareImages(d)
    <2>1. worker[d].pc = "work" /\ worker[d].step = 2
      BY <1>0, <1>7 DEF PrepareImages, In, At, ManagedTypeOK
    <2> QED
      BY <1>0, <1>7, <2>1 DEF PrepareImages, Turns, JobsAreTold, JobsStand, ManagedTypeOK
  <1>8. CASE ApplyRuntime(d)
    <2>1. worker[d].pc = "apply" /\ worker[d].step = 2
      BY <1>0, <1>8 DEF ApplyRuntime, At
    <2>2. runtime'[SpaceOf[d]] = d
      BY <1>0, <1>8 DEF ApplyRuntime, ManagedTypeOK
    <2> QED
      BY <1>5, <1>8, <2>1, <2>2 DEF ApplyRuntime
  <1>9. CASE CreateTenant(d)
    <2>1. worker[d].pc = "work" /\ worker[d].step = 5
      BY <1>0, <1>9 DEF CreateTenant, In, At, ManagedTypeOK
    <2>2. TenantIsOwn(d)'
      BY <1>9 DEF CreateTenant, TenantIn
    <2> QED
      BY <1>0, <1>5, <1>9, <2>1, <2>2 DEF CreateTenant
  <1>10. CASE StoreInstance(d)
    <2>1. worker[d].pc = "work" /\ worker[d].step = 6
      BY <1>0, <1>10 DEF StoreInstance, In, At, ManagedTypeOK
    <2> QED
      BY <1>0, <1>10, <2>1 DEF StoreInstance, Turns, JobsAreTold, JobsStand, ManagedTypeOK
  <1>11. CASE StepFails(d)
    <2>1. /\ worker[d].pc \in {"work", "apply"} /\ worker' = [worker EXCEPT ![d].pc = "fail"]
          /\ UNCHANGED <<via, process, jobs, stored, recordErrors>> /\ tenants \subseteq tenants'
      BY <1>11 DEF StepFails, At, Turns
    <2>2. /\ runtime'[SpaceOf[d]] \in {runtime[SpaceOf[d]], d}
          /\ worker[d].step # 2 => runtime' = runtime
      BY <1>0, <1>11 DEF StepFails, At, In, ManagedTypeOK
    <2>3. d \notin stored /\ worker[d].step \in 1..6
      BY <1>0, <2>1 DEF ManagedTypeOK
    <2>4. recordErrors' = 0 => JobsAreTold(d)'
      BY <1>0, <2>1, <2>3 DEF JobsAreTold, JobsStand, ManagedTypeOK
    <2> QED
      BY <1>0, <2>1, <2>2, <2>3, <2>4 DEF ManagedTypeOK
  <1>12. CASE EndJob(d)
    <2> DEFINE status == IF At(d, "fail") THEN "failed" ELSE "succeeded"
    <2>1. /\ worker[d].pc \in {"fail", "succeed"} /\ worker' = [worker EXCEPT ![d].pc = status]
          /\ UNCHANGED <<via, process, runtime, tenants, stored>>
      BY <1>12 DEF EndJob, At, Turns
    <2>2. ASSUME recordErrors' = 0 PROVE JobsAreTold(d)'
      <3>1. recordErrors = 0 /\ (worker[d].active # 0 =>
              jobs' = [jobs EXCEPT ![d][worker[d].active] = status])
        BY <1>0, <1>12, <2>2 DEF EndJob, Recorded
      <3> QED
        BY <1>0, <2>1, <3>1 DEF At, ManagedTypeOK, JobsAreTold, JobsStand
    <2> QED
      BY <1>0, <2>1, <2>2 DEF At, ManagedTypeOK
  <1>13. CASE EndProcessOf(d)
    <2>1. /\ worker[d].pc \in {"failed", "succeeded"} /\ worker'[d] = NoWorker
          /\ process'[d] \in {process[d], worker[d].pc}
          /\ recordErrors' = 0 => recordErrors = 0 /\ process'[d] = worker[d].pc
          /\ UNCHANGED <<via, jobs, runtime, tenants, stored>>
      BY <1>0, <1>13 DEF EndProcessOf, Recorded, ManagedTypeOK
    <2>2. d \in stored <=> worker[d].pc = "succeeded"
      BY <1>0, <2>1
    <2>3. recordErrors' = 0 => JobsAreTold(d)'
      BY <1>0, <2>1 DEF JobsAreTold, JobsStand, NoWorker, ManagedTypeOK
    <2> QED
      BY <1>0, <2>1, <2>2, <2>3 DEF NoWorker, ManagedTypeOK
  <1> QED
    BY <1>1, <1>2, <1>3, <1>4, <1>6, <1>7, <1>8, <1>9, <1>10, <1>11, <1>12, <1>13

\* Wherever the worker is, the jobs stand in order.
LEMMA StandsInOrder ==
  ASSUME NEW d, NEW n \in 1..6, NEW status, JobsStand(d, n, status)
  PROVE  InOrder(d)
  <1>1. n - 1 \in 0..Len(Steps)
    BY StepNames
  <1>2. /\ \A i \in 1..(n - 1) : jobs[d][i] = "succeeded"
        /\ \A i \in n - 1 + 2..Len(Steps) : jobs[d][i] = "queued"
    BY StepNames DEF JobsStand
  <1> QED
    BY <1>1, <1>2 DEF InOrder

LEMMA ToldInOrder ==
  ASSUME ManagedTypeOK, NEW d \in Instances, JobsAreTold(d), process[d] # "absent"
  PROVE  InOrder(d)
  <1>0. /\ worker[d].step \in 1..6 /\ worker[d].active \in 0..6
        /\ worker[d].pc \in {"none", "boot", "start", "work", "apply", "finish", "fail",
                            "failed", "succeed", "succeeded"}
        /\ process[d] \in {"queued", "running", "failed", "succeeded"}
    BY StepNames DEF ManagedTypeOK
  <1>1. CASE worker[d].pc = "none"
    <2>1. CASE process[d] \in {"queued", "running"}
      BY <1>1, <2>1 DEF JobsAreTold
    <2>2. CASE process[d] = "succeeded"
      BY <1>1, <2>2, StandsInOrder, StepNames DEF JobsAreTold
    <2>3. CASE process[d] = "failed"
      BY <1>1, <2>3, StandsInOrder, StepNames DEF JobsAreTold
    <2> QED
      BY <1>0, <2>1, <2>2, <2>3
  <1>2. CASE worker[d].pc = "boot"
    BY <1>2, StandsInOrder DEF JobsAreTold
  <1>3. CASE worker[d].pc = "start"
    BY <1>0, <1>3, StandsInOrder DEF JobsAreTold
  <1>4. CASE worker[d].pc \in {"work", "apply", "fail", "succeed"}
    BY <1>0, <1>4, StandsInOrder DEF JobsAreTold
  <1>5. CASE worker[d].pc = "finish"
    <2>1. worker[d].active \in 1..6 /\ JobsStand(d, worker[d].active, "running")
      BY <1>0, <1>5 DEF JobsAreTold
    <2> QED
      BY <2>1, StandsInOrder
  <1>6. CASE worker[d].pc \in {"failed", "succeeded"}
    BY <1>0, <1>6, StandsInOrder DEF JobsAreTold
  <1> QED
    BY <1>0, <1>1, <1>2, <1>3, <1>4, <1>5, <1>6

LEMMA ManagedNextInv == ManagedInv /\ [ManagedNext]_managedVars => ManagedInv'
  <1> SUFFICES ASSUME ManagedInv, [ManagedNext]_managedVars PROVE ManagedInv'
    OBVIOUS
  <1>0. ManagedTypeOK /\ (\A d \in Instances : KeptFor(d) /\ SpaceOf[d] \in Spaces)
        /\ recordErrors \in Nat
    BY ManagedAssumption DEF ManagedInv, ManagedTypeOK, Spaces
  <1>1. CASE UNCHANGED managedVars
    <2>1. ManagedTypeOK'
      BY <1>0, <1>1 DEF managedVars, ManagedTypeOK
    <2>2. ASSUME NEW d \in Instances PROVE KeptFor(d)'
      <3>1. runtime' = runtime /\ recordErrors' = recordErrors
        BY <1>1 DEF managedVars
      <3> QED
        BY <1>0, <1>1, <3>1, OthersAreKept DEF managedVars
    <2> QED
      BY <2>1, <2>2 DEF ManagedInv
  <1>2. CASE RestartController
    <2>1. ManagedTypeOK'
      BY <1>2, ManagedTypes DEF ManagedNext
    <2>2. ASSUME NEW d \in Instances PROVE KeptFor(d)'
      <3>1. /\ worker'[d] = NoWorker
            /\ UNCHANGED <<via, process, jobs, runtime, tenants, stored, recordErrors>>
        BY <1>2 DEF RestartController
      <3>2. WorkerOfProcess(d)' /\ StoredAtTheEnd(d)'
        BY <1>0, <3>1, StepNames DEF KeptFor, WorkerOfProcess, StoredAtTheEnd, NoWorker
      <3>3. TenantIsOwn(d)'
        BY <1>0, <3>1, StepNames DEF KeptFor, TenantIsOwn, NoWorker
      <3>4. ASSUME recordErrors = 0 PROVE JobsAreTold(d)'
        <4>1. JobsAreTold(d)
          BY <1>0, <3>4 DEF KeptFor
        <4>2. process[d] # "absent" => InOrder(d)
          BY <1>0, <4>1, ToldInOrder
        <4>3. process[d] \in {"failed", "succeeded"} => worker[d].pc = "none"
          BY <1>0 DEF KeptFor, WorkerOfProcess
        <4>4. worker'[d].pc = "none"
          BY <3>1 DEF NoWorker
        <4>5. UNCHANGED <<process, jobs>>
          BY <3>1
        <4>6. InOrder(d)' <=> InOrder(d)
          BY <4>5 DEF InOrder
        <4>7. \A n, status : JobsStand(d, n, status)' <=> JobsStand(d, n, status)
          BY <4>5 DEF JobsStand
        <4> QED
          BY <4>1, <4>2, <4>3, <4>4, <4>5, <4>6, <4>7 DEF JobsAreTold
      <3> QED
        BY <3>1, <3>2, <3>3, <3>4 DEF KeptFor
    <2> QED
      BY <2>1, <2>2 DEF ManagedInv
  <1>3. ASSUME NEW d \in Instances,
               \/ CreateProcessOf(d) \/ BootDeployment(d) \/ FinishJob(d) \/ StartJob(d)
               \/ CheckRequest(d) \/ PrepareImages(d) \/ ApplyRuntime(d) \/ WriteDNS(d)
               \/ HealthAnswers(d) \/ CreateTenant(d)
               \/ StoreInstance(d) \/ StepFails(d) \/ EndJob(d) \/ EndProcessOf(d)
        PROVE  ManagedInv'
    <2>1. ManagedTypeOK'
      BY <1>3, ManagedTypes DEF ManagedNext
    <2>2. KeptFor(d)'
      BY <1>3, MoverIsKept
    <2>3. ASSUME NEW e \in Instances, e # d PROVE KeptFor(e)'
      <3>1. process'[e] = process[e] /\ jobs'[e] = jobs[e] /\ worker'[e] = worker[e]
        BY <1>0, <1>3, <2>3 DEF CreateProcessOf, BootDeployment, FinishJob, StartJob, CheckRequest,
           PrepareImages, ApplyRuntime, WriteDNS, HealthAnswers, CreateTenant, StoreInstance,
           StepFails, EndJob, EndProcessOf, NextStep, Turns, ManagedTypeOK
      <3>2. /\ e \in stored' <=> e \in stored
            /\ via' = via /\ tenants \subseteq tenants'
            /\ recordErrors' = 0 => recordErrors = 0
        BY <1>0, <1>3, <2>3 DEF CreateProcessOf, BootDeployment, FinishJob, StartJob, CheckRequest,
           PrepareImages, ApplyRuntime, WriteDNS, HealthAnswers, CreateTenant, StoreInstance,
           StepFails, EndJob, EndProcessOf, Recorded
      <3>3. runtime' = runtime \/ runtime' = [runtime EXCEPT ![SpaceOf[d]] = d]
        BY <1>3 DEF CreateProcessOf, BootDeployment, FinishJob, StartJob, CheckRequest,
           PrepareImages, ApplyRuntime, WriteDNS, HealthAnswers, CreateTenant, StoreInstance,
           StepFails, EndJob, EndProcessOf
      <3>4. runtime'[SpaceOf[e]] \in {runtime[SpaceOf[e]]} \cup (Instances \ {e})
        BY <1>0, <2>3, <3>3 DEF ManagedTypeOK
      <3> QED
        BY <1>0, <3>1, <3>2, <3>4, OthersAreKept
    <2> QED
      BY <2>1, <2>2, <2>3 DEF ManagedInv
  <1> QED
    BY <1>1, <1>2, <1>3 DEF ManagedNext

LEMMA ManagedSpecInv == ManagedSpec => []ManagedInv
  BY ManagedInitInv, ManagedNextInv, PTL DEF ManagedSpec

\* Every variable keeps its type (runBasaltPassDeployment and its records).
THEOREM ManagedTyped == ManagedSpec => []ManagedTypeOK
  BY ManagedSpecInv, PTL DEF ManagedInv

JobsAreRight(d) ==
  /\ InOrder(d)
  /\ process[d] = "succeeded" => \A i \in 1..Len(Steps) : jobs[d][i] = "succeeded"
  /\ process[d] = "failed" => \E i \in 1..Len(Steps) : jobs[d][i] = "failed"

\* What the records of a managed BasaltPass say is so, for any number of
\* deployments, shared namespaces, failed writes and restarts.
THEOREM RecordsAreTrue == ManagedSpec => []RecordsTellTheTruth
  <1>1. ASSUME ManagedInv PROVE RecordsTellTheTruth
    <2> SUFFICES ASSUME NEW d \in Instances
                 PROVE  /\ process[d] = "succeeded" => d \in stored
                        /\ process[d] = "failed" => d \notin stored
                        /\ recordErrors = 0 /\ process[d] # "absent" => JobsAreRight(d)
                        /\ d \in stored /\ via[d] = "instance" /\ runtime[SpaceOf[d]] = d =>
                             <<d, d>> \in tenants
      BY ZenonT(60) DEF RecordsTellTheTruth, JobsAreRight
    <2>1. ManagedTypeOK /\ KeptFor(d)
      BY <1>1 DEF ManagedInv
    <2>2. /\ process[d] = "succeeded" => d \in stored
          /\ process[d] = "failed" => d \notin stored
          /\ d \in stored /\ via[d] = "instance" /\ runtime[SpaceOf[d]] = d => <<d, d>> \in tenants
      BY <2>1 DEF KeptFor, StoredAtTheEnd, TenantIsOwn
    <2>3. ASSUME recordErrors = 0, process[d] # "absent"
          PROVE  JobsAreRight(d)
      <3>1. JobsAreTold(d)
        BY <2>1, <2>3 DEF KeptFor
      <3>2. process[d] \in {"failed", "succeeded"} => worker[d].pc = "none"
        BY <2>1 DEF KeptFor, WorkerOfProcess
      <3>3. InOrder(d)
        BY <2>1, <2>3, <3>1, ToldInOrder
      <3> QED
        BY <3>1, <3>2, <3>3, StepNames DEF JobsAreRight, JobsAreTold, JobsStand
    <2> QED
      BY <2>2, <2>3
  <1> QED
    BY <1>1, ManagedSpecInv, PTL

-----------------------------------------------------------------------------
\* The three parts side by side: a step of one is a stutter of the others, so
\* each behaves as it does on its own.
LEMMA EachOnItsOwn == AccessSpec => CredentialSpec /\ AuthSpec /\ ManagedSpec
  <1>1. AccessInit => CredentialInit /\ AuthInit /\ ManagedInit
    BY DEF AccessInit
  <1>2. [AccessNext]_accessVars =>
          [CredentialNext]_credVars /\ [AuthNext]_authVars /\ [ManagedNext]_managedVars
    BY DEF AccessNext, accessVars
  <1> QED
    BY <1>1, <1>2, PTL DEF AccessSpec, CredentialSpec, AuthSpec, ManagedSpec

\* What TLC checks of their composition holds of it for every value of the
\* constants: the types of credentials, requests and managed deployments.
THEOREM AccessTyped == AccessSpec => []AccessTypeOK
  BY EachOnItsOwn, CredentialTyped, AuthTyped, ManagedTyped, PTL DEF AccessTypeOK
=============================================================================
