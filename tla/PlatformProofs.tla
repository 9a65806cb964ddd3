--------------------------- MODULE PlatformProofs ---------------------------
(***************************************************************************)
(* Theorems about GitOpsFiles, NodeDrain, DashboardCache, ImageTags and    *)
(* PullRobots, and about their composition, for every value of their       *)
(* constants.                                                              *)
(***************************************************************************)
EXTENDS MCPlatform, ClusterObjectsProofs, FiniteSetTheorems, TLAPS

-----------------------------------------------------------------------------
(* A drain.                                                                *)

DrainCalls ==
  [pc : {"idle", "list", "evict", "done", "failed"}, options : Options,
   todo : SUBSET Pods, skipped : SUBSET Pods, undone : BOOLEAN]

DrainTyped ==
  /\ cordoned \in BOOLEAN /\ errors \in 0..MaxErrors
  /\ pod \in [Pods -> [kind : Kinds, emptyDir : BOOLEAN, place : Places]]
  /\ drain \in [Drains -> DrainCalls]

\* A drain that nobody has undone works on a node that is cordoned, ...
StaysCordoned(d) ==
  drain[d].pc \in {"list", "evict", "done"} /\ ~drain[d].undone => cordoned

\* ... and a pod that runs there after the listing is still to be evicted, was
\* skipped, or is one of those that the cordon does not keep away.
Accounted(d) ==
  /\ drain[d].pc = "done" => drain[d].todo = {}
  /\ drain[d].pc \in {"evict", "done"} /\ ~drain[d].undone =>
       \A p \in Pods : pod[p].place = "node" =>
         p \in drain[d].todo \/ p \in drain[d].skipped \/ Bound(p)

DrainInv == DrainTyped /\ \A d \in Drains : StaysCordoned(d) /\ Accounted(d)

LEMMA DrainInitInv == DrainInit => DrainInv
  <1> SUFFICES ASSUME DrainInit PROVE DrainInv
    OBVIOUS
  <1>1. PICK options \in Options : drain = [d \in Drains |-> IdleDrain(options)]
    BY DEF DrainInit
  <1>2. drain \in [Drains -> DrainCalls] /\ \A d \in Drains : drain[d].pc = "idle"
    BY <1>1 DEF DrainCalls, IdleDrain
  <1>3. pod \in [Pods -> [kind : Kinds, emptyDir : BOOLEAN, place : Places]]
    BY DEF DrainInit, Places
  <1>4. ASSUME NEW d \in Drains PROVE StaysCordoned(d) /\ Accounted(d)
    <2>1. drain[d].pc = "idle"
      BY <1>2
    <2> QED
      BY <2>1 DEF StaysCordoned, Accounted
  <1>5. cordoned \in BOOLEAN
    BY DEF DrainInit
  <1>6. errors \in 0..MaxErrors
    BY DrainAssumption DEF DrainInit
  <1> QED
    BY <1>2, <1>3, <1>4, <1>5, <1>6 DEF DrainInv, DrainTyped

LEMMA DrainNextInv == DrainInv /\ [DrainNext]_drainVars => DrainInv'
  <1> SUFFICES ASSUME DrainInv, [DrainNext]_drainVars PROVE DrainInv'
    OBVIOUS
  <1> USE DrainAssumption
  <1>0. DrainTyped /\ \A d \in Drains : StaysCordoned(d) /\ Accounted(d)
    BY DEF DrainInv
  <1>1. ASSUME NEW d \in Drains, Cordon(d) PROVE DrainInv'
    <2>1. DrainTyped'
      BY <1>0, <1>1 DEF Cordon, DrainTyped, DrainCalls
    <2> QED
      BY <1>0, <1>1, <2>1 DEF Cordon, DrainTyped, DrainCalls, DrainInv, StaysCordoned, Accounted,
         Bound
  <1>2. ASSUME NEW d \in Drains, List(d) PROVE DrainInv'
    <2> DEFINE here == {p \in Pods : OnNode(p)}
               skipped == {p \in here : shouldSkipDrainPod(p, drain[d].options)}
               pc == IF here = skipped THEN "done" ELSE "evict"
    <2>1. /\ drain' = [drain EXCEPT ![d].skipped = skipped, ![d].todo = here \ skipped,
                                    ![d].pc = pc]
          /\ UNCHANGED <<cordoned, pod, errors>> /\ drain[d].pc = "list"
      BY <1>2 DEF List
    <2>2. /\ here \subseteq Pods /\ skipped \subseteq here /\ pc \in {"evict", "done"}
          /\ pc = "done" => here \ skipped = {}
          /\ \A p \in Pods : pod[p].place = "node" => p \in here
      BY DEF OnNode
    <2> HIDE DEF here, skipped, pc
    <2>3. DrainTyped'
      BY <1>0, <2>1, <2>2 DEF DrainTyped, DrainCalls
    <2>4. \A e \in Drains : StaysCordoned(e)' /\ Accounted(e)'
      BY <1>0, <2>1, <2>2 DEF DrainTyped, DrainCalls, StaysCordoned, Accounted, Bound
    <2> QED
      BY <2>3, <2>4 DEF DrainInv
  <1>3. ASSUME NEW d \in Drains, Evict(d) PROVE DrainInv'
    <2>1. PICK p \in drain[d].todo :
       \/ /\ drain' = [drain EXCEPT ![d].todo = @ \ {p},
                 ![d].pc = IF drain[d].todo = {p} THEN "done" ELSE "evict"]
          /\ pod' = [pod EXCEPT ![p].place =
                 CASE @ = "node" -> "ending" [] @ \in {"finished", "elsewhere"} -> "none"
                   [] OTHER -> @]
          /\ UNCHANGED <<cordoned, errors>>
       \/ /\ errors < MaxErrors /\ errors' = errors + 1
          /\ drain' = [drain EXCEPT ![d] = [IdleDrain(@.options) EXCEPT !.pc = "failed"]]
          /\ UNCHANGED <<cordoned, pod>>
      BY <1>3 DEF Evict
    <2>0. p \in Pods /\ drain[d].pc = "evict"
      BY <1>0, <1>3 DEF DrainTyped, DrainCalls, Evict
    <2>2. CASE /\ drain' = [drain EXCEPT ![d].todo = @ \ {p},
                 ![d].pc = IF drain[d].todo = {p} THEN "done" ELSE "evict"]
               /\ pod' = [pod EXCEPT ![p].place =
                      CASE @ = "node" -> "ending" [] @ \in {"finished", "elsewhere"} -> "none"
                        [] OTHER -> @]
               /\ UNCHANGED <<cordoned, errors>>
      <3>1. /\ pod' \in [Pods -> [kind : Kinds, emptyDir : BOOLEAN, place : Places]]
            /\ pod'[p].place # "node"
            /\ \A q \in Pods : pod'[q].kind = pod[q].kind /\ (q # p => pod'[q] = pod[q])
        BY <1>0, <2>0, <2>2 DEF DrainTyped, Places
      <3>2. /\ drain'[d] \in DrainCalls /\ drain'[d].todo = drain[d].todo \ {p}
            /\ drain'[d].pc \in {"evict", "done"} /\ drain'[d].skipped = drain[d].skipped
            /\ drain'[d].undone = drain[d].undone
            /\ drain'[d].pc = "done" => drain'[d].todo = {}
        <4> DEFINE pc == IF drain[d].todo = {p} THEN "done" ELSE "evict"
        <4>1. drain'[d] = [drain[d] EXCEPT !.todo = @ \ {p}, !.pc = pc]
          BY <1>0, <2>2 DEF DrainTyped
        <4>2. pc \in {"evict", "done"} /\ (pc = "done" => drain[d].todo \ {p} = {})
          OBVIOUS
        <4>3. drain[d] \in DrainCalls
          BY <1>0 DEF DrainTyped
        <4> HIDE DEF pc
        <4> QED
          BY <4>1, <4>2, <4>3 DEF DrainCalls
      <3>3. \A e \in Drains : e # d => drain'[e] = drain[e]
        BY <1>0, <2>2 DEF DrainTyped
      <3>4. drain' \in [Drains -> DrainCalls]
        BY <1>0, <2>2, <3>2 DEF DrainTyped
      <3>5. StaysCordoned(d)' /\ Accounted(d)'
        BY <1>0, <2>0, <2>2, <3>1, <3>2 DEF StaysCordoned, Accounted, Bound
      <3>6. ASSUME NEW e \in Drains, e # d PROVE StaysCordoned(e)' /\ Accounted(e)'
        <4>1. drain'[e] = drain[e]
          BY <3>3, <3>6
        <4> QED
          BY <1>0, <2>2, <3>1, <4>1 DEF StaysCordoned, Accounted, Bound
      <3> QED
        BY <1>0, <2>2, <3>1, <3>4, <3>5, <3>6 DEF DrainInv, DrainTyped
    <2>3. CASE /\ errors < MaxErrors /\ errors' = errors + 1
               /\ drain' = [drain EXCEPT ![d] = [IdleDrain(@.options) EXCEPT !.pc = "failed"]]
               /\ UNCHANGED <<cordoned, pod>>
      <3>1. drain'[d] = [IdleDrain(drain[d].options) EXCEPT !.pc = "failed"]
        BY <1>0, <2>3 DEF DrainTyped
      <3>2. drain'[d] \in DrainCalls /\ drain'[d].pc = "failed"
        BY <1>0, <3>1 DEF IdleDrain, DrainTyped, DrainCalls
      <3>3. drain' \in [Drains -> DrainCalls] /\ \A e \in Drains : e # d => drain'[e] = drain[e]
        BY <1>0, <2>3, <3>1, <3>2 DEF DrainTyped
      <3> QED
        BY <1>0, <2>3, <3>2, <3>3 DEF DrainInv, DrainTyped, StaysCordoned, Accounted, Bound
    <2> QED
      BY <2>1, <2>2, <2>3
  <1>4. CASE Uncordon
    <2>1. \A e \in Drains : drain'[e] = [drain[e] EXCEPT !.undone = @ \/ drain[e].pc # "idle"]
      BY <1>4 DEF Uncordon
    <2>2. ASSUME NEW e \in Drains
          PROVE  /\ drain'[e] \in DrainCalls /\ drain'[e].pc = drain[e].pc
                 /\ drain'[e].todo = drain[e].todo
                 /\ drain[e].pc # "idle" => drain'[e].undone
      <3> DEFINE undone == drain[e].undone \/ drain[e].pc # "idle"
      <3>1. drain'[e] = [drain[e] EXCEPT !.undone = undone]
        BY <2>1
      <3>2. undone \in BOOLEAN /\ (drain[e].pc # "idle" => undone = TRUE)
        OBVIOUS
      <3>3. drain[e] \in DrainCalls
        BY <1>0 DEF DrainTyped
      <3> HIDE DEF undone
      <3>4. drain'[e] \in DrainCalls /\ drain'[e].undone = undone
        BY <3>1, <3>2, <3>3 DEF DrainCalls
      <3>5. drain'[e].pc = drain[e].pc /\ drain'[e].todo = drain[e].todo
        BY <3>1, <3>3 DEF DrainCalls
      <3> QED
        BY <3>2, <3>4, <3>5
    <2>3. drain' \in [Drains -> DrainCalls]
      BY <1>4, <2>2 DEF Uncordon
    <2> QED
      <3>1. cordoned' = FALSE /\ UNCHANGED <<pod, errors>>
        BY <1>4 DEF Uncordon
      <3>2. ASSUME NEW e \in Drains PROVE StaysCordoned(e)' /\ Accounted(e)'
        BY <1>0, <2>2, <3>1, <3>2 DEF StaysCordoned, Accounted
      <3> QED
        BY <1>0, <2>3, <3>1, <3>2 DEF DrainInv, DrainTyped
  <1>5. ASSUME NEW p \in Pods, Schedule(p) PROVE DrainInv'
    <2>1. /\ pod' \in [Pods -> [kind : Kinds, emptyDir : BOOLEAN, place : Places]]
          /\ \A q \in Pods : pod'[q].kind = pod[q].kind /\ (q # p => pod'[q] = pod[q])
          /\ pod'[p].place = "node" => Bound(p) \/ ~cordoned
      BY <1>0, <1>5 DEF Schedule, DrainTyped, Places
    <2> QED
      BY <1>0, <1>5, <2>1 DEF Schedule, DrainInv, DrainTyped, StaysCordoned, Accounted, Bound
  <1>6. ASSUME NEW p \in Pods, Leave(p) PROVE DrainInv'
    <2>1. /\ pod' \in [Pods -> [kind : Kinds, emptyDir : BOOLEAN, place : Places]]
          /\ \A q \in Pods : pod'[q].kind = pod[q].kind /\ (q # p => pod'[q] = pod[q])
          /\ pod'[p].place # "node"
      BY <1>0, <1>6 DEF Leave, DrainTyped, Places
    <2> QED
      BY <1>0, <1>6, <2>1 DEF Leave, DrainInv, DrainTyped, StaysCordoned, Accounted, Bound
  <1>7. CASE UNCHANGED drainVars
    BY <1>0, <1>7 DEF drainVars, DrainInv, DrainTyped, StaysCordoned, Accounted, Bound
  <1> QED
    BY <1>1, <1>2, <1>3, <1>4, <1>5, <1>6, <1>7 DEF DrainNext

LEMMA DrainSpecInv == DrainSpec => []DrainInv
  BY DrainInitInv, DrainNextInv, PTL DEF DrainSpec

THEOREM DrainTypes == DrainSpec => []DrainTypeOK
  <1>1. DrainInv => DrainTypeOK
    BY DEF DrainInv, DrainTyped, DrainCalls, DrainTypeOK
  <1> QED
    BY <1>1, DrainSpecInv, PTL

\* After a drain that nobody undoes, whatever is scheduled, ends or is drained by
\* others meanwhile, only pods that were skipped or are bound to it run on the node
\* (DrainNode).
THEOREM DrainedIsEmpty == DrainSpec => []DrainEmpties
  <1>1. DrainInv => DrainEmpties
    BY DEF DrainInv, Accounted, DrainEmpties
  <1> QED
    BY <1>1, DrainSpecInv, PTL

-----------------------------------------------------------------------------
(* The dashboard.                                                          *)

\* The request that holds the mutex.
Holds(r) == request[r].pc \in {"recheck", "list", "pods", "version", "store", "stamp"}

ViewerRequests ==
  [pc : {"idle", "look", "lock", "recheck", "list", "pods", "version", "store", "stamp",
         "answered"},
   seen : Nat \cup {Never}, since : Nat, listed : Nat \cup {Never},
   flag : {"none", "cached", "refreshing", "429", "stale", "400", "fresh"},
   shown : Nat \cup {Never}, at : Nat, raced : BOOLEAN]

DashTyped ==
  /\ now \in 0..MaxNow /\ cache \in {Never} \cup 0..now /\ cachedAt \in {Never} \cup 0..now
  /\ request \in [Viewers -> ViewerRequests]
  /\ locked \in BOOLEAN

Mutex ==
  /\ locked <=> \E r \in Viewers : Holds(r)
  /\ \A q, r \in Viewers : Holds(q) /\ Holds(r) => q = r

\* A refresh goes on for as long as its requests may wait.
InTime(r) ==
  LET q == request[r] IN
  /\ q.pc = "list" => q.since <= now /\ now <= q.since + Timeout
  /\ q.pc = "pods" =>
       q.listed \in 0..now /\ q.since <= q.listed /\ now <= q.since + Timeout
  /\ q.pc = "version" =>
       /\ q.listed \in 0..now /\ q.since <= now
       /\ q.since <= q.listed + Timeout /\ now <= q.since + VersionTimeout
  /\ q.pc \in {"store", "stamp"} =>
       q.listed \in 0..now /\ now <= q.listed + Timeout + VersionTimeout
  /\ q.pc = "stamp" => cache = q.listed

\* The time of the cache is not long after what the cache shows was listed.
StampIsClose ==
  cachedAt # Never => cache # Never /\ cachedAt <= cache + Timeout + VersionTimeout

\* What the answers that count as good show.
AnswerIsFresh(r) ==
  LET q == request[r] IN
  /\ q.seen <= now /\ q.shown <= now
  /\ q.flag \in {"cached", "fresh"} /\ ~q.raced =>
       q.at < q.shown + TTL + Timeout + VersionTimeout

DashInv ==
  /\ DashTyped /\ Mutex /\ StampIsClose
  /\ \A r \in Viewers : InTime(r) /\ AnswerIsFresh(r)

LEMMA DashInitInv == DashInit => DashInv
  <1> SUFFICES ASSUME DashInit PROVE DashInv
    OBVIOUS
  <1> USE DashboardAssumption DEF DashInit, Never
  <1>1. request \in [Viewers -> ViewerRequests]
    BY DEF IdleRequest, ViewerRequests
  <1>2. DashTyped
    <2>1. locked \in BOOLEAN
      BY Zenon
    <2> QED
      BY <1>1, <2>1 DEF DashTyped
  <1>3. Mutex
    BY DEF Mutex, Holds, IdleRequest
  <1>4. StampIsClose /\ \A r \in Viewers : InTime(r) /\ AnswerIsFresh(r)
    BY DEF StampIsClose, InTime, AnswerIsFresh, IdleRequest
  <1> QED
    BY <1>2, <1>3, <1>4 DEF DashInv

\* A step of one request leaves the others as they are.
LEMMA OtherViewers ==
  ASSUME DashInv, NEW r \in Viewers, NEW q, q \in ViewerRequests,
         request' = [request EXCEPT ![r] = q], now' = now,
         cache' = cache \/ Holds(r)
  PROVE  /\ request' \in [Viewers -> ViewerRequests] /\ request'[r] = q
         /\ \A s \in Viewers : s # r => request'[s] = request[s]
         /\ \A s \in Viewers : s # r => InTime(s)' /\ AnswerIsFresh(s)'
  <1>1. /\ request' \in [Viewers -> ViewerRequests] /\ request'[r] = q
        /\ \A s \in Viewers : s # r => request'[s] = request[s]
    BY DEF DashInv, DashTyped
  <1>2. ASSUME NEW s \in Viewers, s # r PROVE InTime(s)' /\ AnswerIsFresh(s)'
    <2>1. InTime(s) /\ AnswerIsFresh(s) /\ request'[s] = request[s]
      BY <1>1, <1>2 DEF DashInv
    <2>2. request[s].pc = "stamp" => cache' = cache
      BY <1>2 DEF DashInv, Mutex, Holds
    <2> QED
      BY <2>1, <2>2 DEF InTime, AnswerIsFresh
  <1> QED
    BY <1>1, <1>2

\* Who holds the mutex after a step of one request.
LEMMA MutexStays ==
  ASSUME Mutex, NEW r \in Viewers, \A s \in Viewers : s # r => (Holds(s)' <=> Holds(s)),
         \/ locked' = locked /\ (Holds(r)' <=> Holds(r))
         \/ ~locked /\ locked' = TRUE /\ Holds(r)'
         \/ Holds(r) /\ ~Holds(r)' /\ locked' = FALSE
  PROVE  Mutex'
  <1>1. CASE locked' = locked /\ (Holds(r)' <=> Holds(r))
    BY <1>1 DEF Mutex
  <1>2. CASE ~locked /\ locked' = TRUE /\ Holds(r)'
    BY <1>2 DEF Mutex
  <1>3. CASE Holds(r) /\ ~Holds(r)' /\ locked' = FALSE
    BY <1>3 DEF Mutex
  <1> QED
    BY <1>1, <1>2, <1>3

\* A step of one request, given what it makes of the request.
LEMMA ViewerStep ==
  ASSUME DashInv, NEW r \in Viewers, NEW q, q \in ViewerRequests,
         request' = [request EXCEPT ![r] = q], now' = now,
         cache' = cache \/ Holds(r),
         cache' \in {Never} \cup 0..now, cachedAt' \in {Never} \cup 0..now, locked' \in BOOLEAN,
         \/ locked' = locked /\ (Holds(r)' <=> Holds(r))
         \/ ~locked /\ locked' = TRUE /\ Holds(r)'
         \/ Holds(r) /\ ~Holds(r)' /\ locked' = FALSE,
         StampIsClose', InTime(r)', AnswerIsFresh(r)'
  PROVE  DashInv'
  <1>1. /\ request' \in [Viewers -> ViewerRequests]
        /\ \A s \in Viewers : s # r => request'[s] = request[s]
        /\ \A s \in Viewers : s # r => InTime(s)' /\ AnswerIsFresh(s)'
    BY OtherViewers
  <1>2. \A s \in Viewers : s # r => (Holds(s)' <=> Holds(s))
    BY <1>1 DEF Holds
  <1>3. Mutex'
    BY <1>2, MutexStays DEF DashInv
  <1>4. DashTyped'
    BY <1>1 DEF DashInv, DashTyped
  <1> QED
    BY <1>1, <1>3, <1>4 DEF DashInv

LEMMA DashNextInv == DashInv /\ [DashNext]_dashVars => DashInv'
  <1> SUFFICES ASSUME DashInv, [DashNext]_dashVars PROVE DashInv'
    OBVIOUS
  <1> USE DashboardAssumption DEF Never
  <1>0. /\ now \in 0..MaxNow /\ now \in Nat /\ cache \in {Never} \cup 0..now
        /\ cachedAt \in {Never} \cup 0..now
        /\ request \in [Viewers -> ViewerRequests] /\ locked \in BOOLEAN /\ StampIsClose
        /\ \A r \in Viewers : InTime(r) /\ AnswerIsFresh(r)
    BY DEF DashInv, DashTyped
  <1>f. ASSUME NEW r \in Viewers
        PROVE  request[r] \in ViewerRequests /\ InTime(r) /\ AnswerIsFresh(r)
    BY <1>0
  \* An answer ends a request.
  <1>a. ASSUME NEW r \in Viewers, NEW q \in ViewerRequests, request' = [request EXCEPT ![r] = q],
               q.pc = "answered", q.at = now, q.seen <= now, q.shown <= now,
               q.flag \in {"cached", "fresh"} /\ ~q.raced =>
                 now < q.shown + TTL + Timeout + VersionTimeout,
               now' = now, cache' = cache, cachedAt' \in {Never} \cup 0..now, StampIsClose',
               \/ ~Holds(r) /\ locked' = locked
               \/ Holds(r) /\ locked' = FALSE
        PROVE  DashInv'
    <2>1. request'[r] = q
      BY <1>0, <1>a
    <2>2. InTime(r)'
      BY <1>a, <2>1 DEF InTime
    <2>3. AnswerIsFresh(r)'
      BY <1>a, <2>1 DEF AnswerIsFresh
    <2>4. ~Holds(r)'
      BY <1>a, <2>1 DEF Holds
    <2>5. locked' \in BOOLEAN /\ (\/ locked' = locked /\ (Holds(r)' <=> Holds(r))
                                  \/ Holds(r) /\ ~Holds(r)' /\ locked' = FALSE)
      BY <1>0, <1>a, <2>4
    <2> QED
      BY <1>0, <1>a, <2>2, <2>3, <2>4, <2>5, ViewerStep
  \* What Answered makes of a request.
  <1>b. ASSUME NEW r \in Viewers, NEW flag \in {"cached", "refreshing", "429", "stale", "400", "fresh"},
               NEW shown \in {Never} \cup 0..now
        PROVE  \E q \in ViewerRequests :
                 /\ Answered(r, flag, shown) = [request EXCEPT ![r] = q]
                 /\ q.pc = "answered" /\ q.flag = flag /\ q.shown = shown /\ q.at = now
                 /\ q.seen <= now /\ q.raced = request[r].raced
    <2> DEFINE q == [request[r] EXCEPT !.pc = "answered", !.flag = flag, !.shown = shown, !.at = now]
    <2>1. Answered(r, flag, shown) = [request EXCEPT ![r] = q]
      BY <1>0 DEF Answered
    <2>2. /\ q \in ViewerRequests /\ q.pc = "answered" /\ q.flag = flag /\ q.shown = shown
          /\ q.at = now
      <3>1. shown \in Nat \cup {Never} /\ now \in Nat
        BY <1>0
      <3> HIDE DEF Never
      <3>2. request[r] \in ViewerRequests
        BY <1>f
      <3> QED
        BY <3>1, <3>2 DEF ViewerRequests
    <2>3. q.seen <= now /\ q.raced = request[r].raced
      BY <1>f DEF ViewerRequests, AnswerIsFresh
    <2> QED
      BY <2>1, <2>2, <2>3
  <1>1. ASSUME NEW r \in Viewers, ReadCache(r) PROVE DashInv'
    <2> DEFINE q == [IdleRequest EXCEPT !.pc = IF cache = Never THEN "lock" ELSE "look", !.seen = cache]
    <2>1. request' = [request EXCEPT ![r] = q] /\ UNCHANGED <<now, cache, cachedAt, locked>>
          /\ request[r].pc \in {"idle", "answered"}
      BY <1>1 DEF ReadCache
    <2>2. /\ q \in ViewerRequests /\ q.pc \in {"lock", "look"} /\ q.flag = "none"
          /\ q.seen = cache /\ q.shown = Never
      <3>1. cache \in Nat \cup {Never}
        BY <1>0
      <3> HIDE DEF Never
      <3>2. IdleRequest \in ViewerRequests
        BY DEF IdleRequest, ViewerRequests
      <3> QED
        BY <3>1, <3>2 DEF IdleRequest, ViewerRequests
    <2> HIDE DEF q
    <2>3. request'[r] = q
      BY <1>0, <2>1
    <2>4. InTime(r)' /\ AnswerIsFresh(r)'
      BY <1>0, <2>1, <2>2, <2>3 DEF InTime, AnswerIsFresh
    <2>5. Holds(r)' <=> Holds(r)
      BY <2>1, <2>2, <2>3 DEF Holds
    <2> QED
      BY <1>0, <2>1, <2>2, <2>4, <2>5, ViewerStep DEF StampIsClose
  \* A step that does nothing but change pc, and the times.
  <1>c. ASSUME NEW r \in Viewers, NEW q \in ViewerRequests, request' = [request EXCEPT ![r] = q],
               q.seen = request[r].seen, q.shown = request[r].shown, q.flag = request[r].flag, q.at = request[r].at,
               q.raced = request[r].raced,
               now' = now, cachedAt' = cachedAt, cache' = cache \/ Holds(r),
               cache' \in {Never} \cup 0..now, locked' \in BOOLEAN, StampIsClose',
               \/ locked' = locked /\ (Holds(r) <=> q.pc \in {"recheck", "list", "pods", "version",
                                                           "store", "stamp"})
               \/ ~locked /\ locked' = TRUE /\ q.pc = "recheck",
               request'[r] = q => InTime(r)'
        PROVE  DashInv'
    <2>1. request'[r] = q
      BY <1>0, <1>c
    <2>2. AnswerIsFresh(r)'
      BY <1>f, <1>c, <2>1 DEF AnswerIsFresh
    <2>3. \/ locked' = locked /\ (Holds(r)' <=> Holds(r))
          \/ ~locked /\ locked' = TRUE /\ Holds(r)'
      BY <1>c, <2>1 DEF Holds
    <2> QED
      BY <1>0, <1>c, <2>1, <2>2, <2>3, ViewerStep
  <1>2. ASSUME NEW r \in Viewers, ReadTime(r) PROVE DashInv'
    <2>0. request[r].pc = "look" /\ UNCHANGED <<now, cache, cachedAt, locked>> /\ ~Holds(r)
      BY <1>2 DEF ReadTime, Holds
    <2>1. CASE Fresh /\ \E shown \in {cache, request[r].seen} :
                 request' = [Answered(r, "cached", shown) EXCEPT ![r].raced = shown # cache]
      <3>1. PICK shown \in {cache, request[r].seen} :
              request' = [Answered(r, "cached", shown) EXCEPT ![r].raced = shown # cache]
        BY <2>1
      <3> DEFINE raced == shown # cache
                 q == [request[r] EXCEPT !.pc = "answered", !.flag = "cached", !.shown = shown,
                                         !.at = now, !.raced = raced]
      <3>2. request' = [request EXCEPT ![r] = q]
        BY <1>0, <3>1 DEF Answered
      <3>3. raced \in BOOLEAN /\ (~raced => shown = cache)
        OBVIOUS
      <3>4. cachedAt # Never /\ now < cachedAt + TTL
        BY <1>0, <2>1 DEF Fresh
      <3>5. cache # Never /\ now < cache + TTL + Timeout + VersionTimeout
        BY <1>0, <3>4 DEF StampIsClose
      <3>6. /\ q \in ViewerRequests /\ q.pc = "answered" /\ q.at = now /\ q.seen <= now
            /\ q.shown = shown /\ q.raced = raced
        <4>1. shown \in Nat \cup {Never} /\ now \in Nat
          BY <1>0, <1>f DEF ViewerRequests
        <4>2. request[r] \in ViewerRequests /\ request[r].seen <= now
          BY <1>f DEF AnswerIsFresh
        <4> HIDE DEF Never, raced
        <4> QED
          BY <3>3, <4>1, <4>2 DEF ViewerRequests
      <3>7. shown <= now
        BY <1>0, <1>f DEF AnswerIsFresh
      <3> HIDE DEF q, raced
      <3> QED
        BY <1>0, <1>a, <2>0, <3>2, <3>3, <3>5, <3>6, <3>7 DEF StampIsClose
    <2>2. CASE ~Fresh /\ Goto(r, "lock")
      <3> DEFINE q == [request[r] EXCEPT !.pc = "lock"]
      <3>1. request' = [request EXCEPT ![r] = q]
        BY <1>0, <2>2 DEF Goto
      <3>2. /\ q \in ViewerRequests /\ q.pc = "lock" /\ q.shown = request[r].shown
            /\ q.seen = request[r].seen
            /\ q.flag = request[r].flag /\ q.at = request[r].at /\ q.raced = request[r].raced
        BY <1>f DEF ViewerRequests
      <3> HIDE DEF q
      <3>3. request'[r] = q => InTime(r)'
        BY <3>2 DEF InTime
      <3> QED
        BY <1>0, <1>c, <2>0, <3>1, <3>2, <3>3 DEF StampIsClose
    <2> QED
      BY <1>2, <2>1, <2>2 DEF ReadTime
  <1>3. ASSUME NEW r \in Viewers, TryLock(r) PROVE DashInv'
    <2>0. request[r].pc = "lock" /\ UNCHANGED <<now, cache, cachedAt>> /\ ~Holds(r)
      BY <1>3 DEF TryLock, Holds
    <2>1. CASE ~locked /\ locked' = TRUE /\ Goto(r, "recheck")
      <3> DEFINE q == [request[r] EXCEPT !.pc = "recheck"]
      <3>1. request' = [request EXCEPT ![r] = q]
        BY <1>0, <2>1 DEF Goto
      <3>2. /\ q \in ViewerRequests /\ q.pc = "recheck" /\ q.shown = request[r].shown
            /\ q.seen = request[r].seen
            /\ q.flag = request[r].flag /\ q.at = request[r].at /\ q.raced = request[r].raced
        BY <1>f DEF ViewerRequests
      <3> HIDE DEF q
      <3>3. request'[r] = q => InTime(r)'
        BY <3>2 DEF InTime
      <3> QED
        BY <1>0, <1>c, <2>0, <2>1, <3>1, <3>2, <3>3 DEF StampIsClose
    <2>2. ASSUME UNCHANGED locked, NEW flag \in {"refreshing", "429"}, NEW shown \in {cache, Never},
                 request' = Answered(r, flag, shown)
          PROVE  DashInv'
      <3>1. PICK q \in ViewerRequests :
              /\ request' = [request EXCEPT ![r] = q]
              /\ q.pc = "answered" /\ q.flag = flag /\ q.shown = shown /\ q.at = now
              /\ q.seen <= now
        BY <1>0, <1>b, <2>2
      <3>2. q.shown <= now
        BY <1>0, <3>1
      <3> QED
        BY <1>0, <1>a, <2>0, <2>2, <3>1, <3>2 DEF StampIsClose
    <2> QED
      BY <1>3, <2>1, <2>2 DEF TryLock
  <1>4. ASSUME NEW r \in Viewers, Recheck(r) PROVE DashInv'
    <2>0. request[r].pc = "recheck" /\ UNCHANGED <<now, cache, cachedAt>> /\ Holds(r)
      BY <1>4 DEF Recheck, Holds
    <2>1. CASE cache # Never /\ Fresh /\ locked' = FALSE /\ request' = Answered(r, "cached", cache)
      <3>1. PICK q \in ViewerRequests :
              /\ request' = [request EXCEPT ![r] = q]
              /\ q.pc = "answered" /\ q.shown = cache /\ q.at = now /\ q.seen <= now
        BY <1>0, <1>b, <2>1
      <3>2. cachedAt # Never /\ now < cachedAt + TTL
        BY <1>0, <2>1 DEF Fresh
      <3>3. now < cache + TTL + Timeout + VersionTimeout
        BY <1>0, <3>2 DEF StampIsClose
      <3>4. q.shown <= now
        BY <1>0, <3>1
      <3> QED
        BY <1>0, <1>a, <2>0, <2>1, <3>1, <3>3, <3>4 DEF StampIsClose
    <2>2. CASE /\ request' = [request EXCEPT ![r].pc = "list", ![r].since = now]
               /\ UNCHANGED locked
      <3> DEFINE q == [request[r] EXCEPT !.pc = "list", !.since = now]
      <3>1. request' = [request EXCEPT ![r] = q]
        BY <1>0, <2>2
      <3>2. /\ q \in ViewerRequests /\ q.pc = "list" /\ q.shown = request[r].shown
            /\ q.seen = request[r].seen /\ q.since = now
            /\ q.flag = request[r].flag /\ q.at = request[r].at /\ q.raced = request[r].raced
        BY <1>0, <1>f DEF ViewerRequests
      <3> HIDE DEF q
      <3>3. request'[r] = q => InTime(r)'
        BY <1>0, <2>0, <3>2 DEF InTime
      <3> QED
        BY <1>0, <1>c, <2>0, <2>2, <3>1, <3>2, <3>3 DEF StampIsClose
    <2> QED
      BY <1>4, <2>1, <2>2 DEF Recheck
  <1>5. ASSUME NEW r \in Viewers, ListNodes(r) PROVE DashInv'
    <2>0. request[r].pc = "list" /\ UNCHANGED <<now, cache, cachedAt, locked>> /\ Holds(r)
      BY <1>5 DEF ListNodes, Holds
    <2> DEFINE q == [request[r] EXCEPT !.pc = "pods", !.listed = now]
    <2>1. request' = [request EXCEPT ![r] = q]
      BY <1>0, <1>5 DEF ListNodes
    <2>2. /\ q \in ViewerRequests /\ q.pc = "pods" /\ q.shown = request[r].shown
          /\ q.seen = request[r].seen /\ q.since = request[r].since /\ q.listed = now
          /\ q.flag = request[r].flag /\ q.at = request[r].at /\ q.raced = request[r].raced
      BY <1>0, <1>f DEF ViewerRequests
    <2> HIDE DEF q
    <2>3. request'[r] = q => InTime(r)'
      BY <1>0, <1>f, <2>0, <2>2 DEF InTime
    <2> QED
      BY <1>0, <1>c, <2>0, <2>1, <2>2, <2>3 DEF StampIsClose
  <1>6. ASSUME NEW r \in Viewers, ListPods(r) PROVE DashInv'
    <2>0. request[r].pc = "pods" /\ UNCHANGED <<now, cache, cachedAt, locked>> /\ Holds(r)
      BY <1>6 DEF ListPods, Holds
    <2> DEFINE q == [request[r] EXCEPT !.pc = "version", !.since = now]
    <2>1. request' = [request EXCEPT ![r] = q]
      BY <1>0, <1>6 DEF ListPods
    <2>2. /\ q \in ViewerRequests /\ q.pc = "version" /\ q.shown = request[r].shown
          /\ q.seen = request[r].seen /\ q.since = now /\ q.listed = request[r].listed
          /\ q.flag = request[r].flag /\ q.at = request[r].at /\ q.raced = request[r].raced
      BY <1>0, <1>f DEF ViewerRequests
    <2> HIDE DEF q
    <2>3. request'[r] = q => InTime(r)'
      <3>1. request[r].since \in Nat
        BY <1>f DEF ViewerRequests
      <3> QED
        BY <1>0, <1>f, <2>0, <2>2, <3>1 DEF InTime
    <2> QED
      BY <1>0, <1>c, <2>0, <2>1, <2>2, <2>3 DEF StampIsClose
  <1>7. ASSUME NEW r \in Viewers, Version(r) PROVE DashInv'
    <2>0. request[r].pc = "version" /\ UNCHANGED <<now, cache, cachedAt, locked>> /\ Holds(r)
      BY <1>7 DEF Version, Holds
    <2> DEFINE q == [request[r] EXCEPT !.pc = "store"]
    <2>1. request' = [request EXCEPT ![r] = q]
      BY <1>0, <1>7 DEF Version, Goto
    <2>2. /\ q \in ViewerRequests /\ q.pc = "store" /\ q.shown = request[r].shown
          /\ q.seen = request[r].seen /\ q.listed = request[r].listed
          /\ q.flag = request[r].flag /\ q.at = request[r].at /\ q.raced = request[r].raced
      BY <1>0, <1>f DEF ViewerRequests
    <2> HIDE DEF q
    <2>3. request'[r] = q => InTime(r)'
      <3>1. request[r].since \in Nat
        BY <1>f DEF ViewerRequests
      <3> QED
        BY <1>0, <1>f, <2>0, <2>2, <3>1 DEF InTime
    <2> QED
      BY <1>0, <1>c, <2>0, <2>1, <2>2, <2>3 DEF StampIsClose
  <1>8. ASSUME NEW r \in Viewers, ListFails(r) PROVE DashInv'
    <2>0. Holds(r) /\ UNCHANGED <<now, cache, cachedAt>> /\ locked' = FALSE
      BY <1>8 DEF ListFails, Holds
    <2>1. ASSUME NEW flag \in {"stale", "400"}, NEW shown \in {cache, Never},
                 request' = Answered(r, flag, shown)
          PROVE  DashInv'
      <3>1. PICK q \in ViewerRequests :
              /\ request' = [request EXCEPT ![r] = q]
              /\ q.pc = "answered" /\ q.flag = flag /\ q.shown = shown /\ q.at = now
              /\ q.seen <= now
        BY <1>0, <1>b, <2>1
      <3>2. q.shown <= now
        BY <1>0, <3>1
      <3> QED
        BY <1>0, <1>a, <2>0, <2>1, <3>1, <3>2 DEF StampIsClose
    <2> QED
      BY <1>8, <2>1 DEF ListFails
  <1>9. ASSUME NEW r \in Viewers, StoreCache(r) PROVE DashInv'
    <2>0. /\ request[r].pc = "store" /\ UNCHANGED <<now, cachedAt, locked>> /\ Holds(r)
          /\ cache' = request[r].listed
      BY <1>9 DEF StoreCache, Holds
    <2> DEFINE q == [request[r] EXCEPT !.pc = "stamp"]
    <2>1. request' = [request EXCEPT ![r] = q]
      BY <1>0, <1>9 DEF StoreCache, Goto
    <2>2. /\ q \in ViewerRequests /\ q.pc = "stamp" /\ q.shown = request[r].shown
          /\ q.seen = request[r].seen /\ q.listed = request[r].listed
          /\ q.flag = request[r].flag /\ q.at = request[r].at /\ q.raced = request[r].raced
      BY <1>0, <1>f DEF ViewerRequests
    <2> HIDE DEF q
    <2>3. request'[r] = q => InTime(r)'
      BY <1>0, <1>f, <2>0, <2>2 DEF InTime
    <2>4. cache' \in 0..now /\ now <= cache' + Timeout + VersionTimeout
      BY <1>0, <1>f, <2>0 DEF InTime
    <2>5. StampIsClose'
      BY <1>0, <2>0, <2>4 DEF StampIsClose
    <2> QED
      BY <1>0, <1>c, <2>0, <2>1, <2>2, <2>3, <2>4, <2>5
  <1>10. ASSUME NEW r \in Viewers, StoreTime(r) PROVE DashInv'
    <2>0. /\ request[r].pc = "stamp" /\ UNCHANGED <<now, cache>> /\ Holds(r)
          /\ cachedAt' = now /\ locked' = FALSE
      BY <1>10 DEF StoreTime, Holds
    <2>1. request[r].listed = cache /\ cache \in 0..now /\ now <= cache + Timeout + VersionTimeout
      BY <1>0, <1>f, <2>0 DEF InTime
    <2>2. PICK q \in ViewerRequests :
            /\ request' = [request EXCEPT ![r] = q]
            /\ q.pc = "answered" /\ q.shown = cache /\ q.at = now /\ q.seen <= now
      BY <1>0, <1>b, <1>10, <2>1 DEF StoreTime
    <2>3. StampIsClose'
      BY <1>0, <2>0, <2>1 DEF StampIsClose
    <2>4. now < q.shown + TTL + Timeout + VersionTimeout /\ q.shown <= now
      BY <1>0, <2>1, <2>2
    <2>5. cache' = cache /\ now' = now /\ cachedAt' \in {Never} \cup 0..now
          /\ Holds(r) /\ locked' = FALSE
      BY <1>0, <2>0
    <2>6. q.flag \in {"cached", "fresh"} /\ ~q.raced =>
            now < q.shown + TTL + Timeout + VersionTimeout
      BY <2>4
    <2> HIDE DEF Never
    <2> QED
      BY <1>a, <2>2, <2>3, <2>4, <2>5, <2>6
  <1>11. CASE Pass
    <2>1. /\ now' = now + 1 /\ now < MaxNow /\ UNCHANGED <<cache, cachedAt, locked, request>>
          /\ \A r \in Viewers : request[r].pc \notin {"idle", "answered"} =>
               Patience(r) > 0 /\ now < request[r].since + Patience(r)
      BY <1>11 DEF Pass
    <2>2. ASSUME NEW r \in Viewers PROVE InTime(r)'
      <3>1. /\ request[r].since \in Nat /\ InTime(r)
            /\ request[r].pc \in {"idle", "look", "lock", "recheck", "list", "pods", "version",
                                 "store", "stamp", "answered"}
        BY <1>f DEF ViewerRequests
      <3>2. CASE request[r].pc \in {"list", "pods"}
        <4>1. now < request[r].since + Timeout
          BY <2>1, <3>2 DEF Patience
        <4> QED
          BY <1>0, <2>1, <3>1, <3>2, <4>1 DEF InTime
      <3>3. CASE request[r].pc = "version"
        <4>1. now < request[r].since + VersionTimeout
          BY <2>1, <3>3 DEF Patience
        <4> QED
          BY <1>0, <2>1, <3>1, <3>3, <4>1 DEF InTime
      <3>4. request[r].pc \notin {"store", "stamp"}
        BY <2>1 DEF Patience
      <3> QED
        BY <2>1, <3>1, <3>2, <3>3, <3>4 DEF InTime
    <2>3. ASSUME NEW r \in Viewers PROVE AnswerIsFresh(r)'
      <3>1. AnswerIsFresh(r) /\ request[r].seen \in Nat \cup {Never}
            /\ request[r].shown \in Nat \cup {Never}
        BY <1>f DEF ViewerRequests
      <3> QED
        BY <1>0, <2>1, <3>1 DEF AnswerIsFresh
    <2>4. Mutex'
      BY <2>1 DEF DashInv, Mutex, Holds
    <2>5. DashTyped' /\ StampIsClose'
      BY <1>0, <2>1 DEF DashTyped, StampIsClose
    <2> QED
      BY <2>2, <2>3, <2>4, <2>5 DEF DashInv
  <1>12. CASE UNCHANGED dashVars
    BY <1>0, <1>12 DEF dashVars, DashInv, DashTyped, Mutex, Holds, StampIsClose, InTime, AnswerIsFresh
  <1> QED
    BY <1>1, <1>2, <1>3, <1>4, <1>5, <1>6, <1>7, <1>8, <1>9, <1>10, <1>11, <1>12 DEF DashNext

LEMMA DashSpecInv == DashSpec => []DashInv
  BY DashInitInv, DashNextInv, PTL DEF DashSpec

\* Every variable keeps its type, and the mutex is held by one request or none.
THEOREM DashTypes == DashSpec => []DashTypeOK
  <1>1. DashInv => DashTypeOK
    BY DEF DashInv, DashTyped, Mutex, Holds, AnswerIsFresh, DashTypeOK
  <1> QED
    BY <1>1, DashSpecInv, PTL

\* What is shown as good is no older than the cache lives and a refresh takes: for
\* any number of requests and every choice of the durations, unless an answer was
\* read while the cache was written (RuntimeHandler.dashboard).
THEOREM DashboardIsFresh == DashSpec => []DashboardFresh
  <1>1. DashInv => DashboardFresh
    <2> SUFFICES ASSUME DashInv, NEW r \in Viewers,
                        request[r].flag \in {"cached", "fresh"} /\ ~request[r].raced
                 PROVE  request[r].at - request[r].shown < TTL + Timeout + VersionTimeout
      BY DEF DashboardFresh
    <2>1. AnswerIsFresh(r) /\ request[r].at \in Nat /\ request[r].shown \in Int
      BY DEF DashInv, DashTyped, ViewerRequests, Never
    <2> QED
      BY <2>1, DashboardAssumption DEF AnswerIsFresh
  <1> QED
    BY <1>1, DashSpecInv, PTL
-----------------------------------------------------------------------------
(* The tags of an image.                                                   *)

\* A set of numbers that is not empty has a least one, and a set of tags a
\* greatest one, which Max is.
LEMMA LeastNumber ==
  ASSUME NEW T, T \subseteq Nat, T # {}
  PROVE  \E x \in T : \A y \in T : x <= y
  <1>1. \E x \in T : \A y \in T : <<y, x>> \notin OpToRel(<, Nat)
    BY NatLessThanWellFounded, WFMin
  <1>2. \A x, y \in Nat : <<y, x>> \notin OpToRel(<, Nat) => x <= y
    BY DEF OpToRel
  <1> QED
    BY <1>1, <1>2

LEMMA GreatestTag ==
  ASSUME NEW T, T \subseteq RemoteTags, T # {}
  PROVE  Max(T) \in T /\ \A y \in T : y <= Max(T)
  <1> USE TagsAssumption DEF RemoteTags
  <1> DEFINE below == {MaxTag - t : t \in T}
  <1>1. below \subseteq Nat /\ below # {}
    <2>1. \A t \in T : MaxTag - t \in Nat
      OBVIOUS
    <2> QED
      BY <2>1
  <1>2. PICK b \in below : \A y \in below : b <= y
    BY <1>1, LeastNumber
  <1>3. PICK x \in T : b = MaxTag - x
    OBVIOUS
  <1>4. \A y \in T : x >= y
    BY <1>2, <1>3
  <1> QED
    BY <1>4 DEF Max

\* A page that is not the last one holds the tags up to its greatest.
LEMMA PageIsAPrefix ==
  ASSUME remote \subseteq RemoteTags, NEW last \in 0..MaxTag, HasNext(last)
  PROVE  /\ Max(Page(last)) \in Page(last)
         /\ \A t \in remote : t > last /\ t <= Max(Page(last)) => t \in Page(last)
  <1> USE TagsAssumption
  <1> DEFINE after == {t \in remote : t > last}
             before(t) == {u \in after : u < t}
  <1>1. IsFiniteSet(RemoteTags) /\ after \subseteq RemoteTags
    <2>1. IsFiniteSet(1..MaxTag)
      BY FS_Interval
    <2> QED
      BY <2>1 DEF RemoteTags
  <1>2. Page(last) = {t \in after : Cardinality(before(t)) < PageSize}
    BY DEF Page
  <1>3. after \subseteq Nat /\ after # {}
    BY <1>1, <1>2 DEF HasNext, RemoteTags
  <1>4. PICK least \in after : \A y \in after : least <= y
    BY <1>3, LeastNumber
  <1>5. before(least) = {}
    BY <1>3, <1>4
  <1>6. least \in Page(last)
    BY <1>2, <1>5, FS_EmptySet
  <1>7. Page(last) \subseteq RemoteTags
    BY <1>1, <1>2
  <1>8. Max(Page(last)) \in Page(last)
    BY <1>6, <1>7, GreatestTag
  <1>9. ASSUME NEW t \in remote, t > last, t <= Max(Page(last)) PROVE t \in Page(last)
    <2> DEFINE m == Max(Page(last))
    <2>1. m \in after /\ Cardinality(before(m)) < PageSize
      BY <1>2, <1>8
    <2>2. t \in after /\ t <= m
      BY <1>9
    <2> HIDE DEF m, after
    <2>3. before(t) \subseteq before(m)
      <3>1. \A u \in after : u < t => u < m
        BY <1>3, <2>1, <2>2
      <3> QED
        BY <3>1
    <2>4. IsFiniteSet(before(m)) /\ before(m) \subseteq after
      BY <1>1, FS_Subset
    <2>5. Cardinality(before(t)) <= Cardinality(before(m)) /\ IsFiniteSet(before(t))
      BY <2>3, <2>4, FS_Subset
    <2>6. Cardinality(before(t)) \in Nat /\ Cardinality(before(m)) \in Nat
      BY <2>4, <2>5, FS_CardinalityType
    <2> QED
      BY <1>2, <2>1, <2>2, <2>5, <2>6
  <1> QED
    BY <1>8, <1>9

TagRequests ==
  [pc : {"idle", "list", "done", "failed"}, row : TagCalls \cup {"none"}, last : 0..MaxTag,
   got : SUBSET RemoteTags, visited : 0..MaxVisits, bearer : BOOLEAN,
   always : SUBSET RemoteTags, ever : SUBSET RemoteTags]

LEMMA IdleTagCallIsARequest == IdleTagCall \in TagRequests
  BY TagsAssumption DEF IdleTagCall, TagRequests

TagTyped ==
  /\ remote \subseteq RemoteTags /\ private \in BOOLEAN /\ readable \in BOOLEAN /\ source \in BOOLEAN
  /\ image \in [TagCalls -> [there : BOOLEAN, tags : SUBSET RemoteTags]]
  /\ tagCall \in [TagCalls -> TagRequests]

\* What a listing has, up to the last tag it has read; and at its end.
HasTheTags(c) ==
  LET s == tagCall[c] IN
  /\ s.pc = "list" =>
       /\ s.row \in TagCalls /\ s.always \subseteq remote /\ remote \subseteq s.ever
       /\ s.got \subseteq s.ever /\ \A t \in s.always : t <= s.last => t \in s.got
  /\ s.pc = "done" => (readable => s.always \subseteq s.got) /\ s.got \subseteq s.ever

TagInv == TagTyped /\ \A c \in TagCalls : HasTheTags(c)

LEMMA TagInitInv == TagInit => TagInv
  <1> SUFFICES ASSUME TagInit PROVE TagInv
    OBVIOUS
  <1>1. TagTyped
    <2>1. private \in BOOLEAN /\ readable \in BOOLEAN /\ source \in BOOLEAN
      BY Zenon DEF TagInit
    <2> QED
      BY <2>1, TagsAssumption DEF TagInit, TagTyped, NoImage, IdleTagCall, TagRequests
  <1>2. \A c \in TagCalls : HasTheTags(c)
    BY DEF TagInit, HasTheTags, IdleTagCall
  <1> QED
    BY <1>1, <1>2 DEF TagInv

\* A step of one call, which leaves the registry as it is.
LEMMA TagCallStep ==
  ASSUME TagInv, NEW c \in TagCalls, NEW s \in TagRequests,
         tagCall' = [tagCall EXCEPT ![c] = s], UNCHANGED <<remote, private, readable, source>>,
         image' \in [TagCalls -> [there : BOOLEAN, tags : SUBSET RemoteTags]],
         s.pc = "list" =>
           /\ s.row \in TagCalls /\ s.always \subseteq remote /\ remote \subseteq s.ever
           /\ s.got \subseteq s.ever /\ \A t \in s.always : t <= s.last => t \in s.got,
         s.pc = "done" => (readable => s.always \subseteq s.got) /\ s.got \subseteq s.ever
  PROVE  TagInv'
  <1>1. TagTyped'
    BY DEF TagInv, TagTyped
  <1>2. ASSUME NEW d \in TagCalls PROVE HasTheTags(d)'
    <2>1. tagCall'[d] = IF d = c THEN s ELSE tagCall[d]
      BY DEF TagInv, TagTyped
    <2>2. HasTheTags(d)
      BY DEF TagInv
    <2> QED
      BY <2>1, <2>2 DEF HasTheTags
  <1> QED
    BY <1>1, <1>2 DEF TagInv

LEMMA TagNextInv == TagInv /\ [TagNext]_tagVars => TagInv'
  <1> SUFFICES ASSUME TagInv, [TagNext]_tagVars PROVE TagInv'
    OBVIOUS
  <1>0. /\ remote \subseteq RemoteTags /\ private \in BOOLEAN /\ readable \in BOOLEAN /\ source \in BOOLEAN
        /\ image \in [TagCalls -> [there : BOOLEAN, tags : SUBSET RemoteTags]]
        /\ tagCall \in [TagCalls -> TagRequests]
        /\ \A c \in TagCalls : HasTheTags(c)
    BY DEF TagInv, TagTyped
  <1>i. ASSUME NEW c \in TagCalls, NEW got \in SUBSET RemoteTags
        PROVE  [image EXCEPT ![c].tags = IF image[c].there THEN got ELSE @]
                 \in [TagCalls -> [there : BOOLEAN, tags : SUBSET RemoteTags]]
    BY <1>0
  <1>1. ASSUME NEW c \in TagCalls, Track(c) \/ RefreshImage(c) PROVE TagInv'
    <2>1. /\ UNCHANGED <<remote, private, readable, source>>
          /\ image' \in [TagCalls -> [there : BOOLEAN, tags : SUBSET RemoteTags]]
      <3>1. CASE Track(c)
        BY <1>0, <3>1 DEF Track
      <3>2. CASE RefreshImage(c)
        BY <1>0, <3>2 DEF RefreshImage
      <3> QED
        BY <1>1, <3>1, <3>2
    <2>2. PICK row \in TagCalls : tagCall' = StartListing(c, row)
      BY <1>1 DEF Track, RefreshImage
    <2> DEFINE s == [IdleTagCall EXCEPT !.pc = "list", !.row = row, !.always = remote, !.ever = remote]
    <2>3. tagCall' = [tagCall EXCEPT ![c] = s]
      BY <2>2 DEF StartListing
    <2>4. /\ s \in TagRequests /\ s.pc = "list" /\ s.row = row /\ s.always = remote /\ s.ever = remote
          /\ s.got = {} /\ s.last = 0
      <3>1. s \in TagRequests
        BY <1>0, IdleTagCallIsARequest DEF TagRequests
      <3> QED
        BY <3>1 DEF IdleTagCall
    <2>5. \A t \in remote : ~(t <= 0)
      BY <1>0, TagsAssumption DEF RemoteTags
    <2> HIDE DEF s
    <2> QED
      BY <2>1, <2>3, <2>4, <2>5, TagCallStep
  <1>f. ASSUME NEW c \in TagCalls, FailListing(c), UNCHANGED <<remote, private, readable, source>> PROVE TagInv'
    <2> DEFINE s == [IdleTagCall EXCEPT !.pc = "failed"]
    <2>1. tagCall' = [tagCall EXCEPT ![c] = s] /\ image' = image
      BY <1>f DEF FailListing
    <2>2. s \in TagRequests /\ s.pc = "failed"
      BY IdleTagCallIsARequest DEF TagRequests
    <2> HIDE DEF s
    <2> QED
      BY <1>0, <1>f, <2>1, <2>2, TagCallStep
  <1>2. ASSUME NEW c \in TagCalls, Follow(c) PROVE TagInv'
    <2> DEFINE old == tagCall[c]
               page == Page(old.last)
               got == old.got \cup page
    <2>0. /\ UNCHANGED <<remote, private, readable, source>> /\ old.pc = "list"
          /\ old \in TagRequests /\ HasTheTags(c)
      BY <1>0, <1>2 DEF Follow, Listing
    <2>1. /\ old.row \in TagCalls /\ old.always \subseteq remote /\ remote \subseteq old.ever
          /\ old.got \subseteq old.ever /\ \A t \in old.always : t <= old.last => t \in old.got
      BY <2>0 DEF HasTheTags
    <2>2. page \subseteq remote /\ got \subseteq old.ever /\ got \in SUBSET RemoteTags
      BY <1>0, <2>0, <2>1 DEF Page, TagRequests
    <2>3. ASSUME old.visited < MaxVisits, UNCHANGED image,
                 tagCall' = [tagCall EXCEPT ![c].bearer = TRUE, ![c].visited = @ + 1]
          PROVE  TagInv'
      <3> DEFINE s == [old EXCEPT !.bearer = TRUE, !.visited = old.visited + 1]
      <3>1. tagCall' = [tagCall EXCEPT ![c] = s]
        BY <1>0, <2>3
      <3>2. old.visited + 1 \in 0..MaxVisits
        BY <2>0, <2>3, TagsAssumption DEF TagRequests
      <3>3. /\ s \in TagRequests /\ s.pc = old.pc /\ s.row = old.row /\ s.always = old.always
            /\ s.ever = old.ever /\ s.got = old.got /\ s.last = old.last
        BY <2>0, <3>2 DEF TagRequests
      <3> HIDE DEF s, old
      <3> QED
        BY <1>0, <2>0, <2>1, <2>3, <3>1, <3>3, TagCallStep
    <2>4. ASSUME old.visited < MaxVisits, HasNext(old.last), UNCHANGED image,
                 tagCall' = [tagCall EXCEPT ![c].got = got, ![c].visited = @ + 1,
                                            ![c].last = Max(page)]
          PROVE  TagInv'
      <3> DEFINE s == [old EXCEPT !.got = got, !.visited = old.visited + 1, !.last = Max(page)]
      <3>0. old.last \in 0..MaxTag
        BY <2>0 DEF TagRequests
      <3>1. tagCall' = [tagCall EXCEPT ![c] = s]
        BY <1>0, <2>4
      <3>2. old.visited + 1 \in 0..MaxVisits
        BY <2>0, <2>4, TagsAssumption DEF TagRequests
      <3>3. Max(page) \in page /\ \A t \in remote : t > old.last /\ t <= Max(page) => t \in page
        BY <1>0, <2>4, <3>0, PageIsAPrefix
      <3>4. Max(page) \in 0..MaxTag
        BY <1>0, <2>2, <3>3 DEF RemoteTags
      <3>5. ASSUME NEW t \in old.always, t <= Max(page) PROVE t \in got
        <4>1. t \in Nat /\ t \in remote
          <5>1. t \in remote /\ remote \subseteq RemoteTags
            BY <1>0, <2>1
          <5> QED
            BY <5>1, TagsAssumption DEF RemoteTags
        <4>2. t <= old.last \/ t > old.last
          BY <3>0, <4>1
        <4> QED
          BY <2>1, <3>3, <3>5, <4>1, <4>2
      <3> DEFINE m == Max(page)
      <3> HIDE DEF m, got
      <3>6. /\ s \in TagRequests /\ s.pc = old.pc /\ s.row = old.row /\ s.always = old.always
            /\ s.ever = old.ever /\ s.got = got /\ s.last = m
        BY <2>0, <2>2, <3>2, <3>4 DEF TagRequests, m
      <3>7. \A t \in old.always : t <= m => t \in got
        BY <3>5 DEF m
      <3> HIDE DEF s, old
      <3> QED
        BY <1>0, <2>0, <2>1, <2>2, <2>4, <3>1, <3>6, <3>7, TagCallStep
    <2>5. ASSUME ~HasNext(old.last), StoreTags(c, got) PROVE TagInv'
      <3> DEFINE s == [IdleTagCall EXCEPT !.pc = "done", !.got = got, !.always = old.always,
                                          !.ever = old.ever]
      <3>1. tagCall' = [tagCall EXCEPT ![c] = s]
        BY <2>5 DEF StoreTags
      <3>2. image' \in [TagCalls -> [there : BOOLEAN, tags : SUBSET RemoteTags]]
        BY <1>i, <2>1, <2>2, <2>5 DEF StoreTags
      <3>3. readable => old.always \subseteq got
        <4> SUFFICES ASSUME readable PROVE old.always \subseteq got
          OBVIOUS
        <4>1. page = {t \in remote : t > old.last}
          BY <2>5 DEF HasNext
        <4>2. \A t \in old.always : t <= old.last \/ t > old.last
          BY <1>0, <2>0, <2>1 DEF TagRequests, RemoteTags
        <4> QED
          BY <2>1, <4>1, <4>2
      <3> HIDE DEF got
      <3>4. /\ s \in TagRequests /\ s.pc = "done" /\ s.got = got /\ s.always = old.always
            /\ s.ever = old.ever
        BY <2>0, <2>2, IdleTagCallIsARequest DEF TagRequests
      <3> HIDE DEF s, old
      <3> QED
        BY <2>0, <2>2, <3>1, <3>2, <3>3, <3>4, TagCallStep
    <2>6. \/ FailListing(c)
          \/ /\ old.visited < MaxVisits /\ UNCHANGED image
             /\ tagCall' = [tagCall EXCEPT ![c].bearer = TRUE, ![c].visited = @ + 1]
          \/ /\ old.visited < MaxVisits /\ HasNext(old.last) /\ UNCHANGED image
             /\ tagCall' = [tagCall EXCEPT ![c].got = got, ![c].visited = @ + 1,
                                           ![c].last = Max(page)]
          \/ ~HasNext(old.last) /\ StoreTags(c, got)
      <3>1. \/ FailListing(c)
            \/ /\ old.visited < MaxVisits /\ UNCHANGED image
               /\ tagCall' = [tagCall EXCEPT ![c].bearer = TRUE, ![c].visited = @ + 1]
            \/ /\ old.visited < MaxVisits
               /\ IF HasNext(old.last)
                  THEN /\ tagCall' = [tagCall EXCEPT ![c].got = got, ![c].visited = @ + 1,
                                                     ![c].last = Max(page)]
                       /\ UNCHANGED image
                  ELSE StoreTags(c, got)
        BY <1>2 DEF Follow, mergeTags
      <3> QED
        BY <3>1
    <2> QED
      BY <1>f, <2>0, <2>3, <2>4, <2>5, <2>6
  <1>3. ASSUME NEW row \in TagCalls, DeleteImage(row) PROVE TagInv'
    <2>1. /\ UNCHANGED <<remote, private, readable, source, tagCall>>
          /\ image' \in [TagCalls -> [there : BOOLEAN, tags : SUBSET RemoteTags]]
      BY <1>0, <1>3 DEF DeleteImage, NoImage
    <2> QED
      BY <1>0, <2>1 DEF TagInv, TagTyped, HasTheTags
  <1>4. CASE DeleteRegistry
    <2>1. source' = FALSE /\ UNCHANGED <<remote, private, readable, image, tagCall>>
      BY <1>4 DEF DeleteRegistry
    <2> QED
      BY <1>0, <2>1 DEF TagInv, TagTyped, HasTheTags
  <1>5. CASE Push
    <2>1. PICK t \in RemoteTags :
            LET now_ == IF t \in remote THEN remote \ {t} ELSE remote \cup {t} IN
            /\ remote' = now_
            /\ tagCall' = [c \in TagCalls |-> IF Listing(c) THEN
                 [tagCall[c] EXCEPT !.always = @ \cap now_, !.ever = @ \cup now_] ELSE tagCall[c]]
      BY <1>5 DEF Push
    <2>2. UNCHANGED <<private, readable, source, image>> /\ remote' \subseteq RemoteTags
      BY <1>0, <1>5, <2>1 DEF Push
    <2>3. ASSUME NEW c \in TagCalls PROVE tagCall'[c] \in TagRequests /\ HasTheTags(c)'
      <3>1. tagCall[c] \in TagRequests /\ HasTheTags(c)
        BY <1>0
      <3>2. CASE Listing(c)
        <4> DEFINE s == [tagCall[c] EXCEPT !.always = @ \cap remote', !.ever = @ \cup remote']
        <4>1. tagCall'[c] = s
          BY <2>1, <3>2
        <4>2. /\ s \in TagRequests /\ s.pc = "list" /\ s.row = tagCall[c].row
              /\ s.got = tagCall[c].got /\ s.last = tagCall[c].last
              /\ s.always = tagCall[c].always \cap remote' /\ s.ever = tagCall[c].ever \cup remote'
          BY <2>2, <3>1, <3>2 DEF TagRequests, Listing
        <4> HIDE DEF s
        <4> QED
          BY <3>1, <3>2, <4>1, <4>2 DEF HasTheTags, Listing
      <3>3. CASE ~Listing(c)
        <4>1. tagCall'[c] = tagCall[c]
          BY <2>1, <3>3
        <4>2. readable' = readable /\ tagCall[c].pc # "list"
          BY <2>2, <3>3 DEF Listing
        <4> QED
          BY <3>1, <4>1, <4>2 DEF HasTheTags
      <3> QED
        BY <3>2, <3>3
    <2>4. tagCall' \in [TagCalls -> TagRequests]
      <3>1. tagCall' = [c \in TagCalls |-> tagCall'[c]]
        BY <2>1
      <3> QED
        BY <2>3, <3>1
    <2> QED
      BY <1>0, <2>2, <2>3, <2>4 DEF TagInv, TagTyped
  <1>6. CASE UNCHANGED tagVars
    <2>1. UNCHANGED <<remote, private, readable, source, image, tagCall>>
      BY <1>6 DEF tagVars
    <2>2. TagTyped'
      BY <1>0, <2>1 DEF TagTyped
    <2>3. \A c \in TagCalls : HasTheTags(c)'
      BY <1>0, <2>1 DEF HasTheTags
    <2> QED
      BY <2>2, <2>3 DEF TagInv
  <1> QED
    BY <1>1, <1>2, <1>3, <1>4, <1>5, <1>6 DEF TagNext

LEMMA TagSpecInv == TagSpec => []TagInv
  BY TagInitInv, TagNextInv, PTL DEF TagSpec

\* The rows of images and the listings keep their types.
THEOREM TagTypes == TagSpec => []TagTypeOK
  <1>1. TagInv => TagTypeOK
    BY DEF TagInv, TagTyped, TagRequests, TagTypeOK
  <1> QED
    BY <1>1, TagSpecInv, PTL

\* A listing that succeeds has none that never was in the registry, and every tag
\* that was there throughout if the registry's links can be read
\* (TagsLister.listTagsFollow), for every number of tags, size of a page and
\* number of calls.
THEOREM ListingsAreComplete == TagSpec => []TagsComplete
  <1>1. TagInv => TagsComplete
    BY DEF TagInv, HasTheTags, TagsComplete
  <1> QED
    BY <1>1, TagSpecInv, PTL
-----------------------------------------------------------------------------
(* The robots of Harbor and the pull secrets.                              *)

Robots == [name : RobotNames, token : Nat]

RobotRequests ==
  [pc : {"idle", "list", "delete", "create", "secret", "done", "failed"},
   owner : RobotOwners \cup {"none"}, found : SUBSET Robots, retried : BOOLEAN, token : Nat]

RobotTyped ==
  /\ robots \subseteq Robots /\ lastToken \in Nat
  /\ pullSecret \in [SecretNamespaces -> Nat] /\ robotCall \in [RobotCalls -> RobotRequests]
  /\ robotTrouble \subseteq {"failed", "overlap", "shared"}

\* Tokens have been given, and a call under way is for some owner.
TokensWereGiven ==
  /\ \A r \in robots : 0 < r.token /\ r.token <= lastToken
  /\ \A ns \in SecretNamespaces : pullSecret[ns] <= lastToken
  /\ \A c \in RobotCalls : robotCall[c].token <= lastToken
       /\ (RobotBusy(c) => robotCall[c].owner \in RobotOwners)

SpaceOfCall(c) == NamespaceOf[robotCall[c].owner]

CallsAreApart ==
  \A c, d \in RobotCalls : c # d /\ RobotBusy(c) /\ RobotBusy(d) =>
    NameOfCall(c) # NameOfCall(d) /\ SpaceOfCall(c) # SpaceOfCall(d)

\* A call deletes robots of its own name only, and the robot that it has created
\* is there until it has written the secret.
OwnRobots(c) ==
  /\ robotCall[c].pc = "delete" => \A r \in robotCall[c].found : r.name = NameOfCall(c)
  /\ robotCall[c].pc = "secret" =>
       \E r \in robots : r.token = robotCall[c].token /\ r.name = NameOfCall(c)

\* The robot of a secret has the name of an owner of the namespace, and no call
\* under way has that name: unless a call is under way for the namespace.
SecretHasRobot(ns) ==
  pullSecret[ns] # 0 /\ (\A c \in RobotCalls : RobotBusy(c) => SpaceOfCall(c) # ns) =>
    \E r \in robots :
      /\ r.token = pullSecret[ns]
      /\ \E p \in RobotOwners : NamespaceOf[p] = ns /\ r.name = RobotNameOf[p]
      /\ \A c \in RobotCalls : RobotBusy(c) => NameOfCall(c) # r.name

RobotInv ==
  /\ RobotTyped /\ TokensWereGiven
  /\ robotTrouble = {} =>
       /\ CallsAreApart
       /\ \A c \in RobotCalls : OwnRobots(c)
       /\ \A ns \in SecretNamespaces : SecretHasRobot(ns)

LEMMA IdleRobotCallIsARequest == IdleRobotCall \in RobotRequests
  BY DEF IdleRobotCall, RobotRequests

LEMMA RobotInitInv == RobotInit => RobotInv
  <1> SUFFICES ASSUME RobotInit PROVE RobotInv
    OBVIOUS
  <1>1. RobotTyped
    BY IdleRobotCallIsARequest DEF RobotInit, RobotTyped
  <1>2. TokensWereGiven
    BY DEF RobotInit, TokensWereGiven, IdleRobotCall, RobotBusy
  <1>3. /\ CallsAreApart /\ \A c \in RobotCalls : OwnRobots(c)
        /\ \A ns \in SecretNamespaces : SecretHasRobot(ns)
    BY DEF RobotInit, CallsAreApart, OwnRobots, SecretHasRobot, IdleRobotCall, RobotBusy
  <1> QED
    BY <1>1, <1>2, <1>3 DEF RobotInv

\* A step of one call leaves the others as they are.
LEMMA OtherRobotCalls ==
  ASSUME robotCall \in [RobotCalls -> RobotRequests], NEW c \in RobotCalls,
         NEW s \in RobotRequests, robotCall' = [robotCall EXCEPT ![c] = s]
  PROVE  /\ robotCall' \in [RobotCalls -> RobotRequests] /\ robotCall'[c] = s
         /\ \A d \in RobotCalls : d # c =>
              /\ robotCall'[d] = robotCall[d] /\ (RobotBusy(d)' <=> RobotBusy(d))
              /\ NameOfCall(d)' = NameOfCall(d) /\ SpaceOfCall(d)' = SpaceOfCall(d)
  BY DEF RobotBusy, NameOfCall, SpaceOfCall

LEMMA TokenStep ==
  ASSUME RobotInv, NEW c \in RobotCalls, NEW s \in RobotRequests,
         robotCall' = [robotCall EXCEPT ![c] = s],
         robots' \subseteq Robots, lastToken' \in Nat, lastToken <= lastToken',
         \A r \in robots' : r \in robots \/ (r.token = lastToken' /\ 0 < r.token),
         pullSecret' \in [SecretNamespaces -> Nat],
         \A ns \in SecretNamespaces : pullSecret'[ns] <= lastToken',
         s.token <= lastToken', s.pc \notin {"idle", "done", "failed"} => s.owner \in RobotOwners,
         robotTrouble' \subseteq {"failed", "overlap", "shared"}
  PROVE  RobotTyped' /\ TokensWereGiven'
  <1>0. RobotTyped /\ TokensWereGiven
    BY DEF RobotInv
  <1>1. /\ robotCall' \in [RobotCalls -> RobotRequests] /\ robotCall'[c] = s
        /\ \A d \in RobotCalls : d # c =>
             robotCall'[d] = robotCall[d] /\ (RobotBusy(d)' <=> RobotBusy(d))
    BY <1>0, OtherRobotCalls DEF RobotTyped
  <1>2. RobotTyped'
    BY <1>0, <1>1 DEF RobotTyped
  <1>3. \A r \in robots' : 0 < r.token /\ r.token <= lastToken'
    <2> SUFFICES ASSUME NEW r \in robots' PROVE 0 < r.token /\ r.token <= lastToken'
      OBVIOUS
    <2>1. r.token \in Nat /\ lastToken \in Nat
      BY <1>0 DEF Robots, RobotTyped
    <2> QED
      BY <1>0, <2>1 DEF TokensWereGiven
  <1>4. ASSUME NEW d \in RobotCalls
        PROVE  robotCall'[d].token <= lastToken' /\ (RobotBusy(d)' => robotCall'[d].owner \in RobotOwners)
    <2>1. CASE d = c
      BY <1>1, <2>1 DEF RobotBusy
    <2>2. CASE d # c
      <3>1. robotCall[d].token \in Nat /\ lastToken \in Nat
        BY <1>0 DEF RobotTyped, RobotRequests
      <3>2. robotCall'[d].token <= lastToken'
        BY <1>0, <1>1, <2>2, <3>1 DEF TokensWereGiven
      <3> QED
        BY <1>0, <1>1, <2>2, <3>2 DEF TokensWereGiven
    <2> QED
      BY <2>1, <2>2
  <1> QED
    BY <1>2, <1>3, <1>4 DEF TokensWereGiven

\* A step of a call under way that leaves its owner as it is and the call under
\* way, writes no secret, and removes robots of its own name only.
LEMMA BusyStep ==
  ASSUME RobotInv, robotTrouble = {}, NEW c \in RobotCalls, NEW s \in RobotRequests,
         robotCall' = [robotCall EXCEPT ![c] = s], RobotBusy(c),
         s.pc \notin {"idle", "done", "failed"}, s.owner = robotCall[c].owner,
         UNCHANGED pullSecret,
         \A r \in robots : r.name # NameOfCall(c) => r \in robots',
         OwnRobots(c)'
  PROVE  /\ CallsAreApart' /\ \A d \in RobotCalls : OwnRobots(d)'
         /\ \A ns \in SecretNamespaces : SecretHasRobot(ns)'
  <1>0. /\ robotCall \in [RobotCalls -> RobotRequests] /\ CallsAreApart
        /\ \A d \in RobotCalls : OwnRobots(d)
        /\ \A ns \in SecretNamespaces : SecretHasRobot(ns)
    BY DEF RobotInv, RobotTyped
  <1>1. /\ robotCall'[c] = s
        /\ \A d \in RobotCalls : d # c => robotCall'[d] = robotCall[d]
        /\ \A d \in RobotCalls : /\ RobotBusy(d)' <=> RobotBusy(d)
                                 /\ NameOfCall(d)' = NameOfCall(d)
                                 /\ SpaceOfCall(d)' = SpaceOfCall(d)
    <2>1. RobotBusy(c)' /\ NameOfCall(c)' = NameOfCall(c) /\ SpaceOfCall(c)' = SpaceOfCall(c)
      BY <1>0, OtherRobotCalls DEF RobotBusy, NameOfCall, SpaceOfCall
    <2> QED
      BY <1>0, <2>1, OtherRobotCalls
  <1>2. CallsAreApart'
    BY <1>0, <1>1 DEF CallsAreApart
  <1>3. ASSUME NEW d \in RobotCalls, d # c PROVE OwnRobots(d)'
    <2>1. robotCall'[d] = robotCall[d] /\ NameOfCall(d)' = NameOfCall(d) /\ OwnRobots(d)
      BY <1>0, <1>1, <1>3
    <2>2. ASSUME robotCall[d].pc = "secret"
          PROVE  \E r \in robots' : r.token = robotCall[d].token /\ r.name = NameOfCall(d)
      <3>1. PICK r \in robots : r.token = robotCall[d].token /\ r.name = NameOfCall(d)
        BY <2>1, <2>2 DEF OwnRobots
      <3>2. RobotBusy(d)
        BY <2>2 DEF RobotBusy
      <3>3. NameOfCall(c) # NameOfCall(d)
        BY <1>0, <1>3, <3>2 DEF CallsAreApart
      <3> QED
        BY <3>1, <3>3
    <2> QED
      BY <2>1, <2>2 DEF OwnRobots
  <1>4. ASSUME NEW ns \in SecretNamespaces, pullSecret[ns] # 0,
               \A d \in RobotCalls : RobotBusy(d) => SpaceOfCall(d) # ns
        PROVE  \E r \in robots' :
                 /\ r.token = pullSecret[ns]
                 /\ \E p \in RobotOwners : NamespaceOf[p] = ns /\ r.name = RobotNameOf[p]
                 /\ \A d \in RobotCalls : RobotBusy(d) => NameOfCall(d) # r.name
    <2>1. PICK r \in robots :
            /\ r.token = pullSecret[ns]
            /\ \E p \in RobotOwners : NamespaceOf[p] = ns /\ r.name = RobotNameOf[p]
            /\ \A d \in RobotCalls : RobotBusy(d) => NameOfCall(d) # r.name
      BY <1>0, <1>4 DEF SecretHasRobot
    <2>2. r \in robots'
      BY <2>1
    <2> QED
      BY <2>1, <2>2
  <1>5. ASSUME NEW ns \in SecretNamespaces PROVE SecretHasRobot(ns)'
    BY <1>1, <1>4 DEF SecretHasRobot
  <1> QED
    BY <1>2, <1>3, <1>5

LEMMA RobotNextInv == RobotInv /\ [RobotNext]_robotVars => RobotInv'
  <1> SUFFICES ASSUME RobotInv, [RobotNext]_robotVars PROVE RobotInv'
    OBVIOUS
  <1>0. /\ robots \subseteq Robots /\ lastToken \in Nat
        /\ pullSecret \in [SecretNamespaces -> Nat] /\ robotCall \in [RobotCalls -> RobotRequests]
        /\ robotTrouble \subseteq {"failed", "overlap", "shared"} /\ TokensWereGiven
        /\ robotTrouble = {} =>
             /\ CallsAreApart
             /\ \A c \in RobotCalls : OwnRobots(c)
             /\ \A ns \in SecretNamespaces : SecretHasRobot(ns)
    BY DEF RobotInv, RobotTyped
  <1>c. ASSUME NEW c \in RobotCalls
        PROVE  /\ robotCall[c] \in RobotRequests /\ robotCall[c].token <= lastToken
               /\ RobotBusy(c) => /\ robotCall[c].owner \in RobotOwners
                                  /\ NameOfCall(c) \in RobotNames
                                  /\ SpaceOfCall(c) \in SecretNamespaces
    BY <1>0 DEF TokensWereGiven, NameOfCall, SpaceOfCall, RobotNames, SecretNamespaces
  <1>d. /\ \A ns \in SecretNamespaces : pullSecret[ns] <= lastToken
        /\ lastToken <= lastToken + 1 /\ lastToken + 1 \in Nat /\ 0 < lastToken + 1
        /\ lastToken <= lastToken /\ 0 <= lastToken
    BY <1>0 DEF TokensWereGiven
  <1>1. ASSUME NEW c \in RobotCalls, NEW p \in RobotOwners, BeginRobot(c, p) PROVE RobotInv'
    <2> DEFINE s == [robotCall[c] EXCEPT !.pc = "list", !.owner = p]
    <2>0. /\ robotCall[c].pc = "idle" /\ UNCHANGED <<robots, lastToken, pullSecret>>
          /\ robotTrouble' = robotTrouble \cup (IF Overlaps(p) THEN {"overlap"} ELSE {})
                                          \cup (IF SharesRobot(p) THEN {"shared"} ELSE {})
      BY <1>1 DEF BeginRobot
    <2>1. robotCall' = [robotCall EXCEPT ![c] = s]
      BY <1>0, <1>1 DEF BeginRobot
    <2>2. s \in RobotRequests /\ s.pc = "list" /\ s.owner = p /\ s.token = robotCall[c].token
      BY <1>c DEF RobotRequests
    <2> HIDE DEF s
    <2>3. RobotTyped' /\ TokensWereGiven'
      BY <1>0, <1>c, <1>d, <2>0, <2>1, <2>2, TokenStep
    <2>4. ASSUME robotTrouble' = {}
          PROVE  /\ CallsAreApart' /\ \A d \in RobotCalls : OwnRobots(d)'
                 /\ \A ns \in SecretNamespaces : SecretHasRobot(ns)'
      <3>1. robotTrouble = {} /\ ~Overlaps(p) /\ ~SharesRobot(p)
        BY <2>0, <2>4
      <3>2. /\ robotCall'[c] = s /\ RobotBusy(c)' /\ ~RobotBusy(c)
            /\ NameOfCall(c)' = RobotNameOf[p] /\ SpaceOfCall(c)' = NamespaceOf[p]
            /\ \A d \in RobotCalls : d # c =>
                 /\ robotCall'[d] = robotCall[d] /\ (RobotBusy(d)' <=> RobotBusy(d))
                 /\ NameOfCall(d)' = NameOfCall(d) /\ SpaceOfCall(d)' = SpaceOfCall(d)
        BY <1>0, <2>0, <2>1, <2>2, OtherRobotCalls DEF RobotBusy, NameOfCall, SpaceOfCall
      <3>3. \A d \in RobotCalls : RobotBusy(d) =>
              NameOfCall(d) # RobotNameOf[p] /\ SpaceOfCall(d) # NamespaceOf[p]
        BY <3>1 DEF Overlaps, SpaceOfCall
      <3>4. CallsAreApart'
        BY <1>0, <3>1, <3>2, <3>3 DEF CallsAreApart
      <3>5. ASSUME NEW d \in RobotCalls PROVE OwnRobots(d)'
        <4>1. CASE d = c
          BY <2>2, <3>2, <4>1 DEF OwnRobots
        <4>2. CASE d # c
          BY <1>0, <2>0, <3>1, <3>2, <4>2 DEF OwnRobots
        <4> QED
          BY <4>1, <4>2
      <3>6. ASSUME NEW ns \in SecretNamespaces, pullSecret[ns] # 0,
                   \A d \in RobotCalls : RobotBusy(d)' => SpaceOfCall(d)' # ns
            PROVE  \E r \in robots :
                     /\ r.token = pullSecret[ns]
                     /\ \E q \in RobotOwners : NamespaceOf[q] = ns /\ r.name = RobotNameOf[q]
                     /\ \A d \in RobotCalls : RobotBusy(d)' => NameOfCall(d)' # r.name
        <4>1. \A d \in RobotCalls : RobotBusy(d) => SpaceOfCall(d) # ns
          BY <3>2, <3>6
        <4>2. SecretHasRobot(ns)
          BY <1>0, <3>1
        <4>3. PICK r \in robots :
                /\ r.token = pullSecret[ns]
                /\ \E q \in RobotOwners : NamespaceOf[q] = ns /\ r.name = RobotNameOf[q]
                /\ \A d \in RobotCalls : RobotBusy(d) => NameOfCall(d) # r.name
          BY <3>6, <4>1, <4>2 DEF SecretHasRobot
        <4>4. PICK q \in RobotOwners : NamespaceOf[q] = ns /\ r.name = RobotNameOf[q]
          BY <4>3
        <4>5. NamespaceOf[p] # ns
          BY <3>2, <3>6
        <4>6. RobotNameOf[q] # RobotNameOf[p]
          BY <3>1, <3>6, <4>4, <4>5 DEF SharesRobot
        <4>7. \A d \in RobotCalls : RobotBusy(d)' => NameOfCall(d)' # r.name
          BY <3>2, <4>3, <4>4, <4>6
        <4> QED
          BY <4>3, <4>7
      <3>7. ASSUME NEW ns \in SecretNamespaces PROVE SecretHasRobot(ns)'
        BY <2>0, <3>6 DEF SecretHasRobot
      <3> QED
        BY <3>4, <3>5, <3>7
    <2> QED
      BY <2>3, <2>4 DEF RobotInv
  <1>2. ASSUME NEW c \in RobotCalls, ListRobots(c) PROVE RobotInv'
    <2>0. robotCall[c].pc = "list" /\ UNCHANGED <<robots, lastToken, pullSecret, robotTrouble>>
          /\ RobotBusy(c)
      BY <1>2 DEF ListRobots, RobotBusy
    <2>1. PICK page \in SUBSET robots :
            LET found == {r \in page : harborRobotNameMatches(r.name, NameOfCall(c))} IN
            robotCall' = [robotCall EXCEPT ![c].found = found,
                            ![c].pc = IF found = {} THEN "create" ELSE "delete"]
      BY <1>2 DEF ListRobots
    <2> DEFINE found == {r \in page : harborRobotNameMatches(r.name, NameOfCall(c))}
               s == [robotCall[c] EXCEPT !.found = found, !.pc = IF found = {} THEN "create" ELSE "delete"]
    <2>2. robotCall' = [robotCall EXCEPT ![c] = s]
      BY <1>0, <2>1
    <2>3. found \in SUBSET Robots /\ \A r \in found : r.name = NameOfCall(c)
      BY <1>0 DEF harborRobotNameMatches
    <2> HIDE DEF found
    <2>4. /\ s \in RobotRequests /\ s.pc \in {"create", "delete"} /\ s.owner = robotCall[c].owner
          /\ s.found = found /\ s.token = robotCall[c].token
      BY <1>c, <2>3 DEF RobotRequests
    <2> HIDE DEF s
    <2>5. robotCall'[c] = s /\ NameOfCall(c)' = NameOfCall(c)
      BY <1>0, <2>2, <2>4 DEF NameOfCall
    <2>6. OwnRobots(c)'
      BY <2>3, <2>4, <2>5 DEF OwnRobots
    <2>7. RobotTyped' /\ TokensWereGiven'
      BY <1>0, <1>c, <1>d, <2>0, <2>2, <2>4, TokenStep
    <2>8. robotTrouble' = {} =>
            /\ CallsAreApart' /\ \A d \in RobotCalls : OwnRobots(d)'
            /\ \A ns \in SecretNamespaces : SecretHasRobot(ns)'
      BY <2>0, <2>2, <2>4, <2>6, BusyStep
    <2> QED
      BY <2>7, <2>8 DEF RobotInv
  <1>3. ASSUME NEW c \in RobotCalls, DeleteRobot(c) PROVE RobotInv'
    <2>0. robotCall[c].pc = "delete" /\ UNCHANGED <<lastToken, pullSecret, robotTrouble>> /\ RobotBusy(c)
      BY <1>3 DEF DeleteRobot, RobotBusy
    <2>1. PICK r \in robotCall[c].found :
            /\ robots' = robots \ {r}
            /\ robotCall' = [robotCall EXCEPT ![c].found = @ \ {r},
                               ![c].pc = IF robotCall[c].found = {r} THEN "create" ELSE "delete"]
      BY <1>3 DEF DeleteRobot
    <2> DEFINE found == robotCall[c].found \ {r}
               s == [robotCall[c] EXCEPT !.found = found,
                       !.pc = IF robotCall[c].found = {r} THEN "create" ELSE "delete"]
    <2>2. robotCall' = [robotCall EXCEPT ![c] = s]
      BY <1>0, <2>1
    <2>4. /\ s \in RobotRequests /\ s.pc \in {"create", "delete"} /\ s.owner = robotCall[c].owner
          /\ s.found \subseteq robotCall[c].found /\ s.token = robotCall[c].token
      BY <1>c DEF RobotRequests
    <2> HIDE DEF s
    <2>5. robotCall'[c] = s /\ NameOfCall(c)' = NameOfCall(c)
      BY <1>0, <2>2, <2>4 DEF NameOfCall
    <2>7. RobotTyped' /\ TokensWereGiven'
      <3>1. robots' \subseteq Robots /\ \A x \in robots' : x \in robots
        BY <1>0, <2>1
      <3> QED
        BY <1>0, <1>c, <1>d, <2>0, <2>2, <2>4, <3>1, TokenStep
    <2>8. ASSUME robotTrouble = {}
          PROVE  /\ CallsAreApart' /\ \A d \in RobotCalls : OwnRobots(d)'
                 /\ \A ns \in SecretNamespaces : SecretHasRobot(ns)'
      <3>1. \A x \in robotCall[c].found : x.name = NameOfCall(c)
        BY <1>0, <2>0, <2>8 DEF OwnRobots
      <3>2. OwnRobots(c)'
        BY <2>4, <2>5, <3>1 DEF OwnRobots
      <3>3. \A x \in robots : x.name # NameOfCall(c) => x \in robots'
        BY <2>1, <3>1
      <3> QED
        BY <2>0, <2>2, <2>4, <2>8, <3>2, <3>3, BusyStep
    <2> QED
      BY <2>0, <2>7, <2>8 DEF RobotInv
  \* A robot that Harbor makes for a call.
  <1>n. ASSUME NEW c \in RobotCalls, RobotBusy(c)
        PROVE  LET new == [name |-> NameOfCall(c), token |-> lastToken + 1] IN
               /\ robots \cup {new} \subseteq Robots
               /\ \A r \in robots \cup {new} : r \in robots \/ (r.token = lastToken + 1 /\ 0 < r.token)
    <2> DEFINE new == [name |-> NameOfCall(c), token |-> lastToken + 1]
    <2>1. new \in Robots /\ new.token = lastToken + 1
      BY <1>c, <1>d, <1>n DEF Robots
    <2> HIDE DEF new
    <2>2. robots \cup {new} \subseteq Robots
      BY <1>0, <2>1
    <2>3. \A r \in robots \cup {new} : r \in robots \/ (r.token = lastToken + 1 /\ 0 < r.token)
      BY <1>d, <2>1
    <2> QED
      BY <2>2, <2>3 DEF new
  \* A call that fails.
  <1>f. ASSUME NEW c \in RobotCalls,
               robotCall' = [robotCall EXCEPT ![c] = [IdleRobotCall EXCEPT !.pc = "failed"]],
               robotTrouble' = robotTrouble \cup {"failed"}, UNCHANGED pullSecret,
               lastToken' \in Nat, lastToken <= lastToken', robots' \subseteq Robots,
               \A r \in robots' : r \in robots \/ (r.token = lastToken' /\ 0 < r.token)
        PROVE  RobotInv'
    <2> DEFINE s == [IdleRobotCall EXCEPT !.pc = "failed"]
    <2>1. s \in RobotRequests /\ s.pc = "failed"
      BY IdleRobotCallIsARequest DEF RobotRequests
    <2>2. s.token = 0
      BY DEF IdleRobotCall
    <2>3. robotCall' = [robotCall EXCEPT ![c] = s]
      BY <1>f
    <2> HIDE DEF s
    <2>4. \A ns \in SecretNamespaces : pullSecret[ns] \in Nat /\ pullSecret[ns] <= lastToken'
      <3> SUFFICES ASSUME NEW ns \in SecretNamespaces PROVE pullSecret[ns] \in Nat /\ pullSecret[ns] <= lastToken'
        OBVIOUS
      <3>1. pullSecret[ns] \in Nat /\ pullSecret[ns] <= lastToken /\ lastToken \in Nat
        BY <1>0, <1>d
      <3> QED
        BY <1>f, <3>1
    <2>5. 0 <= lastToken'
      BY <1>f
    <2>6. robotTrouble' \subseteq {"failed", "overlap", "shared"} /\ robotTrouble' # {}
      BY <1>0, <1>f
    <2>7. pullSecret' \in [SecretNamespaces -> Nat] /\ \A ns \in SecretNamespaces : pullSecret'[ns] <= lastToken'
      BY <1>0, <1>f, <2>4
    <2>8. RobotTyped' /\ TokensWereGiven'
      BY <1>f, <2>1, <2>2, <2>3, <2>5, <2>6, <2>7, TokenStep
    <2> QED
      BY <2>6, <2>8 DEF RobotInv
  <1>4. ASSUME NEW c \in RobotCalls, CreateRobot(c) PROVE RobotInv'
    <2> DEFINE new == [name |-> NameOfCall(c), token |-> lastToken + 1]
               taken == \E r \in robots : r.name = NameOfCall(c)
    <2>0. robotCall[c].pc = "create" /\ UNCHANGED pullSecret /\ RobotBusy(c)
      BY <1>4 DEF CreateRobot, RobotBusy
    <2>1. ASSUME lastToken' = lastToken + 1, robots' = robots \cup {new}, UNCHANGED robotTrouble,
                 robotCall' = [robotCall EXCEPT ![c].pc = "secret", ![c].token = lastToken + 1]
          PROVE  RobotInv'
      <3> DEFINE s == [robotCall[c] EXCEPT !.pc = "secret", !.token = lastToken + 1]
      <3>1. robotCall' = [robotCall EXCEPT ![c] = s]
        BY <1>0, <2>1
      <3>2. /\ s \in RobotRequests /\ s.pc = "secret" /\ s.owner = robotCall[c].owner
            /\ s.token = lastToken + 1
        BY <1>c, <1>d DEF RobotRequests
      <3>3. \A ns \in SecretNamespaces : pullSecret[ns] <= lastToken + 1
        <4> SUFFICES ASSUME NEW ns \in SecretNamespaces PROVE pullSecret[ns] <= lastToken + 1
          OBVIOUS
        <4>1. pullSecret[ns] \in Nat /\ pullSecret[ns] <= lastToken /\ lastToken \in Nat
          BY <1>0, <1>d
        <4> QED
          BY <4>1
      <3>4. /\ robots' \subseteq Robots /\ lastToken' \in Nat /\ lastToken <= lastToken'
            /\ \A r \in robots' : r \in robots \/ (r.token = lastToken' /\ 0 < r.token)
            /\ \A ns \in SecretNamespaces : pullSecret'[ns] <= lastToken'
            /\ s.token <= lastToken'
        BY <1>d, <1>n, <2>0, <2>1, <3>2, <3>3
      <3>5. robotCall'[c] = s /\ NameOfCall(c)' = NameOfCall(c)
        BY <1>0, <3>1, <3>2 DEF NameOfCall
      <3>6. new \in robots' /\ new.token = s.token /\ new.name = NameOfCall(c)
        BY <2>1, <3>2
      <3> HIDE DEF s, new
      <3>7. RobotTyped' /\ TokensWereGiven'
        BY <1>0, <1>c, <2>0, <2>1, <3>1, <3>2, <3>4, TokenStep
      <3>8. OwnRobots(c)'
        BY <3>2, <3>5, <3>6 DEF OwnRobots
      <3>9. robotTrouble' = {} =>
              /\ CallsAreApart' /\ \A d \in RobotCalls : OwnRobots(d)'
              /\ \A ns \in SecretNamespaces : SecretHasRobot(ns)'
        BY <2>0, <2>1, <3>1, <3>2, <3>8, BusyStep
      <3> QED
        BY <3>7, <3>9 DEF RobotInv
    <2>2. ASSUME robotCall' = [robotCall EXCEPT ![c].pc = "list", ![c].retried = TRUE],
                 UNCHANGED <<robots, lastToken, robotTrouble>>
          PROVE  RobotInv'
      <3> DEFINE s == [robotCall[c] EXCEPT !.pc = "list", !.retried = TRUE]
      <3>1. robotCall' = [robotCall EXCEPT ![c] = s]
        BY <1>0, <2>2
      <3>2. /\ s \in RobotRequests /\ s.pc = "list" /\ s.owner = robotCall[c].owner
            /\ s.token = robotCall[c].token
        BY <1>c DEF RobotRequests
      <3> HIDE DEF s
      <3>3. RobotTyped' /\ TokensWereGiven'
        BY <1>0, <1>c, <1>d, <2>0, <2>2, <3>1, <3>2, TokenStep
      <3>4. OwnRobots(c)'
        BY <1>0, <3>1, <3>2 DEF OwnRobots
      <3>5. robotTrouble' = {} =>
              /\ CallsAreApart' /\ \A d \in RobotCalls : OwnRobots(d)'
              /\ \A ns \in SecretNamespaces : SecretHasRobot(ns)'
        BY <2>0, <2>2, <3>1, <3>2, <3>4, BusyStep
      <3> QED
        BY <3>3, <3>5 DEF RobotInv
    <2>3. ASSUME robotCall' = [robotCall EXCEPT ![c] = [IdleRobotCall EXCEPT !.pc = "failed"]],
                 robotTrouble' = robotTrouble \cup {"failed"}, UNCHANGED <<robots, lastToken>>
          PROVE  RobotInv'
      BY <1>0, <1>d, <1>f, <2>0, <2>3
    <2> QED
      BY <1>4, <2>1, <2>2, <2>3 DEF CreateRobot
  <1>5. ASSUME NEW c \in RobotCalls, WriteSecret(c) PROVE RobotInv'
    <2> DEFINE s == [robotCall[c] EXCEPT !.pc = "done", !.token = 0]
               space == SpaceOfCall(c)
               token == robotCall[c].token
    <2>0. robotCall[c].pc = "secret" /\ UNCHANGED <<robots, lastToken, robotTrouble>> /\ RobotBusy(c)
      BY <1>5 DEF WriteSecret, RobotBusy
    <2>1. robotCall' = [robotCall EXCEPT ![c] = s] /\ pullSecret' = [pullSecret EXCEPT ![space] = token]
      BY <1>0, <1>5 DEF WriteSecret, SpaceOfCall
    <2>2. s \in RobotRequests /\ s.pc = "done" /\ s.owner = robotCall[c].owner /\ s.token = 0
      BY <1>c DEF RobotRequests
    <2>3. token \in Nat /\ token <= lastToken /\ space \in SecretNamespaces
      BY <1>c, <2>0 DEF RobotRequests
    <2> HIDE DEF s, token, space
    <2>4. /\ pullSecret' \in [SecretNamespaces -> Nat] /\ pullSecret'[space] = token
          /\ \A ns \in SecretNamespaces : ns # space => pullSecret'[ns] = pullSecret[ns]
      BY <1>0, <2>1, <2>3
    <2>5. \A ns \in SecretNamespaces : pullSecret'[ns] <= lastToken
      BY <1>d, <2>3, <2>4
    <2>6. RobotTyped' /\ TokensWereGiven'
      BY <1>0, <1>d, <2>0, <2>1, <2>2, <2>4, <2>5, TokenStep
    <2>7. ASSUME robotTrouble = {}
          PROVE  /\ CallsAreApart' /\ \A d \in RobotCalls : OwnRobots(d)'
                 /\ \A ns \in SecretNamespaces : SecretHasRobot(ns)'
      <3>1. /\ robotCall'[c] = s /\ ~RobotBusy(c)'
            /\ \A d \in RobotCalls : d # c =>
                 /\ robotCall'[d] = robotCall[d] /\ (RobotBusy(d)' <=> RobotBusy(d))
                 /\ NameOfCall(d)' = NameOfCall(d) /\ SpaceOfCall(d)' = SpaceOfCall(d)
        BY <1>0, <2>1, <2>2, OtherRobotCalls DEF RobotBusy
      <3>2. CallsAreApart'
        BY <1>0, <2>7, <3>1 DEF CallsAreApart
      <3>3. ASSUME NEW d \in RobotCalls PROVE OwnRobots(d)'
        <4>1. CASE d = c
          BY <2>2, <3>1, <4>1 DEF OwnRobots
        <4>2. CASE d # c
          BY <1>0, <2>0, <2>7, <3>1, <4>2 DEF OwnRobots
        <4> QED
          BY <4>1, <4>2
      <3>4. ASSUME NEW ns \in SecretNamespaces, ns # space PROVE SecretHasRobot(ns)'
        <4>1. SecretHasRobot(ns) /\ pullSecret'[ns] = pullSecret[ns]
          BY <1>0, <2>4, <2>7, <3>4
        <4>2. ASSUME pullSecret[ns] # 0, \A d \in RobotCalls : RobotBusy(d)' => SpaceOfCall(d)' # ns
              PROVE  \E r \in robots :
                       /\ r.token = pullSecret[ns]
                       /\ \E p \in RobotOwners : NamespaceOf[p] = ns /\ r.name = RobotNameOf[p]
                       /\ \A d \in RobotCalls : RobotBusy(d)' => NameOfCall(d)' # r.name
          <5>1. \A d \in RobotCalls : RobotBusy(d) => SpaceOfCall(d) # ns
            BY <3>1, <3>4, <4>2 DEF space
          <5>2. PICK r \in robots :
                  /\ r.token = pullSecret[ns]
                  /\ \E p \in RobotOwners : NamespaceOf[p] = ns /\ r.name = RobotNameOf[p]
                  /\ \A d \in RobotCalls : RobotBusy(d) => NameOfCall(d) # r.name
            BY <4>1, <4>2, <5>1 DEF SecretHasRobot
          <5>3. \A d \in RobotCalls : RobotBusy(d)' => NameOfCall(d)' # r.name
            BY <3>1, <5>2
          <5> QED
            BY <5>2, <5>3
        <4> QED
          BY <2>0, <4>1, <4>2 DEF SecretHasRobot
      <3>5. ASSUME NEW ns \in SecretNamespaces, ns = space PROVE SecretHasRobot(ns)'
        <4>1. PICK r \in robots : r.token = token /\ r.name = NameOfCall(c)
          BY <1>0, <2>0, <2>7 DEF OwnRobots, token
        <4>2. \E p \in RobotOwners : NamespaceOf[p] = space /\ r.name = RobotNameOf[p]
          BY <1>c, <2>0, <4>1 DEF NameOfCall, SpaceOfCall, space
        <4>3. \A d \in RobotCalls : RobotBusy(d)' => NameOfCall(d)' # r.name
          BY <1>0, <2>0, <2>7, <3>1, <4>1 DEF CallsAreApart
        <4> QED
          BY <2>0, <2>4, <3>5, <4>1, <4>2, <4>3 DEF SecretHasRobot
      <3> QED
        BY <3>2, <3>3, <3>4, <3>5
    <2> QED
      BY <2>0, <2>6, <2>7 DEF RobotInv
  <1>6. ASSUME NEW c \in RobotCalls, RobotFailure(c) PROVE RobotInv'
    <2>1. /\ RobotBusy(c) /\ robotCall' = [robotCall EXCEPT ![c] = [IdleRobotCall EXCEPT !.pc = "failed"]]
          /\ robotTrouble' = robotTrouble \cup {"failed"} /\ UNCHANGED pullSecret
      BY <1>6 DEF RobotFailure
    <2>2. CASE UNCHANGED <<robots, lastToken>>
      BY <1>0, <1>d, <1>f, <2>1, <2>2
    <2>3. CASE lastToken' = lastToken + 1 /\
               robots' = robots \cup {[name |-> NameOfCall(c), token |-> lastToken + 1]}
      <3>1. /\ robots' \subseteq Robots /\ lastToken' \in Nat /\ lastToken <= lastToken'
            /\ \A r \in robots' : r \in robots \/ (r.token = lastToken' /\ 0 < r.token)
        BY <1>d, <1>n, <2>1, <2>3
      <3> QED
        BY <1>0, <1>f, <2>1, <3>1
    <2> QED
      <3>1. \/ UNCHANGED <<robots, lastToken>>
            \/ lastToken' = lastToken + 1 /\
               robots' = robots \cup {[name |-> NameOfCall(c), token |-> lastToken + 1]}
        BY <1>6, Zenon DEF RobotFailure
      <3> QED
        BY <2>2, <2>3, <3>1
  <1>7. CASE UNCHANGED robotVars
    <2>1. UNCHANGED <<robots, lastToken, pullSecret, robotCall, robotTrouble>>
      BY <1>7 DEF robotVars
    <2>2. RobotTyped' /\ TokensWereGiven'
      BY <1>0, <2>1 DEF RobotTyped, TokensWereGiven, RobotBusy
    <2>3. robotTrouble' = {} =>
            /\ CallsAreApart' /\ \A d \in RobotCalls : OwnRobots(d)'
            /\ \A ns \in SecretNamespaces : SecretHasRobot(ns)'
      BY <1>0, <2>1 DEF CallsAreApart, OwnRobots, SecretHasRobot, RobotBusy, NameOfCall, SpaceOfCall
    <2> QED
      BY <2>2, <2>3 DEF RobotInv
  <1> QED
    BY <1>1, <1>2, <1>3, <1>4, <1>5, <1>6, <1>7 DEF RobotNext

LEMMA RobotSpecInv == RobotSpec => []RobotInv
  BY RobotInitInv, RobotNextInv, PTL DEF RobotSpec

\* Robots, secrets and calls keep their types.
THEOREM RobotTypes == RobotSpec => []RobotTypeOK
  <1>1. RobotInv => RobotTypeOK
    <2> SUFFICES ASSUME RobotInv PROVE RobotTypeOK
      OBVIOUS
    <2>1. RobotTyped /\ TokensWereGiven
      BY DEF RobotInv
    <2>2. ASSUME NEW r \in robots PROVE r.name \in RobotNames /\ r.token \in 1..lastToken
      <3>1. r.name \in RobotNames /\ r.token \in Nat /\ lastToken \in Nat
            /\ 0 < r.token /\ r.token <= lastToken
        BY <2>1 DEF RobotTyped, Robots, TokensWereGiven
      <3> QED
        BY <3>1
    <2>3. ASSUME NEW ns \in SecretNamespaces PROVE pullSecret[ns] \in 0..lastToken
      <3>1. pullSecret[ns] \in Nat /\ lastToken \in Nat /\ pullSecret[ns] <= lastToken
        BY <2>1 DEF RobotTyped, TokensWereGiven
      <3> QED
        BY <3>1
    <2> QED
      BY <2>1, <2>2, <2>3 DEF RobotTypeOK, RobotTyped
  <1> QED
    BY <1>1, RobotSpecInv, PTL

\* A pull secret that was written works once no call is under way, unless a call
\* failed, two calls overlapped or two namespaces share a robot
\* (ensureHarborPullRobot): for any number of owners, namespaces, calls and robots.
THEOREM SecretsWork == RobotSpec => []PullSecretWorks
  <1>1. RobotInv => PullSecretWorks
    BY DEF RobotInv, SecretHasRobot, PullSecretWorks
  <1> QED
    BY <1>1, RobotSpecInv, PTL
-----------------------------------------------------------------------------
(* The directory of a project in the GitOps repository.                    *)

AllContents == UNION {Contents[f] : f \in Files}

GitWriters ==
  [pc : Pcs, row : ProjectRows \cup {Absent}, todo : (SUBSET Files) \cup (SUBSET Folders),
   file : Files \cup {NoFile}, seen : AllContents, attempt : 0..MaxRetries,
   found : SUBSET (Files \X AllContents)]

GitTyped ==
  /\ repo \in [Files -> AllContents] /\ \A f \in Files : repo[f] \in Contents[f]
  /\ project \in ProjectRows
  /\ writer \in [Writers -> GitWriters]
  /\ disturbances \in Nat
  /\ accidents \subseteq Accidents

Putting(w) == writer[w].pc \in {"put", "write"}
Rows(w) == writer[w].row # Absent

\* What a call is about to write is among what it renders.
WriterTyped(w) ==
  LET s == writer[w] IN
  /\ s.pc \in {"put", "write"} => /\ s.todo \subseteq IF Rows(w) THEN Rendered(s.row) ELSE DependencyFiles
                                  /\ s.file \in s.todo \cup {NoFile}
  /\ s.pc = "write" => s.file \in s.todo
  /\ s.pc \in {"tag", "retag"} => Rows(w) /\ s.file = NoFile
  /\ s.pc = "retag" => s.seen \in Images
  /\ s.pc = "idle" => s = IdleWriter
  /\ s.pc \in {"list", "folder", "delete"} => ~Rows(w)
  /\ s.pc = "folder" => s.todo \in SUBSET Folders

\* Nothing is written during a deletion.
DeletesAlone ==
  \A v, w \in Writers : v # w /\ Deleting(w) => ~Busy(v)

\* A deletion knows all that there is, or will come to know it.
DeletesAll(w) ==
  LET s == writer[w] IN
  /\ s.pc = "folder" =>
       \A f \in Files : Exists(f) => <<f, repo[f]>> \in s.found \/ \E d \in s.todo : f \in Folder[d]
  /\ s.pc = "delete" => \A f \in Files : Exists(f) => <<f, repo[f]>> \in s.found

\* A file is there or a commit under way has still to write it.
Covered(f) == Exists(f) \/ \E w \in Writers : Putting(w) /\ f \in writer[w].todo

\* What a commit has rendered is there as far as it is not to be written.
WritesAll(w) ==
  Putting(w) => \A f \in IF Rows(w) THEN Rendered(writer[w].row) ELSE DependencyFiles :
                  Exists(f) \/ f \in writer[w].todo

FilesCovered ==
  /\ Exists("kustomization") =>
       Covered("overlay") /\ \A f \in repo["kustomization"][1] : Covered(f)
  /\ Exists("overlay") => Covered("kustomization")
  /\ \A f, g \in DependencyFiles : Exists(f) => Covered(g)

DirectoryOK ==
  /\ DeletesAlone
  /\ \A w \in Writers : DeletesAll(w) /\ WritesAll(w)
  /\ (\A w \in Writers : writer[w].pc # "delete") => FilesCovered

DirectoryInv == Spared({"failed", "raced", "skipped"}) => DirectoryOK

\* The calls under way have the name of the project's image.
SameNames ==
  \A w \in Writers : Busy(w) /\ Rows(w) => writer[w].row.image[1] = project.image[1]

\* The deployment has the name of the image of a commit that has written it.
WritesDeployment(w) ==
  Putting(w) /\ Rows(w) =>
    \/ "deployment" \in writer[w].todo
    \/ Exists("deployment") /\ repo["deployment"][1] = writer[w].row.image[1]

\* A call that has still to bring the project's image to the overlay.
BringsImage(w) ==
  /\ Rows(w) /\ writer[w].row.image = project.image
  /\ \/ writer[w].pc \in {"tag", "retag"}
     \/ Putting(w) /\ "overlay" \in writer[w].todo

OverlayIsCurrent ==
  Exists("overlay") => repo["overlay"] = project.image \/ \E w \in Writers : BringsImage(w)

DeploymentIsNamed ==
  Exists("overlay") /\ repo["overlay"][1] = project.image[1] =>
    \/ Exists("deployment") /\ repo["deployment"][1] = project.image[1]
    \/ \E w \in Writers : Putting(w) /\ Rows(w) /\ "deployment" \in writer[w].todo

ImagesOK ==
  /\ SameNames
  /\ \A w \in Writers : WritesDeployment(w)
  /\ (\A w \in Writers : writer[w].pc # "delete") => OverlayIsCurrent /\ DeploymentIsNamed

ImageInv == accidents = {} => ImagesOK

GitInv == GitTyped /\ (\A w \in Writers : WriterTyped(w)) /\ DirectoryInv /\ ImageInv

LEMMA FolderFacts ==
  /\ Folders = {"base", "overlays", "dependencies"}
  /\ \A d \in Folders : Folder[d] \subseteq Files
  /\ \A f \in Files : \E d \in Folders : f \in Folder[d]
  <1>1. /\ Folders = {"base", "overlays", "dependencies"} /\ Folder["base"] = BaseFiles
        /\ Folder["overlays"] = {"overlay"} /\ Folder["dependencies"] = DependencyFiles
    BY DEF Folders, Folder
  <1> QED
    BY <1>1 DEF Files

\* Neither a row nor an image is what stands for nothing.
LEMMA NothingIsAbsent ==
  /\ \A row \in ProjectRows : row # Absent /\ row.image \in Images
  /\ \A i \in Images : i # Absent
  <1>1. \A row \in ProjectRows : row # Absent /\ row.image \in Images
    <2> SUFFICES ASSUME NEW row \in ProjectRows PROVE row # Absent /\ row.image \in Images
      OBVIOUS
    <2>1. DOMAIN row = {"image", "shape"} /\ row.image \in Images
      BY DEF ProjectRows
    <2>2. DOMAIN Absent = {}
      BY DEF Absent
    <2> QED
      BY <2>1, <2>2
  <1>2. \A i \in Images : i # Absent
    BY GitAssumption DEF Absent
  <1> QED
    BY <1>1, <1>2

\* What is rendered is a content of its file.
LEMMA RenderedFiles ==
  ASSUME NEW row \in ProjectRows
  PROVE  /\ Listed(row) \subseteq BaseFiles /\ Rendered(row) \subseteq Files
         /\ Listed(row) \subseteq Rendered(row)
         /\ {"overlay", "kustomization", "deployment"} \subseteq Rendered(row)
         /\ Rendered(row) \cap DependencyFiles = {}
  <1>1. row.shape \subseteq {"service", "pvc"}
    BY GitAssumption DEF ProjectRows
  <1> QED
    BY <1>1 DEF Listed, Rendered, BaseFiles, Files, DependencyFiles

LEMMA ManifestTyped ==
  ASSUME NEW row, NEW f, \/ row \in ProjectRows /\ f \in Rendered(row)
                         \/ f \in DependencyFiles
  PROVE  f \in Files /\ Manifest(row, f) \in Contents[f] /\ Manifest(row, f) # Absent
  <1>1. CASE f \in {"deployment", "overlay"}
    <2>1. row \in ProjectRows
      BY <1>1 DEF DependencyFiles
    <2>2. Manifest(row, f) = row.image
      BY <1>1 DEF Manifest
    <2>3. f \in Files /\ Contents[f] = {Absent} \cup Images
      BY <1>1 DEF Contents, Files, BaseFiles
    <2> QED
      BY <2>1, <2>2, <2>3, NothingIsAbsent
  <1>2. CASE f = "kustomization"
    <2>1. row \in ProjectRows
      BY <1>2 DEF DependencyFiles
    <2>2. Manifest(row, f) = <<Listed(row)>>
      BY <1>2 DEF Manifest
    <2>3. f \in Files /\ Contents[f] = {Absent} \cup {<<l>> : l \in SUBSET BaseFiles}
      BY <1>2 DEF Contents, Files, BaseFiles
    <2> QED
      BY <2>1, <2>2, <2>3, RenderedFiles DEF Absent
  <1>3. CASE f \notin {"deployment", "overlay", "kustomization"}
    <2>1. Manifest(row, f) = <<{f}>>
      BY <1>3 DEF Manifest
    <2>2. f \in Files
      BY RenderedFiles DEF Files
    <2>3. Contents[f] = {Absent} \cup {<<{f}>>}
      BY <1>3, <2>2 DEF Contents
    <2> QED
      BY <2>1, <2>2, <2>3 DEF Absent
  <1> QED
    BY <1>1, <1>2, <1>3

LEMMA ContentsFacts ==
  /\ \A f \in Files : Contents[f] \subseteq AllContents /\ Absent \in Contents[f]
  /\ Contents["overlay"] = {Absent} \cup Images /\ Contents["deployment"] = {Absent} \cup Images
  /\ Contents["kustomization"] = {Absent} \cup {<<l>> : l \in SUBSET BaseFiles}
  /\ {"overlay", "deployment", "kustomization"} \subseteq Files /\ DependencyFiles \subseteq Files
  <1>1. \A f \in Files : Contents[f] \subseteq AllContents
    BY DEF AllContents
  <1>2. {"overlay", "deployment", "kustomization"} \subseteq Files /\ DependencyFiles \subseteq Files
    BY DEF Files, BaseFiles, DependencyFiles
  <1>3. \A f \in Files : Absent \in Contents[f]
    BY DEF Contents
  <1>4. /\ Contents["overlay"] = {Absent} \cup Images /\ Contents["deployment"] = {Absent} \cup Images
        /\ Contents["kustomization"] = {Absent} \cup {<<l>> : l \in SUBSET BaseFiles}
    BY <1>2 DEF Contents
  <1> QED
    BY <1>1, <1>2, <1>3, <1>4

LEMMA IdleWriterIsAWriter == IdleWriter \in GitWriters
  <1>1. Absent \in AllContents
    BY ContentsFacts
  <1> QED
    BY <1>1, GitAssumption DEF IdleWriter, GitWriters, Pcs

\* A step of one call leaves the others as they are.
LEMMA OtherWriters ==
  ASSUME writer \in [Writers -> GitWriters], NEW w \in Writers, NEW s \in GitWriters,
         writer' = [writer EXCEPT ![w] = s]
  PROVE  /\ writer' \in [Writers -> GitWriters] /\ writer'[w] = s
         /\ \A v \in Writers : v # w =>
              /\ writer'[v] = writer[v] /\ (Busy(v)' <=> Busy(v)) /\ (Deleting(v)' <=> Deleting(v))
              /\ (Putting(v)' <=> Putting(v)) /\ (Rows(v)' <=> Rows(v))
  BY DEF Busy, Deleting, Putting, Rows

LEMMA WriterStep ==
  ASSUME GitTyped, \A v \in Writers : WriterTyped(v), NEW w \in Writers, NEW s \in GitWriters,
         writer' = [writer EXCEPT ![w] = s], WriterTyped(w)',
         repo' \in [Files -> AllContents], \A f \in Files : repo'[f] \in Contents[f],
         project' \in ProjectRows, disturbances' \in Nat, accidents' \subseteq Accidents
  PROVE  GitTyped' /\ \A v \in Writers : WriterTyped(v)'
  <1>1. /\ writer' \in [Writers -> GitWriters]
        /\ \A v \in Writers : v # w => writer'[v] = writer[v] /\ (Rows(v)' <=> Rows(v))
    BY OtherWriters DEF GitTyped
  <1>2. \A v \in Writers : WriterTyped(v)'
    BY <1>1 DEF WriterTyped
  <1> QED
    BY <1>1, <1>2 DEF GitTyped

\* A file is written as it was rendered.
LEMMA PutKeepsTypes ==
  ASSUME GitTyped, NEW w \in Writers, NEW f, PutContent(w, f),
         \/ writer[w].row \in ProjectRows /\ f \in Rendered(writer[w].row)
         \/ f \in DependencyFiles
  PROVE  /\ repo' \in [Files -> AllContents] /\ \A g \in Files : repo'[g] \in Contents[g]
         /\ f \in Files /\ repo'[f] = Manifest(writer[w].row, f) /\ repo'[f] # Absent
         /\ \A g \in Files : g # f => repo'[g] = repo[g]
  <1>1. f \in Files /\ Manifest(writer[w].row, f) \in Contents[f] /\ Manifest(writer[w].row, f) # Absent
    BY ManifestTyped
  <1>2. Manifest(writer[w].row, f) \in AllContents
    BY <1>1, ContentsFacts
  <1> QED
    BY <1>1, <1>2 DEF GitTyped, PutContent

\* Once a call has failed or a deletion was cut short nothing is promised.
LEMMA NothingIsPromised ==
  ASSUME "failed" \in accidents' \/ "skipped" \in accidents'
  PROVE  DirectoryInv' /\ ImageInv'
  BY DEF DirectoryInv, ImageInv, Spared

\* A call that fails, whatever it has written.
LEMMA FailStep ==
  ASSUME GitInv, NEW w \in Writers, Fail(w), project' = project, disturbances' \in Nat,
         repo' \in [Files -> AllContents], \A f \in Files : repo'[f] \in Contents[f]
  PROVE  GitInv'
  <1> DEFINE s == [IdleWriter EXCEPT !.pc = "failed"]
  <1>1. writer' = [writer EXCEPT ![w] = s] /\ accidents' = accidents \cup {"failed"}
    BY DEF Fail, End, Happen
  <1>2. s \in GitWriters /\ s.pc = "failed"
    BY IdleWriterIsAWriter DEF GitWriters, Pcs
  <1> HIDE DEF s
  <1>3. writer'[w] = s
    BY <1>1 DEF GitInv, GitTyped
  <1>4. WriterTyped(w)'
    BY <1>2, <1>3 DEF WriterTyped
  <1>5. accidents' \subseteq Accidents /\ project' \in ProjectRows
    BY <1>1 DEF GitInv, GitTyped, Accidents
  <1>6. GitTyped' /\ \A v \in Writers : WriterTyped(v)'
    BY <1>1, <1>2, <1>4, <1>5, WriterStep DEF GitInv
  <1> QED
    BY <1>1, <1>6, NothingIsPromised DEF GitInv

LEMMA SkipStep ==
  ASSUME GitInv, NEW w \in Writers, Skip(w), project' = project, repo' = repo
  PROVE  GitInv'
  <1> DEFINE s == [IdleWriter EXCEPT !.pc = "done"]
  <1>1. /\ writer' = [writer EXCEPT ![w] = s] /\ accidents' = accidents \cup {"skipped"}
        /\ disturbances' = disturbances + 1
    BY DEF Skip, End, Happen, Fault
  <1>2. s \in GitWriters /\ s.pc = "done"
    BY IdleWriterIsAWriter DEF GitWriters, Pcs
  <1> HIDE DEF s
  <1>3. writer'[w] = s
    BY <1>1 DEF GitInv, GitTyped
  <1>4. WriterTyped(w)'
    BY <1>2, <1>3 DEF WriterTyped
  <1>5. accidents' \subseteq Accidents /\ project' \in ProjectRows /\ disturbances' \in Nat
    BY <1>1 DEF GitInv, GitTyped, Accidents
  <1>6. GitTyped' /\ \A v \in Writers : WriterTyped(v)'
    <2>1. repo' \in [Files -> AllContents] /\ \A f \in Files : repo'[f] \in Contents[f]
      BY DEF GitInv, GitTyped
    <2> QED
      BY <1>1, <1>2, <1>4, <1>5, <2>1, WriterStep DEF GitInv
  <1> QED
    BY <1>1, <1>6, NothingIsPromised DEF GitInv

LEMMA GitInitInv == GitInit => GitInv
  <1> SUFFICES ASSUME GitInit PROVE GitInv
    OBVIOUS
  <1>1. \A w \in Writers : writer[w] = IdleWriter /\ writer[w].pc = "idle"
    BY DEF GitInit, IdleWriter
  <1>2. /\ repo \in [Files -> AllContents] /\ \A f \in Files : repo[f] \in Contents[f]
        /\ project \in ProjectRows
        /\ \A f \in Files : repo[f] = Absent \/ \A g \in Rendered(project) : repo[g] = Manifest(project, g)
        /\ \A f \in DependencyFiles : repo[f] = Absent
    <2>1. CASE repo = [f \in Files |-> Absent]
      BY <2>1, ContentsFacts DEF GitInit
    <2>2. CASE repo = [f \in Files |-> IF f \in Rendered(project) THEN Manifest(project, f) ELSE Absent]
      <3>1. project \in ProjectRows
        BY DEF GitInit
      <3>2. \A f \in Rendered(project) : f \in Files /\ Manifest(project, f) \in Contents[f]
        BY <3>1, ManifestTyped
      <3>3. \A f \in Files : repo[f] \in Contents[f]
        BY <2>2, <3>2, ContentsFacts
      <3>4. repo \in [Files -> AllContents]
        BY <2>2, <3>3, ContentsFacts
      <3>5. \A f \in DependencyFiles : f \in Files /\ f \notin Rendered(project)
        BY <3>1, RenderedFiles, ContentsFacts
      <3> QED
        BY <2>2, <3>1, <3>2, <3>3, <3>4, <3>5
    <2> QED
      BY <2>1, <2>2 DEF GitInit
  <1>3. GitTyped
    BY <1>2, IdleWriterIsAWriter DEF GitInit, GitTyped
  <1>4. \A w \in Writers : WriterTyped(w)
    BY <1>1 DEF WriterTyped
  <1>5. DirectoryInv
    <2>1. DeletesAlone /\ \A w \in Writers : DeletesAll(w) /\ WritesAll(w)
      BY <1>1 DEF DeletesAlone, DeletesAll, WritesAll, Putting, Deleting
    <2>2. Exists("kustomization") \/ Exists("overlay") =>
            /\ Exists("kustomization") /\ Exists("overlay")
            /\ repo["kustomization"][1] = Listed(project) /\ \A f \in Listed(project) : Exists(f)
      <3> SUFFICES ASSUME Exists("kustomization") \/ Exists("overlay")
                   PROVE  /\ Exists("kustomization") /\ Exists("overlay")
                          /\ repo["kustomization"][1] = Listed(project)
                          /\ \A f \in Listed(project) : Exists(f)
        OBVIOUS
      <3>1. \A g \in Rendered(project) : repo[g] = Manifest(project, g) /\ repo[g] # Absent
        BY <1>2, ContentsFacts, ManifestTyped DEF Exists
      <3>2. /\ Listed(project) \subseteq Rendered(project)
            /\ {"overlay", "kustomization"} \subseteq Rendered(project)
        BY <1>2, RenderedFiles
      <3>3. repo["kustomization"] = <<Listed(project)>>
        BY <3>1, <3>2 DEF Manifest
      <3> QED
        BY <3>1, <3>2, <3>3 DEF Exists
    <2>3. FilesCovered
      BY <1>2, <2>2 DEF FilesCovered, Covered, Exists
    <2> QED
      BY <2>1, <2>3 DEF DirectoryInv, DirectoryOK
  <1>6. ImageInv
    <2>1. SameNames /\ \A w \in Writers : WritesDeployment(w)
      BY <1>1 DEF SameNames, WritesDeployment, Putting, Busy
    <2>2. Exists("overlay") => repo["overlay"] = project.image /\ repo["deployment"] = project.image
      BY <1>2, ContentsFacts, RenderedFiles DEF Exists, Manifest
    <2>3. OverlayIsCurrent /\ DeploymentIsNamed
      BY <1>2, <2>2, NothingIsAbsent DEF OverlayIsCurrent, DeploymentIsNamed, Exists
    <2> QED
      BY <2>1, <2>3 DEF ImageInv, ImagesOK
  <1> QED
    BY <1>3, <1>4, <1>5, <1>6 DEF GitInv

\* What a commit or an update of the tag does to the directory, when nothing is
\* deleted meanwhile: files stay, and what the call leaves to be written is there.
LEMMA CommitStep ==
  ASSUME GitTyped, NEW w \in Writers, NEW s \in GitWriters, writer' = [writer EXCEPT ![w] = s],
         \A v \in Writers : ~Deleting(v), s.pc \notin {"list", "folder", "delete"},
         \A v \in Writers : WritesAll(v), FilesCovered, WritesAll(w)',
         \A f \in Files : Exists(f) => Exists(f)',
         Putting(w) => \A f \in writer[w].todo :
                         Exists(f)' \/ (s.pc \in {"put", "write"} /\ f \in s.todo),
         Putting(w) => writer[w].todo \subseteq IF Rows(w) THEN Rendered(writer[w].row) ELSE DependencyFiles,
         Rows(w) => writer[w].row \in ProjectRows,
         \/ repo' = repo
         \/ Putting(w) /\ \E f \in writer[w].todo :
              repo' = [repo EXCEPT ![f] = Manifest(writer[w].row, f)]
         \/ Exists("overlay") /\ \E x : repo' = [repo EXCEPT !["overlay"] = x]
  PROVE  /\ DeletesAlone' /\ \A v \in Writers : DeletesAll(v)' /\ WritesAll(v)'
         /\ FilesCovered'
  <1>1. /\ writer'[w] = s
        /\ \A v \in Writers : v # w =>
             /\ writer'[v] = writer[v] /\ (Deleting(v)' <=> Deleting(v)) /\ (Putting(v)' <=> Putting(v))
             /\ (Rows(v)' <=> Rows(v))
    BY OtherWriters DEF GitTyped
  <1>2. \A v \in Writers : ~Deleting(v)'
    BY <1>1 DEF Deleting
  <1>3. DeletesAlone' /\ \A v \in Writers : DeletesAll(v)'
    BY <1>2 DEF DeletesAlone, DeletesAll, Deleting
  <1>4. ASSUME NEW v \in Writers PROVE WritesAll(v)'
    <2>1. CASE v = w
      BY <2>1
    <2>2. CASE v # w
      <3>1. ASSUME Putting(v), NEW f \in IF Rows(v) THEN Rendered(writer[v].row) ELSE DependencyFiles,
                   v \in Writers, Rows(v) => writer[v].row \in ProjectRows
            PROVE  Exists(f)' \/ f \in writer[v].todo
        <4>1. f \in Files
          BY <3>1, RenderedFiles, ContentsFacts
        <4>2. Exists(f) \/ f \in writer[v].todo
          BY <3>1 DEF WritesAll
        <4> QED
          BY <4>1, <4>2
      <3>2. Rows(v) => writer[v].row \in ProjectRows
        BY DEF GitTyped, GitWriters, Rows
      <3> QED
        BY <1>1, <2>2, <3>1, <3>2 DEF WritesAll
    <2> QED
      BY <2>1, <2>2
  <1>5. ASSUME NEW f \in Files, Covered(f) PROVE Covered(f)'
    <2>1. CASE Exists(f)
      BY <2>1 DEF Covered
    <2>2. CASE \E v \in Writers : Putting(v) /\ f \in writer[v].todo
      <3>1. PICK v \in Writers : Putting(v) /\ f \in writer[v].todo
        BY <2>2
      <3>2. CASE v # w
        BY <1>1, <3>1, <3>2 DEF Covered
      <3>3. CASE v = w
        <4>1. Exists(f)' \/ (s.pc \in {"put", "write"} /\ f \in s.todo)
          BY <3>1, <3>3
        <4> QED
          BY <1>1, <4>1 DEF Covered, Putting
      <3> QED
        BY <3>2, <3>3
    <2> QED
      BY <1>5, <2>1, <2>2 DEF Covered
  \* All that the call renders.
  <1>6. ASSUME Putting(w), NEW f \in IF Rows(w) THEN Rendered(writer[w].row) ELSE DependencyFiles
        PROVE  f \in Files /\ Covered(f)'
    <2>1. f \in Files
      BY <1>6, RenderedFiles, ContentsFacts
    <2>2. Exists(f) \/ f \in writer[w].todo
      BY <1>6 DEF WritesAll
    <2>3. Covered(f)
      BY <1>6, <2>2 DEF Covered
    <2> QED
      BY <1>5, <2>1, <2>3
  <1>7. repo["kustomization"] = Absent \/ repo["kustomization"][1] \subseteq Files
    BY ContentsFacts DEF GitTyped, Files
  <1>8. \A f \in Files : repo'[f] = repo[f] \/
          (Putting(w) /\ f \in writer[w].todo /\ repo'[f] = Manifest(writer[w].row, f)) \/
          (f = "overlay" /\ Exists("overlay"))
    BY DEF GitTyped
  <1>9. ASSUME Exists("kustomization")'
        PROVE  Covered("overlay")' /\ \A f \in repo'["kustomization"][1] : Covered(f)'
    <2>1. CASE repo'["kustomization"] = repo["kustomization"]
      BY <1>5, <1>7, <1>9, <2>1, ContentsFacts DEF FilesCovered, Exists
    <2>2. CASE /\ Putting(w) /\ "kustomization" \in writer[w].todo
               /\ repo'["kustomization"] = Manifest(writer[w].row, "kustomization")
      <3>1. Rows(w)
        BY <2>2 DEF DependencyFiles
      <3>2. repo'["kustomization"] = <<Listed(writer[w].row)>>
        BY <2>2 DEF Manifest
      <3>3. repo'["kustomization"][1] = Listed(writer[w].row)
        BY <3>2
      <3> QED
        BY <1>6, <2>2, <3>1, <3>3, RenderedFiles
    <2> QED
      BY <1>8, <2>1, <2>2, ContentsFacts
  <1>10. ASSUME Exists("overlay")' PROVE Covered("kustomization")'
    <2>1. CASE Exists("overlay")
      BY <1>5, <2>1, ContentsFacts DEF FilesCovered
    <2>2. CASE Putting(w) /\ "overlay" \in writer[w].todo
      <3>1. Rows(w)
        BY <2>2 DEF DependencyFiles
      <3> QED
        BY <1>6, <2>2, <3>1, RenderedFiles
    <2> QED
      BY <1>8, <1>10, <2>1, <2>2, ContentsFacts DEF Exists
  <1>11. ASSUME NEW f \in DependencyFiles, NEW g \in DependencyFiles, Exists(f)' PROVE Covered(g)'
    <2>1. CASE Exists(f)
      BY <1>5, <2>1, ContentsFacts DEF FilesCovered
    <2>2. CASE Putting(w) /\ f \in writer[w].todo
      <3>1. ~Rows(w)
        BY <2>2, RenderedFiles
      <3> QED
        BY <1>6, <2>2, <3>1
    <2>3. f \in Files /\ f # "overlay"
      BY DEF DependencyFiles, Files
    <2> QED
      BY <1>8, <1>11, <2>1, <2>2, <2>3 DEF Exists
  <1> QED
    BY <1>3, <1>4, <1>9, <1>10, <1>11 DEF FilesCovered

\* What a deletion does to it: no other call is under way.
LEMMA DeletionStep ==
  ASSUME GitTyped, NEW w \in Writers, NEW s \in GitWriters, writer' = [writer EXCEPT ![w] = s],
         \A v \in Writers : v # w => ~Busy(v),
         s.pc \in {"list", "folder", "delete", "done"}, DeletesAll(w)'
  PROVE  /\ DeletesAlone' /\ \A v \in Writers : DeletesAll(v)' /\ WritesAll(v)'
         /\ \A v \in Writers : ~Putting(v)'
         /\ \A v \in Writers : v # w => ~Busy(v)'
  <1>1. /\ writer'[w] = s
        /\ \A v \in Writers : v # w => writer'[v] = writer[v] /\ (Busy(v)' <=> Busy(v))
    BY OtherWriters DEF GitTyped
  <1>2. \A v \in Writers : v # w => ~Busy(v)'
    BY <1>1
  <1>3. \A v \in Writers : v # w => writer'[v].pc \in {"idle", "done", "failed"}
    BY <1>1 DEF Busy
  <1> QED
    BY <1>1, <1>2, <1>3 DEF DeletesAlone, DeletesAll, WritesAll, Putting, Deleting, Busy

\* What such a call does to the images: what it leaves to be written is named as
\* the project's image, and an overlay that it writes has that image.
LEMMA ImageStep ==
  ASSUME GitTyped, NEW w \in Writers, NEW s \in GitWriters, writer' = [writer EXCEPT ![w] = s],
         project'.image = project.image,
         SameNames, \A v \in Writers : WritesDeployment(v), OverlayIsCurrent, DeploymentIsNamed,
         Busy(w)' /\ Rows(w)' => s.row.image[1] = project.image[1], WritesDeployment(w)',
         repo'["overlay"] = repo["overlay"] \/ repo'["overlay"] = project.image,
         BringsImage(w) => BringsImage(w)' \/ repo'["overlay"] = project.image,
         Exists("deployment") => Exists("deployment")',
         \/ repo'["deployment"] = repo["deployment"]
         \/ Exists("deployment")' /\ repo'["deployment"][1] = project.image[1],
         Putting(w) /\ Rows(w) /\ "deployment" \in writer[w].todo =>
           \/ Putting(w)' /\ Rows(w)' /\ "deployment" \in s.todo
           \/ Exists("deployment")' /\ repo'["deployment"][1] = project.image[1],
         \/ repo'["overlay"] = repo["overlay"]
         \/ Exists("deployment")' /\ repo'["deployment"][1] = project.image[1]
         \/ Putting(w)' /\ Rows(w)' /\ "deployment" \in s.todo
         \/ Exists("overlay") /\ repo["overlay"][1] = project.image[1]
  PROVE  /\ SameNames' /\ \A v \in Writers : WritesDeployment(v)'
         /\ OverlayIsCurrent' /\ DeploymentIsNamed'
  <1>1. /\ writer'[w] = s
        /\ \A v \in Writers : v # w =>
             /\ writer'[v] = writer[v] /\ (Busy(v)' <=> Busy(v)) /\ (Putting(v)' <=> Putting(v))
             /\ (Rows(v)' <=> Rows(v))
    BY OtherWriters DEF GitTyped
  <1>2. SameNames'
    BY <1>1 DEF SameNames
  <1>3. ASSUME NEW v \in Writers, v # w PROVE WritesDeployment(v)'
    <2>1. WritesDeployment(v)
      OBVIOUS
    <2>2. Putting(v) /\ Rows(v) => writer[v].row.image[1] = project.image[1]
      BY DEF SameNames, Busy, Putting
    <2> QED
      BY <1>1, <1>3, <2>1, <2>2 DEF WritesDeployment
  <1>4. \A v \in Writers : v # w /\ BringsImage(v) => BringsImage(v)'
    BY <1>1 DEF BringsImage
  <1>5. OverlayIsCurrent'
    <2> SUFFICES ASSUME Exists("overlay")', repo'["overlay"] # project.image
                 PROVE  \E v \in Writers : BringsImage(v)'
      BY DEF OverlayIsCurrent
    <2>1. PICK v \in Writers : BringsImage(v)
      BY DEF OverlayIsCurrent, Exists
    <2> QED
      BY <1>4, <2>1
  <1>6. DeploymentIsNamed'
    <2> SUFFICES ASSUME Exists("overlay")', repo'["overlay"][1] = project.image[1],
                        ~(Exists("deployment")' /\ repo'["deployment"][1] = project.image[1])
                 PROVE  \E v \in Writers : Putting(v)' /\ Rows(v)' /\ "deployment" \in writer'[v].todo
      BY DEF DeploymentIsNamed
    <2>1. CASE Putting(w)' /\ Rows(w)' /\ "deployment" \in s.todo
      BY <1>1, <2>1
    <2>2. CASE Exists("overlay") /\ repo["overlay"][1] = project.image[1]
      <3>1. PICK v \in Writers : Putting(v) /\ Rows(v) /\ "deployment" \in writer[v].todo
        BY <2>2 DEF DeploymentIsNamed, Exists
      <3> QED
        BY <1>1, <3>1
    <2> QED
      BY <2>1, <2>2 DEF Exists
  <1> QED
    BY <1>2, <1>3, <1>5, <1>6

\* A step of a call under way that deletes nothing and has not failed.
LEMMA BusyCallStep ==
  ASSUME GitInv, NEW w \in Writers, NEW s \in GitWriters, writer' = [writer EXCEPT ![w] = s],
         Busy(w), ~Deleting(w), WriterTyped(w)', s.pc \notin {"list", "folder", "delete"},
         repo' \in [Files -> AllContents], \A f \in Files : repo'[f] \in Contents[f],
         project' = project, disturbances' \in Nat, accidents \subseteq accidents', accidents' \subseteq Accidents,
         \A f \in Files : Exists(f) => Exists(f)',
         Putting(w) => \A f \in writer[w].todo :
                         Exists(f)' \/ (s.pc \in {"put", "write"} /\ f \in s.todo),
         \/ repo' = repo
         \/ Putting(w) /\ \E f \in writer[w].todo :
              repo' = [repo EXCEPT ![f] = Manifest(writer[w].row, f)]
         \/ Exists("overlay") /\ \E x : repo' = [repo EXCEPT !["overlay"] = x],
         WritesAll(w) => WritesAll(w)',
         accidents' = {} /\ SameNames /\ WritesDeployment(w) =>
           /\ Busy(w)' /\ Rows(w)' => s.row.image[1] = project.image[1]
           /\ WritesDeployment(w)'
           /\ repo'["overlay"] = repo["overlay"] \/ repo'["overlay"] = project.image
           /\ BringsImage(w) => BringsImage(w)' \/ repo'["overlay"] = project.image
           /\ \/ repo'["deployment"] = repo["deployment"]
              \/ Exists("deployment")' /\ repo'["deployment"][1] = project.image[1]
           /\ Putting(w) /\ Rows(w) /\ "deployment" \in writer[w].todo =>
                \/ Putting(w)' /\ Rows(w)' /\ "deployment" \in s.todo
                \/ Exists("deployment")' /\ repo'["deployment"][1] = project.image[1]
           /\ \/ repo'["overlay"] = repo["overlay"]
              \/ Exists("deployment")' /\ repo'["deployment"][1] = project.image[1]
              \/ Putting(w)' /\ Rows(w)' /\ "deployment" \in s.todo
              \/ Exists("overlay") /\ repo["overlay"][1] = project.image[1]
  PROVE  GitInv'
  <1>0. GitTyped /\ (\A v \in Writers : WriterTyped(v)) /\ project \in ProjectRows
    BY DEF GitInv, GitTyped
  <1>1. GitTyped' /\ \A v \in Writers : WriterTyped(v)'
    BY <1>0, WriterStep
  <1>2. writer[w] \in GitWriters /\ WriterTyped(w)
    BY <1>0 DEF GitTyped
  <1>3. /\ Rows(w) => writer[w].row \in ProjectRows
        /\ Putting(w) => writer[w].todo \subseteq IF Rows(w) THEN Rendered(writer[w].row) ELSE DependencyFiles
    BY <1>2 DEF GitWriters, Rows, WriterTyped, Putting
  <1>4. ASSUME Spared({"failed", "raced", "skipped"}) PROVE \A v \in Writers : ~Deleting(v)
    BY <1>4 DEF GitInv, DirectoryInv, DirectoryOK, DeletesAlone
  <1>5. ASSUME Spared({"failed", "raced", "skipped"})' PROVE DirectoryOK'
    <2>1. Spared({"failed", "raced", "skipped"})
      BY <1>5 DEF Spared
    <2>2. \A v \in Writers : ~Deleting(v) /\ writer[v].pc # "delete"
      BY <1>4, <2>1 DEF Deleting
    <2>3. FilesCovered /\ \A v \in Writers : WritesAll(v)
      BY <2>1, <2>2 DEF GitInv, DirectoryInv, DirectoryOK
    <2>4. /\ DeletesAlone' /\ \A v \in Writers : DeletesAll(v)' /\ WritesAll(v)'
          /\ FilesCovered'
      BY <1>0, <1>3, <2>2, <2>3, CommitStep
    <2> QED
      BY <2>4 DEF DirectoryOK
  <1>6. ASSUME accidents' = {} PROVE ImagesOK'
    <2>1. accidents = {} /\ Spared({"failed", "raced", "skipped"})
      BY <1>6 DEF Spared
    <2>2. \A v \in Writers : writer[v].pc # "delete"
      BY <1>4, <2>1 DEF Deleting
    <2>3. SameNames /\ (\A v \in Writers : WritesDeployment(v)) /\ OverlayIsCurrent /\ DeploymentIsNamed
      BY <2>1, <2>2 DEF GitInv, ImageInv, ImagesOK
    <2>4. Exists("deployment") => Exists("deployment")'
      BY ContentsFacts
    <2>5. /\ SameNames' /\ \A v \in Writers : WritesDeployment(v)'
          /\ OverlayIsCurrent' /\ DeploymentIsNamed'
      BY <1>0, <1>6, <2>3, <2>4, ImageStep
    <2> QED
      BY <2>5 DEF ImagesOK
  <1> QED
    BY <1>1, <1>5, <1>6 DEF GitInv, DirectoryInv, ImageInv

\* What is known of a call.
LEMMA AboutACall ==
  ASSUME GitInv, NEW w \in Writers
  PROVE  /\ writer[w] \in GitWriters /\ WriterTyped(w) /\ writer \in [Writers -> GitWriters]
         /\ Rows(w) => writer[w].row \in ProjectRows
         /\ repo \in [Files -> AllContents] /\ \A f \in Files : repo[f] \in Contents[f]
         /\ project \in ProjectRows /\ accidents \subseteq Accidents /\ disturbances \in Nat
  BY DEF GitInv, GitTyped, GitWriters, Rows

\* A step that writes nothing, and leaves what the call has to write.
LEMMA PutAgain ==
  ASSUME GitInv, NEW w \in Writers, NEW s \in GitWriters, writer' = [writer EXCEPT ![w] = s],
         writer[w].pc \in {"put", "write"}, s.pc \in {"put", "write"},
         s.row = writer[w].row, s.todo = writer[w].todo, s.file \in s.todo \cup {NoFile},
         s.pc = "write" => s.file \in s.todo,
         repo' = repo, project' = project, disturbances' \in Nat, accidents' = accidents
  PROVE  GitInv'
  <1>1. /\ writer'[w] = s /\ WriterTyped(w) /\ Putting(w) /\ Putting(w)' /\ Busy(w) /\ ~Deleting(w)
        /\ (Rows(w)' <=> Rows(w)) /\ repo' \in [Files -> AllContents] /\ accidents' \subseteq Accidents
        /\ \A f \in Files : repo'[f] \in Contents[f]
    BY AboutACall DEF Putting, Busy, Deleting, Rows
  <1>2. WriterTyped(w)'
    BY <1>1 DEF WriterTyped
  <1>3. WritesAll(w) => WritesAll(w)'
    BY <1>1 DEF WritesAll, Exists
  <1>4. SameNames /\ WritesDeployment(w) =>
          /\ Busy(w)' /\ Rows(w)' => s.row.image[1] = project.image[1]
          /\ WritesDeployment(w)' /\ (BringsImage(w) => BringsImage(w)')
    BY <1>1 DEF SameNames, WritesDeployment, BringsImage, Exists
  <1>5. \A f \in Files : Exists(f) => Exists(f)'
    BY DEF Exists
  <1> QED
    BY <1>1, <1>2, <1>3, <1>4, <1>5, BusyCallStep

LEMMA PutReadStep ==
  ASSUME GitInv, NEW w \in Writers, PutRead(w)
  PROVE  GitInv'
  <1>0. writer[w].pc = "put" /\ repo' = repo /\ project' = project
    BY DEF PutRead
  <1>t. /\ writer[w] \in GitWriters /\ WriterTyped(w) /\ writer \in [Writers -> GitWriters]
        /\ repo \in [Files -> AllContents] /\ \A f \in Files : repo[f] \in Contents[f]
        /\ disturbances \in Nat /\ Absent \in AllContents
    BY AboutACall, ContentsFacts
  <1>1. ASSUME Fail(w), Fault PROVE GitInv'
    <2>1. disturbances' \in Nat
      BY <1>t, <1>1 DEF Fault
    <2> QED
      BY <1>0, <1>t, <1>1, <2>1, FailStep
  <1>2. ASSUME NEW f \in writer[w].todo, NEW seen \in {repo[f], Absent}, UNCHANGED accidents,
               UNCHANGED disturbances \/ Fault,
               writer' = [writer EXCEPT ![w].pc = "write", ![w].file = f, ![w].seen = seen]
        PROVE  GitInv'
    <2> DEFINE s == [writer[w] EXCEPT !.pc = "write", !.file = f, !.seen = seen]
    <2>1. f \in Files
      BY <1>0, <1>t, RenderedFiles, ContentsFacts, AboutACall DEF WriterTyped
    <2>2. seen \in AllContents
      BY <1>t, <2>1
    <2>3. writer' = [writer EXCEPT ![w] = s]
      BY <1>t, <1>2
    <2>4. /\ s \in GitWriters /\ s.pc = "write" /\ s.file = f /\ s.row = writer[w].row
          /\ s.todo = writer[w].todo
      BY <1>t, <2>1, <2>2 DEF GitWriters, Pcs
    <2>5. disturbances' \in Nat
      BY <1>t, <1>2 DEF Fault
    <2> HIDE DEF s
    <2> QED
      BY <1>0, <1>2, <2>3, <2>4, <2>5, PutAgain
  <1>3. PICK f \in IF writer[w].file = NoFile THEN writer[w].todo ELSE {writer[w].file} :
          \/ /\ \/ UNCHANGED disturbances /\ writer' = [writer EXCEPT
                      ![w].pc = "write", ![w].file = f, ![w].seen = repo[f]]
                \/ Fault /\ writer' = [writer EXCEPT
                      ![w].pc = "write", ![w].file = f, ![w].seen = Absent]
             /\ UNCHANGED accidents
          \/ Fault /\ Fail(w)
    BY DEF PutRead
  <1>4. f \in writer[w].todo
    BY <1>0, <1>t, <1>3 DEF WriterTyped
  <1> QED
    BY <1>1, <1>2, <1>3, <1>4

LEMMA RetryStep ==
  ASSUME GitInv, NEW w \in Writers, writer[w].pc = "write", Retry(w),
         repo' = repo, project' = project, disturbances' \in Nat
  PROVE  GitInv'
  <1>t. /\ writer[w] \in GitWriters /\ WriterTyped(w) /\ writer \in [Writers -> GitWriters]
        /\ repo \in [Files -> AllContents] /\ \A f \in Files : repo[f] \in Contents[f]
    BY AboutACall
  <1>1. ASSUME Fail(w) PROVE GitInv'
    BY <1>t, <1>1, FailStep
  <1>2. ASSUME writer[w].attempt < MaxRetries, UNCHANGED accidents,
               writer' = [writer EXCEPT ![w].pc = "put", ![w].attempt = @ + 1]
        PROVE  GitInv'
    <2> DEFINE s == [writer[w] EXCEPT !.pc = "put", !.attempt = writer[w].attempt + 1]
    <2>1. writer[w].attempt + 1 \in 0..MaxRetries
      BY <1>t, <1>2, GitAssumption DEF GitWriters
    <2>2. writer' = [writer EXCEPT ![w] = s]
      BY <1>t, <1>2
    <2>3. /\ s \in GitWriters /\ s.pc = "put" /\ s.file = writer[w].file /\ s.row = writer[w].row
          /\ s.todo = writer[w].todo
      BY <1>t, <2>1 DEF GitWriters, Pcs
    <2>4. writer[w].file \in writer[w].todo
      BY <1>t DEF WriterTyped
    <2> HIDE DEF s
    <2> QED
      BY <1>2, <2>2, <2>3, <2>4, PutAgain
  <1> QED
    BY <1>1, <1>2 DEF Retry

\* A file is written and the call goes on to the next or ends.
LEMMA PutSucceeds ==
  ASSUME GitInv, NEW w \in Writers, writer[w].pc = "write",
         PutContent(w, writer[w].file),
         IF writer[w].todo \ {writer[w].file} = {} THEN End(w, "done")
         ELSE writer' = [writer EXCEPT ![w].pc = "put", ![w].todo = writer[w].todo \ {writer[w].file},
                ![w].file = NoFile, ![w].seen = Absent, ![w].attempt = 0],
         Happen(Stale(w, writer[w].file)), UNCHANGED <<disturbances, project>>
  PROVE  GitInv'
  <1> DEFINE old == writer[w]
             f == old.file
             rest == old.todo \ {f}
             s == IF rest = {} THEN [IdleWriter EXCEPT !.pc = "done"]
                  ELSE [old EXCEPT !.pc = "put", !.todo = rest, !.file = NoFile, !.seen = Absent,
                                   !.attempt = 0]
  <1>t. /\ old \in GitWriters /\ WriterTyped(w) /\ writer \in [Writers -> GitWriters]
        /\ Rows(w) => old.row \in ProjectRows
        /\ repo \in [Files -> AllContents] /\ \A g \in Files : repo[g] \in Contents[g]
        /\ project \in ProjectRows /\ accidents \subseteq Accidents /\ disturbances \in Nat
    BY AboutACall
  <1>1. /\ f \in old.todo
        /\ old.todo \subseteq IF Rows(w) THEN Rendered(old.row) ELSE DependencyFiles
    BY <1>t DEF WriterTyped
  <1>2. f \in Files /\ rest \in SUBSET Files
    BY <1>t, <1>1, RenderedFiles, ContentsFacts
  <1>3. /\ repo' \in [Files -> AllContents] /\ \A g \in Files : repo'[g] \in Contents[g]
        /\ repo'[f] = Manifest(old.row, f) /\ repo'[f] # Absent
        /\ \A g \in Files : g # f => repo'[g] = repo[g]
    BY <1>t, <1>1, PutKeepsTypes DEF GitInv
  <1>4. writer' = [writer EXCEPT ![w] = s]
    BY <1>t DEF End
  <1>5. /\ s \in GitWriters
        /\ IF rest = {} THEN s.pc = "done"
           ELSE s.pc = "put" /\ s.todo = rest /\ s.row = old.row /\ s.file = NoFile
    <2>1. CASE rest = {}
      <3>1. s = [IdleWriter EXCEPT !.pc = "done"]
        BY <2>1
      <3> QED
        BY <2>1, <3>1, IdleWriterIsAWriter DEF GitWriters, Pcs
    <2>2. CASE rest # {}
      <3>1. s = [old EXCEPT !.pc = "put", !.todo = rest, !.file = NoFile, !.seen = Absent, !.attempt = 0]
        BY <2>2
      <3>2. NoFile \in Files \cup {NoFile} /\ Absent \in AllContents /\ 0 \in 0..MaxRetries
        BY ContentsFacts, GitAssumption
      <3> HIDE DEF rest, old
      <3> QED
        BY <1>t, <1>2, <2>2, <3>1, <3>2 DEF GitWriters, Pcs
    <2> QED
      BY <2>1, <2>2
  <1> HIDE DEF s, rest, f
  <1>6. writer'[w] = s
    BY <1>t, <1>4
  <1>7. /\ rest = {} => writer'[w].pc = "done"
        /\ rest # {} => /\ Putting(w)' /\ (Rows(w)' <=> Rows(w)) /\ s.todo = rest
                        /\ s.row = old.row /\ s.pc = "put" /\ s.file = NoFile
        /\ Putting(w)' => rest # {}
        /\ Busy(w)' => rest # {}
    BY <1>5, <1>6 DEF Putting, Rows, Busy
  <1>8. Putting(w) /\ Busy(w) /\ ~Deleting(w)
    BY DEF Putting, Busy, Deleting
  <1>9. WriterTyped(w)'
    <2>1. rest \subseteq old.todo
      BY DEF rest
    <2> QED
      BY <1>1, <1>5, <1>6, <1>7, <2>1 DEF WriterTyped
  <1>10. \A g \in Files : Exists(g) => Exists(g)'
    BY <1>3 DEF Exists
  <1>11. \A g \in old.todo : Exists(g)' \/ (s.pc \in {"put", "write"} /\ g \in s.todo)
    BY <1>3, <1>5 DEF Exists, rest
  <1>12. WritesAll(w) => WritesAll(w)'
    <2> SUFFICES ASSUME WritesAll(w), Putting(w)',
                        NEW g \in IF Rows(w) THEN Rendered(old.row) ELSE DependencyFiles
                 PROVE  Exists(g)' \/ g \in s.todo
      BY <1>6, <1>7 DEF WritesAll
    <2>1. g \in Files
      BY <1>t, RenderedFiles, ContentsFacts
    <2>2. Exists(g) \/ g \in old.todo
      BY <1>8 DEF WritesAll
    <2> QED
      BY <1>7, <1>10, <1>11, <2>1, <2>2
  <1>13. /\ accidents \subseteq accidents' /\ accidents' \subseteq Accidents
         /\ accidents' = {} => f # "overlay" \/ old.row.image = project.image
    BY <1>t DEF Happen, Stale, Accidents, f
  <1>14. ASSUME accidents' = {}, SameNames, WritesDeployment(w)
         PROVE  /\ Busy(w)' /\ Rows(w)' => s.row.image[1] = project.image[1]
                /\ WritesDeployment(w)'
                /\ repo'["overlay"] = repo["overlay"] \/ repo'["overlay"] = project.image
                /\ BringsImage(w) => BringsImage(w)' \/ repo'["overlay"] = project.image
                /\ \/ repo'["deployment"] = repo["deployment"]
                   \/ Exists("deployment")' /\ repo'["deployment"][1] = project.image[1]
                /\ Putting(w) /\ Rows(w) /\ "deployment" \in writer[w].todo =>
                     \/ Putting(w)' /\ Rows(w)' /\ "deployment" \in s.todo
                     \/ Exists("deployment")' /\ repo'["deployment"][1] = project.image[1]
                /\ \/ repo'["overlay"] = repo["overlay"]
                   \/ Exists("deployment")' /\ repo'["deployment"][1] = project.image[1]
                   \/ Putting(w)' /\ Rows(w)' /\ "deployment" \in s.todo
    <2>1. f \in {"deployment", "overlay"} => Rows(w)
      BY <1>1 DEF DependencyFiles
    <2>2. Rows(w) => old.row.image[1] = project.image[1]
      BY <1>8, <1>14 DEF SameNames
    <2>3. f = "overlay" => repo'["overlay"] = project.image
      BY <1>3, <1>13, <1>14 DEF Manifest
    <2>4. f = "deployment" => Exists("deployment")' /\ repo'["deployment"][1] = project.image[1]
      BY <1>3, <2>1, <2>2 DEF Manifest, Exists
    <2>5. f # "overlay" => repo'["overlay"] = repo["overlay"]
      BY <1>3, ContentsFacts
    <2>6. f # "deployment" => repo'["deployment"] = repo["deployment"]
      BY <1>3, ContentsFacts
    <2>7. Busy(w)' /\ Rows(w)' => s.row.image[1] = project.image[1]
      BY <1>7, <2>2
    <2>8. Rows(w) /\ "deployment" \in old.todo =>
            \/ Putting(w)' /\ Rows(w)' /\ "deployment" \in s.todo
            \/ Exists("deployment")' /\ repo'["deployment"][1] = project.image[1]
      <3>1. "deployment" \in old.todo => f = "deployment" \/ "deployment" \in rest
        BY DEF rest
      <3> QED
        BY <1>7, <2>4, <3>1
    <2>9. Rows(w) /\ "deployment" \notin old.todo =>
            Exists("deployment")' /\ repo'["deployment"][1] = project.image[1]
      <3>1. Rows(w) /\ "deployment" \notin old.todo =>
              Exists("deployment") /\ repo["deployment"][1] = project.image[1]
        BY <1>8, <1>14, <2>2 DEF WritesDeployment
      <3> QED
        BY <1>1, <2>6, <3>1 DEF Exists
    <2>10. WritesDeployment(w)'
      BY <1>6, <1>7, <2>2, <2>8, <2>9 DEF WritesDeployment
    <2>11. BringsImage(w) => BringsImage(w)' \/ repo'["overlay"] = project.image
      <3> SUFFICES ASSUME BringsImage(w), f # "overlay" PROVE BringsImage(w)'
        BY <2>3
      <3>1. "overlay" \in rest /\ Rows(w) /\ old.row.image = project.image
        BY DEF BringsImage, rest
      <3> QED
        BY <1>6, <1>7, <3>1 DEF BringsImage
    <2> QED
      BY <2>1, <2>3, <2>4, <2>5, <2>6, <2>7, <2>8, <2>9, <2>10, <2>11
  <1>15. disturbances' \in Nat /\ s.pc \notin {"list", "folder", "delete"}
    BY <1>t, <1>5
  <1>16. \E g \in old.todo : repo' = [repo EXCEPT ![g] = Manifest(old.row, g)]
    BY <1>1 DEF PutContent, f
  <1> QED
    BY <1>3, <1>4, <1>5, <1>8, <1>9, <1>10, <1>11, <1>12, <1>13, <1>14, <1>15, <1>16, BusyCallStep

LEMMA PutWriteStep ==
  ASSUME GitInv, NEW w \in Writers, PutWrite(w)
  PROVE  GitInv'
  <1> DEFINE f == writer[w].file
             rest == writer[w].todo \ {f}
  <1>0. writer[w].pc = "write" /\ project' = project
    BY DEF PutWrite
  <1>t. /\ writer[w] \in GitWriters /\ WriterTyped(w) /\ disturbances \in Nat
        /\ Rows(w) => writer[w].row \in ProjectRows
        /\ repo \in [Files -> AllContents] /\ \A g \in Files : repo[g] \in Contents[g]
    BY AboutACall
  <1>1. \/ /\ PutContent(w, f)
           /\ IF rest = {} THEN End(w, "done")
              ELSE writer' = [writer EXCEPT ![w].pc = "put", ![w].todo = rest,
                     ![w].file = NoFile, ![w].seen = Absent, ![w].attempt = 0]
           /\ Happen(Stale(w, f)) /\ UNCHANGED disturbances
        \/ UNCHANGED <<repo, disturbances>> /\ (Fail(w) \/ Retry(w))
        \/ Fault /\ Retry(w) /\ UNCHANGED repo
        \/ Fault /\ Fail(w) /\ (UNCHANGED repo \/ PutContent(w, f))
    BY Zenon DEF PutWrite
  <1>2. CASE /\ PutContent(w, f)
             /\ IF rest = {} THEN End(w, "done")
                ELSE writer' = [writer EXCEPT ![w].pc = "put", ![w].todo = rest,
                       ![w].file = NoFile, ![w].seen = Absent, ![w].attempt = 0]
             /\ Happen(Stale(w, f)) /\ UNCHANGED disturbances
    BY <1>0, <1>2, PutSucceeds
  <1>3. CASE repo' = repo /\ disturbances' \in Nat /\ (Fail(w) \/ Retry(w))
    BY <1>0, <1>t, <1>3, FailStep, RetryStep
  <1>4. CASE disturbances' \in Nat /\ Fail(w) /\ PutContent(w, f)
    <2>1. repo' \in [Files -> AllContents] /\ \A g \in Files : repo'[g] \in Contents[g]
      <3>1. f \in writer[w].todo
            /\ writer[w].todo \subseteq IF Rows(w) THEN Rendered(writer[w].row) ELSE DependencyFiles
        BY <1>0, <1>t DEF WriterTyped
      <3> QED
        BY <1>t, <1>4, <3>1, PutKeepsTypes DEF GitInv
    <2> QED
      BY <1>0, <1>4, <2>1, FailStep
  <1>5. Fault => disturbances' \in Nat
    BY <1>t DEF Fault
  <1> QED
    BY <1>1, <1>2, <1>3, <1>4, <1>5, <1>t

\* A call ends without having written anything.
LEMMA EndIsAWriter ==
  ASSUME GitInv, NEW w \in Writers, End(w, "done")
  PROVE  \E s \in GitWriters : /\ writer' = [writer EXCEPT ![w] = s] /\ s.pc = "done"
                               /\ s.row = Absent /\ writer'[w] = s /\ WriterTyped(w)'
  <1> DEFINE s == [IdleWriter EXCEPT !.pc = "done"]
  <1>1. writer' = [writer EXCEPT ![w] = s]
    BY DEF End
  <1>2. s \in GitWriters /\ s.pc = "done"
    BY IdleWriterIsAWriter DEF GitWriters, Pcs
  <1>3. s.row = Absent
    BY DEF IdleWriter
  <1> HIDE DEF s
  <1>4. writer'[w] = s
    BY <1>1, AboutACall
  <1>5. WriterTyped(w)'
    BY <1>2, <1>4 DEF WriterTyped
  <1> QED
    BY <1>1, <1>2, <1>3, <1>4, <1>5

LEMMA TagReadStep ==
  ASSUME GitInv, NEW w \in Writers, TagRead(w)
  PROVE  GitInv'
  <1>0. writer[w].pc = "tag" /\ repo' = repo /\ project' = project
    BY DEF TagRead
  <1>t. /\ writer[w] \in GitWriters /\ WriterTyped(w) /\ writer \in [Writers -> GitWriters]
        /\ repo \in [Files -> AllContents] /\ \A g \in Files : repo[g] \in Contents[g]
        /\ disturbances \in Nat /\ accidents \subseteq Accidents
        /\ Rows(w) /\ writer[w].row \in ProjectRows /\ writer[w].file = NoFile
    BY <1>0, AboutACall DEF WriterTyped
  <1>b. Busy(w) /\ ~Deleting(w) /\ ~Putting(w) /\ \A f \in Files : Exists(f) => Exists(f)'
    BY <1>0 DEF Busy, Deleting, Putting, Exists
  <1>1. ASSUME Fault, Fail(w) PROVE GitInv'
    <2>1. disturbances' \in Nat
      BY <1>t, <1>1 DEF Fault
    <2> QED
      BY <1>0, <1>t, <1>1, <2>1, FailStep
  <1>2. ASSUME UNCHANGED <<disturbances, accidents>>, ~Exists("overlay"),
               writer' = [writer EXCEPT ![w].pc = "put", ![w].todo = Rendered(writer[w].row)]
        PROVE  GitInv'
    <2> DEFINE s == [writer[w] EXCEPT !.pc = "put", !.todo = Rendered(writer[w].row)]
    <2>1. writer' = [writer EXCEPT ![w] = s]
      BY <1>t, <1>2
    <2>2. /\ s \in GitWriters /\ s.pc = "put" /\ s.todo = Rendered(writer[w].row)
          /\ s.row = writer[w].row /\ s.file = NoFile
      BY <1>t, RenderedFiles DEF GitWriters, Pcs
    <2> HIDE DEF s
    <2>3. writer'[w] = s /\ Putting(w)' /\ Rows(w)'
      BY <1>t, <2>1, <2>2 DEF Putting, Rows
    <2>4. WriterTyped(w)' /\ WritesAll(w)'
      BY <2>2, <2>3 DEF WriterTyped, WritesAll
    <2>5. "deployment" \in s.todo /\ "overlay" \in s.todo
      BY <1>t, <2>2, RenderedFiles
    <2>6. /\ WritesDeployment(w)' /\ (BringsImage(w) => BringsImage(w)')
          /\ SameNames => s.row.image[1] = project.image[1]
      BY <1>0, <1>t, <1>b, <2>2, <2>3, <2>5 DEF WritesDeployment, BringsImage, SameNames
    <2> QED
      BY <1>0, <1>t, <1>b, <1>2, <2>1, <2>2, <2>4, <2>6, BusyCallStep
  <1>3. ASSUME UNCHANGED <<disturbances, accidents>>, repo["overlay"] = writer[w].row.image, End(w, "done")
        PROVE  GitInv'
    <2>1. PICK s \in GitWriters :
            /\ writer' = [writer EXCEPT ![w] = s] /\ s.pc = "done"
            /\ s.row = Absent /\ writer'[w] = s /\ WriterTyped(w)'
      BY <1>3, EndIsAWriter
    <2>2. ~Putting(w)' /\ ~Busy(w)' /\ WritesAll(w)' /\ WritesDeployment(w)'
      BY <2>1 DEF Putting, Busy, WritesAll, WritesDeployment
    <2>3. BringsImage(w) => repo'["overlay"] = project.image
      BY <1>0, <1>3 DEF BringsImage
    <2> QED
      BY <1>0, <1>t, <1>b, <1>3, <2>1, <2>2, <2>3, BusyCallStep
  <1>4. ASSUME UNCHANGED <<disturbances, accidents>>, repo["overlay"] \notin {Absent, writer[w].row.image},
               writer' = [writer EXCEPT ![w].seen = repo["overlay"], ![w].pc = "retag"]
        PROVE  GitInv'
    <2> DEFINE s == [writer[w] EXCEPT !.seen = repo["overlay"], !.pc = "retag"]
    <2>1. writer' = [writer EXCEPT ![w] = s]
      BY <1>t, <1>4
    <2>2. repo["overlay"] \in Images /\ repo["overlay"] \in AllContents
      BY <1>t, <1>4, ContentsFacts
    <2>3. /\ s \in GitWriters /\ s.pc = "retag" /\ s.seen = repo["overlay"]
          /\ s.row = writer[w].row /\ s.file = NoFile
      BY <1>t, <2>2 DEF GitWriters, Pcs
    <2> HIDE DEF s
    <2>4. writer'[w] = s /\ ~Putting(w)' /\ Rows(w)'
      BY <1>t, <2>1, <2>3 DEF Putting, Rows
    <2>5. WriterTyped(w)' /\ WritesAll(w)' /\ WritesDeployment(w)'
      BY <2>2, <2>3, <2>4 DEF WriterTyped, WritesAll, WritesDeployment
    <2>6. /\ BringsImage(w) => BringsImage(w)'
          /\ SameNames => s.row.image[1] = project.image[1]
      BY <1>0, <1>t, <1>b, <2>3, <2>4 DEF BringsImage, SameNames
    <2> QED
      BY <1>0, <1>t, <1>b, <1>4, <2>1, <2>3, <2>5, <2>6, BusyCallStep
  <1>5. \/ /\ UNCHANGED <<disturbances, accidents>>
           /\ \/ ~Exists("overlay") /\ writer' = [writer EXCEPT ![w].pc = "put",
                   ![w].todo = Rendered(writer[w].row)]
              \/ repo["overlay"] = writer[w].row.image /\ End(w, "done")
              \/ /\ repo["overlay"] \notin {Absent, writer[w].row.image}
                 /\ writer' = [writer EXCEPT ![w].seen = repo["overlay"], ![w].pc = "retag"]
        \/ Fault /\ Fail(w)
    BY DEF TagRead
  <1> QED
    BY <1>1, <1>2, <1>3, <1>4, <1>5

LEMMA TagWriteStep ==
  ASSUME GitInv, NEW w \in Writers, TagWrite(w)
  PROVE  GitInv'
  <1> DEFINE row == writer[w].row
             seen == writer[w].seen
  <1>0. writer[w].pc = "retag" /\ project' = project
    BY DEF TagWrite
  <1>t. /\ writer[w] \in GitWriters /\ WriterTyped(w) /\ writer \in [Writers -> GitWriters]
        /\ repo \in [Files -> AllContents] /\ \A g \in Files : repo[g] \in Contents[g]
        /\ disturbances \in Nat /\ accidents \subseteq Accidents
        /\ Rows(w) /\ row \in ProjectRows /\ seen \in Images
    BY <1>0, AboutACall DEF WriterTyped
  <1>b. Busy(w) /\ ~Deleting(w) /\ ~Putting(w)
    BY <1>0 DEF Busy, Deleting, Putting
  <1>p. ASSUME PutContent(w, "overlay")
        PROVE  /\ repo' \in [Files -> AllContents] /\ \A g \in Files : repo'[g] \in Contents[g]
               /\ repo'["overlay"] = row.image /\ repo'["overlay"] # Absent
               /\ \A g \in Files : g # "overlay" => repo'[g] = repo[g]
    <2>1. "overlay" \in Rendered(row) /\ Manifest(row, "overlay") = row.image
      BY <1>t, RenderedFiles DEF Manifest
    <2> QED
      BY <1>t, <1>p, <2>1, PutKeepsTypes DEF GitInv
  <1>1. ASSUME Fail(w), UNCHANGED disturbances \/ Fault, repo' = repo \/ PutContent(w, "overlay")
        PROVE  GitInv'
    <2>1. disturbances' \in Nat
      BY <1>t, <1>1 DEF Fault
    <2> QED
      BY <1>0, <1>t, <1>p, <1>1, <2>1, FailStep
  <1>2. ASSUME seen = repo["overlay"], PutContent(w, "overlay"), End(w, "done"),
               Happen(Stale(w, "overlay") \cup IF seen[1] # row.image[1] THEN {"renamed"} ELSE {}),
               UNCHANGED disturbances
        PROVE  GitInv'
    <2>1. PICK s \in GitWriters :
            /\ writer' = [writer EXCEPT ![w] = s] /\ s.pc = "done"
            /\ s.row = Absent /\ writer'[w] = s /\ WriterTyped(w)'
      BY <1>2, EndIsAWriter
    <2>2. ~Putting(w)' /\ ~Busy(w)' /\ WritesAll(w)' /\ WritesDeployment(w)'
      BY <2>1 DEF Putting, Busy, WritesAll, WritesDeployment
    <2>3. /\ accidents \subseteq accidents' /\ accidents' \subseteq Accidents
          /\ accidents' = {} => row.image = project.image /\ seen[1] = row.image[1]
      BY <1>t, <1>2 DEF Happen, Stale, Accidents
    <2>4. Exists("overlay")
      BY <1>t, <1>2, NothingIsAbsent DEF Exists
    <2>5. \A f \in Files : Exists(f) => Exists(f)'
      BY <1>p, <1>2 DEF Exists
    <2>6. repo'["deployment"] = repo["deployment"]
      BY <1>p, <1>2, ContentsFacts
    <2>7. accidents' = {} => repo'["overlay"] = project.image /\ repo["overlay"][1] = project.image[1]
      BY <1>p, <1>2, <2>3
    <2>8. \E x : repo' = [repo EXCEPT !["overlay"] = x]
      BY <1>2 DEF PutContent
    <2> QED
      BY <1>0, <1>t, <1>b, <1>p, <1>2, <2>1, <2>2, <2>3, <2>4, <2>5, <2>6, <2>7, <2>8, BusyCallStep
  <1>3. \/ /\ seen = repo["overlay"] /\ PutContent(w, "overlay") /\ End(w, "done")
           /\ Happen(Stale(w, "overlay") \cup IF seen[1] # row.image[1] THEN {"renamed"} ELSE {})
           /\ UNCHANGED disturbances
        \/ Fail(w) /\ UNCHANGED <<repo, disturbances>>
        \/ Fault /\ Fail(w) /\ (UNCHANGED repo \/ PutContent(w, "overlay"))
    BY Zenon DEF TagWrite
  <1> QED
    BY <1>1, <1>2, <1>3

\* A step of a deletion that leaves the directory as it is, has more to delete,
\* or has deleted all.
LEMMA DeletingStep ==
  ASSUME GitInv, NEW w \in Writers, NEW s \in GitWriters, writer' = [writer EXCEPT ![w] = s],
         Deleting(w), s.pc \in {"folder", "delete", "done"}, WriterTyped(w)',
         repo' \in [Files -> AllContents], \A f \in Files : repo'[f] \in Contents[f],
         project' = project, accidents' = accidents, disturbances' = disturbances,
         DeletesAll(w) => DeletesAll(w)',
         \/ repo' = repo /\ writer[w].pc # "delete"
         \/ s.pc = "delete"
         \/ DeletesAll(w) => \A f \in Files : ~Exists(f)'
  PROVE  GitInv'
  <1>t. /\ GitTyped /\ (\A v \in Writers : WriterTyped(v)) /\ project' \in ProjectRows
        /\ disturbances' \in Nat /\ accidents' \subseteq Accidents
    BY DEF GitInv, GitTyped
  <1>1. GitTyped' /\ \A v \in Writers : WriterTyped(v)'
    BY <1>t, WriterStep
  <1>2. writer'[w] = s /\ ~(Busy(w)' /\ Rows(w)')
    BY <1>t DEF GitTyped, WriterTyped, Busy, Rows
  <1>3. ASSUME Spared({"failed", "raced", "skipped"})
        PROVE  /\ DirectoryOK /\ DeletesAll(w)
               /\ \A v \in Writers : v # w => ~Busy(v) /\ ~Putting(v) /\ writer[v].pc # "delete"
               /\ \A v \in Writers : ~Putting(v)
               /\ \A v \in Writers : ~Putting(v)' /\ (v # w => ~Busy(v)')
               /\ DeletesAlone' /\ \A v \in Writers : DeletesAll(v)' /\ WritesAll(v)'
    <2>1. DirectoryOK /\ DeletesAll(w) /\ \A v \in Writers : v # w => ~Busy(v)
      BY <1>3 DEF GitInv, DirectoryInv, DirectoryOK, DeletesAlone
    <2>2. \A v \in Writers : v # w => ~Putting(v) /\ writer[v].pc # "delete"
      BY <2>1 DEF Busy, Putting
    <2>3. ~Putting(w)
      BY DEF Deleting, Putting
    <2> QED
      BY <1>t, <2>1, <2>2, <2>3, DeletionStep
  <1>4. ASSUME Spared({"failed", "raced", "skipped"}), \A v \in Writers : writer'[v].pc # "delete"
        PROVE  \/ \A f \in Files : ~Exists(f)'
               \/ repo' = repo /\ \A v \in Writers : writer[v].pc # "delete"
    BY <1>2, <1>3, <1>4
  <1>5. ASSUME Spared({"failed", "raced", "skipped"})' PROVE DirectoryOK'
    <2>1. Spared({"failed", "raced", "skipped"})
      BY <1>5 DEF Spared
    <2>2. ASSUME \A v \in Writers : writer'[v].pc # "delete" PROVE FilesCovered'
      <3>1. CASE \A f \in Files : ~Exists(f)'
        BY <3>1, ContentsFacts DEF FilesCovered
      <3>2. CASE repo' = repo /\ \A v \in Writers : writer[v].pc # "delete"
        <4>1. FilesCovered
          BY <1>3, <2>1, <3>2 DEF DirectoryOK
        <4>2. \A f : Covered(f) => Covered(f)'
          BY <1>3, <2>1, <3>2 DEF Covered, Exists
        <4>3. \A f : Exists(f)' <=> Exists(f)
          BY <3>2 DEF Exists
        <4> QED
          BY <3>2, <4>1, <4>2, <4>3 DEF FilesCovered
      <3> QED
        BY <1>4, <2>1, <2>2, <3>1, <3>2
    <2> QED
      BY <1>3, <2>1, <2>2 DEF DirectoryOK
  <1>6. ASSUME accidents' = {} PROVE ImagesOK'
    <2>1. accidents = {} /\ Spared({"failed", "raced", "skipped"})
      BY <1>6 DEF Spared
    <2>2. SameNames' /\ \A v \in Writers : WritesDeployment(v)'
      BY <1>2, <1>3, <2>1 DEF SameNames, WritesDeployment
    <2>3. ASSUME \A v \in Writers : writer'[v].pc # "delete" PROVE OverlayIsCurrent' /\ DeploymentIsNamed'
      <3>1. CASE \A f \in Files : ~Exists(f)'
        BY <3>1, ContentsFacts DEF OverlayIsCurrent, DeploymentIsNamed
      <3>2. CASE repo' = repo /\ \A v \in Writers : writer[v].pc # "delete"
        <4>1. OverlayIsCurrent /\ DeploymentIsNamed
          BY <2>1, <3>2 DEF GitInv, ImageInv, ImagesOK
        <4>2. \A v \in Writers : ~BringsImage(v)
          <5>1. \A v \in Writers : BringsImage(v) => Busy(v) /\ (Putting(v) \/ writer[v].pc \in {"tag", "retag"})
            BY DEF BringsImage, Busy, Putting
          <5> QED
            BY <1>3, <2>1, <5>1 DEF Deleting
        <4>3. \A f : Exists(f)' <=> Exists(f)
          BY <3>2 DEF Exists
        <4> QED
          BY <1>3, <2>1, <3>2, <4>1, <4>2, <4>3 DEF OverlayIsCurrent, DeploymentIsNamed
      <3> QED
        BY <1>4, <2>1, <2>3, <3>1, <3>2
    <2> QED
      BY <2>2, <2>3 DEF ImagesOK
  <1> QED
    BY <1>1, <1>5, <1>6 DEF GitInv, DirectoryInv, ImageInv

LEMMA ListRootStep ==
  ASSUME GitInv, NEW w \in Writers, ListRoot(w)
  PROVE  GitInv'
  <1>0. writer[w].pc = "list" /\ repo' = repo /\ project' = project /\ Deleting(w)
    BY DEF ListRoot, Deleting
  <1>t. /\ writer[w] \in GitWriters /\ WriterTyped(w) /\ writer \in [Writers -> GitWriters]
        /\ repo \in [Files -> AllContents] /\ \A g \in Files : repo[g] \in Contents[g]
        /\ ~Rows(w)
    BY <1>0, AboutACall DEF WriterTyped
  <1> DEFINE dirs == {d \in Folders : \E f \in Folder[d] : Exists(f)}
  <1>1. CASE UNCHANGED <<disturbances, accidents>> /\ dirs = {} /\ End(w, "done")
    <2>1. PICK s \in GitWriters :
            /\ writer' = [writer EXCEPT ![w] = s] /\ s.pc = "done"
            /\ s.row = Absent /\ writer'[w] = s /\ WriterTyped(w)'
      BY <1>1, EndIsAWriter
    <2>2. DeletesAll(w)'
      BY <2>1 DEF DeletesAll
    <2> QED
      BY <1>0, <1>t, <1>1, <2>1, <2>2, DeletingStep
  <1>2. CASE /\ UNCHANGED <<disturbances, accidents>>
             /\ writer' = [writer EXCEPT ![w].todo = dirs, ![w].pc = "folder"]
    <2> DEFINE s == [writer[w] EXCEPT !.todo = dirs, !.pc = "folder"]
    <2>1. writer' = [writer EXCEPT ![w] = s]
      BY <1>t, <1>2
    <2>2. dirs \in SUBSET Folders
      OBVIOUS
    <2>3. \A f \in Files : Exists(f) => \E d \in dirs : f \in Folder[d]
      BY FolderFacts
    <2> HIDE DEF dirs
    <2>4. s \in GitWriters /\ s.pc = "folder" /\ s.todo = dirs /\ s.row = writer[w].row
      <3> DEFINE todos == (SUBSET Files) \cup (SUBSET Folders)
      <3>1. dirs \in todos
        BY <2>2, Zenon
      <3>2. GitWriters = [pc : Pcs, row : ProjectRows \cup {Absent}, todo : todos,
               file : Files \cup {NoFile}, seen : AllContents, attempt : 0..MaxRetries,
               found : SUBSET (Files \X AllContents)]
        BY DEF GitWriters
      <3> HIDE DEF todos
      <3> QED
        BY <1>t, <3>1, <3>2 DEF Pcs
    <2> HIDE DEF s
    <2>5. writer'[w] = s /\ ~Rows(w)'
      BY <1>t, <2>1, <2>4 DEF Rows
    <2>6. WriterTyped(w)'
      BY <2>2, <2>4, <2>5 DEF WriterTyped
    <2>7. DeletesAll(w)'
      BY <1>0, <2>3, <2>4, <2>5 DEF DeletesAll, Exists
    <2> QED
      BY <1>0, <1>t, <1>2, <2>1, <2>4, <2>6, <2>7, DeletingStep
  <1>3. CASE Skip(w)
    BY <1>0, <1>3, SkipStep
  <1> QED
    BY <1>1, <1>2, <1>3 DEF ListRoot

LEMMA ListFolderStep ==
  ASSUME GitInv, NEW w \in Writers, ListFolder(w)
  PROVE  GitInv'
  <1>0. writer[w].pc = "folder" /\ repo' = repo /\ project' = project /\ Deleting(w)
    BY DEF ListFolder, Deleting
  <1>t. /\ writer[w] \in GitWriters /\ WriterTyped(w) /\ writer \in [Writers -> GitWriters]
        /\ repo \in [Files -> AllContents] /\ \A g \in Files : repo[g] \in Contents[g]
        /\ ~Rows(w) /\ writer[w].todo \in SUBSET Folders
        /\ writer[w].found \in SUBSET (Files \X AllContents)
    BY <1>0, AboutACall DEF WriterTyped, GitWriters
  <1>3. CASE Skip(w)
    BY <1>0, <1>3, SkipStep
  <1>4. ASSUME UNCHANGED <<disturbances, accidents>>, NEW d \in writer[w].todo,
               LET found == writer[w].found \cup {<<f, repo[f]>> : f \in {x \in Folder[d] : Exists(x)}}
                   rest == writer[w].todo \ {d} IN
               IF rest = {} /\ found = {} THEN End(w, "done")
               ELSE writer' = [writer EXCEPT ![w].todo = rest, ![w].found = found,
                      ![w].pc = IF rest = {} THEN "delete" ELSE "folder"]
        PROVE  GitInv'
    <2> DEFINE found == writer[w].found \cup {<<f, repo[f]>> : f \in {x \in Folder[d] : Exists(x)}}
               rest == writer[w].todo \ {d}
               s == [writer[w] EXCEPT !.todo = rest, !.found = found,
                       !.pc = IF rest = {} THEN "delete" ELSE "folder"]
    <2>1. rest \in SUBSET Folders
      BY <1>t
    <2>2. found \in SUBSET (Files \X AllContents)
      <3>1. d \in Folders
        BY <1>t
      <3>2. \A f \in Folder[d] : f \in Files /\ repo[f] \in AllContents
        BY <1>t, <3>1, FolderFacts
      <3> QED
        BY <1>t, <3>2
    <2>3. ASSUME DeletesAll(w), NEW f \in Files, Exists(f)
          PROVE  <<f, repo[f]>> \in found \/ \E e \in rest : f \in Folder[e]
      BY <1>0, <2>3 DEF DeletesAll
    <2>4. CASE rest = {} /\ found = {} /\ End(w, "done")
      <3>1. PICK t \in GitWriters :
              /\ writer' = [writer EXCEPT ![w] = t] /\ t.pc = "done"
              /\ t.row = Absent /\ writer'[w] = t /\ WriterTyped(w)'
        BY <2>4, EndIsAWriter
      <3>2. DeletesAll(w)'
        BY <3>1 DEF DeletesAll
      <3> QED
        BY <1>0, <1>t, <1>4, <3>1, <3>2, DeletingStep
    <2>5. CASE writer' = [writer EXCEPT ![w].todo = rest, ![w].found = found,
                            ![w].pc = IF rest = {} THEN "delete" ELSE "folder"]
      <3>1. writer' = [writer EXCEPT ![w] = s]
        BY <1>t, <2>5
      <3> HIDE DEF rest, found
      <3>2. /\ s \in GitWriters /\ s.pc = (IF rest = {} THEN "delete" ELSE "folder")
            /\ s.todo = rest /\ s.found = found /\ s.row = writer[w].row
        <4> DEFINE todos == (SUBSET Files) \cup (SUBSET Folders)
                   pc == IF rest = {} THEN "delete" ELSE "folder"
        <4>1. rest \in todos
          BY <2>1, Zenon
        <4>2. GitWriters = [pc : Pcs, row : ProjectRows \cup {Absent}, todo : todos,
                 file : Files \cup {NoFile}, seen : AllContents, attempt : 0..MaxRetries,
                 found : SUBSET (Files \X AllContents)]
          BY DEF GitWriters
        <4>3. pc \in Pcs
          BY DEF Pcs
        <4> HIDE DEF todos, pc
        <4>4. /\ s = [writer[w] EXCEPT !.todo = rest, !.found = found, !.pc = pc]
              /\ writer[w] \in GitWriters
          BY <1>t DEF pc
        <4>5. s \in GitWriters /\ s.pc = pc /\ s.todo = rest /\ s.found = found /\ s.row = writer[w].row
          BY <2>2, <4>1, <4>2, <4>3, <4>4
        <4> QED
          BY <4>5 DEF pc
      <3> HIDE DEF s
      <3>3. writer'[w] = s /\ ~Rows(w)'
        BY <1>t, <3>1, <3>2 DEF Rows
      <3>4. WriterTyped(w)'
        BY <2>1, <3>2, <3>3 DEF WriterTyped
      <3>5. DeletesAll(w) => DeletesAll(w)'
        BY <1>0, <2>3, <3>2, <3>3 DEF DeletesAll, Exists
      <3> QED
        BY <1>0, <1>t, <1>4, <3>1, <3>2, <3>4, <3>5, DeletingStep
    <2> QED
      BY <1>4, <2>4, <2>5
  <1> QED
    BY <1>3, <1>4 DEF ListFolder

LEMMA DeleteFileStep ==
  ASSUME GitInv, NEW w \in Writers, DeleteFile(w)
  PROVE  GitInv'
  <1>0. writer[w].pc = "delete" /\ project' = project /\ Deleting(w)
    BY DEF DeleteFile, Deleting
  <1>t. /\ writer[w] \in GitWriters /\ WriterTyped(w) /\ writer \in [Writers -> GitWriters]
        /\ repo \in [Files -> AllContents] /\ \A g \in Files : repo[g] \in Contents[g]
        /\ ~Rows(w) /\ disturbances \in Nat
        /\ writer[w].found \in SUBSET (Files \X AllContents)
    BY <1>0, AboutACall DEF WriterTyped, GitWriters
  <1>p. ASSUME NEW f \in Files, repo' = [repo EXCEPT ![f] = Absent]
        PROVE  repo' \in [Files -> AllContents] /\ \A g \in Files : repo'[g] \in Contents[g]
    BY <1>t, <1>p, ContentsFacts
  <1>1. PICK x \in writer[w].found :
          LET rest == writer[w].found \ {x} IN
          \/ /\ repo[x[1]] = x[2] /\ repo' = [repo EXCEPT ![x[1]] = Absent]
             /\ IF rest = {} THEN End(w, "done")
                ELSE writer' = [writer EXCEPT ![w].found = rest]
             /\ UNCHANGED <<disturbances, accidents>>
          \/ repo[x[1]] # x[2] /\ Fail(w) /\ UNCHANGED <<repo, disturbances>>
          \/ /\ Fault /\ Fail(w)
             /\ UNCHANGED repo \/ (repo[x[1]] = x[2] /\ repo' = [repo EXCEPT ![x[1]] = Absent])
    BY DEF DeleteFile
  <1> DEFINE rest == writer[w].found \ {x}
  <1>2. x = <<x[1], x[2]>> /\ x[1] \in Files
    BY <1>t, <1>1
  <1>3. CASE Fail(w) /\ (UNCHANGED disturbances \/ Fault)
             /\ (UNCHANGED repo \/ repo' = [repo EXCEPT ![x[1]] = Absent])
    <2>1. disturbances' \in Nat
      BY <1>t, <1>3 DEF Fault
    <2> QED
      BY <1>0, <1>t, <1>p, <1>2, <1>3, <2>1, FailStep
  <1>4. ASSUME repo[x[1]] = x[2], repo' = [repo EXCEPT ![x[1]] = Absent], UNCHANGED <<disturbances, accidents>>
        PROVE  /\ repo' \in [Files -> AllContents] /\ \A g \in Files : repo'[g] \in Contents[g]
               /\ DeletesAll(w) => \A f \in Files : Exists(f)' => <<f, repo'[f]>> \in rest
    <2>1. ASSUME DeletesAll(w), NEW f \in Files, Exists(f)' PROVE <<f, repo'[f]>> \in rest
      <3>1. f # x[1] /\ repo'[f] = repo[f] /\ Exists(f)
        BY <1>t, <1>2, <1>4, <2>1 DEF Exists
      <3>2. <<f, repo[f]>> \in writer[w].found
        BY <1>0, <2>1, <3>1 DEF DeletesAll
      <3> QED
        BY <1>2, <3>1, <3>2
    <2> QED
      BY <1>p, <1>2, <1>4, <2>1
  <1>5. ASSUME repo[x[1]] = x[2], repo' = [repo EXCEPT ![x[1]] = Absent], UNCHANGED <<disturbances, accidents>>,
               rest = {}, End(w, "done")
        PROVE  GitInv'
    <2>1. PICK s \in GitWriters :
            /\ writer' = [writer EXCEPT ![w] = s] /\ s.pc = "done"
            /\ s.row = Absent /\ writer'[w] = s /\ WriterTyped(w)'
      BY <1>5, EndIsAWriter
    <2>2. DeletesAll(w)'
      BY <2>1 DEF DeletesAll
    <2>3. DeletesAll(w) => \A f \in Files : ~Exists(f)'
      BY <1>4, <1>5
    <2>4. repo' \in [Files -> AllContents] /\ \A g \in Files : repo'[g] \in Contents[g]
      BY <1>4, <1>5
    <2> QED
      BY <1>0, <1>5, <2>1, <2>2, <2>3, <2>4, DeletingStep
  <1>6. ASSUME repo[x[1]] = x[2], repo' = [repo EXCEPT ![x[1]] = Absent], UNCHANGED <<disturbances, accidents>>,
               writer' = [writer EXCEPT ![w].found = rest]
        PROVE  GitInv'
    <2> DEFINE s == [writer[w] EXCEPT !.found = rest]
    <2>1. writer' = [writer EXCEPT ![w] = s]
      BY <1>t, <1>6
    <2>2. rest \in SUBSET (Files \X AllContents)
      BY <1>t
    <2>3. /\ repo' \in [Files -> AllContents] /\ \A g \in Files : repo'[g] \in Contents[g]
          /\ DeletesAll(w) => \A f \in Files : Exists(f)' => <<f, repo'[f]>> \in rest
      BY <1>4, <1>6
    <2> HIDE DEF rest
    <2>4. s \in GitWriters /\ s.pc = "delete" /\ s.found = rest /\ s.row = writer[w].row
      BY <1>0, <1>t, <2>2 DEF GitWriters, Pcs
    <2> HIDE DEF s
    <2>5. writer'[w] = s /\ ~Rows(w)'
      BY <1>t, <2>1, <2>4 DEF Rows
    <2>6. WriterTyped(w)'
      BY <2>4, <2>5 DEF WriterTyped
    <2>7. DeletesAll(w) => DeletesAll(w)'
      BY <2>3, <2>4, <2>5 DEF DeletesAll
    <2> QED
      BY <1>0, <1>6, <2>1, <2>3, <2>4, <2>6, <2>7, DeletingStep
  <1> QED
    BY <1>1, <1>3, <1>5, <1>6

\* A commit begins.
LEMMA CommitBegins ==
  ASSUME GitInv, NEW w \in Writers, NEW s \in GitWriters, writer' = [writer EXCEPT ![w] = s],
         writer[w].pc = "idle", s.pc = "put", s.file = NoFile,
         \/ s.row = project /\ s.todo = Rendered(project)
         \/ s.row = Absent /\ s.todo = DependencyFiles,
         UNCHANGED <<repo, project, disturbances>>,
         accidents \subseteq accidents', accidents' \subseteq Accidents,
         Spared({"failed", "raced", "skipped"})' => \A v \in Writers : ~Deleting(v),
         accidents' = {} /\ s.row = project =>
           \A v \in Writers : Busy(v) /\ Rows(v) => writer[v].row.image[1] = project.image[1]
  PROVE  GitInv'
  <1>t. /\ writer[w] \in GitWriters /\ WriterTyped(w) /\ writer \in [Writers -> GitWriters]
        /\ repo' \in [Files -> AllContents] /\ \A g \in Files : repo'[g] \in Contents[g]
        /\ project \in ProjectRows /\ project' \in ProjectRows /\ disturbances' \in Nat
    BY AboutACall
  <1>0. writer[w] = IdleWriter /\ ~Rows(w) /\ ~Putting(w) /\ ~Busy(w) /\ ~Deleting(w)
    BY <1>t DEF WriterTyped, IdleWriter, Rows, Putting, Busy, Deleting
  <1>1. /\ writer'[w] = s /\ Putting(w)' /\ Busy(w)'
        /\ IF Rows(w)' THEN s.row = project /\ s.todo = Rendered(s.row)
                       ELSE s.row = Absent /\ s.todo = DependencyFiles
    BY <1>t, NothingIsAbsent DEF Putting, Busy, Rows
  <1>2. WriterTyped(w)' /\ WritesAll(w)'
    BY <1>1 DEF WriterTyped, WritesAll
  <1>3. GitTyped' /\ \A v \in Writers : WriterTyped(v)'
    BY <1>t, <1>2, WriterStep DEF GitInv
  <1>4. \A f : Exists(f)' <=> Exists(f)
    BY DEF Exists
  <1>5. ASSUME Spared({"failed", "raced", "skipped"})'
        PROVE  /\ DirectoryOK' /\ \A v \in Writers : writer[v].pc # "delete"
    <2>1. Spared({"failed", "raced", "skipped"}) /\ \A v \in Writers : ~Deleting(v)
      BY <1>5 DEF Spared
    <2>2. \A v \in Writers : writer[v].pc # "delete"
      BY <2>1 DEF Deleting
    <2>3. FilesCovered /\ \A v \in Writers : WritesAll(v)
      BY <2>1, <2>2 DEF GitInv, DirectoryInv, DirectoryOK
    <2>4. /\ DeletesAlone' /\ \A v \in Writers : DeletesAll(v)' /\ WritesAll(v)'
          /\ FilesCovered'
      BY <1>0, <1>2, <1>4, <2>1, <2>3, CommitStep DEF GitInv
    <2> QED
      BY <2>2, <2>4 DEF DirectoryOK
  <1>6. ASSUME accidents' = {} PROVE ImagesOK'
    <2>1. accidents = {} /\ Spared({"failed", "raced", "skipped"})'
      BY <1>6 DEF Spared
    <2>2. SameNames /\ (\A v \in Writers : WritesDeployment(v)) /\ OverlayIsCurrent /\ DeploymentIsNamed
      BY <1>5, <2>1 DEF GitInv, ImageInv, ImagesOK
    <2>3. Rows(w)' => s.row.image[1] = project.image[1]
      BY <1>1
    <2>4. WritesDeployment(w)'
      BY <1>1, <1>t, RenderedFiles DEF WritesDeployment
    <2>5. ~BringsImage(w)
      BY <1>0 DEF BringsImage
    <2>6. /\ SameNames' /\ \A v \in Writers : WritesDeployment(v)'
          /\ OverlayIsCurrent' /\ DeploymentIsNamed'
      BY <1>0, <1>4, <2>2, <2>3, <2>4, <2>5, ImageStep DEF GitInv
    <2> QED
      BY <2>6 DEF ImagesOK
  <1> QED
    BY <1>3, <1>5, <1>6 DEF GitInv, DirectoryInv, ImageInv

LEMMA StartCommitStep ==
  ASSUME GitInv, NEW w \in Writers, StartCommit(w) \/ StartDependency(w)
  PROVE  GitInv'
  <1>t. /\ writer[w] \in GitWriters /\ WriterTyped(w) /\ writer \in [Writers -> GitWriters]
        /\ project \in ProjectRows /\ accidents \subseteq Accidents
    BY AboutACall
  <1>0. /\ writer[w].pc = "idle" /\ UNCHANGED <<repo, project, disturbances>>
        /\ writer[w].file = NoFile /\ writer[w].row = Absent
    BY <1>t DEF StartCommit, StartDependency, WriterTyped, IdleWriter
  <1>1. ASSUME Spared({"failed", "raced", "skipped"})', Raced \subseteq accidents'
        PROVE  \A v \in Writers : ~Deleting(v)
    BY <1>1 DEF Spared, Raced
  <1>2. CASE StartCommit(w)
    <2> DEFINE s == [writer[w] EXCEPT !.pc = "put", !.row = project, !.todo = Rendered(project)]
    <2>1. writer' = [writer EXCEPT ![w] = s]
      BY <1>t, <1>2 DEF StartCommit
    <2>2. /\ s \in GitWriters /\ s.pc = "put" /\ s.row = project /\ s.todo = Rendered(project)
          /\ s.file = NoFile
      BY <1>t, <1>0, RenderedFiles DEF GitWriters, Pcs
    <2> HIDE DEF s
    <2>3. accidents' = accidents \cup Raced \cup Renamed(project.image)
      BY <1>2 DEF StartCommit, Happen
    <2>4. accidents \subseteq accidents' /\ accidents' \subseteq Accidents /\ Raced \subseteq accidents'
      BY <1>t, <2>3 DEF Raced, Renamed, Accidents
    <2>5. accidents' = {} => \A v \in Writers : Busy(v) /\ Rows(v) =>
            writer[v].row.image[1] = project.image[1]
      BY <2>3 DEF Renamed, Rows
    <2> QED
      BY <1>0, <1>1, <2>1, <2>2, <2>4, <2>5, CommitBegins
  <1>3. CASE StartDependency(w)
    <2> DEFINE s == [writer[w] EXCEPT !.pc = "put", !.todo = DependencyFiles]
    <2>1. writer' = [writer EXCEPT ![w] = s]
      BY <1>t, <1>3 DEF StartDependency
    <2>2. /\ s \in GitWriters /\ s.pc = "put" /\ s.row = Absent /\ s.todo = DependencyFiles
          /\ s.file = NoFile
      BY <1>t, <1>0, ContentsFacts DEF GitWriters, Pcs
    <2> HIDE DEF s
    <2>3. accidents' = accidents \cup Raced
      BY <1>3 DEF StartDependency, Happen
    <2>4. accidents \subseteq accidents' /\ accidents' \subseteq Accidents /\ Raced \subseteq accidents'
      BY <1>t, <2>3 DEF Raced, Accidents
    <2>5. s.row # project
      BY <1>t, <2>2, NothingIsAbsent
    <2> QED
      BY <1>0, <1>1, <2>1, <2>2, <2>4, <2>5, CommitBegins
  <1> QED
    BY <1>2, <1>3

\* A new image is stored and its update begins.
LEMMA StartTagStep ==
  ASSUME GitInv, NEW w \in Writers, StartTag(w)
  PROVE  GitInv'
  <1>t. /\ writer[w] \in GitWriters /\ WriterTyped(w) /\ writer \in [Writers -> GitWriters]
        /\ repo \in [Files -> AllContents] /\ \A g \in Files : repo[g] \in Contents[g]
        /\ project \in ProjectRows /\ accidents \subseteq Accidents /\ disturbances \in Nat
    BY AboutACall
  <1>0. /\ writer[w].pc = "idle" /\ UNCHANGED <<repo, disturbances>>
        /\ writer[w].file = NoFile /\ writer[w].row = Absent
        /\ ~Rows(w) /\ ~Putting(w) /\ ~Busy(w) /\ ~Deleting(w)
    BY <1>t DEF StartTag, WriterTyped, IdleWriter, Rows, Putting, Busy, Deleting
  <1>1. PICK new \in Images :
          /\ project' = [project EXCEPT !.image = new]
          /\ writer' = [writer EXCEPT ![w].pc = "tag", ![w].row = project']
          /\ accidents' = accidents \cup Raced \cup Renamed(new)
    BY DEF StartTag, Happen
  <1>2. project' \in ProjectRows /\ project'.image = new
    BY <1>t, <1>1 DEF ProjectRows
  <1> DEFINE s == [writer[w] EXCEPT !.pc = "tag", !.row = project']
  <1>3. writer' = [writer EXCEPT ![w] = s]
    BY <1>t, <1>1
  <1>4. s \in GitWriters /\ s.pc = "tag" /\ s.row = project' /\ s.file = NoFile
    BY <1>t, <1>0, <1>2 DEF GitWriters, Pcs
  <1> HIDE DEF s
  <1>5. /\ writer'[w] = s /\ Rows(w)' /\ ~Putting(w)'
        /\ \A v \in Writers : v # w =>
             /\ writer'[v] = writer[v] /\ (Busy(v)' <=> Busy(v)) /\ (Putting(v)' <=> Putting(v))
             /\ (Rows(v)' <=> Rows(v))
    <2>1. writer'[w] = s
      BY <1>t, <1>3
    <2>2. Rows(w)' /\ ~Putting(w)'
      BY <1>2, <1>4, <2>1, NothingIsAbsent DEF Rows, Putting
    <2> QED
      BY <1>t, <1>3, <1>4, <2>1, <2>2, OtherWriters
  <1>6. WriterTyped(w)' /\ WritesAll(w)' /\ WritesDeployment(w)' /\ BringsImage(w)'
    BY <1>4, <1>5 DEF WriterTyped, WritesAll, WritesDeployment, BringsImage
  <1>7. accidents \subseteq accidents' /\ accidents' \subseteq Accidents
    BY <1>t, <1>1 DEF Raced, Renamed, Accidents
  <1>8. GitTyped' /\ \A v \in Writers : WriterTyped(v)'
    BY <1>0, <1>2, <1>3, <1>4, <1>6, <1>7, <1>t, WriterStep DEF GitInv
  <1>9. \A f : Exists(f)' <=> Exists(f)
    BY <1>0 DEF Exists
  <1>10. ASSUME Spared({"failed", "raced", "skipped"})'
         PROVE  DirectoryOK' /\ \A v \in Writers : writer[v].pc # "delete"
    <2>1. Spared({"failed", "raced", "skipped"}) /\ \A v \in Writers : ~Deleting(v)
      BY <1>1, <1>10 DEF Spared, Raced
    <2>2. \A v \in Writers : writer[v].pc # "delete"
      BY <2>1 DEF Deleting
    <2>3. FilesCovered /\ \A v \in Writers : WritesAll(v)
      BY <2>1, <2>2 DEF GitInv, DirectoryInv, DirectoryOK
    <2>4. /\ DeletesAlone' /\ \A v \in Writers : DeletesAll(v)' /\ WritesAll(v)'
          /\ FilesCovered'
      BY <1>0, <1>3, <1>4, <1>6, <1>9, <2>1, <2>3, CommitStep DEF GitInv
    <2> QED
      BY <2>2, <2>4 DEF DirectoryOK
  <1>11. ASSUME accidents' = {} PROVE ImagesOK'
    <2>1. accidents = {} /\ Spared({"failed", "raced", "skipped"})'
      BY <1>1, <1>11 DEF Spared
    <2>2. SameNames /\ (\A v \in Writers : WritesDeployment(v)) /\ OverlayIsCurrent /\ DeploymentIsNamed
      BY <1>10, <2>1 DEF GitInv, ImageInv, ImagesOK
    <2>3. \A v \in Writers : Busy(v) /\ Rows(v) => writer[v].row.image[1] = new[1]
      BY <1>1, <1>11 DEF Renamed, Rows
    <2>4. SameNames'
      BY <1>2, <1>4, <1>5, <2>3 DEF SameNames
    <2>5. \A v \in Writers : WritesDeployment(v)'
      BY <1>0, <1>5, <1>6, <1>9, <2>2 DEF WritesDeployment
    <2>6. OverlayIsCurrent'
      BY <1>6 DEF OverlayIsCurrent
    <2>7. DeploymentIsNamed'
      <3> SUFFICES ASSUME Exists("overlay"), repo["overlay"][1] = new[1],
                          ~(Exists("deployment") /\ repo["deployment"][1] = new[1])
                   PROVE  \E v \in Writers : Putting(v)' /\ Rows(v)' /\ "deployment" \in writer'[v].todo
        BY <1>0, <1>2, <1>9 DEF DeploymentIsNamed
      <3>1. project.image[1] = new[1]
        <4> SUFFICES ASSUME project.image[1] # new[1] PROVE FALSE
          OBVIOUS
        <4>1. \A v \in Writers : ~(Busy(v) /\ Rows(v))
          BY <2>2, <2>3 DEF SameNames
        <4>2. \A v \in Writers : ~BringsImage(v)
          BY <4>1 DEF BringsImage, Busy, Putting
        <4>3. repo["overlay"] = project.image
          BY <2>2, <4>2 DEF OverlayIsCurrent
        <4> QED
          BY <4>3
      <3>2. PICK v \in Writers : Putting(v) /\ Rows(v) /\ "deployment" \in writer[v].todo
        BY <2>2, <3>1 DEF DeploymentIsNamed
      <3> QED
        BY <1>0, <1>5, <3>2
    <2> QED
      BY <2>4, <2>5, <2>6, <2>7 DEF ImagesOK
  <1> QED
    BY <1>8, <1>10, <1>11 DEF GitInv, DirectoryInv, ImageInv

\* A deletion begins when no other call is under way.
LEMMA StartDeleteStep ==
  ASSUME GitInv, NEW w \in Writers, StartDelete(w)
  PROVE  GitInv'
  <1>t. /\ writer[w] \in GitWriters /\ WriterTyped(w) /\ writer \in [Writers -> GitWriters]
        /\ repo \in [Files -> AllContents] /\ \A g \in Files : repo[g] \in Contents[g]
        /\ project \in ProjectRows /\ accidents \subseteq Accidents /\ disturbances \in Nat
    BY AboutACall
  <1>0. /\ writer[w].pc = "idle" /\ UNCHANGED <<repo, project, disturbances>> /\ writer[w].row = Absent
        /\ accidents' = accidents \cup IF Quiet THEN {} ELSE {"raced"}
    BY <1>t DEF StartDelete, Happen, WriterTyped, IdleWriter
  <1> DEFINE s == [writer[w] EXCEPT !.pc = "list"]
  <1>1. writer' = [writer EXCEPT ![w] = s]
    BY <1>t DEF StartDelete
  <1>2. s \in GitWriters /\ s.pc = "list" /\ s.row = Absent
    BY <1>t, <1>0 DEF GitWriters, Pcs
  <1> HIDE DEF s
  <1>3. writer'[w] = s /\ \A v \in Writers : v # w => writer'[v] = writer[v] /\ (Busy(v)' <=> Busy(v))
    BY <1>t, <1>1, <1>2, OtherWriters
  <1>4. WriterTyped(w)' /\ DeletesAll(w)' /\ ~Rows(w)' /\ accidents \subseteq accidents' /\ accidents' \subseteq Accidents
    BY <1>t, <1>0, <1>2, <1>3 DEF WriterTyped, DeletesAll, Rows, Accidents
  <1>5. GitTyped' /\ \A v \in Writers : WriterTyped(v)'
    BY <1>t, <1>0, <1>1, <1>2, <1>4, WriterStep DEF GitInv
  <1>6. \A f : Exists(f)' <=> Exists(f)
    BY <1>0 DEF Exists
  <1>7. ASSUME Spared({"failed", "raced", "skipped"})'
        PROVE  /\ Spared({"failed", "raced", "skipped"}) /\ \A v \in Writers : ~Busy(v)
               /\ \A v \in Writers : ~Putting(v) /\ ~BringsImage(v) /\ writer[v].pc # "delete"
               /\ \A v \in Writers : ~Putting(v)' /\ ~(Busy(v)' /\ Rows(v)')
               /\ DeletesAlone' /\ \A v \in Writers : DeletesAll(v)' /\ WritesAll(v)'
    <2>1. Spared({"failed", "raced", "skipped"}) /\ \A v \in Writers : ~Busy(v)
      BY <1>0, <1>7 DEF Spared, Quiet
    <2>2. \A v \in Writers : ~Putting(v) /\ ~BringsImage(v) /\ writer[v].pc # "delete"
      BY <2>1 DEF Busy, Putting, BringsImage
    <2>3. /\ DeletesAlone' /\ \A v \in Writers : DeletesAll(v)' /\ WritesAll(v)'
          /\ \A v \in Writers : ~Putting(v)'
          /\ \A v \in Writers : v # w => ~Busy(v)'
      BY <1>1, <1>2, <1>4, <2>1, DeletionStep DEF GitInv
    <2> QED
      BY <1>4, <2>1, <2>2, <2>3
  <1>8. ASSUME Spared({"failed", "raced", "skipped"})' PROVE DirectoryOK'
    <2>1. FilesCovered
      BY <1>7, <1>8 DEF GitInv, DirectoryInv, DirectoryOK
    <2>2. \A f : Covered(f) => Covered(f)'
      BY <1>6, <1>7, <1>8 DEF Covered
    <2>3. FilesCovered'
      BY <1>0, <1>6, <2>1, <2>2 DEF FilesCovered
    <2> QED
      BY <1>7, <1>8, <2>3 DEF DirectoryOK
  <1>9. ASSUME accidents' = {} PROVE ImagesOK'
    <2>1. accidents = {} /\ Spared({"failed", "raced", "skipped"})'
      BY <1>4, <1>9 DEF Spared
    <2>2. OverlayIsCurrent /\ DeploymentIsNamed
      BY <1>7, <2>1 DEF GitInv, ImageInv, ImagesOK
    <2>3. OverlayIsCurrent' /\ DeploymentIsNamed'
      BY <1>0, <1>6, <1>7, <2>1, <2>2 DEF OverlayIsCurrent, DeploymentIsNamed
    <2>4. SameNames' /\ \A v \in Writers : WritesDeployment(v)'
      BY <1>7, <2>1 DEF SameNames, WritesDeployment
    <2> QED
      BY <2>3, <2>4 DEF ImagesOK
  <1> QED
    BY <1>5, <1>8, <1>9 DEF GitInv, DirectoryInv, ImageInv

\* A step that leaves the calls, the files and the image of the project alone.
LEMMA NoCallSteps ==
  ASSUME GitInv, UNCHANGED <<repo, writer, accidents>>, project' \in ProjectRows,
         project'.image = project.image, disturbances' \in Nat
  PROVE  GitInv'
  <1>1. GitTyped' /\ \A w \in Writers : WriterTyped(w)'
    BY DEF GitInv, GitTyped, WriterTyped, Rows
  <1>2. DirectoryInv'
    BY DEF GitInv, DirectoryInv, DirectoryOK, Spared, DeletesAlone, DeletesAll, WritesAll, FilesCovered,
           Covered, Exists, Busy, Deleting, Putting, Rows
  <1>3. ImageInv'
    BY DEF GitInv, ImageInv, ImagesOK, SameNames, WritesDeployment, OverlayIsCurrent, DeploymentIsNamed,
           BringsImage, Exists, Busy, Putting, Rows
  <1> QED
    BY <1>1, <1>2, <1>3 DEF GitInv

LEMMA GitNextInv == GitInv /\ [GitNext]_gitVars => GitInv'
  <1> SUFFICES ASSUME GitInv, [GitNext]_gitVars PROVE GitInv'
    OBVIOUS
  <1>0. project \in ProjectRows /\ disturbances \in Nat
    BY DEF GitInv, GitTyped
  <1>1. CASE EditProject
    <2>1. PICK shape \in Shapes : project' = [project EXCEPT !.shape = shape]
      BY <1>1 DEF EditProject
    <2>2. project' \in ProjectRows /\ project'.image = project.image
      BY <1>0, <2>1 DEF ProjectRows
    <2>3. disturbances' \in Nat
      BY <1>0, <1>1 DEF EditProject
    <2> QED
      BY <1>1, <2>2, <2>3, NoCallSteps DEF EditProject
  <1>2. ASSUME NEW w \in Writers, Start(w) PROVE GitInv'
    BY <1>2, StartCommitStep, StartTagStep, StartDeleteStep DEF Start
  <1>3. ASSUME NEW w \in Writers, Step(w) PROVE GitInv'
    BY <1>3, PutReadStep, PutWriteStep, TagReadStep, TagWriteStep, ListRootStep, ListFolderStep,
       DeleteFileStep DEF Step
  <1>4. CASE UNCHANGED gitVars
    BY <1>0, <1>4, NoCallSteps DEF gitVars
  <1> QED
    BY <1>1, <1>2, <1>3, <1>4 DEF GitNext

LEMMA GitSpecInv == GitSpec => []GitInv
  BY GitInitInv, GitNextInv, PTL DEF GitSpec

\* Files hold what a file of their name may hold, and the calls are where they say.
THEOREM GitTypes == GitSpec => []GitTypeOK
  <1>1. GitInv => GitTypeOK
    BY DEF GitInv, GitTyped, GitWriters, WriterTyped, GitTypeOK
  <1> QED
    BY <1>1, GitSpecInv, PTL

\* However commits, updates of the tag and deletions of GitOpsService interleave:
\* once all have ended, none has failed and none has written during a deletion,
\* kustomize finds every file that it is told to read.
THEOREM DirectoriesBuild == GitSpec => []DirectoryBuilds
  <1>1. GitInv => DirectoryBuilds
    <2> SUFFICES ASSUME GitInv, Quiet, Spared({"failed", "raced", "skipped"})
                 PROVE  /\ Exists("kustomization") =>
                             Exists("overlay") /\ \A f \in repo["kustomization"][1] : Exists(f)
                        /\ Exists("overlay") => Exists("kustomization")
                        /\ Exists("dependency-kustomization") <=> Exists("application") /\ Exists("values")
      BY DEF DirectoryBuilds
    <2>1. \A w \in Writers : ~Putting(w) /\ writer[w].pc # "delete"
      BY DEF Quiet, Busy, Putting
    <2>2. FilesCovered
      BY <2>1 DEF GitInv, DirectoryInv, DirectoryOK
    <2>3. \A f : Covered(f) <=> Exists(f)
      BY <2>1 DEF Covered
    <2> QED
      BY <2>2, <2>3 DEF FilesCovered, DependencyFiles
  <1> QED
    BY <1>1, GitSpecInv, PTL

\* Once all calls have ended and without the accidents that the module names,
\* kustomize deploys the image of the project's row (renderOverlay, UpdateImageTag).
THEOREM ProjectsImageIsDeployed == GitSpec => []DeploysTheProjectsImage
  <1>1. GitInv => DeploysTheProjectsImage
    <2> SUFFICES ASSUME GitInv, Quiet, accidents = {}, Exists("overlay")
                 PROVE  EffectiveImage = project.image
      BY DEF DeploysTheProjectsImage
    <2>1. \A w \in Writers : ~Putting(w) /\ ~BringsImage(w) /\ writer[w].pc # "delete"
      BY DEF Quiet, Busy, Putting, BringsImage
    <2>2. OverlayIsCurrent /\ DeploymentIsNamed
      BY <2>1 DEF GitInv, ImageInv, ImagesOK
    <2>3. repo["overlay"] = project.image
      BY <2>1, <2>2 DEF OverlayIsCurrent
    <2>4. repo["deployment"][1] = project.image[1]
      BY <2>1, <2>2, <2>3 DEF DeploymentIsNamed
    <2> QED
      BY <2>3, <2>4 DEF EffectiveImage
  <1> QED
    BY <1>1, GitSpecInv, PTL

-----------------------------------------------------------------------------
(* The parts together.                                                     *)

\* They share no state, so that each of them takes its own steps only.
LEMMA PartsOnTheirOwn ==
  PlatformSpec =>
    /\ GitSpec /\ ClusterSpec /\ DrainSpec /\ DashSpec /\ TagSpec /\ RobotSpec
  <1>1. PlatformInit => GitInit /\ ClusterInit /\ DrainInit /\ DashInit /\ TagInit /\ RobotInit
    <2> SUFFICES ASSUME PlatformInit, focus # "drain" PROVE DrainInit
      BY DEF PlatformInit
    <2> DEFINE options == [force |-> TRUE, ignoreDaemonSets |-> TRUE, deleteEmptyDirData |-> TRUE]
    <2>1. /\ cordoned = FALSE /\ errors = 0 /\ pod = AnyDrainStart
          /\ drain = [d \in Drains |-> IdleDrain(options)]
      BY DEF PlatformInit
    <2>2. options \in Options
      BY DEF Options
    <2>3. AnyDrainStart \in
            [Pods -> [kind : Kinds, emptyDir : BOOLEAN, place : {"none", "node", "elsewhere"}]]
      BY DEF AnyDrainStart, Kinds
    <2> QED
      BY <2>1, <2>2, <2>3, Zenon DEF DrainInit
  <1>2. [PlatformNext]_platformVars =>
          /\ [GitNext]_gitVars /\ [ClusterNext]_clusterVars /\ [DrainNext]_drainVars
          /\ [DashNext]_dashVars /\ [TagNext]_tagVars /\ [RobotNext]_robotVars
    BY DEF PlatformNext, platformVars
  <1> QED
    BY <1>1, <1>2, PTL
    DEF PlatformSpec, GitSpec, ClusterSpec, DrainSpec, DashSpec, TagSpec, RobotSpec

\* What TLC checks of their composition holds of it for every value of the
\* constants: the types of files, objects, drains, the dashboard, tags, robots.
THEOREM PlatformTyped == PlatformSpec => []PlatformTypeOK
  BY PartsOnTheirOwn, GitTypes, ClusterTyped, DrainTypes, DashTypes, TagTypes, RobotTypes, PTL
  DEF PlatformTypeOK

-----------------------------------------------------------------------------
(* Health.                                                                 *)

\* No container has been restarted more often than all of the pod together.
LEMMA RestartsBound ==
  ASSUME NEW p \in PodStates, NEW i \in DOMAIN p.statuses
  PROVE  p.statuses[i].restarts \in Nat /\ Restarts(p) \in Nat
         /\ p.statuses[i].restarts <= Restarts(p)
  <1> DEFINE last == Len(p.statuses)
             Sums(f) == f = [n \in 0..last |-> IF n = 0 THEN 0
                                               ELSE f[n - 1] + p.statuses[n].restarts]
             sum == CHOOSE f : Sums(f)
  <1>1. /\ last \in 0..2 /\ DOMAIN p.statuses = 1..last
        /\ \A k \in 1..last : p.statuses[k].restarts \in Nat
    <2>1. PICK n \in 0..2 : p.statuses \in [1..n -> ContainerStatuses]
      BY DEF PodStates
    <2>2. \A s \in ContainerStatuses : s.restarts \in Nat
      BY HealthAssumption DEF ContainerStatuses
    <2>3. last = n /\ DOMAIN p.statuses = 1..n
      BY <2>1
    <2> HIDE DEF last
    <2> QED
      BY <2>1, <2>2, <2>3
  <1> HIDE DEF last
  <1>2. \E f : Sums(f)
    <2> DEFINE g == [n \in 0..last |->
                       IF n = 0 THEN 0
                       ELSE IF n = 1 THEN p.statuses[1].restarts
                       ELSE p.statuses[1].restarts + p.statuses[2].restarts]
    <2>1. Sums(g)
      BY <1>1
    <2> QED
      BY <2>1
  <1>3. Sums(sum)
    BY <1>2, Zenon
  <1>4. Restarts(p) = sum[last]
    BY DEF Restarts, last
  <1> HIDE DEF sum
  <1>5. /\ sum[0] = 0
        /\ last >= 1 => sum[1] = sum[0] + p.statuses[1].restarts
        /\ last = 2 => sum[2] = sum[1] + p.statuses[2].restarts
    BY <1>1, <1>3
  <1> HIDE DEF Sums
  <1>6. i \in 1..last
    BY <1>1
  <1> QED
    BY <1>1, <1>4, <1>5, <1>6

\* As many ready containers as a pod has are all of those it reports.
LEMMA AllReady ==
  ASSUME NEW p \in PodStates, ~(CountReady(p) < p.total), NEW i \in DOMAIN p.statuses
  PROVE  p.statuses[i].ready
  <1> DEFINE all == DOMAIN p.statuses
             ready == {k \in all : p.statuses[k].ready}
  <1>1. PICK n \in 0..2 : p.statuses \in [1..n -> ContainerStatuses]
    BY DEF PodStates
  <1>2. all = 1..n /\ n <= p.total /\ p.total \in Nat
    BY <1>1 DEF PodStates
  <1>3. IsFiniteSet(all) /\ Cardinality(all) = n
    BY <1>2, FS_Interval
  <1>4. CountReady(p) = Cardinality(ready)
    BY DEF CountReady
  <1>5. IsFiniteSet(ready) /\ Cardinality(ready) \in Nat /\ Cardinality(ready) <= n
         /\ (Cardinality(ready) = n => ready = all)
    BY <1>3, FS_Subset, FS_CardinalityType
  <1>6. Cardinality(ready) = n
    BY <1>2, <1>4, <1>5
  <1> QED
    BY <1>5, <1>6

\* Whatever is listed of nodes and pods, when the page of every node calls it
\* healthy the dashboard calls the cluster healthy exactly if every node has
\* reported and no pod without a page is abnormal (NodeDetail, NodeHealth and
\* ClusterDashboard, in k8s).
LEMMA ViewsAgree ==
  ASSUME NEW listing \in Listings
  PROVE  HealthViewsAgree(listing)
  <1> SUFFICES ASSUME \A n \in HealthNodes : NodeHealth(listing, n).healthy
               PROVE  Dashboard(listing).healthy <=> ~OnDashboardOnly(listing)
    BY DEF HealthViewsAgree
  <1> DEFINE Bad(n) == {i \in DOMAIN listing.pods :
                          listing.pods[i].node = n /\ AbnormalOnNode(listing.pods[i])}
  <1>1. \A n \in HealthNodes : NodeConditionsHealthy(listing.node[n]) /\ Bad(n) = {}
    BY DEF NodeHealth
  <1>2. DOMAIN listing.node = HealthNodes /\ \A n \in HealthNodes : listing.node[n] \in NodeStates
    BY DEF Listings
  <1>3. \A i \in DOMAIN listing.pods : listing.pods[i] \in PodStates
    BY DEF Listings
  <1>4. \A n \in HealthNodes :
          nodeReadyStatus(listing.node[n]) = "Ready" <=> listing.node[n].ready # "absent"
    BY <1>1, <1>2 DEF NodeConditionsHealthy, nodeReadyStatus, NodeStates
  <1>5. ASSUME NEW i \in DOMAIN listing.pods, listing.pods[i].node \in HealthNodes
        PROVE  ~podAbnormal(listing.pods[i])
    <2> DEFINE p == listing.pods[i]
    <2>1. p \in PodStates /\ p.node \in HealthNodes
      BY <1>3, <1>5
    <2>2. ~AbnormalOnNode(p)
      BY <1>1, <2>1
    <2> HIDE DEF p
    <2>3. p.phase = "Running" /\ ~(CountReady(p) < p.total) /\ ~(Restarts(p) > 5)
      BY <2>2 DEF AbnormalOnNode
    <2>4. ASSUME NEW k \in DOMAIN p.statuses
          PROVE  p.statuses[k].state = "running" /\ ~(p.statuses[k].restarts > 5)
      <3>1. p.statuses[k] \in ContainerStatuses
        BY <2>1 DEF PodStates
      <3>2. p.statuses[k].state = "running"
        BY <2>1, <2>3, <3>1, AllReady DEF ContainerStatuses
      <3>3. ~(p.statuses[k].restarts > 5)
        BY <2>1, <2>3, RestartsBound
      <3> QED
        BY <3>2, <3>3
    <2>5. ~podAbnormal(p)
      BY <2>3, <2>4 DEF podAbnormal, Statuses
    <2> QED
      BY <2>5 DEF p
  <1> DEFINE ready == {n \in DOMAIN listing.node : nodeReadyStatus(listing.node[n]) = "Ready"}
             abnormal == {i \in DOMAIN listing.pods : podAbnormal(listing.pods[i])}
  <1>6. Dashboard(listing).healthy <=>
          ready = DOMAIN listing.node /\ abnormal = {} /\ ready # {}
    BY DEF Dashboard
  <1>7. ready = DOMAIN listing.node <=>
          \A n \in HealthNodes : listing.node[n].ready # "absent"
    BY <1>2, <1>4
  <1>8. abnormal = {} <=>
          \A i \in DOMAIN listing.pods :
            listing.pods[i].node \in HealthNodes \/ ~podAbnormal(listing.pods[i])
    BY <1>5
  <1>9. DOMAIN listing.node # {}
    BY <1>2, HealthAssumption
  <1> HIDE DEF ready, abnormal
  <1> QED
    BY <1>6, <1>7, <1>8, <1>9 DEF OnDashboardOnly

\* The pages of the nodes and the dashboard agree on whatever the manager has
\* listed, but for what only the dashboard looks at (ClusterDashboard, NodeDetail
\* and NodeHealth, in k8s).
THEOREM HealthIsAgreed == PlatformSpec => []HealthAgrees
  <1>1. AnyListing \in Listings
    BY DEF AnyListing, Listings, NodeStates
  <1>2. PlatformInit => sample \in Listings
    BY <1>1 DEF PlatformInit
  <1>3. sample \in Listings /\ [PlatformNext]_platformVars => (sample \in Listings)'
    BY DEF PlatformNext, platformVars
  <1>4. sample \in Listings => HealthAgrees
    BY ViewsAgree DEF HealthAgrees
  <1> QED
    BY <1>2, <1>3, <1>4, PTL DEF PlatformSpec

=============================================================================
