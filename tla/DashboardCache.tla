--------------------------- MODULE DashboardCache ---------------------------
(***************************************************************************)
(* The cache in front of the dashboard (RuntimeHandler.dashboard): a first *)
(* look without the mutex, one request that refreshes under it, and the    *)
(* answers that others get meanwhile.                                      *)
(*                                                                         *)
(* What the dashboard shows is abstracted to the moment at which the nodes *)
(* were listed.  Steps that wait for nobody take no time.                  *)
(***************************************************************************)
EXTENDS Integers

CONSTANTS
  Viewers,         \* requests for the dashboard
  TTL,             \* how long the cache counts as fresh
  Timeout,         \* of the context of a refresh
  VersionTimeout,  \* of the request for the version, which has no context
  MaxNow           \* bound on the clock

ASSUME DashboardAssumption ==
  TTL \in Nat \ {0} /\ Timeout \in Nat /\ VersionTimeout \in Nat /\ MaxNow \in Nat

VARIABLES now, cache, cachedAt, locked, request

dashVars == <<now, cache, cachedAt, locked, request>>

Never == -1

IdleRequest ==
  [pc |-> "idle", seen |-> Never, since |-> 0, listed |-> Never, flag |-> "none",
   shown |-> Never, at |-> 0, raced |-> FALSE]

DashInit ==
  /\ now = 0 /\ cache = Never /\ cachedAt = Never /\ locked = FALSE
  /\ request = [r \in Viewers |-> IdleRequest]

Goto(r, pc) == request' = [request EXCEPT ![r].pc = pc]

Answered(r, flag, shown) ==
  [request EXCEPT ![r].pc = "answered", ![r].flag = flag, ![r].shown = shown, ![r].at = now]

Fresh == cachedAt # Never /\ now - cachedAt < TTL

\* The first look: two reads, and a third one of the cache for the answer.
ReadCache(r) ==
  /\ request[r].pc \in {"idle", "answered"}
  /\ request' = [request EXCEPT ![r] = [IdleRequest EXCEPT
                   !.pc = IF cache = Never THEN "lock" ELSE "look", !.seen = cache]]
  /\ UNCHANGED <<now, cache, cachedAt, locked>>

\* No lock orders these reads with the writes of a refresh: the answer may
\* show what was read first.
ReadTime(r) ==
  /\ request[r].pc = "look"
  /\ \/ /\ Fresh
        /\ \E shown \in {cache, request[r].seen} :
             request' = [Answered(r, "cached", shown) EXCEPT ![r].raced = shown # cache]
     \/ ~Fresh /\ Goto(r, "lock")
  /\ UNCHANGED <<now, cache, cachedAt, locked>>

TryLock(r) ==
  /\ request[r].pc = "lock"
  /\ \/ ~locked /\ locked' = TRUE /\ Goto(r, "recheck")
     \/ /\ locked /\ UNCHANGED locked
        /\ request' = IF cache # Never THEN Answered(r, "refreshing", cache)
                      ELSE Answered(r, "429", Never)
  /\ UNCHANGED <<now, cache, cachedAt>>

Recheck(r) ==
  /\ request[r].pc = "recheck"
  /\ \/ /\ cache # Never /\ Fresh /\ locked' = FALSE
        /\ request' = Answered(r, "cached", cache)
     \/ /\ cache = Never \/ ~Fresh
        /\ request' = [request EXCEPT ![r].pc = "list", ![r].since = now]
        /\ UNCHANGED locked
  /\ UNCHANGED <<now, cache, cachedAt>>

\* Nodes, pods and events, under the context of the refresh.
ListNodes(r) ==
  /\ request[r].pc = "list"
  /\ request' = [request EXCEPT ![r].pc = "pods", ![r].listed = now]
  /\ UNCHANGED <<now, cache, cachedAt, locked>>

ListPods(r) ==
  /\ request[r].pc = "pods"
  /\ request' = [request EXCEPT ![r].pc = "version", ![r].since = now]
  /\ UNCHANGED <<now, cache, cachedAt, locked>>

\* The version of the server and the metrics, whose errors are not errors.
Version(r) == request[r].pc = "version" /\ Goto(r, "store")
              /\ UNCHANGED <<now, cache, cachedAt, locked>>

\* Variant: the time of the cache is that of the last attempt.
ListFailsStamped(r) ==
  /\ request[r].pc \in {"list", "pods"}
  /\ locked' = FALSE /\ cachedAt' = now
  /\ request' = IF cache # Never THEN Answered(r, "stale", cache) ELSE Answered(r, "400", Never)
  /\ UNCHANGED <<now, cache>>

ListFails(r) ==
  /\ request[r].pc \in {"list", "pods"}
  /\ locked' = FALSE
  /\ request' = IF cache # Never THEN Answered(r, "stale", cache) ELSE Answered(r, "400", Never)
  /\ UNCHANGED <<now, cache, cachedAt>>

StoreCache(r) ==
  /\ request[r].pc = "store"
  /\ cache' = request[r].listed /\ Goto(r, "stamp")
  /\ UNCHANGED <<now, cachedAt, locked>>

StoreTime(r) ==
  /\ request[r].pc = "stamp"
  /\ cachedAt' = now /\ locked' = FALSE
  /\ request' = Answered(r, "fresh", request[r].listed)
  /\ UNCHANGED <<now, cache>>

\* How long a request may wait at the cluster.
Patience(r) ==
  CASE request[r].pc \in {"list", "pods"} -> Timeout
    [] request[r].pc = "version"          -> VersionTimeout
    [] request[r].pc \in {"idle", "answered"} -> MaxNow
    [] OTHER                              -> 0

Pass ==
  /\ now < MaxNow /\ now' = now + 1
  /\ \A r \in Viewers :
       request[r].pc \notin {"idle", "answered"} =>
         Patience(r) > 0 /\ now < request[r].since + Patience(r)
  /\ UNCHANGED <<cache, cachedAt, locked, request>>

DashNext ==
  \/ \E r \in Viewers :
       \/ ReadCache(r) \/ ReadTime(r) \/ TryLock(r) \/ Recheck(r) \/ ListNodes(r)
       \/ ListPods(r) \/ Version(r) \/ ListFails(r) \/ StoreCache(r) \/ StoreTime(r)
  \/ Pass

DashSpec == DashInit /\ [][DashNext]_dashVars
-----------------------------------------------------------------------------
DashTypeOK ==
  /\ now \in 0..MaxNow /\ cache \in {Never} \cup 0..now /\ cachedAt \in {Never} \cup 0..now
  /\ \A r \in Viewers : request[r].shown <= now
  /\ locked <=> \E r \in Viewers :
       request[r].pc \in {"recheck", "list", "pods", "version", "store", "stamp"}

\* An answer that is not flagged as stale or refreshing shows the nodes as they
\* were no longer ago than the cache lives and a refresh takes, whose request
\* for the version is not under its timeout; except for an answer that read the
\* cache while it was written, without the mutex.
DashboardFresh ==
  \A r \in Viewers :
    request[r].flag \in {"cached", "fresh"} /\ ~request[r].raced =>
      request[r].at - request[r].shown < TTL + Timeout + VersionTimeout
=============================================================================
