----------------------------- MODULE NodeDrain -----------------------------
(***************************************************************************)
(* DrainNode of the Kubernetes manager for one node: the node is cordoned, *)
(* its pods are listed, and each is skipped or evicted by its name, while  *)
(* other calls cordon and uncordon the node, the scheduler places pods and *)
(* pods end.                                                               *)
(***************************************************************************)
EXTENDS Integers, FiniteSets

CONSTANTS
  Drains,      \* calls of DrainNode
  Pods,        \* names of pods
  MaxErrors    \* bound on evictions that fail for good

ASSUME DrainAssumption == MaxErrors \in Nat

VARIABLES
  cordoned,   \* the node takes no pods
  pod,        \* pods by name: what they are, and where
  drain,      \* calls of DrainNode
  errors

drainVars == <<cordoned, pod, drain, errors>>

\* What a pod is.  bare has no owner, and the pods of a stateful set come back
\* under their names.
Kinds == {"replica", "stateful", "daemon", "bare", "mirror"}

\* ending: evicted, and terminating for the time of grace.  finished: phase
\* Succeeded or Failed.
Places == {"none", "node", "finished", "ending", "elsewhere"}

Options == [force : BOOLEAN, ignoreDaemonSets : BOOLEAN, deleteEmptyDirData : BOOLEAN]

IdleDrain(options) ==
  [pc |-> "idle", options |-> options, todo |-> {}, skipped |-> {}, undone |-> FALSE]

DrainInit ==
  /\ cordoned = FALSE
  /\ pod \in [Pods -> [kind : Kinds, emptyDir : BOOLEAN, place : {"none", "node", "elsewhere"}]]
  /\ \E options \in Options : drain = [d \in Drains |-> IdleDrain(options)]
  /\ errors = 0

OnNode(p) == pod[p].place \in {"node", "finished", "ending"}
\* The control plane places these on their node, cordoned or not.
Bound(p) == pod[p].kind \in {"daemon", "mirror"}

shouldSkipDrainPod(p, options) ==
  \/ pod[p].place = "finished"
  \/ pod[p].kind = "mirror"
  \/ pod[p].kind = "daemon" /\ options.ignoreDaemonSets
  \/ pod[p].emptyDir /\ ~options.deleteEmptyDirData
  \/ pod[p].kind \in {"bare", "mirror"} /\ ~options.force

\* Variant: the argument of SetNodeSchedulable is the wrong way round.
CordonOpens(d) ==
  /\ drain[d].pc = "idle" /\ cordoned' = FALSE
  /\ drain' = [drain EXCEPT ![d].pc = "list"]
  /\ UNCHANGED <<pod, errors>>

Cordon(d) ==
  /\ drain[d].pc = "idle" /\ cordoned' = TRUE
  /\ drain' = [drain EXCEPT ![d].pc = "list"]
  /\ UNCHANGED <<pod, errors>>

\* The pods as they are listed tell which of them are skipped.
List(d) ==
  LET here == {p \in Pods : OnNode(p)}
      skipped == {p \in here : shouldSkipDrainPod(p, drain[d].options)} IN
  /\ drain[d].pc = "list"
  /\ drain' = [drain EXCEPT ![d].skipped = skipped, ![d].todo = here \ skipped,
                            ![d].pc = IF here = skipped THEN "done" ELSE "evict"]
  /\ UNCHANGED <<cordoned, pod, errors>>

\* An eviction that the disruption budget refuses becomes a deletion, so that
\* the pod goes in either case, wherever the pod of that name is by now.
Evict(d) ==
  /\ drain[d].pc = "evict"
  /\ \E p \in drain[d].todo :
       \/ /\ drain' = [drain EXCEPT ![d].todo = @ \ {p},
                 ![d].pc = IF drain[d].todo = {p} THEN "done" ELSE "evict"]
          /\ pod' = [pod EXCEPT ![p].place =
                 CASE @ = "node" -> "ending" [] @ \in {"finished", "elsewhere"} -> "none"
                   [] OTHER -> @]
          /\ UNCHANGED <<cordoned, errors>>
       \/ /\ errors < MaxErrors /\ errors' = errors + 1
          /\ drain' = [drain EXCEPT ![d] = [IdleDrain(@.options) EXCEPT !.pc = "failed"]]
          /\ UNCHANGED <<cordoned, pod>>

\* SetNodeSchedulable by another administrator.
Uncordon ==
  /\ cordoned /\ cordoned' = FALSE
  /\ drain' = [d \in Drains |-> [drain[d] EXCEPT !.undone = @ \/ drain[d].pc # "idle"]]
  /\ UNCHANGED <<pod, errors>>

Schedule(p) ==
  /\ pod[p].place = "none"
  /\ \E place \in {"node", "elsewhere"} :
       /\ place = "node" => Bound(p) \/ ~cordoned
       /\ pod' = [pod EXCEPT ![p].place = place]
  /\ UNCHANGED <<cordoned, drain, errors>>

\* A pod ends by itself, or the kubelet has ended it.
Leave(p) ==
  /\ OnNode(p)
  /\ \E place \in {"none", "finished"} :
       /\ place = "finished" => pod[p].place = "node"
       /\ pod' = [pod EXCEPT ![p].place = place]
  /\ UNCHANGED <<cordoned, drain, errors>>

DrainNext ==
  \/ \E d \in Drains : Cordon(d) \/ List(d) \/ Evict(d)
  \/ Uncordon
  \/ \E p \in Pods : Schedule(p) \/ Leave(p)

DrainSpec == DrainInit /\ [][DrainNext]_drainVars
-----------------------------------------------------------------------------
DrainTypeOK ==
  /\ cordoned \in BOOLEAN
  /\ \A p \in Pods : pod[p].kind \in Kinds /\ pod[p].place \in Places
  /\ \A d \in Drains : drain[d].todo \cup drain[d].skipped \subseteq Pods
  /\ errors \in 0..MaxErrors

\* After a drain that succeeds, and until somebody uncordons the node, a pod
\* that still runs on it was skipped, or one that the control plane puts there
\* in spite of the cordon: nothing has slipped in between the listing and the
\* evictions.
DrainEmpties ==
  \A d \in Drains, p \in Pods :
    drain[d].pc = "done" /\ ~drain[d].undone /\ pod[p].place = "node" =>
      p \in drain[d].skipped \/ Bound(p)
=============================================================================
