--------------------------- MODULE AtomicObjects ---------------------------
(***************************************************************************)
(* What the operations of the Kubernetes manager promise to each other: an *)
(* object is there or not, and a write of it takes effect at one moment,   *)
(* on the object as it is at that moment.                                  *)
(***************************************************************************)
CONSTANTS
  Starts,          \* what the cluster may hold at the beginning
  Writes,          \* what may be written
  Key(_),          \* the object that a write is about
  Applied(_, _)    \* Applied(write, value): what the write makes of a value

VARIABLE value     \* value[o]: the object, or what stands for its absence

Init == value \in Starts

Write(w) == value' = [value EXCEPT ![Key(w)] = Applied(w, @)]

\* A step that changes something.
Next == value' # value /\ \E w \in Writes : Write(w)

Spec == Init /\ [][Next]_value
=============================================================================
