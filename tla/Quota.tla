-------------------------------- MODULE Quota --------------------------------
(***************************************************************************)
(* What the quota of a team promises: a caller is granted a reservation in *)
(* one indivisible step, once, and only if it fits under every limit;      *)
(* nothing else makes the use grow.  Administrators may change the limits  *)
(* at any time, to less than what is in use too.                           *)
(***************************************************************************)
EXTENDS Integers

CONSTANTS
  Callers,   \* who asks for reservations
  Counters,  \* what is counted: projects, CPU, memory
  Presets,   \* resource presets
  Cost       \* what a project of a preset takes from each counter

VARIABLES limit, used, granted

vars == <<limit, used, granted>>

Fits(preset) == \A k \in Counters : used[k] + Cost[preset][k] <= limit[k]

Init ==
  /\ limit \in [Counters -> Int]
  /\ used = [k \in Counters |-> 0]
  /\ granted = {}

Reserve(c, preset) ==
  /\ c \notin granted /\ Fits(preset)
  /\ used' = [k \in Counters |-> used[k] + Cost[preset][k]]
  /\ granted' = granted \cup {c}
  /\ UNCHANGED limit

\* The use never goes below zero.
Release(preset) ==
  /\ used' = [k \in Counters |->
       IF used[k] >= Cost[preset][k] THEN used[k] - Cost[preset][k] ELSE 0]
  /\ UNCHANGED <<limit, granted>>

SetLimit ==
  /\ limit' \in [Counters -> Int]
  /\ UNCHANGED <<used, granted>>

Next ==
  \/ \E preset \in Presets : Release(preset) \/ \E c \in Callers : Reserve(c, preset)
  \/ SetLimit

Spec == Init /\ [][Next]_vars
=============================================================================
