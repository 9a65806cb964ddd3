------------------------- MODULE MCProjectLifecycle -------------------------
(* Model checking of ProjectLifecycle: two counters stand for the three of  *)
(* resource_quotas, CPU and memory grow together in every preset.           *)
EXTENDS ProjectLifecycle, TLC

MCCounters == {"projects", "cpu"}
MCPresets == {"small", "large"}
MCOnePreset == {"small"}

\* A large project takes as much CPU as two small ones.
MCCost == [preset \in Presets |->
  [k \in Counters |-> IF k = "cpu" /\ preset = "large" THEN 2 ELSE 1]]

\* Room for two small projects or one large.
MCLimit == [k \in Counters |-> 2]
\* Below the use, and above it.
MCOtherLimits == {[k \in Counters |-> n] : n \in {1, 3}}

\* Calls, names and namespaces are interchangeable.
Product(F, G) == {f @@ g : f \in F, g \in G}
Symmetry ==
  Product(Product(Permutations(Creates), Permutations(Deletes)),
          Product(Permutations(Names), Permutations(Namespaces)))
=============================================================================
