--------------------------- MODULE MCTaskCreation ---------------------------
(* A taskloop of each kind, or one taskloop and then a taskiter, while two *)
(* threads spawn the same function.                                        *)
EXTENDS TaskCreation, MCGranularityTuning

CONSTANTS main, grouping, s1, s2

MCInfoOf ==
  [t \in {main, grouping, s1, s2} |-> IF t \in {s1, s2} THEN "spawned" ELSE t]
MCInfo == {main, grouping, "spawned"}

Bounded(lower, upper, grainsize, numDeps, accessing) ==
  [lower |-> lower, upper |-> upper, grainsize |-> grainsize, numDeps |-> numDeps,
   accessing |-> accessing]

(* Loops with 1 to 7 iterations, also where the chunks do not fit exactly; *)
(* lower + t * grainsize stays below Modulus.                              *)
Even == {Bounded(l, l + n, g, 2, {}) : l \in {0, 3}, n \in 1..7, g \in 0..4}
Uneven ==
  {Bounded(1, 6, g, Dynamic, m) : g \in 0..3, m \in {{}, {1}, {2, 3}, {5}, {1, 2, 4}, {3, 4, 5}}}

MCTuned == {Bounded(0, 2, 1, 0, {})}
MCTaskloops == Even \cup Uneven \cup MCTuned
=============================================================================
