----------------------------- MODULE MCTaskiter -----------------------------
(* Small loops for Taskiter.                                               *)
EXTENDS Taskiter, TLC

CONSTANTS a, b, c, x1, x2

UsesOf(f) == [t \in {a, b, c} |-> IF t \in DOMAIN f THEN f[t] ELSE [x \in {} |-> {}]]

ForLoop(tasks, f, rounds, optimize) ==
  [copies |-> <<tasks>>, uses |-> UsesOf(f), rounds |-> rounds, while |-> FALSE,
   optimize |-> optimize, groups |-> <<>>]
WhileLoop(copies, f, rounds) ==
  [copies |-> copies, uses |-> UsesOf(f), rounds |-> rounds, while |-> TRUE,
   optimize |-> "none", groups |-> <<>>]

(* Every combination of types on one address (WRITE and READWRITE are      *)
(* alike) of two tasks, for three iterations; three tasks with a reduction *)
(* and another type, for two iterations; and, for three, three tasks that  *)
(* end an iteration with readers or combine in the middle of it.           *)
Types == {"READ", "WRITE", "CONCURRENT", "REDUCTION"}

Pair(u, v) == ForLoop(<<a, b>>, a :> (x1 :> u) @@ b :> (x1 :> v), 3, "none")
TripleFor(rounds, u, v, w) ==
  ForLoop(<<a, b, c>>, a :> (x1 :> u) @@ b :> (x1 :> v) @@ c :> (x1 :> w), rounds, "none")
Triple(u, v, w) == TripleFor(2, u, v, w)
LongTriples == {TripleFor(3, "READ", "WRITE", "READ"), TripleFor(3, "WRITE", "REDUCTION", "READ")}

(* A combination that waits for the accesses of the iteration before may   *)
(* be satisfied by one of their threads in its own last iteration, which   *)
(* lets it cross into another one: such loops run for two iterations only. *)
CombinationWaits(L) == \E d \in LoopGraph(L) : d.cross /\ d.to \in ReductionNodes(L)

PairLoops == {L \in {Pair(u, v) : u \in Types, v \in Types} : ~CombinationWaits(L)}

(* closeDependencyLoop has no case for two reductions at both ends.        *)
TripleLoops ==
  {Triple(t[1], t[2], t[3]) :
     t \in {u \in UNION {[1..3 -> {v, "REDUCTION"}] : v \in {"READ", "WRITE"}} :
              u[1] = "REDUCTION" /\ u[3] = "REDUCTION" => u[2] = "REDUCTION"}}

(* Edges that repeat, and one that follows from two others.                *)
Diamond(optimize) ==
  ForLoop(<<a, b, c>>,
    a :> (x1 :> "WRITE") @@ b :> (x1 :> "READ" @@ x2 :> "WRITE") @@
    c :> (x1 :> "READ" @@ x2 :> "READ"), 2, optimize)
Repeated ==
  ForLoop(<<a, b>>, a :> (x1 :> "WRITE" @@ x2 :> "WRITE") @@ b :> (x1 :> "READ" @@ x2 :> "WRITE"),
    3, "basic")

(* Conditions, in a loop that is not unrolled and in one that is.  The     *)
(* copies of the unrolled body do not depend on each other: a task that    *)
(* lets a control task cancel the loop would satisfy the next copy only    *)
(* after that.                                                             *)
Rolled(rounds) ==
  WhileLoop(<<<<a, b>>>>, a :> (x1 :> "WRITE") @@ b :> (x1 :> "READ"), rounds)
Unrolled == WhileLoop(<<<<a>>, <<b>>>>, a :> (x1 :> "WRITE") @@ b :> (x2 :> "READ"), 2)

(* Groups as GranularityTuning makes them: a chain, a front, a combination *)
(* and its reader, a reduction and its combination, and a chain with a     *)
(* condition.                                                              *)
Grouped(L, members) == [L EXCEPT !.groups = <<members>>]
GroupedLoops ==
  {Grouped(ForLoop(<<a, b, c>>,
     a :> (x1 :> "WRITE") @@ b :> (x1 :> "READ") @@ c :> (x2 :> "WRITE"), 2, "none"), <<a, b>>),
   Grouped(ForLoop(<<a, b, c>>,
     a :> (x1 :> "WRITE") @@ b :> (x2 :> "WRITE") @@ c :> (x1 :> "READ" @@ x2 :> "READ"),
     3, "basic"), <<a, b>>),
   Grouped(Triple("WRITE", "REDUCTION", "READ"), <<ReductionNode(b, x1), c>>),
   Grouped(ForLoop(<<a, b>>, a :> (x1 :> "REDUCTION") @@ b :> (x2 :> "WRITE"), 3, "none"),
     <<a, ReductionNode(a, x1)>>),
   Grouped(Rolled(2), <<a, b>>)}

MCTask == {a, b, c}
MCLoops ==
  PairLoops \cup TripleLoops \cup LongTriples \cup {Diamond("transitive"), Repeated, Rolled(2), Unrolled}
    \cup GroupedLoops

(* A reduction and a reader of its result, for three iterations.           *)
LastCombinationLoops == {Pair("REDUCTION", "READ")}
=============================================================================
