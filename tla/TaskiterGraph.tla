---------------------------- MODULE TaskiterGraph ----------------------------
(***************************************************************************)
(* dependencies/discrete/taskiter/TaskiterGraph.hpp: while the first       *)
(* iteration of a taskiter runs, the graph of one iteration is built from  *)
(* the accesses of its tasks, in creation order and one chain per address. *)
(* process() and setTaskDegree() then optimise it and close it to a loop:  *)
(* an edge that crosses leads to the next iteration.                       *)
(*                                                                         *)
(* A loop is a record: copies[k] are the tasks created by the k-th copy of *)
(* the body (more than one in an unrolled while-taskiter), uses[t][x] is   *)
(* the type of the access of t on x, rounds the number of iterations,      *)
(* while whether the taskiter has a condition, and optimize the value of   *)
(* NODES_ITER_OPTIMIZE.  A task without a copy is not in the loop.         *)
(***************************************************************************)
EXTENDS Integers, Sequences, FiniteSets
LOCAL INSTANCE SequencesExt

CONSTANTS NoNode

(* at is the address the edge comes from: an address may repeat an edge.   *)
Edge(from, to, cross, at) == [from |-> from, to |-> to, cross |-> cross, at |-> at]

Copies(L) == Len(L.copies)
CopyTasks(L, k) == ToSet(L.copies[k])
LoopTasks(L) == UNION {CopyTasks(L, k) : k \in 1..Copies(L)}
LoopAddresses(L) == UNION {DOMAIN L.uses[t] : t \in LoopTasks(L)}

(* The tasks in the order of their creation, up to the k-th copy.          *)
CreationOrder(L, k) == FlattenSeq(SubSeq(L.copies, 1, k))

(* The node of a reduction is named by the task that opened it.            *)
ReductionNode(t, x) == <<t, x>>
ControlNode(k) == <<"control", k>>
GroupNode(k) == <<"group", k>>
ControlOrder(L) == IF L.while THEN [k \in 1..Copies(L) |-> ControlNode(k)] ELSE <<>>
ControlNodes(L) == IF L.while THEN {ControlNode(k) : k \in 1..Copies(L)} ELSE {}

-----------------------------------------------------------------------------
(* TaskiterGraphAccessChain, with the edges drawn for its address.         *)
EmptyChain ==
  [last |-> {}, prev |-> {}, first |-> {}, second |-> {},
   lastType |-> "WRITE", firstType |-> "WRITE",
   reductionChain |-> {}, reductionInfo |-> NoNode, edges |-> {}]

CreateEdges(node, chain, x) == {Edge(from, node, FALSE, x) : from \in chain}

SwapChains(c) ==
  [c EXCEPT
     !.prev = c.last, !.last = {},
     !.first = IF @ = {} THEN c.last ELSE @,
     !.firstType = IF c.first = {} /\ c.last # {} THEN c.lastType ELSE @,
     !.second = IF c.first # {} /\ @ = {} THEN c.last ELSE @]

(* Mutant: the combination does not wait for the accesses before it.       *)
CloseReductionChainEarly(c, x) ==
  [SwapChains(c) EXCEPT
     !.edges = @ \cup CreateEdges(c.reductionInfo, c.reductionChain, x)
                 \cup {Edge(c.reductionInfo, t, TRUE, x) : t \in c.reductionChain},
     !.last = {c.reductionInfo}, !.lastType = "REDUCTION",
     !.reductionChain = {}, !.reductionInfo = NoNode]

(* The combination comes after the last chain and after the reductions,    *)
(* which in turn wait for the combination of the iteration before.         *)
CloseReductionChain(c, x) ==
  [SwapChains(c) EXCEPT
     !.edges = @ \cup CreateEdges(c.reductionInfo, c.last \cup c.reductionChain, x)
                 \cup {Edge(c.reductionInfo, t, TRUE, x) : t \in c.reductionChain},
     !.last = {c.reductionInfo}, !.lastType = "REDUCTION",
     !.reductionChain = {}, !.reductionInfo = NoNode]

CloseLeftover(c, x) == IF c.reductionInfo = NoNode THEN c ELSE CloseReductionChain(c, x)

AddReduction(c, t, x) ==
  [c EXCEPT !.reductionChain = @ \cup {t},
            !.reductionInfo = IF @ = NoNode THEN ReductionNode(t, x) ELSE @]

AddReader(c, t, x, type) ==
  LET same == IF type = c.lastType THEN c ELSE [SwapChains(c) EXCEPT !.lastType = type]
  IN  [same EXCEPT !.last = @ \cup {t}, !.edges = @ \cup CreateEdges(t, same.prev, x)]

AddWriter(c, t, x) ==
  LET swapped == SwapChains(c)
  IN  [swapped EXCEPT !.last = {t}, !.lastType = "WRITE",
                      !.edges = @ \cup CreateEdges(t, swapped.prev, x)]

AddTaskAccess(c, t, x, type) ==
  CASE type = "REDUCTION"            -> AddReduction(c, t, x)
    [] type \in {"READ", "CONCURRENT"} -> AddReader(CloseLeftover(c, x), t, x, type)
    [] OTHER                         -> AddWriter(CloseLeftover(c, x), t, x)

(* _bottomMap[x] when the k-th copy was created.                           *)
Chain(L, k, x) ==
  LET add(c, t) == IF x \in DOMAIN L.uses[t] THEN AddTaskAccess(c, t, x, L.uses[t][x]) ELSE c
  IN  FoldLeft(add, EmptyChain, CreationOrder(L, k))

ClosedChain(L, x) == CloseLeftover(Chain(L, Copies(L), x), x)

-----------------------------------------------------------------------------
(* insertControlTask: the control task of a copy comes after its leaves.   *)
Leaves(T, edges) == {t \in T : \A e \in edges : e.from # t}

ControlEdges(L, k, edges) ==
  {Edge(t, ControlNode(k), FALSE, NoNode) : t \in Leaves(CopyTasks(L, k), edges)}

(* The edges of one iteration.  The control tasks in the middle of an      *)
(* unrolled loop are inserted while it is created.                         *)
DrawnEdges(L) ==
  UNION {{e \in ClosedChain(L, x).edges : ~e.cross} : x \in LoopAddresses(L)} \cup
  UNION {ControlEdges(L, k, {e \in UNION {Chain(L, k, x).edges : x \in LoopAddresses(L)} : ~e.cross}) :
           k \in IF L.while THEN 1..(Copies(L) - 1) ELSE {}}

(* basicReduction: one edge between two nodes.                             *)
BasicReduction(edges) == {[e EXCEPT !.at = NoNode] : e \in edges}

(* transitiveReduction: and none where there is a longer path.             *)
Paths(R) ==
  LET path[n \in Nat] ==
        IF n = 0 THEN R
        ELSE path[n - 1] \cup {<<w[1][1], w[2][2]>> : w \in {v \in path[n - 1] \X R : v[1][2] = v[2][1]}}
  IN  path[Cardinality(R)]

TransitiveReduction(edges) ==
  LET R == {<<e.from, e.to>> : e \in edges}
  IN  {e \in BasicReduction(edges) :
         \A f \in edges : f.from = e.from => f.to = e.to \/ <<f.to, e.to>> \notin Paths(R)}

IterationEdges(L) ==
  CASE L.optimize = "transitive" -> TransitiveReduction(DrawnEdges(L))
    [] L.optimize = "basic"      -> BasicReduction(DrawnEdges(L))
    [] OTHER                     -> DrawnEdges(L)

-----------------------------------------------------------------------------
(* closeDependencyLoop: the first accesses of the next iteration come      *)
(* after the last ones of this one.  When both are readers the writers     *)
(* between them order them.                                                *)
AcrossEdges(from, to, x) == {Edge(f, t, TRUE, x) : f \in from, t \in to}

(* Mutant: readers at both ends, and only the end is ordered.              *)
CloseDependencyChainHalf(c, x) ==
  LET first     == IF c.first = {} THEN c.last ELSE c.first
      firstType == IF c.first = {} THEN c.lastType ELSE c.firstType
      second    == IF c.first # {} /\ c.second = {} THEN c.last ELSE c.second
  IN  IF firstType # c.lastType \/ firstType = "WRITE" THEN AcrossEdges(c.last, first, x)
      ELSE AcrossEdges(c.last, second, x)

CloseDependencyChain(c, x) ==
  LET first     == IF c.first = {} THEN c.last ELSE c.first
      firstType == IF c.first = {} THEN c.lastType ELSE c.firstType
      second    == IF c.first # {} /\ c.second = {} THEN c.last ELSE c.second
  IN  IF firstType # c.lastType \/ firstType = "WRITE" THEN AcrossEdges(c.last, first, x)
      ELSE IF second # {} THEN AcrossEdges(c.last, second, x) \cup AcrossEdges(c.prev, first, x)
      ELSE {}

CloseDependencyLoop(L) ==
  UNION {CloseDependencyChain(ClosedChain(L, x), x) : x \in LoopAddresses(L)}

(* closeLoopWithControl: a control task lets the tasks of its copy start   *)
(* the next iteration, and the next control task follow.                   *)
CloseLoopWithControl(L) ==
  LET K == Copies(L)
  IN  ControlEdges(L, K, IterationEdges(L))
        \cup (IF K > 1 THEN CloseDependencyLoop(L) ELSE {})
        \cup UNION {AcrossEdges({ControlNode(k)}, CopyTasks(L, k), NoNode) : k \in 1..K}
        \cup {Edge(ControlNode(k), ControlNode(k + 1), FALSE, NoNode) : k \in 1..(K - 1)}
        \cup (IF K > 1 THEN AcrossEdges({ControlNode(K)}, {ControlNode(1)}, NoNode) ELSE {})

(* The delayed edges from a combination to the reductions.                 *)
ReductionLoopEdges(L) == {e \in UNION {ClosedChain(L, x).edges : x \in LoopAddresses(L)} : e.cross}

(* _graph, after process() and setTaskDegree().                            *)
LoopGraph(L) ==
  IterationEdges(L)
    \cup (IF L.while THEN CloseLoopWithControl(L) ELSE CloseDependencyLoop(L))
    \cup ReductionLoopEdges(L)

ReductionNodes(L) == {e.from : e \in ReductionLoopEdges(L)}

-----------------------------------------------------------------------------
(* The graph when granularity tuning put tasks (and combinations) into     *)
(* groups: groups[k] is the sequence of the members of the k-th group.     *)
VertexOf(groups, n) ==
  LET in == {k \in DOMAIN groups : n \in ToSet(groups[k])}
  IN  IF in = {} THEN n ELSE GroupNode(CHOOSE k \in in : TRUE)

(* The edges inside a group are gone before the loop is closed; the last   *)
(* control task comes after the tasks whose vertex is a leaf then.         *)
TunedGraph(L, groups) ==
  LET v(n)  == VertexOf(groups, n)
      K     == Copies(L)
      tuned == {e \in IterationEdges(L) : v(e.from) # v(e.to)}
      leaf  == {t \in CopyTasks(L, K) : \A e \in tuned : v(e.from) # v(t)}
      close == IF L.while
               THEN (CloseLoopWithControl(L) \ ControlEdges(L, K, IterationEdges(L)))
                      \cup {Edge(t, ControlNode(K), FALSE, NoNode) : t \in leaf}
               ELSE CloseDependencyLoop(L)
  IN  {Edge(v(e.from), v(e.to), e.cross, e) : e \in tuned \cup close \cup ReductionLoopEdges(L)}

(* The degrees the visitors count in a tuned graph: what a node waits for  *)
(* in the first iteration that is driven by the graph, and in the others.  *)
(* An edge from a control task always counts: the control tasks run first. *)
(* An edge that closes the loop at a combination is counted for that, also *)
(* when it is in a group.                                                  *)
FirstDegree(G, n, controls) ==
  Cardinality({e \in G : e.to = n /\ (~e.cross \/ e.from \in controls)})
OriginalDegree(L, G, n) ==
  Cardinality({e \in G : n = IF e.cross /\ e.at.to \in ReductionNodes(L) THEN e.at.to ELSE e.to})

(* The tasks of a reduction.                                               *)
Reducers(L, r) == {e.to : e \in {f \in ReductionLoopEdges(L) : f.from = r}}

(* The last access of the first iteration to an address is disposed only   *)
(* when the taskiter unregisters its own: its task is kept until then.     *)
Holders(L) ==
  LET tasks == CreationOrder(L, Copies(L))
      last(i) == \E x \in DOMAIN L.uses[tasks[i]] :
                   \A j \in (i + 1)..Len(tasks) : x \notin DOMAIN L.uses[tasks[j]]
  IN  {tasks[i] : i \in {j \in DOMAIN tasks : last(j)}}
=============================================================================
