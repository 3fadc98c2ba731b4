-------------------------- MODULE GranularityTuning --------------------------
(***************************************************************************)
(* dependencies/discrete/taskiter/TaskiterGraph.cpp, granularityTuning():  *)
(* with NODES_ITER_GRANULARITY_TUNING, process() makes the tasks of a      *)
(* taskiter coarser before the loop graph is closed.  "Sequential" puts a  *)
(* chain of tasks into one group, and "Front" then tasks (and groups) that *)
(* are at the same depth.  A group is a task (TaskGroupMetadata) that runs *)
(* its members one after the other; it takes their place in the graph.     *)
(*                                                                         *)
(* One thread does all this; one action is one iteration of one of its     *)
(* loops.  The choices that are left open are the order of the vertices    *)
(* within a topological order, and the size of the groups of a front: it   *)
(* comes from the times the tasks took, which the model does not have.     *)
(***************************************************************************)
EXTENDS TaskiterGraph
LOCAL INSTANCE SequencesExt
LOCAL INSTANCE TLC

CONSTANTS
  Loops,          (* the possible loops (see TaskiterGraph), with one more *)
                  (* field: communication, the tasks that waited for an    *)
                  (* external event in the first iteration                 *)
  NumCpus         (* HardwareInfo::getNumCpus                              *)

ASSUME TuningAssumption ==
  /\ NumCpus \in Nat \ {0}
  /\ \A L \in Loops : L.communication \subseteq LoopTasks(L)

VARIABLES
  loop,           (* the loop that is tuned                                *)
  phase,          (* untuned, sequential, front, degrees, closed           *)
  node,           (* node[v], the node of vertex v of _graph               *)
  edges,          (* the edges between vertices, with the edge of          *)
                  (* TaskiterGraph each comes from                         *)
  vertex,         (* vertex[n], TaskiterNode::_vertex                      *)
  group,          (* group[n], TaskMetadata::_group                        *)
  members,        (* members[k], _tasksInGroup of the k-th group           *)
  dissolved,      (* the groups that were merged into another one          *)
  children,       (* the children the taskiter still counts                *)
  newNode,        (* the vertices of transformedGraph                      *)
  equivalence,    (* equivalence[v], the new vertex of v (0: none yet)     *)
  ready, freed,   (* the vertices of this depth, and of the next one       *)
  outstanding,    (* outstanding_deps                                      *)
  average,        (* the size of the groups of this depth                  *)
  spotsLeft,      (* how many vertices fit into the last group             *)
  degree          (* _originalPredecessorCount, _originalRegisteredAccesses*)

nodeVars == <<vertex, group, members, dissolved, children>>
newVars == <<newNode, equivalence>>
frontVars == <<ready, freed, outstanding, average, spotsLeft>>
vars == <<loop, phase, node, edges, nodeVars, newVars, frontVars, degree>>

Groups == {GroupNode(k) : k \in DOMAIN members}
Members(n) == IF n \in Groups THEN members[n[2]] ELSE <<n>>

(* The vertices of the first graph.  The control task of the last copy is  *)
(* not there yet.                                                          *)
TasksInOrder(L) == CreationOrder(L, Copies(L))
FirstControls(L) == {ControlNode(k) : k \in IF L.while THEN 1..(Copies(L) - 1) ELSE {}}
Vertices(L) == TasksInOrder(L) \o SetToSeq(ReductionNodes(L) \cup FirstControls(L))

(* TaskiterNode::canBeGrouped.                                             *)
CanBeGrouped(n) == n \notin ControlNodes(loop) \cup loop.communication

InEdges(v)  == {e \in edges : e.to = v}
OutEdges(v) == {e \in edges : e.from = v}

(* The edges E between the vertices that f names.                          *)
Drawn(E, f) == {[from |-> f[e.from], to |-> f[e.to], of |-> e] : e \in E}

Init ==
  /\ loop = NoNode /\ phase = "untuned"
  /\ node = <<>> /\ edges = {}
  /\ vertex = <<>> /\ group = <<>>
  /\ members = <<>> /\ dissolved = {} /\ children = 0
  /\ newNode = <<>> /\ equivalence = <<>>
  /\ ready = {} /\ freed = {} /\ outstanding = <<>>
  /\ average = 1 /\ spotsLeft = 0
  /\ degree = <<>>

(* process(): the graph of L is there, and the tuning begins.              *)
StartSequential(L) ==
  /\ phase' = "sequential"
  /\ loop' = L
  /\ node' = Vertices(L)
  /\ vertex' = [n \in ToSet(node') |-> CHOOSE v \in DOMAIN node' : node'[v] = n]
  /\ edges' = Drawn(IterationEdges(L), vertex')
  /\ group' = [n \in ToSet(node') |-> NoNode]
  /\ children' = Cardinality(LoopTasks(L) \cup ControlNodes(L))
  /\ equivalence' = [v \in DOMAIN node' |-> 0]
  /\ UNCHANGED <<members, dissolved, newNode, frontVars, degree>>

-----------------------------------------------------------------------------
(* What both transformations do with a vertex.                             *)

(* The node of v gets a vertex of its own; a group takes its members along *)
(* (TaskGroupMetadata::setVertex).  The mutant does not.                   *)
SetVertexOfGroupOnly(n, v) == [vertex EXCEPT ![n] = v]

SetVertex(n, v) ==
  [m \in DOMAIN vertex |-> IF m \in {n} \cup ToSet(Members(n)) THEN v ELSE vertex[m]]

InsertVertex(v) ==
  /\ newNode' = Append(newNode, node[v])
  /\ equivalence' = [equivalence EXCEPT ![v] = Len(newNode) + 1]
  /\ vertex' = SetVertex(node[v], Len(newNode) + 1)
  /\ UNCHANGED <<group, members, dissolved, children>>

(* TaskGroupMetadata::addTask of the nodes S: the members of a group among *)
(* them (mergeWithGroup) move to the new one, and the group is disposed.   *)
(* Mutants: the last member of the chain comes first; the merged group is  *)
(* not counted as finished (finishChild).                                  *)
MovedBackwards(S) == FlattenSeq([i \in DOMAIN S |-> Members(S[Len(S) + 1 - i])])
Moved(S) == FlattenSeq([i \in DOMAIN S |-> Members(S[i])])
Merged(S) == ToSet(S) \cap Groups
NoChildFinished(S) == 0
ChildrenFinished(S) == Cardinality(Merged(S))

(* Put the vertices vs into a new group, or into the last one.             *)
AddToGroup(vs, new) ==
  LET k      == IF new THEN Len(members) + 1 ELSE Len(members)
      g      == GroupNode(k)
      v      == IF new THEN Len(newNode) + 1 ELSE vertex[g]
      added  == [i \in DOMAIN vs |-> node[vs[i]]]
      nodes  == ToSet(Moved(added))
  IN  /\ newNode' = IF new THEN Append(newNode, g) ELSE newNode
      /\ equivalence' = [u \in DOMAIN equivalence |-> IF u \in ToSet(vs) THEN v ELSE equivalence[u]]
      /\ vertex' = g :> v @@ [n \in DOMAIN vertex |-> IF n \in nodes THEN v ELSE vertex[n]]
      /\ group' = g :> NoNode @@
                  [n \in DOMAIN group |-> IF n \in nodes \ ReductionNodes(loop) THEN g ELSE group[n]]
      /\ members' = IF new THEN Append(members, Moved(added))
                           ELSE [members EXCEPT ![k] = @ \o Moved(added)]
      /\ dissolved' = dissolved \cup Merged(added)
      /\ children' = children + (IF new THEN 1 ELSE 0) - ChildrenFinished(added)

(* The edges are copied to the new graph, without those inside a group.    *)
CopiedEdges ==
  {[e EXCEPT !.from = equivalence[e.from], !.to = equivalence[e.to]] :
     e \in {d \in edges : equivalence[d.from] # equivalence[d.to]}}

-----------------------------------------------------------------------------
(* graphTransformSequential.                                               *)

Successor(v) == CHOOSE w \in DOMAIN node : \E e \in OutEdges(v) : e.to = w

(* The chain that starts in v.  Whether its vertices can be grouped is     *)
(* asked of the first successor only: nextNode stays the same in the loop. *)
ChainFrom(v) ==
  LET rest[u \in DOMAIN node] ==
        CASE Cardinality(InEdges(u)) # 1  -> <<>>
          [] Cardinality(OutEdges(u)) # 1 -> <<u>>
          [] OTHER                        -> <<u>> \o rest[Successor(u)]
  IN  IF Cardinality(OutEdges(v)) # 1 \/ ~CanBeGrouped(node[v])
           \/ ~CanBeGrouped(node[Successor(v)])
      THEN <<v>>
      ELSE <<v>> \o rest[Successor(v)]

Visited == {v \in DOMAIN node : equivalence[v] # 0}

(* The next vertex in topological order that is in no chain yet.           *)
VisitVertex(v) ==
  /\ phase = "sequential"
  /\ v \notin Visited /\ {e.from : e \in InEdges(v)} \subseteq Visited
  /\ LET chain == ChainFrom(v)
     IN  IF Len(chain) = 1 THEN InsertVertex(v) ELSE AddToGroup(chain, TRUE)
  /\ UNCHANGED <<loop, phase, node, edges, frontVars, degree>>

(* The chains are found; the transformation of the fronts begins.          *)
EndSequential ==
  /\ phase = "sequential" /\ Visited = DOMAIN node
  /\ phase' = "front"
  /\ node' = newNode /\ edges' = CopiedEdges
  /\ newNode' = <<>>
  /\ equivalence' = [v \in DOMAIN newNode |-> 0]
  /\ outstanding' = [v \in DOMAIN newNode |-> Cardinality({e \in edges' : e.to = v})]
  /\ freed' = {v \in DOMAIN newNode : outstanding'[v] = 0}
  /\ ready' = {} /\ average' = 1 /\ spotsLeft' = 0
  /\ UNCHANGED <<loop, nodeVars, degree>>

-----------------------------------------------------------------------------
(* graphTransformFront.                                                    *)

(* The next depth.  At least as many groups are made as there are CPUs.    *)
StartFront(groupsToMake) ==
  /\ phase = "front" /\ ready = {} /\ freed # {}
  /\ groupsToMake >= NumCpus
  /\ ready' = freed /\ freed' = {}
  /\ average' = IF Cardinality(freed) >= groupsToMake
                THEN Cardinality(freed) \div groupsToMake ELSE 1
  /\ spotsLeft' = 0
  /\ UNCHANGED <<loop, phase, node, edges, nodeVars, newVars, outstanding, degree>>

(* The successors of v that wait for nobody else come next.                *)
FreeSuccessors(v) ==
  /\ outstanding' = [w \in DOMAIN outstanding |-> outstanding[w] - Cardinality(OutEdges(v) \cap InEdges(w))]
  /\ freed' = freed \cup {e.to : e \in {d \in OutEdges(v) : outstanding'[d.to] = 0}}

PlaceVertex(v) ==
  /\ phase = "front" /\ v \in ready
  /\ IF average = 1 \/ ~CanBeGrouped(node[v])
     THEN InsertVertex(v) /\ UNCHANGED spotsLeft
     ELSE /\ AddToGroup(<<v>>, spotsLeft = 0)
          /\ spotsLeft' = (IF spotsLeft = 0 THEN average ELSE spotsLeft) - 1
  /\ FreeSuccessors(v)
  /\ ready' = ready \ {v}
  /\ UNCHANGED <<loop, phase, node, edges, average, degree>>

EndFront ==
  /\ phase = "front" /\ ready = {} /\ freed = {}
  /\ phase' = "degrees"
  /\ node' = newNode /\ edges' = CopiedEdges
  /\ UNCHANGED <<loop, nodeVars, newVars, frontVars, degree>>

-----------------------------------------------------------------------------
(* setTaskDegree, on the graph that is left.                               *)

(* The last control task comes after the tasks whose vertex is a leaf.     *)
TunedControlEdges ==
  {Edge(t, ControlNode(Copies(loop)), FALSE, NoNode) :
     t \in {u \in CopyTasks(loop, Copies(loop)) : OutEdges(vertex[u]) = {}}}

ClosingEdges ==
  LET untuned == ControlEdges(loop, Copies(loop), IterationEdges(loop))
  IN  ReductionLoopEdges(loop) \cup
      (IF loop.while THEN (CloseLoopWithControl(loop) \ untuned) \cup TunedControlEdges
                     ELSE CloseDependencyLoop(loop))

(* The node whose count an edge increases.  In the graph it is the node of *)
(* the vertex; for a closing edge the group of the task, if it has one     *)
(* (the mutant counts for the task).                                       *)
CountedForTask(e) == IF e \in edges THEN node[e.to] ELSE e.of.to

Counted(e) ==
  LET n == e.of.to
  IN  IF e \in edges THEN node[e.to]
      ELSE IF n \in DOMAIN group /\ group[n] # NoNode THEN group[n] ELSE n

SetTaskDegree ==
  LET last == ControlNode(Copies(loop))
      f    == IF loop.while THEN last :> Len(node) + 1 @@ vertex ELSE vertex
  IN  /\ phase = "degrees" /\ phase' = "closed"
      /\ node' = IF loop.while THEN Append(node, last) ELSE node
      /\ vertex' = f
      /\ edges' = edges \cup Drawn(ClosingEdges, f)
      /\ degree' = [n \in DOMAIN f \cup ReductionNodes(loop) |->
                      Cardinality({e \in edges' : Counted(e) = n})]
      /\ UNCHANGED <<loop, group, members, dissolved, children, newVars, frontVars>>

Terminated == phase = "closed" /\ UNCHANGED vars

TuningNext ==
  \/ phase = "untuned" /\ \E L \in Loops : StartSequential(L)
  \/ \E v \in DOMAIN node : VisitVertex(v) \/ PlaceVertex(v)
  \/ EndSequential
  \/ \E k \in 1..Len(node) + NumCpus : StartFront(k)
  \/ EndFront
  \/ SetTaskDegree

Next == TuningNext \/ Terminated

Spec == Init /\ [][Next]_vars

-----------------------------------------------------------------------------
(* Properties.                                                             *)

(* The graph is whole before, between and after the transformations.       *)
Whole ==
  \/ phase \in {"sequential", "front"} /\ newNode = <<>>
  \/ phase \in {"degrees", "closed"}

Live(n) == n \in ToSet(Vertices(loop)) \cup (Groups \ dissolved)

(* No task, combination or control task is lost or runs twice: it is in    *)
(* one vertex, alone or once in its group, and both its vertex (which the  *)
(* closing edges are drawn with) and its group (which is counted for it)   *)
(* are those it is in now, whatever it was moved through before            *)
(* (graphTransformSequential, graphTransformFront, mergeWithGroup).        *)
OneVertexEach ==
  Whole =>
    \A n \in ToSet(Vertices(loop)) :
      \E v \in DOMAIN node :
        /\ \A w \in DOMAIN node : n \in ToSet(Members(node[w])) <=> w = v
        /\ Cardinality({i \in DOMAIN Members(node[v]) : Members(node[v])[i] = n}) = 1
        /\ Live(node[v])
        /\ vertex[n] = v /\ vertex[node[v]] = v
        /\ group[n] = (IF node[v] = n \/ n \in ReductionNodes(loop) THEN NoNode ELSE node[v])

(* A task that has to wait for an external event is in no group: the group *)
(* would go on with its next member, and release its successors, before    *)
(* the event ("Prevent grouping control tasks", TaskiterGraph.cpp:1112).   *)
CommunicationAlone ==
  \A g \in Groups : \A i \in DOMAIN Members(g) : CanBeGrouped(Members(g)[i])

(* The taskiter waits for its tasks, and for each group that is left: a    *)
(* group that was merged was counted down.                                 *)
ChildrenAreCounted ==
  phase = "closed" =>
    children = Cardinality(LoopTasks(loop) \cup ControlNodes(loop))
                 + Cardinality({v \in DOMAIN node : node[v] \in Groups})

Successions == Paths({<<e.from, e.to>> : e \in {d \in edges : ~d.of.cross}})

(* What the untuned graph orders, the tuned graph orders: the two are in   *)
(* one group, in that order (or in two of its runs), or there is a path.   *)
OrderIsKept ==
  phase = "closed" =>
    \A e \in LoopGraph(loop) :
      LET v == vertex[e.from]
          w == vertex[e.to]
          in == Members(node[v])
      IN  \/ v = w /\ (e.cross \/ \E i, j \in DOMAIN in : i < j /\ in[i] = e.from /\ in[j] = e.to)
          \/ ~e.cross /\ <<v, w>> \in Successions
          \/ \E d \in edges : d.from = v /\ d.to = w /\ d.of.cross = e.cross

(* The groups, the merged ones without members.                            *)
GroupsLeft == [k \in DOMAIN members |-> IF GroupNode(k) \in dissolved THEN <<>> ELSE members[k]]

(* And every vertex gets its turn: there is no cycle within an iteration,  *)
(* and a node waits for as many predecessors as satisfy it (a group for    *)
(* those of all of its members), which are those Taskiter runs it with.    *)
EveryVertexStarts ==
  phase = "closed" =>
    /\ \A v \in DOMAIN node : <<v, v>> \notin Successions
    /\ \A v \in DOMAIN node :
         /\ degree[node[v]] = Cardinality(InEdges(v))
         /\ {e.of : e \in InEdges(v)} =
              {e.at : e \in {d \in TunedGraph(loop, GroupsLeft) : d.to = node[v]}}
=============================================================================
