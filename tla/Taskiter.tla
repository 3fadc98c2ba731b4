------------------------------ MODULE Taskiter ------------------------------
(***************************************************************************)
(* A taskiter after its first iteration.  The last child to finish wakes   *)
(* the taskiter up, and the thread that does (the launcher) runs           *)
(* processTaskIter: the loop graph is closed and its tasks are run again,  *)
(* driven only by counters of predecessors, until every task ran the       *)
(* number of iterations, or a control task finds the condition of a while- *)
(* taskiter false and cancels it.                                          *)
(*                                                                         *)
(* An execution <<i, n>> is the i-th run of node n, and names the thread   *)
(* that runs it and then its completion; the same task may have a thread   *)
(* that still completes one run and another one that runs the next.  One   *)
(* action is one step on a shared counter.  The model starts after         *)
(* processTaskIter has counted the degrees, with the first iteration over. *)
(* A task has no nested tasks, no events and no commutative access.  A     *)
(* group, which granularity tuning made, is run like a task: its members   *)
(* one after the other, without counters of their own.                     *)
(***************************************************************************)
EXTENDS TaskiterGraph

CONSTANTS
  Task,
  Loops,          (* the possible loops (see TaskiterGraph), with one more *)
                  (* field: groups[k], the members of the k-th group       *)
  MaxRounds,      (* a bound of their iterations                           *)
  Launcher,       (* the name of the launcher's thread                     *)
  ChunkSize       (* TaskList::_actualChunkSize                            *)

ASSUME TaskiterAssumption ==
  /\ ChunkSize \in Nat \ {0}
  /\ \A L \in Loops : /\ L.rounds \in 2..MaxRounds /\ Copies(L) >= 1
                       /\ LoopTasks(L) \subseteq Task
                       /\ L.groups \in Seq(Seq(LoopTasks(L) \cup ReductionNodes(L)))

VARIABLES
  loop,             (* the loop that is run                                *)
  graph,            (* TaskiterGraph::_graph                               *)
  original,         (* TaskMetadata::_originalPredecessorCount and         *)
                    (* ReductionInfo::_originalAccesses                    *)
  order,            (* _tasks and _controlTasks, as forEach visits them    *)
  before,           (* the order of the runs in the sequential program     *)
  declared,         (* and their accesses (see TaskDependencies)           *)
  status,           (* status[e] of an execution: none, submitted, running,*)
                    (* between (members of a group),                       *)
                    (* evaluated, cancelling, dropping (control tasks),    *)
                    (* passing or closing (applySuccessors, with another   *)
                    (* iteration or not), finishing, removing (a member),  *)
                    (* tail, done                                          *)
  member,           (* the member of the group that e runs or finalizes    *)
  todo,             (* the edges e has still to apply                      *)
  combining,        (* the reduction e is about to combine                 *)
  ready,            (* CPUDependencyData::_satisfiedOriginators of e       *)
  climb,            (* where a thread is in the loop of taskFinished, once *)
                    (* it took the taskiter to zero: no, wake, release     *)
  iteration,        (* TaskMetadata::_iterationCount                       *)
  predecessors,     (* TaskMetadata::_predecessorCount                     *)
  removal,          (* TaskMetadata::_removalCount                         *)
  disposed,         (* the nodes whose task was destroyed                  *)
  registered,       (* ReductionInfo::_registeredAccesses                  *)
  combines,         (* how often a reduction was combined (history)        *)
  launch,           (* the next node of the launcher                       *)
  wakeUp,           (* _countdownToBeWokenUp of the taskiter               *)
  release,          (* _countdownToRelease of the taskiter                 *)
  delayed,          (* mustDelayRelease of the taskiter                    *)
  released,         (* how often the taskiter released its accesses        *)
  parentFinished,   (* how often it was counted as finished in its parent  *)
  cancellation,     (* the run that found the condition false, or NoNode   *)
  countdown,        (* TaskiterMetadata::_delayedCancelCountdown           *)
  stopped,          (* TaskiterMetadata::_stop                             *)
  cancels           (* the nodes cancel() has still to finish              *)

loopVars == <<loop, graph, original, order, before, declared>>
threadVars == <<member, todo, combining, ready>>
countVars == <<predecessors, registered, combines>>
removalVars == <<removal, disposed>>
taskiterVars == <<wakeUp, release, delayed, released, parentFinished>>
cancelVars == <<cancellation, countdown, stopped, cancels>>
vars == <<loopVars, status, climb, iteration, launch,
          threadVars, countVars, removalVars, taskiterVars, cancelVars>>

Rounds     == loop.rounds
Controls   == ControlNodes(loop)
Nodes      == {order[i] : i \in DOMAIN order}
Tasks      == Nodes \ Controls
Groups     == {GroupNode(k) : k \in DOMAIN loop.groups}
Members(n) == IF n \in Groups THEN loop.groups[n[2]] ELSE <<n>>
Place(n)   == VertexOf(loop.groups, n)
Vertices   == {Place(n) : n \in Nodes}
Reductions == ReductionNodes(loop)

(* The nodes of tasks: what the taskiter counts as its children.           *)
Children == Nodes \cup Groups

(* One run more than there should be can be told.                          *)
Executions == (1..(Rounds + 1)) \X Vertices

(* A combination is a node without a task.                                 *)
TasksOf(n) == SelectSeq(Members(n), LAMBDA m : m \notin Reductions)

(* The sequential program: one iteration after the other, and in each the  *)
(* tasks as they are created.                                              *)
Run == (2..(MaxRounds + 1)) \X Task
AbstractTask == Run \cup {Launcher}

Before(tasks) ==
  {p \in Run \X Run :
     \/ p[1][1] < p[2][1]
     \/ /\ p[1][1] = p[2][1]
        /\ \E i, j \in DOMAIN tasks : i < j /\ tasks[i] = p[1][2] /\ tasks[j] = p[2][2]}

Declared(L) ==
  [a \in AbstractTask |->
     IF a \in Run /\ a[2] \in LoopTasks(L)
     THEN [x \in DOMAIN L.uses[a[2]] |-> [type |-> L.uses[a[2]][x], weak |-> FALSE]]
     ELSE [x \in {} |-> {}]]

Init ==
  /\ loop \in Loops
  /\ graph = TunedGraph(loop, loop.groups)
  /\ order = CreationOrder(loop, Copies(loop)) \o ControlOrder(loop)
  /\ original = [n \in Vertices \cup Reductions |-> OriginalDegree(loop, graph, n)]
  /\ before = Before(order) /\ declared = Declared(loop)
  /\ status = [e \in Executions |-> IF e[1] = 1 /\ e[2] \notin Controls THEN "done" ELSE "none"]
  /\ member = [e \in Executions |-> 1]
  /\ todo = [e \in Executions |-> {}]
  /\ combining = [e \in Executions |-> NoNode]
  /\ ready = [e \in Executions |-> {}]
  /\ climb = [h \in Executions \cup {Launcher} |-> "no"]
  /\ iteration = [n \in Vertices |-> IF n \in Controls THEN Rounds + 1 ELSE Rounds]
  /\ predecessors = [n \in Vertices |-> FirstDegree(graph, n, Controls) + Len(TasksOf(n))]
  /\ removal = [n \in Children |-> IF n \in Holders(loop) THEN 2 ELSE 1]
  /\ disposed = {}
  /\ registered = [r \in Reductions |-> FirstDegree(graph, r, Controls)]
  /\ combines = [r \in Reductions |-> 1]
  /\ launch = 1
  /\ wakeUp = Cardinality(Children) - 1
  /\ release = 2
  /\ delayed = TRUE
  /\ released = 0
  /\ parentFinished = 0
  /\ cancellation = NoNode
  /\ countdown = 0
  /\ stopped = FALSE
  /\ cancels = <<>>

-----------------------------------------------------------------------------
(* The counters.                                                           *)

(* The run of node n that a submission starts.                             *)
NextRun(n) == <<Rounds - iteration[n] + 2, n>>

Submit(s, n) == [s EXCEPT ![NextRun(n)] = "submitted"]

(* decreaseRemovalBlockingCount of n; who takes it to zero disposes n.     *)
DropRemoval(N) ==
  /\ removal' = [n \in Children |-> IF n \in N THEN removal[n] - 1 ELSE removal[n]]
  /\ disposed' = disposed \cup {n \in N : removal[n] = 1}


(* increaseRemovalBlockingCount of n.                                      *)
IncreaseRemoval(n) == removal' = [removal EXCEPT ![n] = @ + 1]

(* Mutant: the counter of a reduction is not set again.                    *)
KeepRegistered(r) == registered' = registered

(* ReductionInfo::reinitialize.                                            *)
Reinitialize(r) == registered' = [registered EXCEPT ![r] = original[r]]

(* taskFinished of a child: the thread that takes the taskiter to zero     *)
(* goes on with it.                                                        *)
FinishChild(h) ==
  /\ wakeUp' = wakeUp - 1
  /\ climb' = IF wakeUp = 1 THEN [climb EXCEPT ![h] = "wake"] ELSE climb
  /\ UNCHANGED <<release, delayed, released, parentFinished>>

(* taskFinished, at the taskiter: its delayed release is over.  Later its  *)
(* parent is next.                                                         *)
WakeTaskiter(h) ==
  /\ climb[h] = "wake"
  /\ IF delayed
     THEN /\ delayed' = FALSE
          /\ wakeUp' = wakeUp + 1
          /\ climb' = [climb EXCEPT ![h] = "release"]
          /\ UNCHANGED parentFinished
     ELSE /\ parentFinished' = parentFinished + 1
          /\ climb' = [climb EXCEPT ![h] = "no"]
          /\ UNCHANGED <<delayed, wakeUp>>
  /\ UNCHANGED <<loopVars, status, iteration, launch, threadVars, countVars, removalVars,
                 release, released, cancelVars>>

(* decreaseReleaseCount of the taskiter: the last one unregisters its      *)
(* accesses, which lets go of the last accesses of the children, and       *)
(* finishes it.                                                            *)
ReleaseTaskiter(h) ==
  /\ climb[h] = "release"
  /\ climb' = [climb EXCEPT ![h] = "no"]
  /\ release' = release - 1
  /\ IF release = 1
     THEN /\ released' = released + 1
          /\ wakeUp' = wakeUp - 1
          /\ parentFinished' = parentFinished + IF wakeUp = 1 THEN 1 ELSE 0
          /\ DropRemoval(Holders(loop))
     ELSE UNCHANGED <<released, wakeUp, parentFinished, removalVars>>
  /\ UNCHANGED <<loopVars, status, iteration, launch, threadVars, countVars, delayed, cancelVars>>

-----------------------------------------------------------------------------
(* The launcher: the end of setTaskDegree, and of the caller of            *)
(* handleExitTaskwait.                                                     *)

(* Every task has a predecessor more until the degrees are known (a group  *)
(* has one for each of its tasks).  The control tasks are in the place of  *)
(* the end of the first iteration, and wait only for one another.          *)
DropGuard ==
  /\ launch <= Len(order)
  /\ LET n    == Place(order[launch])
         drop == IF n \in Controls THEN original[n] + IF n = ControlNode(1) THEN 1 ELSE 0
                 ELSE 1
     IN  /\ predecessors' = [predecessors EXCEPT ![n] = @ - drop]
         /\ status' = IF predecessors[n] = drop THEN Submit(status, n) ELSE status
  /\ launch' = launch + 1
  /\ UNCHANGED <<loopVars, climb, iteration, threadVars, registered, combines, removalVars,
                 taskiterVars, cancelVars>>

(* markAsUnblocked.                                                        *)
Unblock ==
  /\ launch = Len(order) + 1
  /\ launch' = launch + 1
  /\ wakeUp' = wakeUp + 1
  /\ climb' = [climb EXCEPT ![Launcher] = "release"]
  /\ UNCHANGED <<loopVars, status, iteration, threadVars, countVars, removalVars,
                 release, delayed, released, parentFinished, cancelVars>>

-----------------------------------------------------------------------------
(* Running a task.                                                         *)

Start(e) ==
  /\ status[e] = "submitted"
  /\ status' = [status EXCEPT ![e] = "running"]
  /\ UNCHANGED <<loopVars, climb, iteration, launch, threadVars, countVars, removalVars,
                 taskiterVars, cancelVars>>

(* controlCallback.  Once the condition is false the control tasks of the  *)
(* other copies have to come by before the taskiter is cancelled.  A loop  *)
(* ends after its rounds at the latest.                                    *)
Evaluate(e) ==
  /\ status[e] = "running" /\ e[2] \in Controls
  /\ \E condition \in BOOLEAN :
       /\ condition => e[1] < Rounds
       /\ LET first == cancellation = NoNode /\ ~condition
              left  == IF first THEN Copies(loop) ELSE countdown
              now   == (first \/ cancellation # NoNode) /\ left = 1
          IN  /\ cancellation' = IF first THEN e ELSE cancellation
              /\ countdown' = IF first \/ cancellation # NoNode THEN left - 1 ELSE countdown
              /\ stopped' = (stopped \/ now)
              /\ cancels' = IF now
                            THEN SelectSeq(order, LAMBDA n : n # e[2])
                                   \o [k \in DOMAIN loop.groups |-> GroupNode(k)]
                            ELSE cancels
              /\ status' = [status EXCEPT ![e] = IF now THEN "cancelling" ELSE "evaluated"]
  /\ UNCHANGED <<loopVars, climb, iteration, launch, threadVars, countVars, removalVars, taskiterVars>>

(* cancel: the other tasks, and then the groups, are finished and removed  *)
(* one after the other.                                                    *)
CancelFinish(e) ==
  /\ status[e] = "cancelling" /\ cancels # <<>>
  /\ FinishChild(e)
  /\ status' = [status EXCEPT ![e] = "dropping"]
  /\ UNCHANGED <<loopVars, iteration, launch, threadVars, countVars, removalVars, cancelVars>>

CancelDrop(e) ==
  /\ status[e] = "dropping" /\ climb[e] = "no"
  /\ DropRemoval({Head(cancels)})
  /\ cancels' = Tail(cancels)
  /\ status' = [status EXCEPT ![e] = "cancelling"]
  /\ UNCHANGED <<loopVars, climb, iteration, launch, threadVars, countVars, taskiterVars,
                 cancellation, countdown, stopped>>

(* TaskGroupMetadata::executeTask: the members are run one after the other *)
(* by this thread, and a combination among them is made without counting.  *)
StartMember(e) ==
  /\ status[e] = "between" /\ member[e] <= Len(Members(e[2]))
  /\ status' = [status EXCEPT ![e] = "running"]
  /\ UNCHANGED <<loopVars, climb, iteration, launch, threadVars, countVars, removalVars,
                 taskiterVars, cancelVars>>

EndMember(e) ==
  /\ status[e] = "running" /\ e[2] \in Groups
  /\ LET m == Members(e[2])[member[e]]
     IN  IF m \in Reductions
         THEN combines' = [combines EXCEPT ![m] = @ + 1] /\ Reinitialize(m)
         ELSE UNCHANGED <<combines, registered>>
  /\ member' = [member EXCEPT ![e] = @ + 1]
  /\ status' = [status EXCEPT ![e] = "between"]
  /\ UNCHANGED <<loopVars, climb, iteration, launch, todo, combining, ready, predecessors,
                 removalVars, taskiterVars, cancelVars>>

-----------------------------------------------------------------------------
(* unregisterTaskDataAccesses of a task that runs again.                   *)

UserCodeOver(e) ==
  \/ status[e] = "running" /\ e[2] \in Tasks
  \/ status[e] = "between" /\ member[e] > Len(Members(e[2]))
  \/ status[e] = "evaluated"
  \/ status[e] = "cancelling" /\ cancels = <<>>

(* Mutant: one iteration too many.                                         *)
KeepIteratingTooLong(n) == loop.while \/ iteration[n] - 1 >= 1

(* decreaseIterations; the count of a while-taskiter never gets there.     *)
KeepIterating(n) == loop.while \/ iteration[n] - 1 > 1

(* Mutants: the last iteration crosses; the delay is ignored.              *)
SuccessorsAcross(n, keep) == {d \in graph : d.from = n}
SuccessorsUndelayed(n, keep) == {d \in graph : d.from = n /\ (keep \/ ~d.cross)}

(* The successors: a delayed cancellation lets a control task satisfy only *)
(* the next one, and the last iteration does not cross into another one.   *)
Successors(n, keep) ==
  IF cancellation # NoNode /\ n \in Controls
  THEN LET k == CHOOSE i \in 1..Copies(loop) : n = ControlNode(i)
       IN  {Edge(n, ControlNode((k % Copies(loop)) + 1), FALSE, NoNode)}
  ELSE {d \in graph : d.from = n /\ (keep \/ ~d.cross)}

EndStopped(e) ==
  /\ UserCodeOver(e) /\ stopped
  /\ status' = [status EXCEPT ![e] = "finishing"]
  /\ member' = [member EXCEPT ![e] = 1]
  /\ UNCHANGED <<loopVars, climb, iteration, launch, todo, combining, ready, countVars, removalVars,
                 taskiterVars, cancelVars>>

(* The counters of the task are set for its next run before any successor  *)
(* is told.                                                                *)
EndRun(e) ==
  LET n == e[2]
      keep == KeepIterating(n)
  IN  /\ UserCodeOver(e) /\ ~stopped
      /\ iteration' = [iteration EXCEPT ![n] = @ - 1]
      /\ todo' = [todo EXCEPT ![e] = Successors(n, keep)]
      /\ IF keep
         THEN /\ status' = [status EXCEPT ![e] = "passing"]
              /\ predecessors' = [predecessors EXCEPT ![n] = @ + original[n]]
              /\ ready' = [ready EXCEPT ![e] = IF original[n] = 0 THEN {n} ELSE {}]
              /\ IncreaseRemoval(n)
         ELSE /\ status' = [status EXCEPT ![e] = "closing"]
              /\ UNCHANGED <<predecessors, ready, removal>>
      /\ member' = [member EXCEPT ![e] = 1]
      /\ UNCHANGED <<loopVars, climb, launch, combining, registered, combines, disposed,
                     taskiterVars, cancelVars>>

Applying(e) == status[e] \in {"passing", "closing"} /\ combining[e] = NoNode
Full(e) == Cardinality(ready[e]) >= ChunkSize

(* satisfyTask: the last predecessor makes the task ready.                 *)
SatisfyTask(e, d) ==
  /\ Applying(e) /\ ~Full(e)
  /\ d \in todo[e] /\ d.to \notin Reductions
  /\ todo' = [todo EXCEPT ![e] = @ \ {d}]
  /\ predecessors' = [predecessors EXCEPT ![d.to] = @ - 1]
  /\ ready' = IF predecessors[d.to] = 1 THEN [ready EXCEPT ![e] = @ \cup {d.to}] ELSE ready
  /\ UNCHANGED <<loopVars, status, climb, iteration, launch, member, combining, registered,
                 combines, removalVars, taskiterVars, cancelVars>>

(* incrementUnregisteredAccesses: the last one combines.                   *)
LeaveReduction(e, d) ==
  /\ Applying(e) /\ ~Full(e)
  /\ d \in todo[e] /\ d.to \in Reductions
  /\ todo' = [todo EXCEPT ![e] = @ \ {d}]
  /\ registered' = [registered EXCEPT ![d.to] = @ - 1]
  /\ combining' = IF registered[d.to] = 1 THEN [combining EXCEPT ![e] = d.to] ELSE combining
  /\ UNCHANGED <<loopVars, status, climb, iteration, launch, member, ready, predecessors, combines,
                 removalVars, taskiterVars, cancelVars>>

(* combine, reinitialize, and the successors of the reduction.             *)
Combine(e) ==
  LET r == combining[e]
  IN  /\ r # NoNode
      /\ combines' = [combines EXCEPT ![r] = @ + 1]
      /\ Reinitialize(r)
      /\ todo' = [todo EXCEPT ![e] = @ \cup Successors(r, status[e] = "passing")]
      /\ combining' = [combining EXCEPT ![e] = NoNode]
      /\ UNCHANGED <<loopVars, status, climb, iteration, launch, member, ready, predecessors,
                     removalVars, taskiterVars, cancelVars>>

(* processSatisfiedOriginators, when the list is full and at the end.      *)
SubmitReady(e, n) ==
  /\ Applying(e) /\ n \in ready[e] /\ (Full(e) \/ todo[e] = {})
  /\ status' = Submit(status, n)
  /\ ready' = [ready EXCEPT ![e] = @ \ {n}]
  /\ UNCHANGED <<loopVars, climb, iteration, launch, member, todo, combining, countVars,
                 removalVars, taskiterVars, cancelVars>>

EndApply(e) ==
  /\ Applying(e) /\ todo[e] = {} /\ ready[e] = {}
  /\ status' = [status EXCEPT ![e] = IF @ = "passing" THEN "tail" ELSE "finishing"]
  /\ UNCHANGED <<loopVars, climb, iteration, launch, threadVars, countVars, removalVars,
                 taskiterVars, cancelVars>>

(* finalizeGroupedTasks, when the group is over: taskCompletedCallback of  *)
(* each of its tasks.                                                      *)
FinishMember(e) ==
  /\ status[e] = "finishing" /\ e[2] \in Groups /\ member[e] <= Len(TasksOf(e[2]))
  /\ FinishChild(e)
  /\ status' = [status EXCEPT ![e] = "removing"]
  /\ UNCHANGED <<loopVars, iteration, launch, threadVars, countVars, removalVars, cancelVars>>

RemoveMember(e) ==
  /\ status[e] = "removing" /\ climb[e] = "no"
  /\ DropRemoval({TasksOf(e[2])[member[e]]})
  /\ status' = [status EXCEPT ![e] = "finishing"]
  /\ member' = [member EXCEPT ![e] = @ + 1]
  /\ UNCHANGED <<loopVars, climb, iteration, launch, todo, combining, ready, countVars,
                 taskiterVars, cancelVars>>

(* The end of taskCompletedCallback.                                       *)
Finish(e) ==
  /\ status[e] = "finishing"
  /\ e[2] \in Groups => member[e] > Len(TasksOf(e[2]))
  /\ FinishChild(e)
  /\ status' = [status EXCEPT ![e] = "tail"]
  /\ UNCHANGED <<loopVars, iteration, launch, threadVars, countVars, removalVars, cancelVars>>

Remove(e) ==
  /\ status[e] = "tail" /\ climb[e] = "no"
  /\ DropRemoval({e[2]})
  /\ status' = [status EXCEPT ![e] = "done"]
  /\ UNCHANGED <<loopVars, climb, iteration, launch, threadVars, countVars, taskiterVars, cancelVars>>

Next ==
  \/ DropGuard \/ Unblock
  \/ \E h \in Executions \cup {Launcher} : WakeTaskiter(h) \/ ReleaseTaskiter(h)
  \/ \E e \in Executions :
       \/ Start(e) \/ Evaluate(e) \/ CancelFinish(e) \/ CancelDrop(e)
       \/ StartMember(e) \/ EndMember(e)
       \/ EndStopped(e) \/ EndRun(e) \/ Combine(e)
       \/ \E d \in todo[e] : SatisfyTask(e, d) \/ LeaveReduction(e, d)
       \/ \E n \in ready[e] : SubmitReady(e, n)
       \/ EndApply(e) \/ FinishMember(e) \/ RemoveMember(e) \/ Finish(e) \/ Remove(e)

Spec == Init /\ [][Next]_vars

(* Some thread that can go on does.                                        *)
FairSpec == Spec /\ WF_vars(Next)
-----------------------------------------------------------------------------
(* The properties.                                                         *)

Status == {"none", "submitted", "running", "between", "evaluated", "cancelling", "dropping",
           "passing", "closing", "finishing", "removing", "tail", "done"}

(* The shape of the state.  The counters of predecessors, accesses and     *)
(* removals are never negative, which decreasePredecessors,                *)
(* incrementUnregisteredAccesses and decreaseRemovalBlockingCount assert.  *)
TypeOK ==
  /\ status \in [Executions -> Status]
  /\ predecessors \in [Vertices -> Nat] /\ removal \in [Children -> Nat]
  /\ \A e \in DOMAIN status :
       /\ \A d \in todo[e] : d.to \in DOMAIN original
       /\ combining[e] \in DOMAIN registered \cup {NoNode}
       /\ ready[e] \subseteq DOMAIN predecessors /\ member[e] \in 1..Len(Members(e[2])) + 1
  /\ climb \in [DOMAIN status \cup {Launcher} -> {"no", "wake", "release"}]
  /\ iteration \in [DOMAIN predecessors -> 0..(Rounds + 1)]
  /\ disposed \subseteq DOMAIN removal
  /\ registered \in [Reductions -> Nat] /\ combines \in [DOMAIN registered -> 1..(Rounds + 1)]
  /\ launch \in 1..(Len(order) + 2)
  /\ wakeUp \in Int /\ release \in 0..2 /\ delayed \in BOOLEAN
  /\ released \in 0..1 /\ parentFinished \in Nat
  /\ cancellation \in DOMAIN status \cup {NoNode} /\ countdown \in Nat /\ stopped \in BOOLEAN
  /\ cancels \in Seq(DOMAIN removal)

(* How far the run e of a task is, which may be run by a group.            *)
RunStatus(e) ==
  LET g == <<e[1], Place(e[2])>>
      m == Members(g[2])
      i == CHOOSE j \in DOMAIN m : m[j] = e[2]
  IN  CASE g[2] \notin Groups \/ status[g] \notin {"running", "between"} -> status[g]
        [] i < member[g]                                                -> "passing"
        [] i = member[g] /\ status[g] = "running"                        -> "running"
        [] OTHER                                                        -> "submitted"

Started(e) == RunStatus(e) \notin {"none", "submitted"}
Over(e) == RunStatus(e) \notin {"none", "submitted", "running"}

(* A task runs as often as the loop says, one run after the other, even    *)
(* when a run is submitted while the last one still completes.             *)
OneRunAtATime ==
  \A t \in Tasks :
    /\ \A i \in 1..Rounds : RunStatus(<<i + 1, t>>) # "none" => Over(<<i, t>>)
    /\ RunStatus(<<Rounds + 1, t>>) = "none"

(* The tasks of the same iteration on the address of a reduction, before   *)
(* and after it.                                                           *)
OthersOf(r, later) ==
  LET place(t) == CHOOSE i \in DOMAIN order : order[i] = t
  IN  {t \in Tasks :
         /\ r[2] \in DOMAIN loop.uses[t] /\ loop.uses[t][r[2]] # "REDUCTION"
         /\ (place(t) > place(r[1])) = later}

(* In every iteration a reduction is combined once, after the accesses     *)
(* before it and all the tasks that take part, and before the accesses     *)
(* that come after it and those of the next iteration: the counter that    *)
(* reinitialize sets is the one the iteration needs.                       *)
CombinedInTurn ==
  \A r \in Reductions : \A i \in 2..(Rounds + 1) :
    /\ combines[r] >= i => i <= Rounds /\ \A t \in OthersOf(r, FALSE) \cup Reducers(loop, r) : Over(<<i, t>>)
    /\ combines[r] < i => \A t \in OthersOf(r, TRUE) : ~Started(<<i, t>>)
    /\ combines[r] < i - 1 => \A t \in OthersOf(r, FALSE) \cup Reducers(loop, r) : ~Started(<<i, t>>)

(* A control task runs between an iteration of its copy and the next: it   *)
(* evaluates the condition when the iteration is over, and once it is      *)
(* false no task of a later iteration is run.  When cancel() starts to     *)
(* finish the tasks in the place of their threads, none of them has a run  *)
(* left or under way.                                                      *)
ConditionHeeded ==
  loop.while =>
    /\ \A k \in 1..Copies(loop) : \A i \in 1..Rounds : \A t \in CopyTasks(loop, k) :
         /\ Started(<<i, ControlNode(k)>>) => Over(<<i, t>>)
         /\ RunStatus(<<i + 1, t>>) # "none" =>
              /\ Over(<<i, ControlNode(k)>>)
              /\ cancellation # NoNode =>
                   \E c \in 1..Copies(loop) :
                     /\ cancellation[2] = ControlNode(c)
                     /\ i < cancellation[1] \/ (i = cancellation[1] /\ k < c)
    /\ stopped => \A e \in Executions : status[e] \notin {"submitted", "running", "between"}

(* The thread of e still runs or completes node n.                         *)
Uses(e, n) ==
  \/ e[2] = n /\ status[e] \notin {"none", "done"}
  \/ /\ e[2] \in Groups /\ e[2] = Place(n)
     /\ \/ status[e] \in {"submitted", "running", "between", "closing"}
        \/ /\ status[e] \in {"finishing", "removing"}
           /\ \E j \in member[e]..Len(TasksOf(e[2])) : TasksOf(e[2])[j] = n


(* satisfyTask never finds a task that waits for nobody, as the assertion  *)
(* in decreasePredecessors says (also a conjunct of TypeOK).               *)
PredecessorsNotNegative == \A n \in Vertices : predecessors[n] >= 0

(* Every loop comes to its end, and all its tasks are destroyed: no        *)
(* counter of predecessors is left above zero.                             *)
LoopEnds == <>(disposed = Children)

-----------------------------------------------------------------------------
(* The loop does what the sequential program would: its runs are tasks of  *)
(* TaskDependencies.                                                       *)
AbstractStatus ==
  [a \in AbstractTask |->
     IF a = Launcher THEN "running"
     ELSE IF a \notin (1..(Rounds + 1)) \X Tasks THEN "none"
     ELSE LET s == RunStatus(a)
          IN  CASE s \in {"none", "running"} -> s
                [] s = "submitted"           -> "created"
                [] OTHER                     -> "finished"]

Abstract ==
  INSTANCE TaskDependencies
    WITH Task <- AbstractTask, Main <- Launcher, status <- AbstractStatus,
         released <- [a \in AbstractTask |-> {}]

(* Every run starts only after the runs before it that conflict with it.   *)
ImplementsTaskDependencies == Abstract!Spec
=============================================================================
