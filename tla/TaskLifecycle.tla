--------------------------- MODULE TaskLifecycle ---------------------------
(***************************************************************************)
(* The life of a task, from nanos6_submit_task to nosv_destroy: its        *)
(* children, taskwait, the wait clause, external events, if0 tasks,        *)
(* coroutines, the blocking API, spawned functions and the shutdown        *)
(* (tasks/TaskMetadata.hpp, system/TaskCreation.cpp, TaskWait.cpp,         *)
(* CoAwaitables.cpp, TaskBlocking.cpp, TaskFinalization.cpp).              *)
(*                                                                         *)
(* Two counters decide everything.  _countdownToBeWokenUp counts the task  *)
(* itself and its unfinished children: whoever takes it to zero wakes the  *)
(* task up, or goes on with its parent.  _removalCount counts the task,    *)
(* its children that are not destroyed and its accesses: whoever takes it  *)
(* to zero destroys the task.  One action is one fetch_add or fetch_sub.   *)
(*                                                                         *)
(* The thread that runs a task and then its completion is named by the     *)
(* task.  nOS-V and the dependency system are seen from outside: a task    *)
(* with accesses may have to wait before it starts (BecomesReady), and its *)
(* accesses go away some time after it released them (AccessesGone).       *)
(***************************************************************************)
EXTENDS Integers, Sequences, FiniteSets

CONSTANTS
  Task, Main,
  Programs,       (* the possible programs, by name: body[t] is the        *)
                  (* sequence of operations <<op, task>> of t (create,     *)
                  (* spawn, taskwait, event, context, block, unblock),     *)
                  (* delayed the tasks with a wait clause, withAccesses    *)
                  (* those that have data accesses, if0 those created with *)
                  (* if(0), coroutines those that suspend in a taskwait    *)
  NoTask

ASSUME LifecycleAssumption ==
  /\ IsFiniteSet(Task) /\ Main \in Task /\ NoTask \notin Task
  /\ \A g \in DOMAIN Programs :
       /\ Programs[g].body \in
            [Task -> Seq({"create", "spawn", "taskwait", "event", "context", "block", "unblock"}
                           \X Task)]
       /\ Programs[g].delayed \cup Programs[g].withAccesses \cup Programs[g].if0
            \cup Programs[g].coroutines \subseteq Task

VARIABLES
  program,          (* the program that is run                             *)
  pc, ip,           (* where the thread of each task is; the next operation*)
  cur,              (* taskMetadata in the loop of taskFinished            *)
  wakeUp,           (* TaskMetadata::_countdownToBeWokenUp                 *)
  removal,          (* TaskMetadata::_removalCount                         *)
  finished,         (* TaskMetadata::_finished                             *)
  delayed,          (* the wait flag                                       *)
  inlined,          (* TaskMetadata::_if0Inlined                           *)
  events,           (* the event counter of the task (nOS-V)               *)
  permits,          (* nosv_submit(UNLOCKED) minus nosv_pause of the task  *)
  releases,         (* calls of unregisterTaskDataAccesses (history)       *)
  linked,           (* the accesses of the task are registered and in use  *)
  disposal,         (* none, due, dropped, freed, destroyed                *)
  disposable,       (* the local "disposable" of disposeTask               *)
  pendingSpawned,   (* SpawnFunction::_pendingSpawnedFunctions             *)
  shutdown          (* nosv_shutdown was called                            *)

counters == <<wakeUp, removal>>
flags == <<finished, delayed, inlined>>
external == <<events, permits, shutdown>>
accesses == <<releases, linked>>
disposeVars == <<disposal, disposable, pendingSpawned>>
vars == <<program, pc, ip, cur, counters, flags, external, accesses, disposeVars>>

Body         == Programs[program].body
Delayed      == Programs[program].delayed
WithAccesses == Programs[program].withAccesses
If0          == Programs[program].if0
Coroutines   == Programs[program].coroutines

Does(g, op, t, c) == \E i \in DOMAIN Programs[g].body[t] : Programs[g].body[t][i] = <<op, c>>

ParentIn ==
  [g \in DOMAIN Programs |-> [c \in Task |->
     IF \E t \in Task : Does(g, "create", t, c) THEN CHOOSE t \in Task : Does(g, "create", t, c)
     ELSE NoTask]]
(* The smallest set with the parent of t and the parents of its members.   *)
AncestorsIn ==
  [g \in DOMAIN Programs |-> [t \in Task |->
     {a \in Task : \A S \in SUBSET Task :
        (\A s \in {t} \cup S : ParentIn[g][s] \in S \cup {NoTask}) => a \in S}]]
SpawnedIn ==
  [g \in DOMAIN Programs |->
     {Main} \cup {s \in Task : \E t \in Task : Does(g, "spawn", t, s)}]

Parent       == ParentIn[program]
Ancestors(t) == AncestorsIn[program][t]
Spawned      == SpawnedIn[program]
ProgramTasks == {t \in Task : t \in Spawned \/ Parent[t] # NoTask}

(* A task is named once: by the call that creates or spawns it.            *)
ASSUME OneCallEach ==
  \A g \in DOMAIN Programs : LET body == Programs[g].body IN
    \A t, u \in Task : \A i \in DOMAIN body[t], j \in DOMAIN body[u] :
      body[t][i][1] \in {"create", "spawn"} =>
        /\ body[t][i][2] # Main
        /\ (body[u][j][1] \in {"create", "spawn"} /\ body[u][j][2] = body[t][i][2]) =>
             t = u /\ i = j

(* spawnFunction creates its task with nanos6_waiting_task; an if0 task is *)
(* always the child of a task.                                             *)
ASSUME SpawnedWait ==
  \A g \in DOMAIN Programs :
    /\ SpawnedIn[g] \subseteq Programs[g].delayed
    /\ SpawnedIn[g] \cap (Programs[g].if0 \cup Programs[g].withAccesses) = {}

Op(t) == Body[t][ip[t]]
Subject(t) == Op(t)[2]

Init ==
  /\ program \in DOMAIN Programs
  /\ pc = [t \in Task |-> IF t = Main THEN "body" ELSE "none"]
  /\ ip = [t \in Task |-> 1]
  /\ cur = [t \in Task |-> NoTask]
  /\ wakeUp = [t \in Task |-> 1]
  /\ removal = [t \in Task |-> 1]
  /\ finished = [t \in Task |-> FALSE]
  /\ delayed = [t \in Task |-> t \in Delayed]
  /\ inlined = [t \in Task |-> TRUE]
  /\ events = [t \in Task |-> 0]
  /\ permits = [t \in Task |-> 0]
  /\ releases = [t \in Task |-> 0]
  /\ linked = [t \in Task |-> FALSE]
  /\ disposal = [t \in Task |-> "none"]
  /\ disposable = [t \in Task |-> FALSE]
  /\ pendingSpawned = 1
  /\ shutdown = FALSE

AtOp(p, op) == pc[p] = "body" /\ ip[p] \in DOMAIN Body[p] /\ Op(p)[1] = op

(* Mutant: a child is not counted for the removal of its parent.           *)
AddChildUncounted(p, c) ==
  /\ wakeUp' = [wakeUp EXCEPT ![p] = @ + 1]
  /\ removal' = [removal EXCEPT ![c] = @ + IF c \in WithAccesses THEN 1 ELSE 0]

(* The two counters of p include its new child (addChild), which counts    *)
(* its accesses.                                                           *)
AddChild(p, c) ==
  /\ wakeUp' = [wakeUp EXCEPT ![p] = @ + 1]
  /\ removal' = [removal EXCEPT ![p] = @ + 1,
                                ![c] = @ + IF c \in WithAccesses THEN 1 ELSE 0]

(* decreaseRemovalBlockingCount of t; who takes it to zero disposes t.     *)
DropRemoval(t) ==
  /\ removal' = [removal EXCEPT ![t] = @ - 1]
  /\ disposal' = IF removal[t] = 1 THEN [disposal EXCEPT ![t] = "due"] ELSE disposal

-----------------------------------------------------------------------------
(* Running a task.                                                         *)

(* nanos6_submit_task: the parent counts the child, and its accesses are   *)
(* registered.  A task without accesses is ready.                          *)
SubmitTask(p) ==
  /\ AtOp(p, "create")
  /\ LET c == Subject(p)
     IN  /\ AddChild(p, c)
         /\ linked' = [linked EXCEPT ![c] = c \in WithAccesses]
         /\ \E ready \in {TRUE} \cup {c \notin WithAccesses} :
              pc' = [pc EXCEPT
                       ![p] = IF ready THEN "ready" ELSE "notReady",
                       ![c] = IF ready THEN "registered" ELSE "dependent"]
  /\ UNCHANGED <<ip, cur, flags, external, releases, disposeVars>>

(* submitTask goes on: a ready task is given to nOS-V; if it is if0 it is  *)
(* run by the thread that creates it, which waits.                         *)
SubmitReady(p) ==
  /\ pc[p] = "ready"
  /\ LET c == Subject(p)
     IN  /\ pc' = [pc EXCEPT ![p] = IF c \in If0 THEN "inline" ELSE "body", ![c] = "submitted"]
         /\ ip' = [ip EXCEPT ![p] = IF c \in If0 THEN @ ELSE @ + 1]
  /\ UNCHANGED <<cur, counters, flags, external, accesses, disposeVars>>

(* The inlined task ran to its end (events may keep it incomplete).        *)
InlineReturns(p) ==
  /\ pc[p] = "inline"
  /\ LET c == Subject(p)
     IN  pc[c] \in {"detached", "done"} \/ (pc[c] = "ended" /\ events[c] > 0)
  /\ pc' = [pc EXCEPT ![p] = "body"]
  /\ ip' = [ip EXCEPT ![p] = @ + 1]
  /\ UNCHANGED <<cur, counters, flags, external, accesses, disposeVars>>

(* A task that is not ready is left to the dependency system; if it is if0 *)
(* the creator marks it and pauses.                                        *)
SubmitNotReady(p) ==
  /\ pc[p] = "notReady"
  /\ IF Subject(p) \in If0
     THEN /\ inlined' = [inlined EXCEPT ![Subject(p)] = FALSE]
          /\ pc' = [pc EXCEPT ![p] = "waitIf0"]
          /\ UNCHANGED ip
     ELSE /\ pc' = [pc EXCEPT ![p] = "body"]
          /\ ip' = [ip EXCEPT ![p] = @ + 1]
          /\ UNCHANGED inlined
  /\ UNCHANGED <<cur, counters, finished, delayed, external, accesses, disposeVars>>

(* nosv_pause returns when somebody submitted the task.                    *)
If0Returns(p) ==
  /\ pc[p] = "waitIf0"
  /\ permits[p] > 0
  /\ permits' = [permits EXCEPT ![p] = @ - 1]
  /\ pc' = [pc EXCEPT ![p] = "body"]
  /\ ip' = [ip EXCEPT ![p] = @ + 1]
  /\ UNCHANGED <<cur, counters, flags, events, shutdown, accesses, disposeVars>>

(* nanos6_spawn_function: a task of its own, without parent.               *)
Spawn(p) ==
  /\ AtOp(p, "spawn")
  /\ pendingSpawned' = pendingSpawned + 1
  /\ pc' = [pc EXCEPT ![Subject(p)] = "submitted"]
  /\ ip' = [ip EXCEPT ![p] = @ + 1]
  /\ UNCHANGED <<cur, counters, flags, external, accesses, disposal, disposable>>

StartTask(t) ==
  /\ pc[t] = "submitted"
  /\ pc' = [pc EXCEPT ![t] = "body"]
  /\ UNCHANGED <<ip, cur, counters, flags, external, accesses, disposeVars>>

IncreaseEvents(p) ==
  /\ AtOp(p, "event")
  /\ events' = [events EXCEPT ![p] = @ + 1]
  /\ ip' = [ip EXCEPT ![p] = @ + 1]
  /\ UNCHANGED <<pc, cur, counters, flags, permits, shutdown, accesses, disposeVars>>

(* Mutant: the short cut counts one child as none.                         *)
EnterTaskwaitEarly(p) ==
  /\ AtOp(p, "taskwait")
  /\ IF removal[p] <= 2
     THEN ip' = [ip EXCEPT ![p] = @ + 1] /\ UNCHANGED pc
     ELSE pc' = [pc EXCEPT ![p] = "blocking"] /\ UNCHANGED ip
  /\ UNCHANGED <<cur, counters, flags, external, accesses, disposeVars>>

(* nanos6_taskwait.                                                        *)
EnterTaskwait(p) ==
  /\ AtOp(p, "taskwait")
  /\ IF removal[p] = 1
     THEN ip' = [ip EXCEPT ![p] = @ + 1] /\ UNCHANGED pc
     ELSE pc' = [pc EXCEPT ![p] = "blocking"] /\ UNCHANGED ip
  /\ UNCHANGED <<cur, counters, flags, external, accesses, disposeVars>>

(* Mutant: the result of markAsBlocked is ignored.                         *)
MarkAsBlockedAndPause(p) ==
  /\ pc[p] = "blocking"
  /\ wakeUp' = [wakeUp EXCEPT ![p] = @ - 1]
  /\ pc' = [pc EXCEPT ![p] = "paused"]
  /\ UNCHANGED <<ip, cur, removal, flags, external, accesses, disposeVars>>

MarkAsBlocked(p) ==
  /\ pc[p] = "blocking"
  /\ wakeUp' = [wakeUp EXCEPT ![p] = @ - 1]
  /\ pc' = [pc EXCEPT ![p] = IF wakeUp[p] = 1 THEN "unblocking"
                             ELSE IF p \in Coroutines THEN "suspending" ELSE "paused"]
  /\ UNCHANGED <<ip, cur, removal, flags, external, accesses, disposeVars>>

(* The end of runWrapper: an if0 task that was not run inline submits its  *)
(* parent.                                                                 *)
SubmitCreator(t) ==
  permits' = IF inlined[t] THEN permits ELSE [permits EXCEPT ![Parent[t]] = @ + 1]

(* A coroutine does not pause: it returns to runWrapper, which suspends it *)
(* and ends like that of any task, and is called again to resume it.       *)
SuspendCoroutine(t) ==
  /\ pc[t] = "suspending"
  /\ SubmitCreator(t)
  /\ pc' = [pc EXCEPT ![t] = "paused"]
  /\ UNCHANGED <<ip, cur, counters, flags, events, shutdown, accesses, disposeVars>>

Resume(p) ==
  /\ pc[p] = "paused"
  /\ permits[p] > 0
  /\ permits' = [permits EXCEPT ![p] = @ - 1]
  /\ pc' = [pc EXCEPT ![p] = "unblocking"]
  /\ UNCHANGED <<ip, cur, counters, flags, events, shutdown, accesses, disposeVars>>

MarkAsUnblocked(p) ==
  /\ pc[p] = "unblocking"
  /\ wakeUp' = [wakeUp EXCEPT ![p] = @ + 1]
  /\ pc' = [pc EXCEPT ![p] = "body"]
  /\ ip' = [ip EXCEPT ![p] = @ + 1]
  /\ UNCHANGED <<cur, removal, flags, external, accesses, disposeVars>>

(* The blocking API.  A task gets a context, which others use to unblock   *)
(* it, perhaps before it blocks.                                           *)
GetBlockingContext(p) ==
  /\ AtOp(p, "context")
  /\ ip' = [ip EXCEPT ![p] = @ + 1]
  /\ UNCHANGED <<pc, cur, counters, flags, external, accesses, disposeVars>>

HasPassed(t, op) == \E i \in 1..ip[t] - 1 : Body[t][i][1] = op

BlockCurrentTask(p) ==
  /\ AtOp(p, "block")
  /\ pc' = [pc EXCEPT ![p] = "blocked"]
  /\ UNCHANGED <<ip, cur, counters, flags, external, accesses, disposeVars>>

ReturnFromBlock(p) ==
  /\ pc[p] = "blocked"
  /\ permits[p] > 0
  /\ permits' = [permits EXCEPT ![p] = @ - 1]
  /\ pc' = [pc EXCEPT ![p] = "body"]
  /\ ip' = [ip EXCEPT ![p] = @ + 1]
  /\ UNCHANGED <<cur, counters, flags, events, shutdown, accesses, disposeVars>>

UnblockTask(p) ==
  /\ AtOp(p, "unblock")
  /\ HasPassed(Subject(p), "context")
  /\ permits' = [permits EXCEPT ![Subject(p)] = @ + 1]
  /\ ip' = [ip EXCEPT ![p] = @ + 1]
  /\ UNCHANGED <<pc, cur, counters, flags, events, shutdown, accesses, disposeVars>>

EndBody(t) ==
  /\ pc[t] = "body"
  /\ ip[t] > Len(Body[t])
  /\ SubmitCreator(t)
  /\ pc' = [pc EXCEPT ![t] = "ended"]
  /\ UNCHANGED <<ip, cur, counters, flags, events, shutdown, accesses, disposeVars>>

-----------------------------------------------------------------------------
(* Completing it.                                                          *)

(* Mutant: the wait clause is ignored.                                     *)
MarkAsFinishedAndRelease(t) ==
  /\ pc[t] = "ended"
  /\ events[t] = 0
  /\ finished' = [finished EXCEPT ![t] = TRUE]
  /\ pc' = [pc EXCEPT ![t] = "release"]
  /\ UNCHANGED <<ip, cur, counters, delayed, inlined, external, accesses, disposeVars>>

(* taskCompletedCallback, which nOS-V calls when no event is left.         *)
MarkAsFinished(t) ==
  /\ pc[t] = "ended"
  /\ events[t] = 0
  /\ finished' = [finished EXCEPT ![t] = TRUE]
  /\ pc' = [pc EXCEPT ![t] = IF delayed[t] THEN "delaying" ELSE "release"]
  /\ UNCHANGED <<ip, cur, counters, delayed, inlined, external, accesses, disposeVars>>

(* A wait clause: unless all children have finished already, the last of   *)
(* them will release the dependencies.                                     *)
DelayRelease(t) ==
  /\ pc[t] = "delaying"
  /\ wakeUp' = [wakeUp EXCEPT ![t] = @ - 1]
  /\ pc' = [pc EXCEPT ![t] = IF wakeUp[t] = 1 THEN "undelaying" ELSE "detached"]
  /\ UNCHANGED <<ip, cur, removal, flags, external, accesses, disposeVars>>

(* Mutant: completeDelayedRelease is forgotten.                            *)
KeepDelayedRelease(t) ==
  /\ pc[t] = "undelaying"
  /\ wakeUp' = [wakeUp EXCEPT ![t] = @ + 1]
  /\ pc' = [pc EXCEPT ![t] = "release"]
  /\ UNCHANGED <<ip, cur, removal, flags, external, accesses, disposeVars>>

CompleteDelayedRelease(t) ==
  /\ pc[t] = "undelaying"
  /\ delayed' = [delayed EXCEPT ![t] = FALSE]
  /\ wakeUp' = [wakeUp EXCEPT ![t] = @ + 1]
  /\ pc' = [pc EXCEPT ![t] = "release"]
  /\ UNCHANGED <<ip, cur, removal, finished, inlined, external, accesses, disposeVars>>

(* unregisterTaskDataAccesses.                                             *)
ReleaseDependencies(t) ==
  /\ pc[t] = "release"
  /\ releases' = [releases EXCEPT ![t] = @ + 1]
  /\ pc' = [pc EXCEPT ![t] = "finishing"]
  /\ UNCHANGED <<ip, cur, counters, flags, external, linked, disposeVars>>

(* taskFinished: the task no longer counts itself; while a counter gets to *)
(* zero the parent is next.                                                *)
FinishSelf(t) ==
  /\ pc[t] = "finishing"
  /\ wakeUp' = [wakeUp EXCEPT ![t] = @ - 1]
  /\ cur' = [cur EXCEPT ![t] = t]
  /\ pc' = [pc EXCEPT ![t] = IF wakeUp[t] = 1 THEN "climbing" ELSE "removing"]
  /\ UNCHANGED <<ip, removal, flags, external, accesses, disposeVars>>

(* Mutant: hasFinished is not tested.                                      *)
WakeAnyAncestor(t) ==
  /\ pc[t] = "climbing"
  /\ cur[t] # t
  /\ permits' = [permits EXCEPT ![cur[t]] = @ + 1]
  /\ pc' = [pc EXCEPT ![t] = "removing"]
  /\ UNCHANGED <<ip, cur, counters, flags, events, shutdown, accesses, disposeVars>>

(* The loop at a task that runs: it is paused in a taskwait.               *)
WakeAncestor(t) ==
  /\ pc[t] = "climbing"
  /\ ~finished[cur[t]]
  /\ permits' = [permits EXCEPT ![cur[t]] = @ + 1]
  /\ pc' = [pc EXCEPT ![t] = "removing"]
  /\ UNCHANGED <<ip, cur, counters, flags, events, shutdown, accesses, disposeVars>>

PassFinished(t) ==
  /\ pc[t] = "climbing"
  /\ finished[cur[t]] /\ ~delayed[cur[t]]
  /\ pc' = [pc EXCEPT ![t] = "up"]
  /\ UNCHANGED <<ip, cur, counters, flags, external, accesses, disposeVars>>

(* ... at a task whose release was delayed: it is completed here.          *)
ReleaseAncestor(t) ==
  /\ pc[t] = "climbing"
  /\ finished[cur[t]] /\ delayed[cur[t]]
  /\ delayed' = [delayed EXCEPT ![cur[t]] = FALSE]
  /\ wakeUp' = [wakeUp EXCEPT ![cur[t]] = @ + 1]
  /\ releases' = [releases EXCEPT ![cur[t]] = @ + 1]
  /\ pc' = [pc EXCEPT ![t] = "finishAncestor"]
  /\ UNCHANGED <<ip, cur, removal, finished, inlined, external, linked, disposeVars>>

FinishAncestor(t) ==
  /\ pc[t] = "finishAncestor"
  /\ wakeUp' = [wakeUp EXCEPT ![cur[t]] = @ - 1]
  /\ pc' = [pc EXCEPT ![t] = "removeAncestor"]
  /\ UNCHANGED <<ip, cur, removal, flags, external, accesses, disposeVars>>

RemoveAncestor(t) ==
  /\ pc[t] = "removeAncestor"
  /\ DropRemoval(cur[t])
  /\ pc' = [pc EXCEPT ![t] = "up", ![cur[t]] = "done"]
  /\ UNCHANGED <<ip, cur, wakeUp, flags, external, accesses, disposable, pendingSpawned>>

FinishParent(t) ==
  /\ pc[t] = "up"
  /\ LET parent == Parent[cur[t]]
     IN  /\ cur' = [cur EXCEPT ![t] = parent]
         /\ IF parent = NoTask
            THEN pc' = [pc EXCEPT ![t] = "removing"] /\ UNCHANGED wakeUp
            ELSE /\ wakeUp' = [wakeUp EXCEPT ![parent] = @ - 1]
                 /\ pc' = [pc EXCEPT ![t] = IF wakeUp[parent] = 1 THEN "climbing" ELSE "removing"]
  /\ UNCHANGED <<ip, removal, flags, external, accesses, disposeVars>>

(* Back in taskCompletedCallback.                                          *)
RemoveSelf(t) ==
  /\ pc[t] = "removing"
  /\ DropRemoval(t)
  /\ cur' = [cur EXCEPT ![t] = NoTask]
  /\ pc' = [pc EXCEPT ![t] = "done"]
  /\ UNCHANGED <<ip, wakeUp, flags, external, accesses, disposable, pendingSpawned>>

-----------------------------------------------------------------------------
(* disposeTask, by whoever took the removal count to zero.                 *)
DropParent(t) ==
  /\ disposal[t] = "due"
  /\ IF Parent[t] = NoTask
     THEN UNCHANGED removal /\ disposable' = [disposable EXCEPT ![t] = FALSE]
     ELSE /\ removal' = [removal EXCEPT ![Parent[t]] = @ - 1]
          /\ disposable' = [disposable EXCEPT ![t] = removal[Parent[t]] = 1]
  /\ disposal' = [disposal EXCEPT ![t] = "dropped"]
  /\ UNCHANGED <<pc, ip, cur, wakeUp, flags, external, accesses, pendingSpawned>>

FreeTask(t) ==
  /\ disposal[t] = "dropped"
  /\ disposal' = [disposal EXCEPT ![t] = "freed"]
  /\ pendingSpawned' = pendingSpawned - IF t \in Spawned THEN 1 ELSE 0
  /\ UNCHANGED <<pc, ip, cur, counters, flags, external, accesses, disposable>>

(* nosv_destroy, and then the parent if this was the last it waited for.   *)
DestroyTask(t) ==
  /\ disposal[t] = "freed"
  /\ disposal' = [u \in Task |->
                    IF u = t THEN "destroyed"
                    ELSE IF disposable[t] /\ u = Parent[t] THEN "due" ELSE disposal[u]]
  /\ UNCHANGED <<pc, ip, cur, counters, flags, external, accesses, disposable, pendingSpawned>>

(* nanos6_shutdown, called by the loader when the completion callback of   *)
(* the main task unblocks it, which is before the task stops being pending.*)
Shutdown ==
  /\ ~shutdown
  /\ pendingSpawned = 0
  /\ shutdown' = TRUE
  /\ UNCHANGED <<program, pc, ip, cur, counters, flags, events, permits, accesses, disposeVars>>

-----------------------------------------------------------------------------
(* The environment: dependencies are satisfied, events fulfilled, and the  *)
(* accesses of a task that released them disappear, but not while it is    *)
(* the last access of its parent, which it is while it is submitted.       *)
BecomesReady(t) ==
  /\ pc[t] = "dependent"
  /\ pc' = [pc EXCEPT ![t] = "submitted"]
  /\ UNCHANGED <<ip, cur, counters, flags, external, accesses, disposeVars>>

DecreaseEvents(t) ==
  /\ events[t] > 0
  /\ events' = [events EXCEPT ![t] = @ - 1]
  /\ UNCHANGED <<pc, ip, cur, counters, flags, permits, shutdown, accesses, disposeVars>>

Submitting(p, t) == pc[p] \in {"ready", "notReady", "inline", "waitIf0"} /\ Subject(p) = t

AccessesGone(t) ==
  /\ linked[t] /\ releases[t] > 0
  /\ ~Submitting(Parent[t], t)
  /\ linked' = [linked EXCEPT ![t] = FALSE]
  /\ DropRemoval(t)
  /\ UNCHANGED <<pc, ip, cur, wakeUp, flags, external, releases, disposable, pendingSpawned>>

-----------------------------------------------------------------------------
Run(t) ==
  /\ \/ SubmitTask(t) \/ SubmitReady(t) \/ InlineReturns(t) \/ SubmitNotReady(t)
     \/ If0Returns(t) \/ Spawn(t) \/ StartTask(t) \/ IncreaseEvents(t)
     \/ EnterTaskwait(t) \/ MarkAsBlocked(t) \/ SuspendCoroutine(t) \/ Resume(t)
     \/ MarkAsUnblocked(t) \/ GetBlockingContext(t) \/ BlockCurrentTask(t)
     \/ ReturnFromBlock(t) \/ UnblockTask(t) \/ EndBody(t)
  /\ UNCHANGED program

Complete(t) ==
  /\ \/ MarkAsFinished(t) \/ DelayRelease(t) \/ CompleteDelayedRelease(t)
     \/ ReleaseDependencies(t) \/ FinishSelf(t) \/ WakeAncestor(t) \/ PassFinished(t)
     \/ ReleaseAncestor(t) \/ FinishAncestor(t) \/ RemoveAncestor(t) \/ FinishParent(t)
     \/ RemoveSelf(t)
  /\ UNCHANGED program

Dispose(t) == (DropParent(t) \/ FreeTask(t) \/ DestroyTask(t)) /\ UNCHANGED program

Environment(t) == (BecomesReady(t) \/ DecreaseEvents(t) \/ AccessesGone(t)) /\ UNCHANGED program

AllGone == shutdown /\ \A t \in ProgramTasks : disposal[t] = "destroyed"
Terminated == AllGone /\ UNCHANGED vars

Next ==
  \/ \E t \in Task : Run(t) \/ Complete(t) \/ Dispose(t) \/ Environment(t)
  \/ Shutdown
  \/ Terminated

Spec == Init /\ [][Next]_vars

(* nOS-V runs every task that was submitted and every thread that is not   *)
(* paused; events are fulfilled; dependencies are satisfied in the end.    *)
FairSpec ==
  /\ Spec
  /\ \A t \in Task : /\ WF_vars(Run(t)) /\ WF_vars(Complete(t))
                     /\ WF_vars(Dispose(t)) /\ WF_vars(Environment(t))
  /\ WF_vars(Shutdown)

-----------------------------------------------------------------------------
(* The counters never go below zero: the asserts of finishChild,           *)
(* markAsBlocked and decreaseRemovalBlockingCount hold.                    *)
TypeOK ==
  /\ pc \in [Task -> {"none", "dependent", "registered", "submitted", "body", "ready",
                      "notReady", "inline", "waitIf0", "blocking", "suspending", "paused",
                      "unblocking", "blocked",
                      "ended", "delaying", "undelaying", "detached", "release", "finishing",
                      "climbing", "up", "finishAncestor", "removeAncestor", "removing", "done"}]
  /\ ip \in [Task -> Nat \ {0}]
  /\ cur \in [Task -> Task \cup {NoTask}]
  /\ wakeUp \in [Task -> Nat] /\ removal \in [Task -> Nat]
  /\ finished \in [Task -> BOOLEAN] /\ delayed \in [Task -> BOOLEAN]
  /\ inlined \in [Task -> BOOLEAN] /\ linked \in [Task -> BOOLEAN]
  /\ events \in [Task -> Nat] /\ permits \in [Task -> Nat] /\ releases \in [Task -> Nat]
  /\ disposal \in [Task -> {"none", "due", "dropped", "freed", "destroyed"}]
  /\ disposable \in [Task -> BOOLEAN]
  /\ pendingSpawned \in Nat /\ shutdown \in BOOLEAN

Descendants(t) == {d \in Task : t \in Ancestors(d) /\ pc[d] # "none"}
AllReleased(T) == \A d \in T : releases[d] > 0

(* A task goes past a taskwait (TaskWait.cpp) only when every descendant   *)
(* it has, however deep and however its ancestors ended, completed and     *)
(* released its dependencies, by the short cut or by being woken up.       *)
TaskwaitWaits ==
  [][\A p \in Task : ip'[p] > ip[p] /\ Op(p)[1] = "taskwait" => AllReleased(Descendants(p))]_vars

(* A task with a wait clause releases its dependencies after all of its    *)
(* descendants did, whichever thread releases them.                        *)
DelayedReleaseWaits ==
  [][\A t \in Delayed : releases'[t] > releases[t] => AllReleased(Descendants(t))]_vars

(* The thread of the task and the thread of its last child never both      *)
(* release the dependencies of a task: unregisterTaskDataAccesses is called*)
(* once.                                                                   *)
ReleasedOnce == \A t \in Task : releases[t] <= 1

(* A task is submitted again only while it is paused or about to be, and   *)
(* once: in a taskwait by the child that takes the count to zero, in the   *)
(* wait for an if0 task by that task, between getting a blocking context   *)
(* and the end of the block by whoever got the context.                    *)
AboutToBlock(p) == HasPassed(p, "context") /\ ~HasPassed(p, "block")
WakeUpsMatchPauses ==
  \A p \in Task :
    permits[p] <= IF pc[p] \in {"suspending", "paused", "waitIf0"} \/ AboutToBlock(p) THEN 1 ELSE 0

(* The programs in which nobody else submits a task that waits (blocking.h,*)
(* and README, section 6, for the others): a coroutine is not an if0 task; *)
(* one call unblocks a task; who has a blocking context blocks before it   *)
(* waits in another way.                                                   *)
PairedWakeUps ==
  \A g \in DOMAIN Programs :
    LET body == Programs[g].body
        waits(op) == op[1] = "taskwait" \/ (op[1] = "create" /\ op[2] \in Programs[g].if0)
    IN  /\ Programs[g].coroutines \cap Programs[g].if0 = {}
        /\ \A t, u \in Task : \A i \in DOMAIN body[t], j \in DOMAIN body[u] :
             body[t][i][1] = "unblock" /\ body[u][j] = body[t][i] => t = u /\ i = j
        /\ \A t \in Task : \A k \in DOMAIN body[t] :
             /\ body[t][k][1] = "block" => \E i \in 1..(k - 1) : body[t][i][1] = "context"
             /\ (waits(body[t][k]) /\ \E i \in 1..(k - 1) : body[t][i][1] = "context") =>
                  \E j \in 1..(k - 1) : body[t][j][1] = "block"

Live(t) == disposal[t] \notin {"freed", "destroyed"}
Unfinished(t) == pc[t] \notin {"none", "done"}
Climbs(t) == pc[t] \in {"climbing", "up", "finishAncestor", "removeAncestor"}

(* No thread touches the metadata of a task after disposeTask frees it:    *)
(* neither the threads that run or complete the task, nor those that climb *)
(* from a descendant to it, nor those that dispose a child.                *)
NoUseAfterFree ==
  \A t \in Task :
    /\ Unfinished(t) => Live(t)
    /\ Climbs(t) => Live(cur[t])
    /\ (Unfinished(t) \/ disposal[t] = "due" \/ (disposal[t] # "destroyed" /\ disposable[t]))
         /\ Parent[t] # NoTask => Live(Parent[t])

InBody == {"body", "ready", "notReady", "inline", "waitIf0", "blocking", "suspending", "paused",
           "unblocking", "blocked"}

(* Who creates an if0 task that is not ready is submitted again when the   *)
(* task ends (the comment of submitTask): it is not left paused.           *)
If0CreatorResumed ==
  \A p \in Task :
    pc[p] = "waitIf0" /\ pc[Subject(p)] \notin {"dependent", "submitted"} \cup InBody => permits[p] > 0

(* A program without if0 tasks ends: every task is run, completed and      *)
(* destroyed, no taskwait and no wait clause waits for ever, and shutdown  *)
(* returns.                                                                *)
AllDestroyed == If0 = {} => <>AllGone
=============================================================================
