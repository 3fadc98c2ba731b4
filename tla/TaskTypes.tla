----------------------------- MODULE TaskTypes -----------------------------
(***************************************************************************)
(* tasks/TaskInfo.hpp and .cpp, system/SpawnFunction.cpp: a task needs a   *)
(* nOS-V task type, which is made from its task info.  Constructors of the *)
(* program and of its libraries register their task infos before, while or *)
(* after the runtime starts; those that come early are put in a list that  *)
(* TaskInfo::initialize works off.  nanos6_spawn_function registers one    *)
(* info per function, in its first call; nanos6_shutdown waits for what    *)
(* was spawned before it destroys the types.                               *)
(*                                                                         *)
(* A thread registers one info or spawns one function.  After that its     *)
(* entry in at follows the task it spawned, to its end in disposeTask.     *)
(***************************************************************************)
EXTENDS Integers, FiniteSets

CONSTANTS
  Declarer,       (* threads that register a task info of their own        *)
  Spawner,        (* threads that spawn the same function                  *)
  Runtime,        (* the thread that starts and stops the runtime          *)
  Info,           (* task infos                                            *)
  InfoOf,         (* InfoOf[t], the task info thread t registers           *)
  Nobody

Thread == Declarer \cup Spawner

ASSUME TaskTypesAssumption ==
  /\ Declarer \cap Spawner = {} /\ Runtime \notin Thread /\ Nobody \notin Thread \cup {Runtime}
  /\ IsFiniteSet(Spawner)
  /\ InfoOf \in [Thread -> Info]
  /\ \A s, t \in Thread : InfoOf[s] = InfoOf[t] => s = t \/ {s, t} \subseteq Spawner

VARIABLES
  initialized,    (* TaskInfo::_initialized                                *)
  infoLock,       (* who holds TaskInfo::_lock                             *)
  taskInfos,      (* how often an info is in TaskInfo::_taskInfos          *)
  remaining,      (* what the loop of initialize has still to work off     *)
  types,          (* how many types there are of an info                   *)
  spawnLock,      (* who holds _spawnedFunctionInfosLock                   *)
  spawnedInfos,   (* the infos in _spawnedFunctionInfos                    *)
  pending,        (* _pendingSpawnedFunctions                              *)
  at              (* where a thread, or the task it spawned, is            *)

typeVars ==
  <<initialized, infoLock, taskInfos, remaining, types, spawnLock, spawnedInfos, pending, at>>

AddOne(f, i) == [f EXCEPT ![i] = @ + 1]
NoInfos == [i \in Info |-> 0]

TypesInit ==
  /\ initialized = FALSE
  /\ infoLock = Nobody
  /\ taskInfos = NoInfos /\ remaining = NoInfos /\ types = NoInfos
  /\ spawnLock = Nobody /\ spawnedInfos = {} /\ pending = 0
  /\ at = [t \in Thread \cup {Runtime} |-> IF t \in Spawner THEN "idle" ELSE "start"]

Goto(t, place) == at' = [at EXCEPT ![t] = place]

-----------------------------------------------------------------------------
(* TaskInfo::registerTaskInfo; not after the end of main.                  *)
LockInfos(t) ==
  /\ at[t] = "start" /\ infoLock = Nobody
  /\ at[Runtime] \notin {"stopping", "stopped"}
  /\ infoLock' = t
  /\ Goto(t, "locked")
  /\ UNCHANGED <<initialized, taskInfos, remaining, types, spawnLock, spawnedInfos, pending>>

(* Mutant: an info is put in the list only.                                *)
RegisterInTheList(t) ==
  /\ at[t] = "locked"
  /\ taskInfos' = AddOne(taskInfos, InfoOf[t])
  /\ infoLock' = Nobody
  /\ Goto(t, "registered")
  /\ UNCHANGED <<initialized, remaining, types, spawnLock, spawnedInfos, pending>>

(* _initialized is set without the lock (a data race): between that and    *)
(* the lock of initialize it may be read as it was before.                 *)
RegisterTaskInfo(t) ==
  /\ at[t] = "locked"
  /\ \/ initialized /\ types' = AddOne(types, InfoOf[t]) /\ UNCHANGED taskInfos
     \/ /\ ~initialized \/ at[Runtime] = "flagged"
        /\ taskInfos' = AddOne(taskInfos, InfoOf[t]) /\ UNCHANGED types
  /\ infoLock' = Nobody
  /\ Goto(t, "registered")
  /\ UNCHANGED <<initialized, remaining, spawnLock, spawnedInfos, pending>>

-----------------------------------------------------------------------------
(* TaskInfo::initialize.                                                   *)
SetInitialized ==
  /\ at[Runtime] = "start"
  /\ initialized' = TRUE
  /\ Goto(Runtime, "flagged")
  /\ UNCHANGED <<infoLock, taskInfos, remaining, types, spawnLock, spawnedInfos, pending>>

LockToInitialize ==
  /\ at[Runtime] = "flagged" /\ infoLock = Nobody
  /\ infoLock' = Runtime
  /\ remaining' = taskInfos
  /\ Goto(Runtime, "locked")
  /\ UNCHANGED <<initialized, taskInfos, types, spawnLock, spawnedInfos, pending>>

(* createTaskType.                                                         *)
CreateType(i) ==
  /\ at[Runtime] = "locked" /\ remaining[i] > 0
  /\ remaining' = [remaining EXCEPT ![i] = @ - 1]
  /\ types' = AddOne(types, i)
  /\ UNCHANGED <<initialized, infoLock, taskInfos, spawnLock, spawnedInfos, pending, at>>

EndInitialize ==
  /\ at[Runtime] = "locked" /\ remaining = NoInfos
  /\ infoLock' = Nobody
  /\ Goto(Runtime, "running")
  /\ UNCHANGED <<initialized, taskInfos, remaining, types, spawnLock, spawnedInfos, pending>>

-----------------------------------------------------------------------------
(* SpawnFunction::spawnFunction, from threads of the running program.      *)
StartSpawn(t) ==
  /\ at[t] = "idle" /\ at[Runtime] = "running"
  /\ pending' = pending + 1
  /\ Goto(t, "spawn")
  /\ UNCHANGED <<initialized, infoLock, taskInfos, remaining, types, spawnLock, spawnedInfos>>

(* The first call for a function registers its info, and keeps the map     *)
(* locked meanwhile.                                                       *)
EmplaceSpawned(t) ==
  /\ at[t] = "spawn" /\ spawnLock = Nobody
  /\ spawnedInfos' = spawnedInfos \cup {InfoOf[t]}
  /\ spawnLock' = t
  /\ Goto(t, IF InfoOf[t] \in spawnedInfos THEN "registered" ELSE "start")
  /\ UNCHANGED <<initialized, infoLock, taskInfos, remaining, types, pending>>

UnlockSpawned(t) ==
  /\ at[t] = "registered" /\ spawnLock = t
  /\ spawnLock' = Nobody
  /\ Goto(t, "create")
  /\ UNCHANGED <<initialized, infoLock, taskInfos, remaining, types, spawnedInfos, pending>>

(* createTask, with the type of the info, and submitTask.                  *)
CreateTask(t) ==
  /\ at[t] = "create"
  /\ Goto(t, "created")
  /\ UNCHANGED <<initialized, infoLock, taskInfos, remaining, types, spawnLock, spawnedInfos, pending>>

-----------------------------------------------------------------------------
(* Mutant: the function has run, and its completion callback has not.      *)
CountDownEarly(t) ==
  /\ at[t] = "created"
  /\ pending' = pending - 1
  /\ Goto(t, "completed")
  /\ UNCHANGED <<initialized, infoLock, taskInfos, remaining, types, spawnLock, spawnedInfos>>

(* disposeTask, when the task has run: the completion callback of the user *)
(* (destroy_args_block), the counter, and nosv_destroy.                    *)
CallCompletion(t) ==
  /\ at[t] = "created"
  /\ Goto(t, "completed")
  /\ UNCHANGED <<initialized, infoLock, taskInfos, remaining, types, spawnLock, spawnedInfos, pending>>

CountDown(t) ==
  /\ at[t] = "completed"
  /\ pending' = pending - 1
  /\ Goto(t, "uncounted")
  /\ UNCHANGED <<initialized, infoLock, taskInfos, remaining, types, spawnLock, spawnedInfos>>

DestroyTask(t) ==
  /\ at[t] = "uncounted"
  /\ Goto(t, "destroyed")
  /\ UNCHANGED <<initialized, infoLock, taskInfos, remaining, types, spawnLock, spawnedInfos, pending>>

(* nanos6_shutdown: it waits for the counter, and TaskInfo::shutdown       *)
(* destroys the types.                                                     *)
WaitForSpawned ==
  /\ at[Runtime] = "running" /\ pending = 0
  /\ Goto(Runtime, "stopping")
  /\ UNCHANGED <<initialized, infoLock, taskInfos, remaining, types, spawnLock, spawnedInfos, pending>>

DestroyTypes ==
  /\ at[Runtime] = "stopping" /\ infoLock = Nobody
  /\ types' = NoInfos
  /\ Goto(Runtime, "stopped")
  /\ UNCHANGED <<initialized, infoLock, taskInfos, remaining, spawnLock, spawnedInfos, pending>>

TypesNext ==
  \/ \E t \in Thread : LockInfos(t) \/ RegisterTaskInfo(t)
  \/ \E t \in Spawner :
       \/ StartSpawn(t) \/ EmplaceSpawned(t) \/ UnlockSpawned(t) \/ CreateTask(t)
       \/ CallCompletion(t) \/ CountDown(t) \/ DestroyTask(t)
  \/ SetInitialized \/ LockToInitialize \/ EndInitialize
  \/ \E i \in Info : CreateType(i)
  \/ WaitForSpawned \/ DestroyTypes

TypesSpec == TypesInit /\ [][TypesNext]_typeVars

-----------------------------------------------------------------------------
(* Properties.                                                             *)

(* A task info is made a type once, and none that was registered in time   *)
(* or late is forgotten: once the runtime runs, every registered info has  *)
(* its type (initialize and registerTaskInfo agree on who makes it).       *)
OneTypeEach ==
  /\ \A i \in Info : types[i] <= 1
  /\ at[Runtime] \in {"running", "stopping"} =>
       \A t \in Declarer : at[t] = "registered" => types[InfoOf[t]] = 1

(* A spawned task has the type of its function from before its creation    *)
(* ("assert(tasktype != nullptr)", TaskCreation.cpp:74, also when another  *)
(* thread spawned the function first) until the user's completion callback *)
(* has returned ("Wait for spawned functions to fully end",                *)
(* Initialization.cpp:58).                                                 *)
SpawnedHasType ==
  \A t \in Spawner : at[t] \in {"create", "created", "completed"} => types[InfoOf[t]] = 1
=============================================================================
