-------------------------- MODULE TaskTypes_proofs --------------------------
(***************************************************************************)
(* For any threads, task infos and interleaving with the start and the end *)
(* of the runtime: a registered task info is made a type once, and a       *)
(* spawned task has its type until the completion callback has returned.   *)
(*                                                                         *)
(* The invariant is a ledger: of every info that has been registered there *)
(* is one entry, which is in the list until initialize takes the lock,     *)
(* then with its loop, and then it is a type.                              *)
(***************************************************************************)
EXTENDS TaskTypes, FiniteSetTheorems, TLAPS

(* Where the registration is under way, and where it is over.              *)
Registering == {"start", "locked"}
Past == {"registered", "create", "created", "completed", "uncounted", "destroyed"}

(* The spawned functions that _pendingSpawnedFunctions counts.             *)
Counted == {"spawn", "start", "locked", "registered", "create", "created", "completed"}
Awaited == {t \in Spawner : at[t] \in Counted}

TypesOK ==
  /\ initialized \in BOOLEAN
  /\ taskInfos \in [Info -> Nat] /\ remaining \in [Info -> Nat] /\ types \in [Info -> Nat]
  /\ spawnedInfos \subseteq Info
  /\ at \in [Thread \cup {Runtime} -> {"idle", "flagged", "running", "stopping", "stopped"} \cup Counted \cup Past]
  /\ at[Runtime] \in {"start", "flagged", "locked", "running", "stopping", "stopped"}
  /\ \A t \in Declarer : at[t] \in {"start", "locked", "registered"}
  /\ \A t \in Spawner : at[t] \in {"idle"} \cup Counted \cup Past

(* Who is at a place that needs a lock holds it.                           *)
Locks ==
  /\ \A t \in Thread \cup {Runtime} : at[t] = "locked" <=> infoLock = t
  /\ \A t \in Spawner : at[t] \in Registering \cup {"registered"} => spawnLock = t

(* The first thread that spawns a function registers its info, before any  *)
(* other goes on with it.                                                  *)
Spawning ==
  /\ \A t \in Spawner : at[t] \in Registering \cup Past => InfoOf[t] \in spawnedInfos
  /\ \A i \in spawnedInfos : \E t \in Spawner : InfoOf[t] = i /\ at[t] \in Registering \cup Past
  /\ \A s, t \in Spawner : InfoOf[s] = InfoOf[t] /\ at[s] \in Registering => at[t] \notin Past

(* The functions are spawned between the start and the end of the runtime. *)
Pending ==
  /\ pending = Cardinality(Awaited)
  /\ at[Runtime] \in {"start", "flagged", "locked"} => \A t \in Spawner : at[t] = "idle"
  /\ at[Runtime] \in {"stopping", "stopped"} => Awaited = {}
  /\ at[Runtime] = "stopped" => \A t \in Thread : at[t] # "locked"

Announced(i) == \E t \in Thread : InfoOf[t] = i /\ at[t] \in Past
Entry(i) == IF Announced(i) THEN 1 ELSE 0

Balanced(place, entry, listed, left, typed) ==
  CASE place = "start"   -> listed = entry /\ left = 0 /\ typed = 0
    [] place = "flagged" -> typed + listed = entry /\ left = 0
    [] place = "locked"  -> typed + left = entry
    [] place = "stopped" -> typed = 0
    [] OTHER             -> typed = entry

Ledger ==
  /\ initialized <=> at[Runtime] # "start"
  /\ \A i \in Info : Balanced(at[Runtime], Entry(i), taskInfos[i], remaining[i], types[i])

IInv == TypesOK /\ Locks /\ Spawning /\ Pending /\ Ledger

-----------------------------------------------------------------------------
(* The functions that are counted are finitely many, so that the count is  *)
(* 0 only when there are none (_pendingSpawnedFunctions).                  *)
LEMMA AwaitedIsFinite ==
  /\ IsFiniteSet(Awaited) /\ Cardinality(Awaited) \in Nat
  /\ Cardinality(Awaited) = 0 <=> Awaited = {}
<1>1. IsFiniteSet(Awaited) /\ Cardinality(Awaited) \in Nat
  BY TaskTypesAssumption, FS_Subset, FS_CardinalityType DEF Awaited
<1>2. QED
  BY <1>1, FS_EmptySet

(* registerTaskInfo: a thread that takes the lock keeps the invariant.     *)
LEMMA LockInfosStep ==
  ASSUME IInv, NEW t \in Thread, LockInfos(t)
  PROVE  IInv'
<1> USE TaskTypesAssumption DEF Thread
<1>1. TypesOK'
  BY DEF IInv, TypesOK, LockInfos, Goto, AddOne, NoInfos, Counted, Past
<1>2. Locks'
  BY DEF IInv, TypesOK, Locks, LockInfos, Goto, Registering
<1>3. Spawning'
  BY DEF IInv, TypesOK, Locks, Spawning, LockInfos, Goto, Registering, Past
<1>4. Pending'
  <2>1. Awaited' = Awaited
    BY DEF IInv, TypesOK, Awaited, LockInfos, Goto, Counted
  <2>2. QED
    BY <2>1 DEF IInv, TypesOK, Pending, LockInfos, Goto
<1>5. Ledger'
  BY DEF IInv, TypesOK, Locks, Spawning, Pending, Ledger, Balanced, Entry, Announced,
         LockInfos, Goto, AddOne, NoInfos, Registering, Past
<1>6. QED
  BY <1>1, <1>2, <1>3, <1>4, <1>5 DEF IInv

(* registerTaskInfo: the info becomes an entry of the list, or a type.     *)
LEMMA RegisterTaskInfoStep ==
  ASSUME IInv, NEW t \in Thread, RegisterTaskInfo(t)
  PROVE  IInv'
<1> USE TaskTypesAssumption DEF Thread
<1>1. TypesOK'
  BY DEF IInv, TypesOK, RegisterTaskInfo, Goto, AddOne, NoInfos, Counted, Past
<1>2. Locks'
  BY DEF IInv, TypesOK, Locks, RegisterTaskInfo, Goto, Registering
<1>3. Spawning'
  BY DEF IInv, TypesOK, Locks, Spawning, RegisterTaskInfo, Goto, Registering, Past
<1>4. Pending'
  BY DEF IInv, TypesOK, Locks, Pending, Awaited, RegisterTaskInfo, Goto, Counted
<1>5. Ledger'
  BY DEF IInv, TypesOK, Locks, Spawning, Pending, Ledger, Balanced, Entry, Announced,
         RegisterTaskInfo, Goto, AddOne, NoInfos, Registering, Past
<1>6. QED
  BY <1>1, <1>2, <1>3, <1>4, <1>5 DEF IInv

(* spawnFunction: the counter and the place of the thread change together. *)
LEMMA StartSpawnStep ==
  ASSUME IInv, NEW t \in Spawner, StartSpawn(t)
  PROVE  IInv'
<1> USE TaskTypesAssumption DEF Thread
<1>1. TypesOK'
  BY DEF IInv, TypesOK, StartSpawn, Goto, AddOne, NoInfos, Counted, Past
<1>2. Locks'
  BY DEF IInv, TypesOK, Locks, StartSpawn, Goto, Registering
<1>3. Spawning'
  BY DEF IInv, TypesOK, Locks, Spawning, StartSpawn, Goto, Registering, Past
<1>4. Pending'
  <2>1. Awaited' = Awaited \cup {t} /\ t \notin Awaited
    BY DEF IInv, TypesOK, Awaited, StartSpawn, Goto, Counted
  <2>2. Cardinality(Awaited') = Cardinality(Awaited) + 1
    BY <2>1, AwaitedIsFinite, FS_AddElement
  <2>3. QED
    BY <2>2 DEF IInv, TypesOK, Pending, StartSpawn, Goto
<1>5. Ledger'
  BY DEF IInv, TypesOK, Locks, Spawning, Pending, Ledger, Balanced, Entry, Announced,
         StartSpawn, Goto, AddOne, NoInfos, Registering, Past
<1>6. QED
  BY <1>1, <1>2, <1>3, <1>4, <1>5 DEF IInv

(* spawnFunction: the first call goes on to register, the others do not.   *)
LEMMA EmplaceSpawnedStep ==
  ASSUME IInv, NEW t \in Spawner, EmplaceSpawned(t)
  PROVE  IInv'
<1> USE TaskTypesAssumption DEF Thread
<1>1. TypesOK'
  BY DEF IInv, TypesOK, EmplaceSpawned, Goto, AddOne, NoInfos, Counted, Past
<1>2. Locks'
  BY DEF IInv, TypesOK, Locks, EmplaceSpawned, Goto, Registering
<1>3. Spawning'
  BY DEF IInv, TypesOK, Locks, Spawning, EmplaceSpawned, Goto, Registering, Past
<1>4. Pending'
  BY DEF IInv, TypesOK, Locks, Pending, Awaited, EmplaceSpawned, Goto, Counted
<1>5. Ledger'
  BY DEF IInv, TypesOK, Locks, Spawning, Pending, Ledger, Balanced, Entry, Announced,
         EmplaceSpawned, Goto, AddOne, NoInfos, Registering, Past
<1>6. QED
  BY <1>1, <1>2, <1>3, <1>4, <1>5 DEF IInv

(* spawnFunction: the map is unlocked when its info is registered.         *)
LEMMA UnlockSpawnedStep ==
  ASSUME IInv, NEW t \in Spawner, UnlockSpawned(t)
  PROVE  IInv'
<1> USE TaskTypesAssumption DEF Thread
<1>1. TypesOK'
  BY DEF IInv, TypesOK, UnlockSpawned, Goto, AddOne, NoInfos, Counted, Past
<1>2. Locks'
  BY DEF IInv, TypesOK, Locks, UnlockSpawned, Goto, Registering
<1>3. Spawning'
  BY DEF IInv, TypesOK, Locks, Spawning, UnlockSpawned, Goto, Registering, Past
<1>4. Pending'
  BY DEF IInv, TypesOK, Locks, Pending, Awaited, UnlockSpawned, Goto, Counted
<1>5. Ledger'
  BY DEF IInv, TypesOK, Locks, Spawning, Pending, Ledger, Balanced, Entry, Announced,
         UnlockSpawned, Goto, AddOne, NoInfos, Registering, Past
<1>6. QED
  BY <1>1, <1>2, <1>3, <1>4, <1>5 DEF IInv

(* spawnFunction: a task is created and submitted.                         *)
LEMMA CreateTaskStep ==
  ASSUME IInv, NEW t \in Spawner, CreateTask(t)
  PROVE  IInv'
<1> USE TaskTypesAssumption DEF Thread
<1>1. TypesOK'
  BY DEF IInv, TypesOK, CreateTask, Goto, AddOne, NoInfos, Counted, Past
<1>2. Locks'
  BY DEF IInv, TypesOK, Locks, CreateTask, Goto, Registering
<1>3. Spawning'
  BY DEF IInv, TypesOK, Locks, Spawning, CreateTask, Goto, Registering, Past
<1>4. Pending'
  BY DEF IInv, TypesOK, Locks, Pending, Awaited, CreateTask, Goto, Counted
<1>5. Ledger'
  BY DEF IInv, TypesOK, Locks, Spawning, Pending, Ledger, Balanced, Entry, Announced,
         CreateTask, Goto, AddOne, NoInfos, Registering, Past
<1>6. QED
  BY <1>1, <1>2, <1>3, <1>4, <1>5 DEF IInv

(* disposeTask: the completion callback returns.                           *)
LEMMA CallCompletionStep ==
  ASSUME IInv, NEW t \in Spawner, CallCompletion(t)
  PROVE  IInv'
<1> USE TaskTypesAssumption DEF Thread
<1>1. TypesOK'
  BY DEF IInv, TypesOK, CallCompletion, Goto, AddOne, NoInfos, Counted, Past
<1>2. Locks'
  BY DEF IInv, TypesOK, Locks, CallCompletion, Goto, Registering
<1>3. Spawning'
  BY DEF IInv, TypesOK, Locks, Spawning, CallCompletion, Goto, Registering, Past
<1>4. Pending'
  BY DEF IInv, TypesOK, Locks, Pending, Awaited, CallCompletion, Goto, Counted
<1>5. Ledger'
  BY DEF IInv, TypesOK, Locks, Spawning, Pending, Ledger, Balanced, Entry, Announced,
         CallCompletion, Goto, AddOne, NoInfos, Registering, Past
<1>6. QED
  BY <1>1, <1>2, <1>3, <1>4, <1>5 DEF IInv

(* disposeTask: the counter goes down with the number of those counted.    *)
LEMMA CountDownStep ==
  ASSUME IInv, NEW t \in Spawner, CountDown(t)
  PROVE  IInv'
<1> USE TaskTypesAssumption DEF Thread
<1>1. TypesOK'
  BY DEF IInv, TypesOK, CountDown, Goto, AddOne, NoInfos, Counted, Past
<1>2. Locks'
  BY DEF IInv, TypesOK, Locks, CountDown, Goto, Registering
<1>3. Spawning'
  BY DEF IInv, TypesOK, Locks, Spawning, CountDown, Goto, Registering, Past
<1>4. Pending'
  <2>1. Awaited' = Awaited \ {t} /\ t \in Awaited
    BY DEF IInv, TypesOK, Awaited, CountDown, Goto, Counted
  <2>2. Cardinality(Awaited') = Cardinality(Awaited) - 1
    BY <2>1, AwaitedIsFinite, FS_RemoveElement
  <2>3. QED
    BY <2>1, <2>2 DEF IInv, TypesOK, Pending, CountDown, Goto
<1>5. Ledger'
  BY DEF IInv, TypesOK, Locks, Spawning, Pending, Ledger, Balanced, Entry, Announced,
         CountDown, Goto, AddOne, NoInfos, Registering, Past
<1>6. QED
  BY <1>1, <1>2, <1>3, <1>4, <1>5 DEF IInv

(* disposeTask: the task is destroyed.                                     *)
LEMMA DestroyTaskStep ==
  ASSUME IInv, NEW t \in Spawner, DestroyTask(t)
  PROVE  IInv'
<1> USE TaskTypesAssumption DEF Thread
<1>1. TypesOK'
  BY DEF IInv, TypesOK, DestroyTask, Goto, AddOne, NoInfos, Counted, Past
<1>2. Locks'
  BY DEF IInv, TypesOK, Locks, DestroyTask, Goto, Registering
<1>3. Spawning'
  BY DEF IInv, TypesOK, Locks, Spawning, DestroyTask, Goto, Registering, Past
<1>4. Pending'
  BY DEF IInv, TypesOK, Locks, Pending, Awaited, DestroyTask, Goto, Counted
<1>5. Ledger'
  BY DEF IInv, TypesOK, Locks, Spawning, Pending, Ledger, Balanced, Entry, Announced,
         DestroyTask, Goto, AddOne, NoInfos, Registering, Past
<1>6. QED
  BY <1>1, <1>2, <1>3, <1>4, <1>5 DEF IInv

(* TaskInfo::initialize sets its flag while the list keeps its entries.    *)
LEMMA SetInitializedStep ==
  ASSUME IInv, SetInitialized
  PROVE  IInv'
<1> USE TaskTypesAssumption DEF Thread
<1>1. TypesOK'
  BY DEF IInv, TypesOK, SetInitialized, Goto, AddOne, NoInfos, Counted, Past
<1>2. Locks'
  BY DEF IInv, TypesOK, Locks, SetInitialized, Goto, Registering
<1>3. Spawning'
  BY DEF IInv, TypesOK, Locks, Spawning, SetInitialized, Goto, Registering, Past
<1>4. Pending'
  BY DEF IInv, TypesOK, Locks, Pending, Awaited, SetInitialized, Goto, Counted
<1>5. Ledger'
  BY DEF IInv, TypesOK, Locks, Spawning, Pending, Ledger, Balanced, Entry, Announced,
         SetInitialized, Goto, AddOne, NoInfos, Registering, Past
<1>6. QED
  BY <1>1, <1>2, <1>3, <1>4, <1>5 DEF IInv

(* TaskInfo::initialize takes the list over under the lock.                *)
LEMMA LockToInitializeStep ==
  ASSUME IInv, LockToInitialize
  PROVE  IInv'
<1> USE TaskTypesAssumption DEF Thread
<1>1. TypesOK'
  BY DEF IInv, TypesOK, LockToInitialize, Goto, AddOne, NoInfos, Counted, Past
<1>2. Locks'
  BY DEF IInv, TypesOK, Locks, LockToInitialize, Goto, Registering
<1>3. Spawning'
  BY DEF IInv, TypesOK, Locks, Spawning, LockToInitialize, Goto, Registering, Past
<1>4. Pending'
  BY ZenonT(60) DEF IInv, TypesOK, Locks, Pending, Awaited, LockToInitialize, Goto, Counted
<1>5. Ledger'
  BY DEF IInv, TypesOK, Locks, Spawning, Pending, Ledger, Balanced, Entry, Announced,
         LockToInitialize, Goto, AddOne, NoInfos, Registering, Past
<1>6. QED
  BY <1>1, <1>2, <1>3, <1>4, <1>5 DEF IInv

(* TaskInfo::initialize leaves when there is a type of every entry.        *)
LEMMA EndInitializeStep ==
  ASSUME IInv, EndInitialize
  PROVE  IInv'
<1> USE TaskTypesAssumption DEF Thread
<1>1. TypesOK'
  BY DEF IInv, TypesOK, EndInitialize, Goto, AddOne, NoInfos, Counted, Past
<1>2. Locks'
  BY DEF IInv, TypesOK, Locks, EndInitialize, Goto, Registering
<1>3. Spawning'
  BY DEF IInv, TypesOK, Locks, Spawning, EndInitialize, Goto, Registering, Past
<1>4. Pending'
  BY DEF IInv, TypesOK, Locks, Pending, Awaited, EndInitialize, Goto, Counted
<1>5. Ledger'
  BY DEF IInv, TypesOK, Locks, Spawning, Pending, Ledger, Balanced, Entry, Announced,
         EndInitialize, Goto, AddOne, NoInfos, Registering, Past
<1>6. QED
  BY <1>1, <1>2, <1>3, <1>4, <1>5 DEF IInv

(* createTaskType: an entry becomes a type.                                *)
LEMMA CreateTypeStep ==
  ASSUME IInv, NEW i \in Info, CreateType(i)
  PROVE  IInv'
<1> USE TaskTypesAssumption DEF Thread
<1>1. TypesOK'
  BY DEF IInv, TypesOK, CreateType, Goto, AddOne, NoInfos, Counted, Past
<1>2. Locks'
  BY DEF IInv, TypesOK, Locks, CreateType, Goto, Registering
<1>3. Spawning'
  BY DEF IInv, TypesOK, Locks, Spawning, CreateType, Goto, Registering, Past
<1>4. Pending'
  BY DEF IInv, TypesOK, Locks, Pending, Awaited, CreateType, Goto, Counted
<1>5. Ledger'
  BY DEF IInv, TypesOK, Locks, Spawning, Pending, Ledger, Balanced, Entry, Announced,
         CreateType, Goto, AddOne, NoInfos, Registering, Past
<1>6. QED
  BY <1>1, <1>2, <1>3, <1>4, <1>5 DEF IInv

(* nanos6_shutdown goes on when nothing that was spawned is counted.       *)
LEMMA WaitForSpawnedStep ==
  ASSUME IInv, WaitForSpawned
  PROVE  IInv'
<1> USE TaskTypesAssumption DEF Thread
<1>1. TypesOK'
  BY DEF IInv, TypesOK, WaitForSpawned, Goto, AddOne, NoInfos, Counted, Past
<1>2. Locks'
  BY DEF IInv, TypesOK, Locks, WaitForSpawned, Goto, Registering
<1>3. Spawning'
  BY DEF IInv, TypesOK, Locks, Spawning, WaitForSpawned, Goto, Registering, Past
<1>4. Pending'
  <2>1. Awaited = {} /\ Awaited' = Awaited
    BY AwaitedIsFinite DEF IInv, TypesOK, Pending, Awaited, WaitForSpawned, Goto
  <2>2. QED
    BY <2>1 DEF IInv, TypesOK, Pending, WaitForSpawned, Goto
<1>5. Ledger'
  BY DEF IInv, TypesOK, Locks, Spawning, Pending, Ledger, Balanced, Entry, Announced,
         WaitForSpawned, Goto, AddOne, NoInfos, Registering, Past
<1>6. QED
  BY <1>1, <1>2, <1>3, <1>4, <1>5 DEF IInv

(* TaskInfo::shutdown destroys the types, and nobody counts on them.       *)
LEMMA DestroyTypesStep ==
  ASSUME IInv, DestroyTypes
  PROVE  IInv'
<1> USE TaskTypesAssumption DEF Thread
<1>1. TypesOK'
  BY DEF IInv, TypesOK, DestroyTypes, Goto, AddOne, NoInfos, Counted, Past
<1>2. Locks'
  BY DEF IInv, TypesOK, Locks, DestroyTypes, Goto, Registering
<1>3. Spawning'
  BY DEF IInv, TypesOK, Locks, Spawning, DestroyTypes, Goto, Registering, Past
<1>4. Pending'
  BY DEF IInv, TypesOK, Locks, Pending, Awaited, DestroyTypes, Goto, Counted
<1>5. Ledger'
  BY DEF IInv, TypesOK, Locks, Spawning, Pending, Ledger, Balanced, Entry, Announced,
         DestroyTypes, Goto, AddOne, NoInfos, Registering, Past
<1>6. QED
  BY <1>1, <1>2, <1>3, <1>4, <1>5 DEF IInv

-----------------------------------------------------------------------------
(* The invariant holds before the first registration.                      *)
LEMMA Initial == TypesInit => IInv
<1> SUFFICES ASSUME TypesInit PROVE IInv
  OBVIOUS
<1> USE TaskTypesAssumption DEF Thread
<1>1. TypesOK
  BY DEF TypesInit, TypesOK, NoInfos, Counted, Past
<1>2. Locks /\ Spawning
  BY DEF TypesInit, Locks, Spawning, Registering, Past
<1>3. Pending
  <2>1. Awaited = {}
    BY DEF TypesInit, Awaited, Counted
  <2>2. QED
    BY <2>1, AwaitedIsFinite DEF TypesInit, Pending
<1>4. Ledger
  BY DEF TypesInit, Ledger, Balanced, Entry, Announced, NoInfos, Past
<1>5. QED
  BY <1>1, <1>2, <1>3, <1>4 DEF IInv

(* Every step of a thread or of the runtime keeps the invariant.           *)
LEMMA Inductive == IInv /\ [TypesNext]_typeVars => IInv'
<1> SUFFICES ASSUME IInv, [TypesNext]_typeVars PROVE IInv'
  OBVIOUS
<1>1. ASSUME NEW t \in Thread, LockInfos(t) PROVE IInv'
  BY <1>1, LockInfosStep
<1>2. ASSUME NEW t \in Thread, RegisterTaskInfo(t) PROVE IInv'
  BY <1>2, RegisterTaskInfoStep
<1>3. ASSUME NEW t \in Spawner, StartSpawn(t) PROVE IInv'
  BY <1>3, StartSpawnStep
<1>4. ASSUME NEW t \in Spawner, EmplaceSpawned(t) PROVE IInv'
  BY <1>4, EmplaceSpawnedStep
<1>5. ASSUME NEW t \in Spawner, UnlockSpawned(t) PROVE IInv'
  BY <1>5, UnlockSpawnedStep
<1>6. ASSUME NEW t \in Spawner, CreateTask(t) PROVE IInv'
  BY <1>6, CreateTaskStep
<1>7. ASSUME NEW t \in Spawner, CallCompletion(t) PROVE IInv'
  BY <1>7, CallCompletionStep
<1>8. ASSUME NEW t \in Spawner, CountDown(t) PROVE IInv'
  BY <1>8, CountDownStep
<1>9. ASSUME NEW t \in Spawner, DestroyTask(t) PROVE IInv'
  BY <1>9, DestroyTaskStep
<1>10. CASE SetInitialized
  BY <1>10, SetInitializedStep
<1>11. CASE LockToInitialize
  BY <1>11, LockToInitializeStep
<1>12. CASE EndInitialize
  BY <1>12, EndInitializeStep
<1>13. ASSUME NEW i \in Info, CreateType(i) PROVE IInv'
  BY <1>13, CreateTypeStep
<1>14. CASE WaitForSpawned
  BY <1>14, WaitForSpawnedStep
<1>15. CASE DestroyTypes
  BY <1>15, DestroyTypesStep
<1>16. CASE UNCHANGED typeVars
  BY <1>16 DEF IInv, TypesOK, Locks, Spawning, Pending, Awaited, Ledger, Balanced,
         Entry, Announced, typeVars
<1>17. QED
  BY <1>1, <1>2, <1>3, <1>4, <1>5, <1>6, <1>7, <1>8, <1>9, <1>10, <1>11, <1>12, <1>13,
         <1>14, <1>15, <1>16 DEF TypesNext

(* The ledger of infos, list and types is balanced in every state          *)
(* (registerTaskInfo, TaskInfo::initialize, nanos6_shutdown).              *)
THEOREM Invariance == TypesSpec => []IInv
  BY Initial, Inductive, PTL DEF TypesSpec

(* A task info is made a type once and is not forgotten, whether it comes  *)
(* before, during or after TaskInfo::initialize.                           *)
THEOREM EveryInfoGetsOneType == TypesSpec => []OneTypeEach
<1>1. IInv => OneTypeEach
  <2> SUFFICES ASSUME IInv PROVE OneTypeEach
    OBVIOUS
  <2>1. ASSUME NEW i \in Info PROVE types[i] <= 1
    BY DEF IInv, TypesOK, Ledger, Balanced, Entry
  <2>2. ASSUME at[Runtime] \in {"running", "stopping"}, NEW t \in Declarer, at[t] = "registered"
        PROVE  types[InfoOf[t]] = 1
    <3>1. Announced(InfoOf[t])
      BY <2>2 DEF Announced, Past, Thread
    <3>2. QED
      BY <2>2, <3>1, TaskTypesAssumption DEF IInv, Ledger, Balanced, Entry, Thread
  <2>3. QED
    BY <2>1, <2>2 DEF OneTypeEach
<1>2. QED
  BY <1>1, Invariance, PTL

(* A spawned task has its type when it is created, whoever registered it,  *)
(* and the shutdown leaves the type until the callback has returned.       *)
THEOREM SpawnedTasksHaveTypes == TypesSpec => []SpawnedHasType
<1>1. IInv => SpawnedHasType
  <2> SUFFICES ASSUME IInv, NEW t \in Spawner, at[t] \in {"create", "created", "completed"}
               PROVE  types[InfoOf[t]] = 1
    BY DEF SpawnedHasType
  <2>1. t \in Awaited /\ Announced(InfoOf[t])
    BY DEF Awaited, Counted, Announced, Past, Thread
  <2>2. at[Runtime] = "running"
    BY <2>1 DEF IInv, TypesOK, Pending
  <2>3. QED
    BY <2>1, <2>2, TaskTypesAssumption DEF IInv, Ledger, Balanced, Entry, Thread
<1>2. QED
  BY <1>1, Invariance, PTL
=============================================================================
