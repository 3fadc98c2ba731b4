------------------------------ MODULE UserMutex ------------------------------
(***************************************************************************)
(* The mutex of "#pragma oss critical" (common/UserMutex.hpp and the user  *)
(* mutex API of system/TaskBlocking.cpp).  The first task that locks it    *)
(* allocates it, in the locked state, and publishes it in the handler; a   *)
(* task that finds it locked is queued and paused, and whoever unlocks it  *)
(* hands it over to the head of the queue without ever opening it.         *)
(*                                                                         *)
(* One action is one atomic operation on the handler or on _userMutex, or  *)
(* one critical section of _blockedTasksLock: inside it, _userMutex is     *)
(* changed once, and only tryLock touches it from outside.                 *)
(***************************************************************************)
EXTENDS Naturals, Sequences

CONSTANTS
  Task,
  NoMutex             (* the null handler; a mutex is named by the task    *)
                      (* that allocates it                                 *)

ASSUME UserMutexAssumption == NoMutex \notin Task

VARIABLES
  pc,                 (* where each task is                                *)
  handler,            (* *handlerPointer                                   *)
  userMutex,          (* UserMutex::_userMutex of each mutex               *)
  blockedTasks,       (* UserMutex::_blockedTasks of each mutex            *)
  releasedTask,       (* the local of nanos6_user_unlock                   *)
  permits             (* the tasks that were submitted while they pause    *)

vars == <<pc, handler, userMutex, blockedTasks, releasedTask, permits>>

Init ==
  /\ pc = [t \in Task |-> "idle"]
  /\ handler = NoMutex
  /\ userMutex = [m \in Task |-> FALSE]
  /\ blockedTasks = [m \in Task |-> <<>>]
  /\ releasedTask = [t \in Task |-> NoMutex]
  /\ permits = {}

-----------------------------------------------------------------------------
(* nanos6_user_lock.                                                       *)
Lock(t) ==
  /\ pc[t] = "idle"
  /\ pc' = [pc EXCEPT ![t] = IF handler = NoMutex THEN "publish" ELSE "try"]
  /\ userMutex' = IF handler = NoMutex THEN [userMutex EXCEPT ![t] = TRUE] ELSE userMutex
  /\ UNCHANGED <<handler, blockedTasks, releasedTask, permits>>

(* The compare and exchange of the handler; who loses deletes its mutex.   *)
Publish(t) ==
  /\ pc[t] = "publish"
  /\ IF handler = NoMutex
     THEN /\ handler' = t
          /\ pc' = [pc EXCEPT ![t] = "critical"]
          /\ UNCHANGED userMutex
     ELSE /\ userMutex' = [userMutex EXCEPT ![t] = FALSE]
          /\ pc' = [pc EXCEPT ![t] = "try"]
          /\ UNCHANGED handler
  /\ UNCHANGED <<blockedTasks, releasedTask, permits>>

TryLock(t) ==
  /\ pc[t] = "try"
  /\ userMutex' = [userMutex EXCEPT ![handler] = TRUE]
  /\ pc' = [pc EXCEPT ![t] = IF userMutex[handler] THEN "queue" ELSE "critical"]
  /\ UNCHANGED <<handler, blockedTasks, releasedTask, permits>>

(* Mutant: the lock is not tried again before the task is queued.          *)
QueueAlways(t) ==
  /\ pc[t] = "queue"
  /\ blockedTasks' = [blockedTasks EXCEPT ![handler] = Append(@, t)]
  /\ pc' = [pc EXCEPT ![t] = "paused"]
  /\ UNCHANGED <<handler, userMutex, releasedTask, permits>>

LockOrQueue(t) ==
  /\ pc[t] = "queue"
  /\ IF userMutex[handler]
     THEN /\ blockedTasks' = [blockedTasks EXCEPT ![handler] = Append(@, t)]
          /\ pc' = [pc EXCEPT ![t] = "paused"]
          /\ UNCHANGED userMutex
     ELSE /\ userMutex' = [userMutex EXCEPT ![handler] = TRUE]
          /\ pc' = [pc EXCEPT ![t] = "critical"]
          /\ UNCHANGED blockedTasks
  /\ UNCHANGED <<handler, releasedTask, permits>>

(* nosv_pause returns when the task was submitted, before or after it      *)
(* paused.                                                                 *)
Resume(t) ==
  /\ pc[t] = "paused"
  /\ t \in permits
  /\ permits' = permits \ {t}
  /\ pc' = [pc EXCEPT ![t] = "critical"]
  /\ UNCHANGED <<handler, userMutex, blockedTasks, releasedTask>>

-----------------------------------------------------------------------------
(* nanos6_user_unlock.  Mutant: the mutex is opened although it is handed  *)
(* over.                                                                   *)
DequeueAndUnlock(t) ==
  /\ pc[t] = "critical"
  /\ userMutex' = [userMutex EXCEPT ![handler] = FALSE]
  /\ IF blockedTasks[handler] = <<>>
     THEN /\ pc' = [pc EXCEPT ![t] = "idle"]
          /\ UNCHANGED <<blockedTasks, releasedTask>>
     ELSE /\ releasedTask' = [releasedTask EXCEPT ![t] = Head(blockedTasks[handler])]
          /\ blockedTasks' = [blockedTasks EXCEPT ![handler] = Tail(@)]
          /\ pc' = [pc EXCEPT ![t] = "submit"]
  /\ UNCHANGED <<handler, permits>>

DequeueOrUnlock(t) ==
  /\ pc[t] = "critical"
  /\ IF blockedTasks[handler] = <<>>
     THEN /\ userMutex' = [userMutex EXCEPT ![handler] = FALSE]
          /\ pc' = [pc EXCEPT ![t] = "idle"]
          /\ UNCHANGED <<blockedTasks, releasedTask>>
     ELSE /\ releasedTask' = [releasedTask EXCEPT ![t] = Head(blockedTasks[handler])]
          /\ blockedTasks' = [blockedTasks EXCEPT ![handler] = Tail(@)]
          /\ pc' = [pc EXCEPT ![t] = "submit"]
          /\ UNCHANGED userMutex
  /\ UNCHANGED <<handler, permits>>

SubmitReleased(t) ==
  /\ pc[t] = "submit"
  /\ permits' = permits \cup {releasedTask[t]}
  /\ releasedTask' = [releasedTask EXCEPT ![t] = NoMutex]
  /\ pc' = [pc EXCEPT ![t] = "idle"]
  /\ UNCHANGED <<handler, userMutex, blockedTasks>>

-----------------------------------------------------------------------------
Step(t) ==
  \/ Publish(t) \/ TryLock(t) \/ LockOrQueue(t) \/ Resume(t)
  \/ DequeueOrUnlock(t) \/ SubmitReleased(t)

Next == \E t \in Task : Lock(t) \/ Step(t)

Spec == Init /\ [][Next]_vars

(* A task that is in the API goes on, and a critical section ends; nobody  *)
(* has to lock.                                                            *)
FairSpec == Spec /\ \A t \in Task : WF_vars(Step(t))

-----------------------------------------------------------------------------
TypeOK ==
  /\ pc \in [Task -> {"idle", "publish", "try", "queue", "paused", "critical", "submit"}]
  /\ handler \in Task \cup {NoMutex}
  /\ userMutex \in [Task -> BOOLEAN]
  /\ blockedTasks \in [Task -> Seq(Task)]
  /\ releasedTask \in [Task -> Task \cup {NoMutex}]
  /\ permits \in SUBSET Task

(* A task owns the mutex from the moment it is handed over to it, before   *)
(* it is submitted.                                                        *)
HandedBy(u, t) == pc[u] = "submit" /\ releasedTask[u] = t
Owns(t) == pc[t] = "critical" \/ t \in permits \/ \E u \in Task : HandedBy(u, t)

(* There is one owner while the mutex is locked and none while it is open, *)
(* also while it changes hands and while two tasks race to allocate it.    *)
OneOwner ==
  /\ \A t, u \in Task : Owns(t) /\ Owns(u) => t = u
  /\ \A t \in Task : Owns(t) => handler # NoMutex /\ userMutex[handler]

(* Nobody is stranded in the queue: while a task is queued the mutex has   *)
(* an owner, who will dequeue it.                                          *)
NobodyStranded ==
  handler # NoMutex /\ (userMutex[handler] \/ blockedTasks[handler] # <<>>) =>
    \E t \in Task : Owns(t)

(* A task that owns the mutex without running is paused, and no longer     *)
(* queued; nobody is queued twice.                                         *)
QueuedTasks == {blockedTasks[handler][i] : i \in DOMAIN blockedTasks[handler]}

HandOver ==
  \A t \in Task :
    /\ Owns(t) => pc[t] \in {"paused", "critical"} /\ ~(pc[t] = "critical" /\ t \in permits)
    /\ handler # NoMutex => (t \in QueuedTasks <=> pc[t] = "paused" /\ ~Owns(t))

(* The mutex is a lock: what the tasks see of it.                          *)
Status ==
  [t \in Task |-> IF pc[t] = "critical" THEN "critical"
                  ELSE IF pc[t] \in {"idle", "submit"} THEN "idle" ELSE "waiting"]

Lockable == INSTANCE Mutex WITH Thread <- Task, status <- Status

ImplementsMutex == Lockable!Spec

(* Every task that locks gets the mutex, however often the others lock it  *)
(* again.                                                                  *)
EveryLockSucceeds == \A t \in Task : pc[t] = "try" ~> pc[t] = "critical"
=============================================================================
