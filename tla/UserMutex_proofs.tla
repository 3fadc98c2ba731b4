-------------------------- MODULE UserMutex_proofs --------------------------
(***************************************************************************)
(* For any set of tasks: the user mutex has one owner, nobody is stranded  *)
(* in its queue, and it implements Mutex.                                  *)
(*                                                                         *)
(* The invariant follows the one token of the mutex: it is with a task in  *)
(* its critical section, with a task that was submitted, or in the hands   *)
(* of a task that is about to submit another one.                          *)
(***************************************************************************)
EXTENDS UserMutex, TLAPS

Queue == blockedTasks[handler]

(* Who races to allocate holds a closed mutex of its own that nobody else  *)
(* sees; every other mutex but the published one is empty.                 *)
Allocation ==
  /\ \A t \in Task : pc[t] = "publish" => userMutex[t] /\ t # handler
  /\ \A m \in Task : m # handler => blockedTasks[m] = <<>>
  /\ handler = NoMutex => \A t \in Task : pc[t] \in {"idle", "publish"}

(* Where the token is: permits and hand-overs are for paused tasks, and    *)
(* there is one of them at most.                                           *)
Owners == {t \in Task : Owns(t)}

Token ==
  /\ permits = {} \/ \A u \in Task : pc[u] # "submit"
  /\ \A u, v \in Task : pc[u] = "submit" /\ pc[v] = "submit" => u = v
  /\ \A t \in permits : pc[t] = "paused"
  /\ \A u \in Task : pc[u] = "submit" => releasedTask[u] \in Task /\ pc[releasedTask[u]] = "paused"
  /\ \A t, u \in Owners : t = u
  /\ handler # NoMutex => (userMutex[handler] <=> Owners # {})

(* The queue holds every paused task that does not own the mutex, once,    *)
(* and only while somebody owns it.                                        *)
QueueOK(queue, paused, owners) ==
  /\ \A i, j \in 1 .. Len(queue) : queue[i] = queue[j] => i = j
  /\ \A i \in 1 .. Len(queue) : queue[i] \in paused \ owners
  /\ \A t \in paused \ owners : \E i \in 1 .. Len(queue) : queue[i] = t
  /\ queue # <<>> => owners # {}

Paused == {t \in Task : pc[t] = "paused"}
Queued == handler # NoMutex => QueueOK(Queue, Paused, Owners)

IInv == TypeOK /\ Allocation /\ Token /\ Queued

-----------------------------------------------------------------------------
(* A task joins the end of the queue.                                      *)
LEMMA AppendQueue ==
  ASSUME NEW s \in Seq(Task), NEW t \in Task
  PROVE  /\ Append(s, t) \in Seq(Task)
         /\ Len(Append(s, t)) = Len(s) + 1
         /\ \A i \in 1 .. Len(s) : Append(s, t)[i] = s[i]
         /\ Append(s, t)[Len(s) + 1] = t
  OBVIOUS

(* The head of the queue leaves it.                                       *)
LEMMA TailQueue ==
  ASSUME NEW s \in Seq(Task), s # <<>>
  PROVE  /\ Tail(s) \in Seq(Task)
         /\ Len(s) \in Nat /\ Len(s) >= 1
         /\ Head(s) = s[1] /\ Head(s) \in Task
         /\ Len(Tail(s)) = Len(s) - 1
         /\ \A i \in 1 .. Len(s) - 1 : Tail(s)[i] = s[i + 1]
  OBVIOUS

(* A paused task joins the queue.                                          *)
LEMMA QueueGrows ==
  ASSUME NEW queue \in Seq(Task), NEW paused, NEW owners, QueueOK(queue, paused, owners),
         NEW t \in Task, t \notin paused, t \notin owners, owners # {}
  PROVE  QueueOK(Append(queue, t), paused \cup {t}, owners)
<1> DEFINE new == Append(queue, t)
<1>1. /\ Len(new) = Len(queue) + 1 /\ Len(queue) \in Nat
      /\ \A i \in 1 .. Len(queue) : new[i] = queue[i]
      /\ new[Len(queue) + 1] = t
  BY AppendQueue
<1> HIDE DEF new
<1>2. \A i \in 1 .. Len(new) : (i \in 1 .. Len(queue) /\ new[i] = queue[i]) \/ (i = Len(new) /\ new[i] = t)
  BY <1>1
<1>3. \A i, j \in 1 .. Len(new) : new[i] = new[j] => i = j
  BY <1>2 DEF QueueOK
<1>4. \A i \in 1 .. Len(new) : new[i] \in (paused \cup {t}) \ owners
  BY <1>2 DEF QueueOK
<1>5. \A u \in (paused \cup {t}) \ owners : \E i \in 1 .. Len(new) : new[i] = u
  <2>1. Len(new) \in 1 .. Len(new) /\ new[Len(new)] = t
    BY <1>1
  <2>2. ASSUME NEW u \in paused \ owners PROVE \E i \in 1 .. Len(new) : new[i] = u
    <3>1. PICK i \in 1 .. Len(queue) : queue[i] = u
      BY DEF QueueOK
    <3>2. QED
      BY <1>1, <3>1
  <2>3. QED
    BY <2>1, <2>2
<1>6. QED
  BY <1>3, <1>4, <1>5 DEF QueueOK, new

(* The head of the queue is paused, and the rest is the queue of an owner  *)
(* that is the head.                                                       *)
LEMMA QueueShrinks ==
  ASSUME NEW queue \in Seq(Task), queue # <<>>, NEW paused, NEW owners,
         QueueOK(queue, paused, owners), \A x \in owners : x \notin paused
  PROVE  /\ Head(queue) \in paused \ owners
         /\ QueueOK(Tail(queue), paused, {Head(queue)})
<1> DEFINE h == Head(queue)
           new == Tail(queue)
<1>1. /\ Len(queue) \in Nat /\ Len(queue) >= 1 /\ h = queue[1] /\ Len(new) = Len(queue) - 1
      /\ \A i \in 1 .. Len(new) : i + 1 \in 1 .. Len(queue) /\ new[i] = queue[i + 1]
  BY TailQueue
<1> HIDE DEF h, new
<1>2. h \in paused \ owners
  BY <1>1 DEF QueueOK
<1>3. \A i, j \in 1 .. Len(new) : new[i] = new[j] => i = j
  BY <1>1 DEF QueueOK
<1>4. \A i \in 1 .. Len(new) : new[i] \in paused \ {h}
  BY <1>1 DEF QueueOK
<1>5. ASSUME NEW u \in paused \ {h} PROVE \E i \in 1 .. Len(new) : new[i] = u
  <2>1. PICK i \in 1 .. Len(queue) : queue[i] = u
    BY DEF QueueOK
  <2>2. i # 1 /\ i - 1 \in 1 .. Len(new) /\ new[i - 1] = queue[i]
    BY <1>1, <2>1
  <2>3. QED
    BY <2>1, <2>2
<1>6. QED
  BY <1>2, <1>3, <1>4, <1>5 DEF QueueOK, h, new

(* Who owns the mutex, by the places the token can be in.                  *)
LEMMA Ownership ==
  ASSUME IInv
  PROVE  /\ \A t \in Owners : pc[t] \in {"critical", "paused"}
         /\ handler = NoMutex => Owners = {} /\ permits = {} /\ Paused = {}
         /\ \A t \in Task : pc[t] = "critical" => Owners = {t} /\ permits = {}
         /\ \A t \in Task : pc[t] = "critical" => \A u \in Task : pc[u] # "submit"
<1>1. \A t \in Owners : pc[t] \in {"critical", "paused"}
  BY DEF IInv, TypeOK, Token, Owners, Owns, HandedBy
<1>2. handler = NoMutex => Owners = {} /\ permits = {} /\ Paused = {}
  BY DEF IInv, TypeOK, Allocation, Token, Owners, Owns, HandedBy, Paused
<1>3. \A t \in Task : pc[t] = "critical" => t \in Owners
  BY DEF Owners, Owns
<1>4. \A t \in Task : pc[t] = "critical" => Owners = {t}
  BY <1>3 DEF IInv, Token, Owners
<1>5. \A t \in permits : t \in Owners /\ pc[t] = "paused"
  BY DEF IInv, TypeOK, Token, Owners, Owns
<1>6. \A u \in Task : pc[u] = "submit" => releasedTask[u] \in Owners /\ pc[releasedTask[u]] = "paused"
  BY DEF IInv, TypeOK, Token, Owners, Owns, HandedBy
<1>7. \A t \in Task : pc[t] = "critical" => permits = {} /\ \A u \in Task : pc[u] # "submit"
  BY <1>4, <1>5, <1>6
<1>8. QED
  BY <1>1, <1>2, <1>4, <1>7

(* The program starts without a mutex.                                     *)
LEMMA InitInvariant == Init => IInv
<1> SUFFICES ASSUME Init PROVE IInv
  OBVIOUS
<1>1. TypeOK
  BY DEF Init, TypeOK
<1>2. Owners = {}
  BY DEF Init, Owners, Owns, HandedBy
<1>3. Allocation /\ Token /\ Queued
  BY <1>2 DEF Init, Allocation, Token, Queued
<1>4. QED
  BY <1>1, <1>3 DEF IInv

(* Nobody becomes an owner by asking for the mutex.                        *)
LEMMA LockInvariant ==
  ASSUME IInv, NEW t \in Task, Lock(t)
  PROVE  IInv'
<1>1. TypeOK'
  BY DEF IInv, TypeOK, Lock
<1>2. Owners' = Owners /\ Paused' = Paused /\ Queue' = Queue
  BY DEF IInv, TypeOK, Lock, Owners, Owns, HandedBy, Paused, Queue
<1>3. Allocation'
  BY UserMutexAssumption DEF IInv, TypeOK, Allocation, Token, Lock, Owners, Owns
<1>4. Token'
  BY <1>2, UserMutexAssumption DEF IInv, TypeOK, Allocation, Token, Lock
<1>5. Queued'
  BY <1>2 DEF IInv, Queued, Lock
<1>6. QED
  BY <1>1, <1>3, <1>4, <1>5 DEF IInv

(* While no mutex is published nobody owns one, and the one who publishes  *)
(* his is the owner.  Who loses the race opens a mutex nobody else sees.   *)
LEMMA PublishInvariant ==
  ASSUME IInv, NEW t \in Task, Publish(t)
  PROVE  IInv'
<1>1. TypeOK'
  BY DEF IInv, TypeOK, Publish
<1>2. CASE handler = NoMutex
  <2>1. Owners = {} /\ permits = {} /\ Paused = {}
    BY <1>2, Ownership
  <2>2. \A u \in Task : pc[u] \in {"idle", "publish"} /\ blockedTasks[u] = <<>>
    BY <1>2, UserMutexAssumption DEF IInv, Allocation
  <2>3. handler' = t /\ pc' = [pc EXCEPT ![t] = "critical"]
    BY <1>2 DEF Publish
  <2>4. Owners' = {t} /\ Paused' = {}
    BY <2>1, <2>2, <2>3 DEF IInv, TypeOK, Publish, Owners, Owns, HandedBy, Paused
  <2>5. Allocation'
    BY <1>2, <2>2, <2>3, UserMutexAssumption DEF IInv, TypeOK, Allocation, Publish
  <2>6. Token'
    BY <1>2, <2>1, <2>2, <2>3, <2>4 DEF IInv, TypeOK, Allocation, Token, Publish
  <2>7. Queued'
    <3>1. Queue' = <<>>
      BY <2>2, <2>3 DEF Publish, Queue
    <3>2. QED
      BY <2>4, <3>1 DEF Queued, QueueOK
  <2>8. QED
    BY <1>1, <2>5, <2>6, <2>7 DEF IInv
<1>3. CASE handler # NoMutex
  <2>1. Owners' = Owners /\ Paused' = Paused
    BY <1>3 DEF IInv, TypeOK, Publish, Owners, Owns, HandedBy, Paused
  <2>2. handler' = handler /\ userMutex'[handler] = userMutex[handler] /\ Queue' = Queue
    BY <1>3 DEF IInv, TypeOK, Allocation, Publish, Queue
  <2>3. Allocation'
    BY <1>3, <2>2 DEF IInv, TypeOK, Allocation, Publish
  <2>4. Token'
    BY ZenonT(60), <1>3, <2>1, <2>2 DEF IInv, TypeOK, Token, Publish
  <2>5. Queued'
    BY <2>1, <2>2 DEF IInv, Queued
  <2>6. QED
    BY <1>1, <2>3, <2>4, <2>5 DEF IInv
<1>4. QED
  BY <1>2, <1>3

(* An open mutex has no owner; tryLock makes the task the owner.           *)
LEMMA TryLockInvariant ==
  ASSUME IInv, NEW t \in Task, TryLock(t)
  PROVE  IInv'
<1>1. handler \in Task /\ handler # NoMutex /\ TypeOK'
  BY UserMutexAssumption DEF IInv, TypeOK, Allocation, TryLock
<1>2. Queue' = Queue /\ Paused' = Paused
  BY DEF IInv, TypeOK, TryLock, Paused, Queue
<1>3. Allocation'
  BY <1>1 DEF IInv, TypeOK, Allocation, TryLock
<1>4. CASE userMutex[handler]
  <2>1. Owners' = Owners
    BY <1>4 DEF IInv, TypeOK, TryLock, Owners, Owns, HandedBy
  <2>2. Token' /\ Queued'
    BY <1>1, <1>2, <1>4, <2>1 DEF IInv, TypeOK, Token, Queued, TryLock
  <2>3. QED
    BY <1>1, <1>3, <2>2 DEF IInv
<1>5. CASE ~userMutex[handler]
  <2>1. Owners = {}
    BY <1>1, <1>5 DEF IInv, Token
  <2>2. permits = {} /\ \A u \in Task : pc[u] # "submit"
    BY <2>1 DEF IInv, TypeOK, Token, Owners, Owns, HandedBy
  <2>3. Owners' = {t}
    BY <1>5, <2>1, <2>2 DEF IInv, TypeOK, TryLock, Owners, Owns, HandedBy
  <2>4. Token'
    BY <1>1, <1>5, <2>2, <2>3 DEF IInv, TypeOK, Token, TryLock
  <2>5. t \notin Paused
    BY DEF TryLock, Paused
  <2>6. Queued'
    BY <1>1, <1>2, <2>1, <2>3, <2>5 DEF IInv, Queued, QueueOK, TryLock
  <2>7. QED
    BY <1>1, <1>3, <2>4, <2>6 DEF IInv
<1>6. QED
  BY <1>4, <1>5

(* A task that finds the mutex closed goes to the end of the queue of      *)
(* somebody who owns it.                                                   *)
LEMMA LockOrQueueInvariant ==
  ASSUME IInv, NEW t \in Task, LockOrQueue(t)
  PROVE  IInv'
<1>1. handler \in Task /\ handler # NoMutex /\ Queue \in Seq(Task)
  BY UserMutexAssumption DEF IInv, TypeOK, Allocation, LockOrQueue, Queue
<1>2. pc[t] = "queue" /\ t \notin Paused /\ t \notin Owners
  BY Ownership DEF LockOrQueue, Paused
<1>3. Allocation'
  BY <1>1 DEF IInv, TypeOK, Allocation, LockOrQueue
<1>4. CASE userMutex[handler]
  <2>1. TypeOK' /\ Queue' = Append(Queue, t)
    <3>1. Append(Queue, t) \in Seq(Task)
      BY <1>1, AppendQueue
    <3>2. QED
      BY <1>1, <1>4, <3>1 DEF IInv, TypeOK, LockOrQueue, Queue
  <2>2. Owners' = Owners /\ Paused' = Paused \cup {t} /\ Owners # {}
    BY <1>1, <1>2, <1>4 DEF IInv, TypeOK, Token, LockOrQueue, Owners, Owns, HandedBy, Paused
  <2>3. Token'
    BY ZenonT(60), <1>1, <1>2, <1>4, <2>2 DEF IInv, TypeOK, Token, LockOrQueue
  <2>4. Queued'
    BY <1>1, <1>2, <2>1, <2>2, QueueGrows DEF IInv, Queued
  <2>5. QED
    BY <1>3, <2>1, <2>3, <2>4 DEF IInv
<1>5. CASE ~userMutex[handler]
  <2>1. Owners = {}
    BY <1>1, <1>5 DEF IInv, Token
  <2>2. permits = {} /\ \A u \in Task : pc[u] # "submit"
    BY <2>1 DEF IInv, TypeOK, Token, Owners, Owns, HandedBy
  <2>3. Owners' = {t} /\ Paused' = Paused /\ Queue' = Queue
    BY <1>5, <2>1, <2>2 DEF IInv, TypeOK, LockOrQueue, Owners, Owns, HandedBy, Paused, Queue
  <2>4. TypeOK' /\ Token'
    BY ZenonT(60), <1>1, <1>5, <2>2, <2>3 DEF IInv, TypeOK, Token, LockOrQueue
  <2>5. Queued'
    BY <1>1, <1>2, <2>1, <2>3 DEF IInv, Queued, QueueOK, LockOrQueue
  <2>6. QED
    BY <1>3, <2>4, <2>5 DEF IInv
<1>6. QED
  BY <1>4, <1>5

(* The submitted task was the owner already.                               *)
LEMMA ResumeInvariant ==
  ASSUME IInv, NEW t \in Task, Resume(t)
  PROVE  IInv'
<1>1. TypeOK'
  BY DEF IInv, TypeOK, Resume
<1>2. t \in Owners /\ Owners = {t} /\ permits = {t} /\ Paused' = Paused \ {t} /\ Queue' = Queue
  BY DEF IInv, TypeOK, Token, Resume, Owners, Owns, Paused, Queue
<1>3. \A u \in Task : pc[u] # "submit"
  BY <1>2 DEF IInv, Token
<1>4. Owners' = {t}
  BY <1>2, <1>3 DEF IInv, TypeOK, Resume, Owners, Owns, HandedBy
<1>5. Allocation'
  BY Ownership, <1>2 DEF IInv, TypeOK, Allocation, Resume
<1>6. Token'
  BY <1>2, <1>3, <1>4 DEF IInv, TypeOK, Token, Resume
<1>7. Queued'
  BY <1>2, <1>4 DEF IInv, Queued, QueueOK, Resume
<1>8. QED
  BY <1>1, <1>5, <1>6, <1>7 DEF IInv

(* The owner opens the mutex when the queue is empty; otherwise the head   *)
(* of the queue is the owner from now on, and the mutex stays closed.      *)
LEMMA DequeueOrUnlockInvariant ==
  ASSUME IInv, NEW t \in Task, DequeueOrUnlock(t)
  PROVE  IInv'
<1>1. /\ Owners = {t} /\ permits = {} /\ \A u \in Task : pc[u] # "submit"
      /\ pc[t] = "critical" /\ t \notin Paused
  BY Ownership DEF DequeueOrUnlock, Paused
<1>2. handler \in Task /\ handler # NoMutex /\ Queue \in Seq(Task) /\ userMutex[handler]
  BY <1>1, Ownership, UserMutexAssumption DEF IInv, TypeOK, Token, Queue
<1>3. CASE Queue = <<>>
  <2>1. TypeOK'
    BY <1>2, <1>3 DEF IInv, TypeOK, DequeueOrUnlock, Queue
  <2>2. Owners' = {} /\ Paused' = Paused /\ Queue' = Queue
    BY SMTT(30), <1>1, <1>3 DEF IInv, TypeOK, DequeueOrUnlock, Owners, Owns, HandedBy, Paused, Queue
  <2>3. Allocation'
    BY <1>2, <1>3 DEF IInv, TypeOK, Allocation, DequeueOrUnlock, Queue
  <2>4. Token'
    BY <1>1, <1>2, <1>3, <2>2 DEF IInv, TypeOK, Token, DequeueOrUnlock, Queue
  <2>5. Queued'
    BY <1>1, <1>2, <1>3, <2>2 DEF IInv, Queued, QueueOK, DequeueOrUnlock
  <2>6. QED
    BY <2>1, <2>3, <2>4, <2>5 DEF IInv
<1>4. CASE Queue # <<>>
  <2> DEFINE h == Head(Queue)
  <2>1. h \in Paused \ Owners /\ QueueOK(Tail(Queue), Paused, {h})
    <3>1. QueueOK(Queue, Paused, Owners) /\ \A x \in Owners : x \notin Paused
      BY <1>1, <1>2 DEF IInv, Queued
    <3>2. QED
      BY <1>2, <1>4, <3>1, QueueShrinks
  <2>2. h \in Task /\ pc[h] = "paused" /\ h # t /\ Tail(Queue) \in Seq(Task)
    BY <1>1, <1>2, <1>4, <2>1, TailQueue DEF Paused
  <2>3. /\ releasedTask' = [releasedTask EXCEPT ![t] = h]
        /\ blockedTasks' = [blockedTasks EXCEPT ![handler] = Tail(Queue)]
        /\ pc' = [pc EXCEPT ![t] = "submit"]
        /\ UNCHANGED <<userMutex, handler, permits>>
    BY <1>4 DEF DequeueOrUnlock, Queue
  <2> HIDE DEF h
  <2>4. TypeOK' /\ Queue' = Tail(Queue) /\ Paused' = Paused
    BY <1>1, <1>2, <2>2, <2>3 DEF IInv, TypeOK, Queue, Paused
  <2>5. Owners' = {h}
    BY <1>1, <2>2, <2>3 DEF IInv, TypeOK, Owners, Owns, HandedBy
  <2>6. Allocation'
    BY <1>2, <2>3 DEF IInv, TypeOK, Allocation
  <2>7. Token'
    BY <1>1, <1>2, <2>2, <2>3, <2>5 DEF IInv, TypeOK, Token
  <2>8. Queued'
    BY <2>1, <2>4, <2>5 DEF Queued
  <2>9. QED
    BY <2>4, <2>6, <2>7, <2>8 DEF IInv
<1>5. QED
  BY <1>3, <1>4

(* The task that was handed the mutex gets its permit.                     *)
LEMMA SubmitReleasedInvariant ==
  ASSUME IInv, NEW t \in Task, SubmitReleased(t)
  PROVE  IInv'
<1>1. /\ pc[t] = "submit" /\ releasedTask[t] \in Task /\ pc[releasedTask[t]] = "paused"
      /\ permits = {} /\ \A u \in Task : pc[u] = "submit" => u = t
  BY DEF IInv, Token, SubmitReleased
<1>2. Owners = {releasedTask[t]} /\ handler # NoMutex
  <2>1. releasedTask[t] \in Owners
    BY <1>1 DEF Owners, Owns, HandedBy
  <2>2. QED
    BY <2>1, Ownership DEF IInv, Token
<1>3. TypeOK'
  BY <1>1 DEF IInv, TypeOK, SubmitReleased
<1>4. Owners' = Owners /\ Paused' = Paused /\ Queue' = Queue
  <2>1. \A u \in Task : pc[u] # "critical"
    BY <1>1, Ownership
  <2>2. Owners' = {releasedTask[t]}
    BY <1>1, <2>1 DEF IInv, TypeOK, SubmitReleased, Owners, Owns, HandedBy
  <2>3. QED
    BY <1>1, <1>2, <2>2 DEF IInv, TypeOK, SubmitReleased, Paused, Queue
<1>5. Allocation'
  BY <1>2 DEF IInv, TypeOK, Allocation, SubmitReleased
<1>6. Token'
  BY <1>1, <1>2, <1>4 DEF IInv, TypeOK, Token, SubmitReleased
<1>7. Queued'
  BY <1>4 DEF IInv, Queued, SubmitReleased
<1>8. QED
  BY <1>3, <1>5, <1>6, <1>7 DEF IInv

-----------------------------------------------------------------------------
(* The invariant holds in every reachable state.                           *)
THEOREM Inductive == Spec => []IInv
<1>1. IInv /\ [Next]_vars => IInv'
  <2> SUFFICES ASSUME IInv, [Next]_vars PROVE IInv'
    OBVIOUS
  <2>1. CASE UNCHANGED vars
    BY <2>1 DEF vars, IInv, TypeOK, Allocation, Token, Queued, Queue, Paused, Owners, Owns, HandedBy
  <2>2. ASSUME NEW t \in Task, Lock(t) \/ Step(t) PROVE IInv'
    BY <2>2, LockInvariant, PublishInvariant, TryLockInvariant, LockOrQueueInvariant,
       ResumeInvariant, DequeueOrUnlockInvariant, SubmitReleasedInvariant DEF Step
  <2>3. QED
    BY <2>1, <2>2 DEF Next
<1>2. QED
  BY InitInvariant, <1>1, PTL DEF Spec

(* The state of the mutex is type-correct.                                 *)
THEOREM TypeCorrect == Spec => []TypeOK
  BY Inductive, PTL DEF IInv

(* The mutex has one owner while it is locked, and none while it is open,  *)
(* also while it is handed over and while it is allocated twice.           *)
THEOREM OneOwnerHolds == Spec => []OneOwner
<1>1. IInv => OneOwner
  BY Ownership DEF IInv, Token, OneOwner, Owners
<1>2. QED
  BY Inductive, <1>1, PTL

(* A task in the queue has an owner to wait for.                           *)
THEOREM NobodyIsStranded == Spec => []NobodyStranded
<1>1. IInv => NobodyStranded
  BY DEF IInv, Token, Queued, QueueOK, Queue, NobodyStranded, Owners
<1>2. QED
  BY Inductive, <1>1, PTL

(* The queue holds the tasks that pause without owning the mutex, and they *)
(* alone; an owner is paused or in its critical section.                   *)
THEOREM HandOverIsExact == Spec => []HandOver
<1>1. ASSUME IInv, NEW t \in Task, Owns(t)
      PROVE  pc[t] \in {"paused", "critical"} /\ ~(pc[t] = "critical" /\ t \in permits)
  BY <1>1, Ownership DEF Owners
<1>2. ASSUME IInv, NEW t \in Task, handler # NoMutex
      PROVE  t \in QueuedTasks <=> pc[t] = "paused" /\ ~Owns(t)
  <2>1. QueuedTasks = {Queue[i] : i \in 1 .. Len(Queue)}
    BY <1>2, UserMutexAssumption DEF IInv, TypeOK, QueuedTasks, Queue
  <2>2. QueueOK(Queue, Paused, Owners)
    BY <1>2 DEF IInv, Queued
  <2>3. t \in QueuedTasks <=> t \in Paused \ Owners
    BY <2>1, <2>2 DEF QueueOK
  <2>4. QED
    BY <2>3 DEF Paused, Owners
<1>3. IInv => HandOver
  BY <1>1, <1>2 DEF HandOver
<1>4. QED
  BY Inductive, <1>3, PTL

-----------------------------------------------------------------------------
(* The user mutex is a mutex: a task enters the critical section only when *)
(* nobody is in it, by locking it or by being handed it.                   *)
THEOREM MutexIsImplemented == Spec => ImplementsMutex
<1>1. Init => Lockable!Init
  BY DEF Init, Status, Lockable!Init
<1>2. IInv /\ [Next]_vars => [Lockable!Next]_Status
  <2> SUFFICES ASSUME IInv, [Next]_vars PROVE [Lockable!Next]_Status
    OBVIOUS
  <2> USE DEF IInv, TypeOK, Status
  <2>1. CASE UNCHANGED vars
    BY <2>1 DEF vars
  <2>2. ASSUME NEW t \in Task, Lock(t) PROVE Lockable!Request(t)
    BY <2>2 DEF Lock, Lockable!Request
  <2>3. ASSUME NEW t \in Task, Publish(t) \/ TryLock(t) \/ LockOrQueue(t) \/ Resume(t)
        PROVE  Lockable!Enter(t) \/ Status' = Status
    <3>1. CASE pc'[t] = "critical"
      <4>1. \A u \in Task : pc[u] # "critical"
        <5>1. CASE Publish(t)
          BY <3>1, <5>1, UserMutexAssumption DEF Publish, Allocation
        <5>2. CASE TryLock(t) \/ LockOrQueue(t)
          <6>1. handler # NoMutex /\ ~userMutex[handler]
            BY <3>1, <5>2 DEF TryLock, LockOrQueue, Allocation
          <6>2. QED
            BY <6>1 DEF Token, Owners, Owns
        <5>3. CASE Resume(t)
          BY <5>3, Ownership DEF Resume
        <5>4. QED
          BY <2>3, <5>1, <5>2, <5>3
      <4>2. QED
        BY <2>3, <3>1, <4>1 DEF Publish, TryLock, LockOrQueue, Resume, Lockable!Enter
    <3>2. CASE pc'[t] # "critical"
      BY <2>3, <3>2 DEF Publish, TryLock, LockOrQueue, Resume
    <3>3. QED
      BY <3>1, <3>2
  <2>4. ASSUME NEW t \in Task, DequeueOrUnlock(t) PROVE Lockable!Leave(t)
    BY <2>4 DEF DequeueOrUnlock, Lockable!Leave
  <2>5. ASSUME NEW t \in Task, SubmitReleased(t) PROVE Status' = Status
    BY <2>5 DEF SubmitReleased
  <2>6. QED
    BY <2>1, <2>2, <2>3, <2>4, <2>5 DEF Next, Step, Lockable!Next
<1>3. QED
  BY Inductive, <1>1, <1>2, PTL DEF Spec, ImplementsMutex, Lockable!Spec
=============================================================================
