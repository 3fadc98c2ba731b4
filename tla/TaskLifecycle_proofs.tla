------------------------ MODULE TaskLifecycle_proofs ------------------------
(***************************************************************************)
(* For any tree of tasks: the counters of TaskMetadata never underflow, a  *)
(* taskwait and a wait clause wait for every descendant, the dependencies  *)
(* of a task are released once, and nobody uses a task that was freed.     *)
(*                                                                         *)
(* A task is "passed" when its subtree is no longer counted in its parent. *)
(* The invariant is what each of the two counters counts, who may be at a  *)
(* task in the loop of taskFinished, and what a permit of a task stands    *)
(* for.                                                                    *)
(***************************************************************************)
EXTENDS TaskLifecycle, FiniteSetTheorems, TLAPS

Early   == {"none", "dependent", "registered", "submitted"}
Creates == {"ready", "notReady", "inline", "waitIf0"}
Waits   == {"blocking", "suspending", "paused", "unblocking"}
Sleeps  == {"suspending", "paused"}
Climb   == {"climbing", "up", "finishAncestor", "removeAncestor"}
Over    == Climb \cup {"removing", "done"}
Ended   == {"delaying", "undelaying", "detached", "release", "finishing"} \cup Over

Pc == Early \cup InBody \cup {"ended"} \cup Ended

TypesOK ==
  /\ program \in DOMAIN Programs
  /\ pc \in [Task -> Pc] /\ ip \in [Task -> Nat \ {0}] /\ cur \in [Task -> Task \cup {NoTask}]
  /\ wakeUp \in [Task -> Int] /\ removal \in [Task -> Int]
  /\ finished \in [Task -> BOOLEAN] /\ delayed \in [Task -> BOOLEAN]
  /\ inlined \in [Task -> BOOLEAN] /\ linked \in [Task -> BOOLEAN]
  /\ events \in [Task -> Nat] /\ permits \in [Task -> Int] /\ releases \in [Task -> Int]
  /\ disposal \in [Task -> {"none", "due", "dropped", "freed", "destroyed"}]
  /\ disposable \in [Task -> BOOLEAN]
  /\ pendingSpawned \in Int /\ shutdown \in BOOLEAN

(* How far the body of a task is, and which tasks it has named.            *)
HasCreated(p, i) == i < ip[p] \/ (i = ip[p] /\ pc[p] \in Creates)

Named ==
  \A p \in Task : \A i \in DOMAIN Body[p] :
    /\ Body[p][i][1] = "create" /\ pc[Body[p][i][2]] # "none" => HasCreated(p, i)
    /\ Body[p][i][1] = "spawn" /\ pc[Body[p][i][2]] # "none" => i < ip[p]

ReachedAt(p) ==
  /\ pc[p] \in Early => ip[p] = 1
  /\ pc[p] \in Creates =>
       /\ ip[p] \in DOMAIN Body[p] /\ Op(p)[1] = "create" /\ pc[Subject(p)] # "none"
       /\ pc[p] = "ready" => pc[Subject(p)] = "registered"
       /\ pc[p] \in {"inline", "waitIf0"} => Subject(p) \in If0
  /\ pc[p] \in Waits => ip[p] \in DOMAIN Body[p] /\ Op(p)[1] = "taskwait"
  /\ pc[p] = "blocked" => ip[p] \in DOMAIN Body[p] /\ Op(p)[1] = "block"
  /\ pc[p] = "suspending" => p \in Coroutines
  /\ linked[p] => pc[p] # "none"

Reached == \A p \in Task : ReachedAt(p)

Flow == Named /\ Reached /\ pc[Main] # "none"

(* The thread of t is at task a in the loop of taskFinished.               *)
At(t, a) == pc[t] \in Climb /\ cur[t] = a

FlagsAt(t) ==
  /\ finished[t] <=> pc[t] \in Ended
  /\ pc[t] \in Early \cup InBody \cup {"ended", "delaying", "undelaying"} =>
       (delayed[t] <=> t \in Delayed) /\ releases[t] = 0
  /\ pc[t] \in {"delaying", "undelaying"} => delayed[t]
  /\ pc[t] \in {"release", "finishing"} \cup Over => ~delayed[t]
  /\ pc[t] = "release" => releases[t] = 0
  /\ pc[t] \in {"finishing"} \cup Over => releases[t] = 1

(* The release of a task that waits for its children is done by one of the *)
(* climbers.                                                               *)
ReleaseAt(t) ==
  pc[t] = "detached" =>
    \/ delayed[t] /\ releases[t] = 0 /\ \A u \in Task : At(u, t) => pc[u] = "climbing"
    \/ /\ ~delayed[t] /\ releases[t] = 1
       /\ \E u \in Task : At(u, t) /\ pc[u] \in {"finishAncestor", "removeAncestor"}

Flags == \A t \in Task : FlagsAt(t) /\ ReleaseAt(t)

(* Who took the counter of a task to zero is alone there, and the task     *)
(* sleeps or is over.                                                      *)
Climbers ==
  /\ \A t \in Task : pc[t] \in Climb => cur[t] \in Task
  /\ \A t \in Task : pc[t] \in Climb /\ cur[t] = t => pc[t] \in {"climbing", "up"} /\ wakeUp[t] = 0
  /\ \A t \in Task : pc[t] \in Climb /\ cur[t] # t =>
       /\ wakeUp[cur[t]] = IF pc[t] = "finishAncestor" THEN 1 ELSE 0
       /\ pc[t] = "climbing" => pc[cur[t]] \in Sleeps \cup {"detached"} \cup Over
       /\ pc[t] = "up" => pc[cur[t]] \in Over
       /\ pc[t] \in {"finishAncestor", "removeAncestor"} =>
            pc[cur[t]] = "detached" /\ ~delayed[cur[t]]
  /\ \A t, u \in Task : pc[t] \in Climb /\ pc[u] \in Climb /\ cur[t] = cur[u] => t = u

(* _countdownToBeWokenUp counts the task itself while it does not wait, and*)
(* its children that have not passed.                                      *)
Kids(a) == {c \in Task : Parent[c] = a /\ pc[c] # "none"}
Passed(c) == pc[c] \in Over /\ wakeUp[c] = 0 /\ \A t \in Task : ~At(t, c)
Counted(a) == {c \in Kids(a) : ~Passed(c)}
Itself(a) ==
  IF \/ pc[a] \in Sleeps \cup {"unblocking", "undelaying"} \cup Over
     \/ pc[a] = "detached" /\ \A t \in Task : At(t, a) => pc[t] # "finishAncestor"
  THEN 0 ELSE 1

WakeAt(a) == wakeUp[a] = Itself(a) + Cardinality(Counted(a))
Awake(a) ==
  /\ pc[a] \in {"unblocking", "undelaying"} => wakeUp[a] = 0 /\ \A t \in Task : ~At(t, a)
  /\ a \in Delayed /\ pc[a] = "release" => wakeUp[a] = 1

WakeUpCounts == \A a \in Task : WakeAt(a) /\ Awake(a)

(* _removalCount counts the task itself, its accesses, and its children    *)
(* that are not disposed of.                                               *)
Undisposed(a) == {c \in Kids(a) : disposal[c] \in {"none", "due"}}
Share(b) == IF b THEN 1 ELSE 0

RemovalAt(a) ==
  removal[a] = Share(pc[a] # "done") + Share(linked[a]) + Cardinality(Undisposed(a))

RemovalCounts == \A a \in Task : RemovalAt(a)

Dropping(c) == disposable[c] /\ disposal[c] \in {"dropped", "freed"}
Disposals ==
  /\ \A a \in Task : disposal[a] # "none" => removal[a] = 0
  /\ \A c \in Task : disposable[c] => Parent[c] \in Task /\ removal[Parent[c]] = 0
  /\ \A c \in Task : Dropping(c) => disposal[Parent[c]] = "none"
  /\ \A c, d \in Task : Dropping(c) /\ Dropping(d) /\ Parent[c] = Parent[d] => c = d
  /\ \A c \in Task : disposable[c] => disposal[c] \notin {"none", "due"}

(* From the task of a thread to where it is in the loop of taskFinished    *)
(* nobody is disposed of: each task on the way has a child on it.          *)
Path(t, S) ==
  /\ t \in S /\ cur[t] \in S
  /\ \A s \in S : /\ pc[s] # "none" /\ disposal[s] = "none"
                  /\ s # t => \E c \in S : Parent[c] = s
Paths == \A t \in Task : pc[t] \in Climb => \E S \in SUBSET Task : Path(t, S)

Pending(s) == s \in Spawned /\ pc[s] # "none" /\ disposal[s] \notin {"freed", "destroyed"}
PendingCounts == pendingSpawned = Cardinality({s \in Task : Pending(s)})

(* What a permit stands for: somebody unblocked the task, its children     *)
(* have passed, or the if0 task it waits for has ended.                    *)
Unblocked(a) ==
  \E p \in Task : \E i \in DOMAIN Body[p] : i < ip[p] /\ Body[p][i] = <<"unblock", a>>

BlocksAt(a) ==
  /\ Unblocked(a) => HasPassed(a, "context")
  /\ HasPassed(a, "block") => Unblocked(a)
  /\ pc[a] = "blocked" => HasPassed(a, "context")

PermitAt(a) ==
  IF AboutToBlock(a)
  THEN permits[a] = Share(Unblocked(a)) /\ pc[a] \notin Waits \cup {"inline", "waitIf0"}
  ELSE /\ permits[a] \in {0, 1}
       /\ permits[a] = 1 => pc[a] \in Sleeps \cup {"waitIf0"}
       /\ permits[a] = 1 /\ pc[a] \in Sleeps => wakeUp[a] = 0 /\ \A t \in Task : ~At(t, a)
       /\ permits[a] = 1 /\ pc[a] = "waitIf0" => pc[Subject(a)] \notin Early \cup InBody

InlinedAt(c) ==
  ~inlined[c] =>
    /\ c \in If0
    /\ pc[c] \in Early \cup InBody =>
         /\ Parent[c] \in Task /\ pc[Parent[c]] = "waitIf0"
         /\ Subject(Parent[c]) = c /\ permits[Parent[c]] = 0

Permits == \A a \in Task : BlocksAt(a) /\ PermitAt(a) /\ InlinedAt(a)

IInv ==
  /\ PairedWakeUps
  /\ TypesOK /\ Flow /\ Flags /\ Climbers /\ WakeUpCounts
  /\ RemovalCounts /\ Disposals /\ Paths /\ PendingCounts /\ Permits

-----------------------------------------------------------------------------
(* The program.                                                            *)

LEMMA OpType ==
  ASSUME TypesOK, NEW p \in Task, NEW i \in DOMAIN Body[p]
  PROVE  /\ i \in Nat \ {0} /\ Body[p][i][2] \in Task
         /\ Body[p][i] = <<Body[p][i][1], Body[p][i][2]>>
         /\ Len(Body[p]) \in Nat /\ (i \in 1..Len(Body[p]))
<1>1. Body[p] \in Seq({"create", "spawn", "taskwait", "event", "context", "block", "unblock"} \X Task)
  BY LifecycleAssumption DEF TypesOK, Body
<1>2. QED
  BY <1>1

(* A created task has one creator.                                         *)
LEMMA CreatedBy ==
  ASSUME TypesOK, NEW p \in Task, NEW i \in DOMAIN Body[p], Body[p][i][1] = "create"
  PROVE  LET c == Body[p][i][2]
         IN  /\ c \in Task /\ Parent[c] = p /\ c # Main /\ c \notin Spawned
             /\ \A q \in Task : \A j \in DOMAIN Body[q] :
                  Body[q][j][1] \in {"create", "spawn"} /\ Body[q][j][2] = c => q = p /\ j = i
<1> DEFINE c == Body[p][i][2]
<1>1. c \in Task /\ Body[p][i] = <<"create", c>>
  BY OpType
<1>2. c # Main /\ \A q \in Task : \A j \in DOMAIN Body[q] :
         Body[q][j][1] \in {"create", "spawn"} /\ Body[q][j][2] = c => q = p /\ j = i
  BY OneCallEach DEF TypesOK, Body
<1>3. Does(program, "create", p, c)
  BY <1>1 DEF Does, Body
<1>4. \A q \in Task : Does(program, "create", q, c) => q = p
  BY <1>2 DEF Does, Body
<1>5. Parent[c] = p
  BY <1>1, <1>3, <1>4 DEF Parent, ParentIn, TypesOK
<1>6. c \notin Spawned
  BY <1>1, <1>2 DEF Spawned, SpawnedIn, Does, Body, TypesOK
<1>7. QED
  BY <1>1, <1>2, <1>5, <1>6

LEMMA ParentType ==
  ASSUME TypesOK, NEW c \in Task
  PROVE  /\ Parent[c] \in Task \cup {NoTask}
         /\ Parent[c] \in Task => \E i \in DOMAIN Body[Parent[c]] : Body[Parent[c]][i] = <<"create", c>>
<1>1. CASE \E t \in Task : Does(program, "create", t, c)
  <2>1. Parent[c] \in Task /\ Does(program, "create", Parent[c], c)
    BY <1>1 DEF Parent, ParentIn, TypesOK
  <2>2. QED
    BY <2>1 DEF Does, Body
<1>2. CASE ~ \E t \in Task : Does(program, "create", t, c)
  BY <1>2, LifecycleAssumption DEF Parent, ParentIn, TypesOK
<1>3. QED
  BY <1>1, <1>2

(* Nobody spawned is the child of a task.                                  *)
LEMMA SpawnedBy ==
  ASSUME TypesOK, NEW p \in Task, NEW i \in DOMAIN Body[p], Body[p][i][1] = "spawn"
  PROVE  LET c == Body[p][i][2]
         IN  /\ c \in Task /\ Parent[c] = NoTask /\ c # Main /\ c \in Spawned
             /\ \A q \in Task : \A j \in DOMAIN Body[q] :
                  Body[q][j][1] \in {"create", "spawn"} /\ Body[q][j][2] = c => q = p /\ j = i
<1> DEFINE c == Body[p][i][2]
<1>1. c \in Task /\ Body[p][i] = <<"spawn", c>>
  BY OpType
<1>2. c # Main /\ \A q \in Task : \A j \in DOMAIN Body[q] :
         Body[q][j][1] \in {"create", "spawn"} /\ Body[q][j][2] = c => q = p /\ j = i
  BY OneCallEach DEF TypesOK, Body
<1>3. \A q \in Task : ~Does(program, "create", q, c)
  BY <1>1, <1>2 DEF Does, Body
<1>4. Parent[c] = NoTask
  BY <1>1, <1>3 DEF Parent, ParentIn, TypesOK
<1>5. c \in Spawned
  BY <1>1 DEF Spawned, SpawnedIn, Does, Body, TypesOK
<1>6. QED
  BY <1>1, <1>2, <1>4, <1>5

LEMMA MainHasNoParent ==
  ASSUME TypesOK PROVE Parent[Main] = NoTask /\ Main \in Spawned
<1>1. \A t \in Task : ~Does(program, "create", t, Main)
  BY CreatedBy DEF Does, Body
<1>2. QED
  BY <1>1, LifecycleAssumption DEF Parent, ParentIn, Spawned, SpawnedIn, TypesOK

(* What the operation of a running task names was not named before.        *)
LEMMA AtCreate ==
  ASSUME TypesOK, Flow, NEW p \in Task, AtOp(p, "create")
  PROVE  LET c == Subject(p)
         IN  /\ c \in Task /\ Parent[c] = p /\ c # Main /\ c \notin Spawned
             /\ pc[c] = "none" /\ c # p /\ ip[p] \in DOMAIN Body[p] /\ ip[p] \in Nat \ {0}
<1> DEFINE c == Subject(p)
<1>1. ip[p] \in DOMAIN Body[p] /\ Body[p][ip[p]][1] = "create" /\ Body[p][ip[p]][2] = c
      /\ pc[p] = "body" /\ ip[p] \in Nat \ {0}
  BY DEF AtOp, Op, Subject, TypesOK
<1>2. c \in Task /\ Parent[c] = p /\ c # Main /\ c \notin Spawned
  BY <1>1, CreatedBy
<1>3. ~HasCreated(p, ip[p])
  BY <1>1 DEF HasCreated, Creates
<1>4. pc[c] = "none"
  BY <1>1, <1>3 DEF Flow, Named
<1>5. QED
  BY <1>1, <1>2, <1>4

LEMMA AtSpawn ==
  ASSUME TypesOK, Flow, NEW p \in Task, AtOp(p, "spawn")
  PROVE  LET c == Subject(p)
         IN  /\ c \in Task /\ Parent[c] = NoTask /\ c # Main /\ c \in Spawned
             /\ pc[c] = "none" /\ c # p /\ ip[p] \in DOMAIN Body[p] /\ ip[p] \in Nat \ {0}
<1> DEFINE c == Subject(p)
<1>1. ip[p] \in DOMAIN Body[p] /\ Body[p][ip[p]][1] = "spawn" /\ Body[p][ip[p]][2] = c
      /\ pc[p] = "body" /\ ip[p] \in Nat \ {0}
  BY DEF AtOp, Op, Subject, TypesOK
<1>2. c \in Task /\ Parent[c] = NoTask /\ c # Main /\ c \in Spawned
  BY <1>1, SpawnedBy
<1>3. pc[c] = "none"
  BY <1>1 DEF Flow, Named
<1>4. QED
  BY <1>1, <1>2, <1>3

(* The task that a task is creating is its child.                          *)
LEMMA InCreate ==
  ASSUME TypesOK, Flow, NEW p \in Task, pc[p] \in Creates
  PROVE  LET c == Subject(p)
         IN  /\ c \in Task /\ Parent[c] = p /\ c # Main /\ c \notin Spawned
             /\ ip[p] \in DOMAIN Body[p] /\ ip[p] \in Nat \ {0}
<1>1. ip[p] \in DOMAIN Body[p] /\ Body[p][ip[p]][1] = "create" /\ ip[p] \in Nat \ {0}
  BY DEF Flow, Reached, ReachedAt, Op, TypesOK
<1>2. QED
  BY <1>1, CreatedBy DEF Subject, Op

LEMMA AtAny ==
  ASSUME TypesOK, NEW p \in Task, NEW op, AtOp(p, op)
  PROVE  /\ pc[p] = "body" /\ ip[p] \in DOMAIN Body[p] /\ ip[p] \in Nat \ {0}
         /\ Subject(p) \in Task /\ Op(p) = <<op, Subject(p)>>
<1>1. ip[p] \in DOMAIN Body[p] /\ Op(p)[1] = op /\ pc[p] = "body" /\ ip[p] \in Nat \ {0}
  BY DEF AtOp, TypesOK
<1>2. QED
  BY <1>1, OpType DEF Op, Subject

(* The parent of a task that was created has started.                      *)
LEMMA ParentRuns ==
  ASSUME TypesOK, Flow, NEW c \in Task, pc[c] # "none", Parent[c] # NoTask
  PROVE  Parent[c] \in Task /\ pc[Parent[c]] \in Pc \ Early
<1> DEFINE p == Parent[c]
<1>1. p \in Task
  BY ParentType
<1>2. PICK i \in DOMAIN Body[p] : Body[p][i] = <<"create", c>>
  BY <1>1, ParentType
<1>3. HasCreated(p, i) /\ i \in Nat \ {0}
  BY <1>1, <1>2, OpType DEF Flow, Named
<1>4. pc[p] \in Pc /\ ip[p] \in Nat
  BY <1>1 DEF TypesOK
<1>5. pc[p] \notin Early
  BY <1>1, <1>3, <1>4 DEF Flow, Reached, ReachedAt, HasCreated, Creates, Early
<1>6. QED
  BY <1>1, <1>4, <1>5

LEMMA SameProgram ==
  ASSUME program' = program
  PROVE  /\ Body' = Body /\ Delayed' = Delayed /\ WithAccesses' = WithAccesses /\ If0' = If0
         /\ Coroutines' = Coroutines /\ Parent' = Parent /\ Spawned' = Spawned
  BY DEF Body, Delayed, WithAccesses, If0, Coroutines, Parent, Spawned

LEMMA SubmitCreatorType ==
  ASSUME TypesOK, NEW t \in Task, SubmitCreator(t)
  PROVE  permits' \in [Task -> Int]
<1>1. CASE inlined[t] \/ Parent[t] \notin Task
  BY <1>1 DEF SubmitCreator, TypesOK
<1>2. CASE ~inlined[t] /\ Parent[t] \in Task
  BY <1>2 DEF SubmitCreator, TypesOK
<1>3. QED
  BY <1>1, <1>2

(* Every step keeps the types.                                             *)
LEMMA TypesStep ==
  ASSUME TypesOK, Flow, Climbers, [Next]_vars
  PROVE  TypesOK'
<1> USE DEF TypesOK, Pc, Early, InBody, Ended, Over, Climb, counters, flags, external, accesses,
    disposeVars
<1>1. \A t \in Task : pc[t] \in Climb => cur[t] \in Task
  BY DEF Climbers
<1>2. ASSUME NEW t \in Task, Run(t) PROVE TypesOK'
  <2> program' = program
    BY <1>2 DEF Run
  <2>1. CASE SubmitTask(t)
    BY <2>1, AtCreate DEF SubmitTask, AddChild
  <2>2. CASE SubmitReady(t)
    BY <2>2, InCreate DEF SubmitReady, Creates
  <2>3. CASE InlineReturns(t)
    BY <2>3, InCreate DEF InlineReturns, Creates
  <2>4. CASE SubmitNotReady(t)
    <3>1. Subject(t) \in Task
      BY <2>4, InCreate DEF SubmitNotReady, Creates
    <3>2. CASE Subject(t) \in If0
      BY <2>4, <3>1, <3>2 DEF SubmitNotReady
    <3>3. CASE Subject(t) \notin If0
      BY <2>4, <3>3 DEF SubmitNotReady
    <3>4. QED
      BY <3>2, <3>3
  <2>5. CASE If0Returns(t)
    BY <2>5, InCreate DEF If0Returns, Creates
  <2>6. CASE Spawn(t)
    BY <2>6, AtSpawn DEF Spawn
  <2>7. CASE StartTask(t)
    BY <2>7 DEF StartTask
  <2>8. CASE IncreaseEvents(t)
    BY <2>8, AtAny DEF IncreaseEvents
  <2>9. CASE EnterTaskwait(t)
    BY <2>9, AtAny DEF EnterTaskwait
  <2>10. CASE MarkAsBlocked(t)
    BY <2>10 DEF MarkAsBlocked
  <2>11. CASE SuspendCoroutine(t)
    BY <2>11, SubmitCreatorType DEF SuspendCoroutine
  <2>12. CASE Resume(t)
    BY <2>12 DEF Resume
  <2>13. CASE MarkAsUnblocked(t)
    BY <2>13 DEF MarkAsUnblocked
  <2>14. CASE GetBlockingContext(t)
    BY <2>14, AtAny DEF GetBlockingContext
  <2>15. CASE BlockCurrentTask(t)
    BY <2>15, AtAny DEF BlockCurrentTask
  <2>16. CASE ReturnFromBlock(t)
    BY <2>16 DEF ReturnFromBlock
  <2>17. CASE UnblockTask(t)
    BY <2>17, AtAny DEF UnblockTask
  <2>18. CASE EndBody(t)
    BY <2>18, SubmitCreatorType DEF EndBody
  <2>19. QED
    BY <1>2, <2>1, <2>2, <2>3, <2>4, <2>5, <2>6, <2>7, <2>8, <2>9, <2>10, <2>11, <2>12, <2>13,
        <2>14, <2>15, <2>16, <2>17, <2>18 DEF Run
<1>3. ASSUME NEW t \in Task, Complete(t) PROVE TypesOK'
  <2> program' = program
    BY <1>3 DEF Complete
  <2>1. CASE MarkAsFinished(t)
    BY <2>1 DEF MarkAsFinished
  <2>2. CASE DelayRelease(t)
    BY <2>2 DEF DelayRelease
  <2>3. CASE CompleteDelayedRelease(t)
    BY <2>3 DEF CompleteDelayedRelease
  <2>4. CASE ReleaseDependencies(t)
    BY <2>4 DEF ReleaseDependencies
  <2>5. CASE FinishSelf(t)
    BY <2>5 DEF FinishSelf
  <2>6. CASE WakeAncestor(t)
    BY <2>6, <1>1 DEF WakeAncestor
  <2>7. CASE PassFinished(t)
    BY <2>7 DEF PassFinished
  <2>8. CASE ReleaseAncestor(t)
    BY <2>8, <1>1 DEF ReleaseAncestor
  <2>9. CASE FinishAncestor(t)
    BY <2>9, <1>1 DEF FinishAncestor
  <2>10. CASE RemoveAncestor(t)
    BY <2>10, <1>1 DEF RemoveAncestor, DropRemoval
  <2>11. CASE FinishParent(t)
    BY <2>11, <1>1, ParentType DEF FinishParent
  <2>12. CASE RemoveSelf(t)
    BY <2>12 DEF RemoveSelf, DropRemoval
  <2>13. QED
    BY <1>3, <2>1, <2>2, <2>3, <2>4, <2>5, <2>6, <2>7, <2>8, <2>9, <2>10, <2>11, <2>12 DEF Complete
<1>4. ASSUME NEW t \in Task, Dispose(t) PROVE TypesOK'
  <2> program' = program
    BY <1>4 DEF Dispose
  <2>1. CASE DropParent(t)
    <3>1. removal' \in [Task -> Int]
      BY <2>1, ParentType DEF DropParent
    <3>2. disposable' \in [Task -> BOOLEAN]
      BY <2>1, ParentType DEF DropParent
    <3>3. QED
      BY <2>1, <3>1, <3>2 DEF DropParent
  <2>2. CASE FreeTask(t)
    BY <2>2 DEF FreeTask
  <2>3. CASE DestroyTask(t)
    BY <2>3 DEF DestroyTask
  <2>4. QED
    BY <1>4, <2>1, <2>2, <2>3 DEF Dispose
<1>5. ASSUME NEW t \in Task, Environment(t) PROVE TypesOK'
  <2> program' = program
    BY <1>5 DEF Environment
  <2>1. CASE BecomesReady(t)
    BY <2>1 DEF BecomesReady
  <2>2. CASE DecreaseEvents(t)
    BY <2>2 DEF DecreaseEvents
  <2>3. CASE AccessesGone(t)
    BY <2>3 DEF AccessesGone, DropRemoval
  <2>4. QED
    BY <1>5, <2>1, <2>2, <2>3 DEF Environment
<1>6. CASE Shutdown
  BY <1>6 DEF Shutdown
<1>7. CASE UNCHANGED vars
  BY <1>7 DEF vars, counters, flags, external, accesses, disposeVars
<1>8. QED
  BY <1>2, <1>3, <1>4, <1>5, <1>6, <1>7 DEF Next, Terminated

(* What has been named stays behind the body, and the body only goes on.   *)
LEMMA NamedStays ==
  ASSUME TypesOK, Named, Body' = Body, ip' = ip,
         \A c \in Task : pc'[c] # "none" => pc[c] # "none",
         \A p \in Task : pc[p] \in Creates => pc'[p] \in Creates
  PROVE  Named'
  BY OpType DEF Named, HasCreated

LEMMA NamedAdvances ==
  ASSUME TypesOK, Named, Body' = Body, NEW t \in Task, ip' = [ip EXCEPT ![t] = @ + 1],
         \A c \in Task : pc'[c] # "none" => pc[c] # "none",
         \A p \in Task : p # t /\ pc[p] \in Creates => pc'[p] \in Creates
  PROVE  Named'
<1>1. \A p \in Task : \A i \in DOMAIN Body[p] : i \in Nat /\ Body[p][i][2] \in Task
  BY OpType
<1>2. \A p \in Task : ip[p] \in Nat /\ ip'[p] = IF p = t THEN ip[p] + 1 ELSE ip[p]
  BY DEF TypesOK
<1>3. \A p \in Task : \A i \in DOMAIN Body[p] :
        (HasCreated(p, i) => HasCreated(p, i)') /\ (i < ip[p] => i < ip'[p])
  BY <1>1, <1>2 DEF HasCreated
<1>4. QED
  BY <1>1, <1>3 DEF Named

LEMMA ClimbersOf ==
  ASSUME TypesOK, Climbers, NEW t \in Task
  PROVE  /\ pc[t] \in Climb => cur[t] \in Task
         /\ pc[t] \in {"finishAncestor", "removeAncestor"} =>
              cur[t] # t /\ pc[cur[t]] = "detached" /\ ~delayed[cur[t]]
  BY DEF Climbers, Climb

(* Every step keeps what has been named ...                                *)
LEMMA NamedStep ==
  ASSUME TypesOK, Flow, Climbers, [Next]_vars
  PROVE  Named'
<1> USE DEF Flow, Creates, Climb, counters, flags, external, accesses, disposeVars
<1> pc \in [Task -> Pc] /\ ip \in [Task -> Nat \ {0}]
  BY DEF TypesOK
<1>1. ASSUME NEW t \in Task, Run(t) PROVE Named'
  <2> Body' = Body /\ If0' = If0
    BY <1>1, SameProgram DEF Run
  <2>1. CASE SubmitTask(t)
    <3> DEFINE c == Subject(t)
    <3>1. /\ c \in Task /\ pc[c] = "none" /\ c # t /\ ip[t] \in DOMAIN Body[t]
          /\ Body[t][ip[t]][1] = "create" /\ Body[t][ip[t]][2] = c
      BY <2>1, AtCreate DEF SubmitTask, AtOp, Op, Subject
    <3>2. pc'[t] \in Creates /\ pc[t] = "body" /\ \A d \in Task \ {t, c} : pc'[d] = pc[d]
      BY <2>1, <3>1 DEF SubmitTask, AtOp
    <3>3. \A p \in Task : \A i \in DOMAIN Body[p] :
            /\ HasCreated(p, i) => HasCreated(p, i)'
            /\ Body[p][i][1] \in {"create", "spawn"} /\ Body[p][i][2] = c =>
                 HasCreated(p, i)' /\ Body[p][i][1] = "create"
      <4>1. \A p \in Task : \A i \in DOMAIN Body[p] :
              Body[p][i][1] \in {"create", "spawn"} /\ Body[p][i][2] = c => p = t /\ i = ip[t]
        BY <3>1, CreatedBy
      <4>2. ip' = ip
        BY <2>1 DEF SubmitTask
      <4>3. QED
        BY <3>1, <3>2, <4>1, <4>2 DEF HasCreated
    <3>4. ip' = ip
      BY <2>1 DEF SubmitTask
    <3>5. QED
      BY <3>1, <3>2, <3>3, <3>4, OpType DEF Named, Flow
  <2>2. CASE SubmitReady(t)
    <3>1. Subject(t) \in Task /\ pc[Subject(t)] = "registered"
      BY <2>2, InCreate DEF SubmitReady, Flow, Reached, ReachedAt
    <3>2. CASE Subject(t) \in If0
      BY <2>2, <3>2, <3>1, NamedStays DEF SubmitReady
    <3>3. CASE ~(Subject(t) \in If0)
      BY <2>2, <3>3, <3>1, NamedAdvances DEF SubmitReady
    <3>4. QED
      BY <3>2, <3>3
  <2>3. CASE InlineReturns(t)
    BY <2>3, NamedAdvances, InCreate DEF InlineReturns
  <2>4. CASE SubmitNotReady(t)
    <3>1. CASE Subject(t) \in If0
      BY <2>4, <3>1, NamedStays DEF SubmitNotReady
    <3>2. CASE ~(Subject(t) \in If0)
      BY <2>4, <3>2, NamedAdvances DEF SubmitNotReady
    <3>3. QED
      BY <3>1, <3>2
  <2>5. CASE If0Returns(t)
    BY <2>5, NamedAdvances, InCreate DEF If0Returns
  <2>6. CASE Spawn(t)
    <3> DEFINE c == Subject(t)
    <3>1. /\ c \in Task /\ pc[c] = "none" /\ c # t /\ ip[t] \in DOMAIN Body[t] /\ ip[t] \in Nat
          /\ Body[t][ip[t]][1] = "spawn" /\ Body[t][ip[t]][2] = c
      BY <2>6, AtSpawn DEF Spawn, AtOp, Op, Subject
    <3>2. /\ \A d \in Task \ {c} : pc'[d] = pc[d]
          /\ \A p \in Task : ip[p] \in Nat /\ ip'[p] = IF p = t THEN ip[p] + 1 ELSE ip[p]
      BY <2>6, <3>1 DEF Spawn
    <3>3. \A p \in Task : \A i \in DOMAIN Body[p] :
              Body[p][i][1] \in {"create", "spawn"} /\ Body[p][i][2] = c => p = t /\ i = ip[t]
      BY <3>1, SpawnedBy
    <3>4. pc[t] = "body"
      BY <2>6 DEF Spawn, AtOp
    <3>5. \A p \in Task : \A i \in DOMAIN Body[p] :
            (HasCreated(p, i) => HasCreated(p, i)') /\ (i < ip[p] => i < ip'[p])
      <4>1. \A p \in Task : \A i \in DOMAIN Body[p] : i \in Nat
        BY OpType
      <4>2. QED
        BY <3>1, <3>2, <3>4, <4>1 DEF HasCreated
    <3>6. ip[t] < ip'[t]
      BY <3>1, <3>2
    <3>7. QED
      BY <3>1, <3>2, <3>3, <3>5, <3>6, OpType DEF Named, Flow
  <2>7. CASE StartTask(t)
    BY <2>7, NamedStays DEF StartTask
  <2>8. CASE IncreaseEvents(t)
    BY <2>8, NamedAdvances DEF IncreaseEvents
  <2>9. CASE EnterTaskwait(t)
    <3>1. CASE removal[t] = 1
      BY <2>9, <3>1, NamedAdvances DEF EnterTaskwait, AtOp
    <3>2. CASE ~(removal[t] = 1)
      BY <2>9, <3>2, NamedStays DEF EnterTaskwait, AtOp
    <3>3. QED
      BY <3>1, <3>2
  <2>10. CASE MarkAsBlocked(t)
    BY <2>10, NamedStays DEF MarkAsBlocked
  <2>11. CASE SuspendCoroutine(t)
    BY <2>11, NamedStays DEF SuspendCoroutine, SubmitCreator
  <2>12. CASE Resume(t)
    BY <2>12, NamedStays DEF Resume
  <2>13. CASE MarkAsUnblocked(t)
    BY <2>13, NamedAdvances DEF MarkAsUnblocked
  <2>14. CASE GetBlockingContext(t)
    BY <2>14, NamedAdvances DEF GetBlockingContext
  <2>15. CASE BlockCurrentTask(t)
    BY <2>15, NamedStays, AtAny DEF BlockCurrentTask
  <2>16. CASE ReturnFromBlock(t)
    BY <2>16, NamedAdvances DEF ReturnFromBlock
  <2>17. CASE UnblockTask(t)
    BY <2>17, NamedAdvances DEF UnblockTask
  <2>18. CASE EndBody(t)
    BY <2>18, NamedStays DEF EndBody, SubmitCreator
  <2>19. QED
    BY <1>1, <2>1, <2>2, <2>3, <2>4, <2>5, <2>6, <2>7, <2>8, <2>9, <2>10, <2>11, <2>12, <2>13,
        <2>14, <2>15, <2>16, <2>17, <2>18 DEF Run
<1>2. ASSUME NEW t \in Task, Complete(t) PROVE Named'
  <2> Body' = Body /\ If0' = If0
    BY <1>2, SameProgram DEF Complete
  <2>1. CASE MarkAsFinished(t)
    BY <2>1, NamedStays DEF MarkAsFinished
  <2>2. CASE DelayRelease(t)
    BY <2>2, NamedStays DEF DelayRelease
  <2>3. CASE CompleteDelayedRelease(t)
    BY <2>3, NamedStays DEF CompleteDelayedRelease
  <2>4. CASE ReleaseDependencies(t)
    BY <2>4, NamedStays DEF ReleaseDependencies
  <2>5. CASE FinishSelf(t)
    BY <2>5, NamedStays DEF FinishSelf
  <2>6. CASE WakeAncestor(t)
    BY <2>6, NamedStays DEF WakeAncestor
  <2>7. CASE PassFinished(t)
    BY <2>7, NamedStays DEF PassFinished
  <2>8. CASE ReleaseAncestor(t)
    BY <2>8, NamedStays DEF ReleaseAncestor
  <2>9. CASE FinishAncestor(t)
    BY <2>9, NamedStays DEF FinishAncestor
  <2>10. CASE RemoveAncestor(t)
    <3>1. cur[t] \in Task /\ pc[cur[t]] = "detached"
      BY <2>10, ClimbersOf DEF RemoveAncestor
    <3>2. QED
      BY <2>10, <3>1, NamedStays DEF RemoveAncestor
  <2>11. CASE FinishParent(t)
    BY <2>11, NamedStays DEF FinishParent
  <2>12. CASE RemoveSelf(t)
    BY <2>12, NamedStays DEF RemoveSelf, DropRemoval
  <2>13. QED
    BY <1>2, <2>1, <2>2, <2>3, <2>4, <2>5, <2>6, <2>7, <2>8, <2>9, <2>10, <2>11, <2>12 DEF Complete
<1>3. ASSUME NEW t \in Task, Dispose(t) PROVE Named'
  <2> Body' = Body /\ If0' = If0
    BY <1>3, SameProgram DEF Dispose
  <2>1. CASE DropParent(t)
    BY <2>1, NamedStays DEF DropParent
  <2>2. CASE FreeTask(t)
    BY <2>2, NamedStays DEF FreeTask
  <2>3. CASE DestroyTask(t)
    BY <2>3, NamedStays DEF DestroyTask
  <2>4. QED
    BY <1>3, <2>1, <2>2, <2>3 DEF Dispose
<1>4. ASSUME NEW t \in Task, Environment(t) PROVE Named'
  <2> Body' = Body /\ If0' = If0
    BY <1>4, SameProgram DEF Environment
  <2>1. CASE BecomesReady(t)
    BY <2>1, NamedStays DEF BecomesReady
  <2>2. CASE DecreaseEvents(t)
    BY <2>2, NamedStays DEF DecreaseEvents
  <2>3. CASE AccessesGone(t)
    BY <2>3, NamedStays DEF AccessesGone, DropRemoval
  <2>4. QED
    BY <1>4, <2>1, <2>2, <2>3 DEF Environment
<1>5. CASE Shutdown
  BY <1>5, NamedStays, SameProgram DEF Shutdown
<1>6. CASE UNCHANGED vars
  BY <1>6, NamedStays, SameProgram DEF vars, counters, flags, external, accesses, disposeVars
<1>7. QED
  BY <1>1, <1>2, <1>3, <1>4, <1>5, <1>6 DEF Next, Terminated

(* A task that was named stays named.                                      *)
LEMMA OnlyStarts ==
  ASSUME TypesOK, Flow, Climbers, [Next]_vars
  PROVE  \A p \in Task : pc[p] # "none" => pc'[p] # "none"
<1> pc \in [Task -> Pc]
  BY DEF TypesOK
<1>1. ASSUME NEW t \in Task, Run(t) PROVE \A p \in Task : pc[p] # "none" => pc'[p] # "none"
  <2> program' = program
    BY <1>1 DEF Run
  <2>1. CASE SubmitTask(t)
    BY <2>1, AtCreate DEF SubmitTask, AddChild
  <2>2. CASE SubmitReady(t)
    BY <2>2, InCreate DEF SubmitReady, Creates
  <2>3. CASE InlineReturns(t)
    BY <2>3, InCreate DEF InlineReturns, Creates
  <2>4. CASE SubmitNotReady(t)
    BY <2>4, InCreate DEF SubmitNotReady, Creates
  <2>5. CASE If0Returns(t)
    BY <2>5, InCreate DEF If0Returns, Creates
  <2>6. CASE Spawn(t)
    BY <2>6, AtSpawn DEF Spawn
  <2>7. CASE StartTask(t)
    BY <2>7 DEF StartTask
  <2>8. CASE IncreaseEvents(t)
    BY <2>8, AtAny DEF IncreaseEvents
  <2>9. CASE EnterTaskwait(t)
    BY <2>9, AtAny DEF EnterTaskwait
  <2>10. CASE MarkAsBlocked(t)
    BY <2>10 DEF MarkAsBlocked
  <2>11. CASE SuspendCoroutine(t)
    BY <2>11 DEF SuspendCoroutine, SubmitCreator
  <2>12. CASE Resume(t)
    BY <2>12 DEF Resume
  <2>13. CASE MarkAsUnblocked(t)
    BY <2>13 DEF MarkAsUnblocked
  <2>14. CASE GetBlockingContext(t)
    BY <2>14, AtAny DEF GetBlockingContext
  <2>15. CASE BlockCurrentTask(t)
    BY <2>15, AtAny DEF BlockCurrentTask
  <2>16. CASE ReturnFromBlock(t)
    BY <2>16 DEF ReturnFromBlock
  <2>17. CASE UnblockTask(t)
    BY <2>17, AtAny DEF UnblockTask
  <2>18. CASE EndBody(t)
    BY <2>18 DEF EndBody, SubmitCreator
  <2>19. QED
    BY <1>1, <2>1, <2>2, <2>3, <2>4, <2>5, <2>6, <2>7, <2>8, <2>9, <2>10, <2>11, <2>12, <2>13,
        <2>14, <2>15, <2>16, <2>17, <2>18 DEF Run
<1>2. ASSUME NEW t \in Task, Complete(t) PROVE \A p \in Task : pc[p] # "none" => pc'[p] # "none"
  <2> program' = program
    BY <1>2 DEF Complete
  <2>1. CASE MarkAsFinished(t)
    BY <2>1 DEF MarkAsFinished
  <2>2. CASE DelayRelease(t)
    BY <2>2 DEF DelayRelease
  <2>3. CASE CompleteDelayedRelease(t)
    BY <2>3 DEF CompleteDelayedRelease
  <2>4. CASE ReleaseDependencies(t)
    BY <2>4 DEF ReleaseDependencies
  <2>5. CASE FinishSelf(t)
    BY <2>5 DEF FinishSelf
  <2>6. CASE WakeAncestor(t)
    BY <2>6 DEF WakeAncestor
  <2>7. CASE PassFinished(t)
    BY <2>7 DEF PassFinished
  <2>8. CASE ReleaseAncestor(t)
    BY <2>8 DEF ReleaseAncestor
  <2>9. CASE FinishAncestor(t)
    BY <2>9 DEF FinishAncestor
  <2>10. CASE RemoveAncestor(t)
    BY <2>10, ClimbersOf DEF RemoveAncestor, DropRemoval
  <2>11. CASE FinishParent(t)
    BY <2>11 DEF FinishParent
  <2>12. CASE RemoveSelf(t)
    BY <2>12 DEF RemoveSelf, DropRemoval
  <2>13. QED
    BY <1>2, <2>1, <2>2, <2>3, <2>4, <2>5, <2>6, <2>7, <2>8, <2>9, <2>10, <2>11, <2>12 DEF Complete
<1>3. ASSUME NEW t \in Task, Dispose(t) PROVE \A p \in Task : pc[p] # "none" => pc'[p] # "none"
  <2> program' = program
    BY <1>3 DEF Dispose
  <2>1. CASE DropParent(t)
    BY <2>1 DEF DropParent
  <2>2. CASE FreeTask(t)
    BY <2>2 DEF FreeTask
  <2>3. CASE DestroyTask(t)
    BY <2>3 DEF DestroyTask
  <2>4. QED
    BY <1>3, <2>1, <2>2, <2>3 DEF Dispose
<1>4. ASSUME NEW t \in Task, Environment(t) PROVE \A p \in Task : pc[p] # "none" => pc'[p] # "none"
  <2> program' = program
    BY <1>4 DEF Environment
  <2>1. CASE BecomesReady(t)
    BY <2>1 DEF BecomesReady
  <2>2. CASE DecreaseEvents(t)
    BY <2>2 DEF DecreaseEvents
  <2>3. CASE AccessesGone(t)
    BY <2>3 DEF AccessesGone, DropRemoval
  <2>4. QED
    BY <1>4, <2>1, <2>2, <2>3 DEF Environment
<1>5. CASE Shutdown
  BY <1>5 DEF Shutdown
<1>6. CASE UNCHANGED vars
  BY <1>6 DEF vars, counters, flags, external, accesses, disposeVars
<1>7. QED
  BY <1>1, <1>2, <1>3, <1>4, <1>5, <1>6 DEF Next, Terminated

LEMMA SameOp ==
  ASSUME Body' = Body, NEW p \in Task, ip'[p] = ip[p]
  PROVE  Op(p)' = Op(p) /\ Subject(p)' = Subject(p)
  BY DEF Op, Subject

LEMMA ReachedStays ==
  ASSUME TypesOK, Flow, Body' = Body, If0' = If0, Coroutines' = Coroutines, NEW t \in Task,
         \A p \in Task : p # t => ip'[p] = ip[p],
         \A p \in Task : p # t => \/ pc'[p] = pc[p]
                                  \/ /\ pc'[p] \in {"dependent", "registered", "submitted"}
                                     /\ pc[p] \in Early
                                  \/ pc'[p] = "done",
         \A p \in Task : pc[p] # "none" => pc'[p] # "none",
         \A p \in Task : p # t /\ pc[p] = "ready" => pc'[Subject(p)] = pc[Subject(p)],
         \A p \in Task : linked'[p] => linked[p] \/ pc'[p] # "none",
         ReachedAt(t)'
  PROVE  Reached'
<1> SUFFICES ASSUME NEW p \in Task, p # t PROVE ReachedAt(p)'
  BY DEF Reached
<1>1. ReachedAt(p) /\ Op(p)' = Op(p) /\ Subject(p)' = Subject(p) /\ ip'[p] = ip[p]
  BY SameOp DEF Flow, Reached
<1>2. pc[p] \in Creates => Subject(p) \in Task
  BY InCreate
<1>3. QED
  BY <1>1, <1>2 DEF ReachedAt, Early, Creates, Waits

(* ... and where each task is.                                            *)
LEMMA ReachedStep ==
  ASSUME TypesOK, Flow, Climbers, [Next]_vars
  PROVE  Reached'
<1> USE DEF counters, flags, external, accesses, disposeVars, Early, Creates, Waits, InBody, Ended,
    Over, Climb
<1> pc \in [Task -> Pc] /\ ip \in [Task -> Nat \ {0}] /\ linked \in [Task -> BOOLEAN]
  BY DEF TypesOK
<1>1. \A p \in Task : ReachedAt(p)
  BY DEF Flow, Reached
<1>2. \A p \in Task : pc[p] = "ready" =>
        Subject(p) \in Task /\ pc[Subject(p)] = "registered" /\ Parent[Subject(p)] = p
  BY <1>1, InCreate DEF ReachedAt, Creates
<1>3. \A p \in Task : pc[p] # "none" => pc'[p] # "none"
  BY OnlyStarts
<1>4. ASSUME NEW t \in Task, Run(t) PROVE Reached'
  <2> Body' = Body /\ If0' = If0 /\ Coroutines' = Coroutines
    BY <1>4, SameProgram DEF Run
  <2>1. CASE SubmitTask(t)
    <3>1. ReachedAt(t)'
      BY <2>1, <1>1, SameOp, AtCreate DEF AtOp, ReachedAt, SubmitTask, AddChild
    <3>2. /\ \A p \in Task : p # t => ip'[p] = ip[p]
          /\ \A p \in Task : p # t => \/ pc'[p] = pc[p]
                                      \/ /\ pc'[p] \in {"dependent", "registered", "submitted"}
                                         /\ pc[p] \in Early
      BY <2>1, AtCreate DEF SubmitTask, AddChild, Early
    <3>3. \A p \in Task : p # t /\ pc[p] = "ready" => pc'[Subject(p)] = pc[Subject(p)]
      <4>1. pc[t] = "body" /\ pc[Subject(t)] = "none" /\ Subject(t) \in Task
        BY <2>1, AtCreate DEF SubmitTask, AtOp
      <4>2. \A d \in Task \ {t, Subject(t)} : pc'[d] = pc[d]
        BY <2>1, <4>1 DEF SubmitTask
      <4>3. QED
        BY <1>2, <4>1, <4>2
    <3>4. \A p \in Task : linked'[p] => linked[p] \/ pc'[p] # "none"
      BY <2>1, <1>3, AtCreate DEF SubmitTask, AddChild
    <3>5. QED
      BY <3>1, <3>2, <3>3, <3>4, <1>3, ReachedStays
  <2>2. CASE SubmitReady(t)
    <3>1. ReachedAt(t)'
      BY <2>2, <1>1, SameOp, <1>2, InCreate DEF ReachedAt, SubmitReady
    <3>2. /\ \A p \in Task : p # t => ip'[p] = ip[p]
          /\ \A p \in Task : p # t => \/ pc'[p] = pc[p]
                                      \/ /\ pc'[p] \in {"dependent", "registered", "submitted"}
                                         /\ pc[p] \in Early
      BY <2>2, <1>2, InCreate DEF SubmitReady, Creates, Early
    <3>3. \A p \in Task : p # t /\ pc[p] = "ready" => pc'[Subject(p)] = pc[Subject(p)]
      BY <2>2, <1>2, InCreate DEF SubmitReady, Creates
    <3>4. \A p \in Task : linked'[p] => linked[p] \/ pc'[p] # "none"
      BY <2>2, <1>3, <1>2, InCreate DEF SubmitReady, Creates
    <3>5. QED
      BY <3>1, <3>2, <3>3, <3>4, <1>3, ReachedStays
  <2>3. CASE InlineReturns(t)
    <3>1. ReachedAt(t)'
      BY <2>3, <1>1, SameOp, <1>2, InCreate DEF ReachedAt, InlineReturns
    <3>2. QED
      BY <2>3, <1>2, <1>3, <3>1, ReachedStays, <1>2, InCreate DEF Creates, InlineReturns
  <2>4. CASE SubmitNotReady(t)
    <3>1. ReachedAt(t)'
      BY <2>4, <1>1, SameOp, <1>2, InCreate DEF ReachedAt, SubmitNotReady
    <3>2. QED
      BY <2>4, <1>2, <1>3, <3>1, ReachedStays, <1>2, InCreate DEF Creates, SubmitNotReady
  <2>5. CASE If0Returns(t)
    <3>1. ReachedAt(t)'
      BY <2>5, <1>1, SameOp, <1>2, InCreate DEF ReachedAt, If0Returns
    <3>2. QED
      BY <2>5, <1>2, <1>3, <3>1, ReachedStays, <1>2, InCreate DEF Creates, If0Returns
  <2>6. CASE Spawn(t)
    <3>1. ReachedAt(t)'
      BY <2>6, <1>1, SameOp, AtSpawn DEF AtOp, ReachedAt, Spawn
    <3>2. /\ \A p \in Task : p # t => ip'[p] = ip[p]
          /\ \A p \in Task : p # t => \/ pc'[p] = pc[p]
                                      \/ /\ pc'[p] \in {"dependent", "registered", "submitted"}
                                         /\ pc[p] \in Early
      BY <2>6, AtSpawn DEF Spawn, Early
    <3>3. \A p \in Task : p # t /\ pc[p] = "ready" => pc'[Subject(p)] = pc[Subject(p)]
      BY <2>6, <1>2, AtSpawn DEF Spawn
    <3>4. \A p \in Task : linked'[p] => linked[p] \/ pc'[p] # "none"
      BY <2>6, <1>3, AtSpawn DEF Spawn
    <3>5. QED
      BY <3>1, <3>2, <3>3, <3>4, <1>3, ReachedStays
  <2>7. CASE StartTask(t)
    <3>1. ReachedAt(t)'
      BY <2>7, <1>1, SameOp DEF ReachedAt, StartTask
    <3>2. QED
      BY <2>7, <1>2, <1>3, <3>1, ReachedStays DEF StartTask
  <2>8. CASE IncreaseEvents(t)
    <3>1. ReachedAt(t)'
      BY <2>8, <1>1, SameOp, AtAny DEF AtOp, ReachedAt, IncreaseEvents
    <3>2. QED
      BY <2>8, <1>2, <1>3, <3>1, ReachedStays, AtAny DEF IncreaseEvents
  <2>9. CASE EnterTaskwait(t)
    <3>1. ReachedAt(t)'
      BY <2>9, <1>1, SameOp, AtAny DEF AtOp, ReachedAt, EnterTaskwait
    <3>2. QED
      BY <2>9, <1>2, <1>3, <3>1, ReachedStays, AtAny DEF EnterTaskwait
  <2>10. CASE MarkAsBlocked(t)
    <3>1. ReachedAt(t)'
      BY <2>10, <1>1, SameOp DEF ReachedAt, MarkAsBlocked
    <3>2. QED
      BY <2>10, <1>2, <1>3, <3>1, ReachedStays DEF MarkAsBlocked
  <2>11. CASE SuspendCoroutine(t)
    <3>1. ReachedAt(t)'
      BY <2>11, <1>1, SameOp DEF ReachedAt, SuspendCoroutine, SubmitCreator
    <3>2. QED
      BY <2>11, <1>2, <1>3, <3>1, ReachedStays DEF SuspendCoroutine, SubmitCreator
  <2>12. CASE Resume(t)
    <3>1. ReachedAt(t)'
      BY <2>12, <1>1, SameOp DEF ReachedAt, Resume
    <3>2. QED
      BY <2>12, <1>2, <1>3, <3>1, ReachedStays DEF Resume
  <2>13. CASE MarkAsUnblocked(t)
    <3>1. ReachedAt(t)'
      BY <2>13, <1>1, SameOp DEF ReachedAt, MarkAsUnblocked
    <3>2. QED
      BY <2>13, <1>2, <1>3, <3>1, ReachedStays DEF MarkAsUnblocked
  <2>14. CASE GetBlockingContext(t)
    <3>1. ReachedAt(t)'
      BY <2>14, <1>1, SameOp, AtAny DEF AtOp, ReachedAt, GetBlockingContext
    <3>2. QED
      BY <2>14, <1>2, <1>3, <3>1, ReachedStays, AtAny DEF GetBlockingContext
  <2>15. CASE BlockCurrentTask(t)
    <3>1. ReachedAt(t)'
      BY <2>15, <1>1, SameOp, AtAny DEF AtOp, ReachedAt, BlockCurrentTask
    <3>2. QED
      BY <2>15, <1>2, <1>3, <3>1, ReachedStays, AtAny DEF BlockCurrentTask
  <2>16. CASE ReturnFromBlock(t)
    <3>1. ReachedAt(t)'
      BY <2>16, <1>1, SameOp DEF ReachedAt, ReturnFromBlock
    <3>2. QED
      BY <2>16, <1>2, <1>3, <3>1, ReachedStays DEF ReturnFromBlock
  <2>17. CASE UnblockTask(t)
    <3>1. ReachedAt(t)'
      BY <2>17, <1>1, SameOp, AtAny DEF AtOp, ReachedAt, UnblockTask
    <3>2. QED
      BY <2>17, <1>2, <1>3, <3>1, ReachedStays, AtAny DEF UnblockTask
  <2>18. CASE EndBody(t)
    <3>1. ReachedAt(t)'
      BY <2>18, <1>1, SameOp DEF ReachedAt, EndBody, SubmitCreator
    <3>2. QED
      BY <2>18, <1>2, <1>3, <3>1, ReachedStays DEF EndBody, SubmitCreator
  <2>19. QED
    BY <1>4, <2>1, <2>2, <2>3, <2>4, <2>5, <2>6, <2>7, <2>8, <2>9, <2>10, <2>11, <2>12, <2>13,
        <2>14, <2>15, <2>16, <2>17, <2>18 DEF Run
<1>5. ASSUME NEW t \in Task, Complete(t) PROVE Reached'
  <2> Body' = Body /\ If0' = If0 /\ Coroutines' = Coroutines
    BY <1>5, SameProgram DEF Complete
  <2>1. CASE MarkAsFinished(t)
    <3>1. ReachedAt(t)'
      BY <2>1, <1>1, SameOp DEF ReachedAt, MarkAsFinished
    <3>2. QED
      BY <2>1, <1>2, <1>3, <3>1, ReachedStays DEF MarkAsFinished
  <2>2. CASE DelayRelease(t)
    <3>1. ReachedAt(t)'
      BY <2>2, <1>1, SameOp DEF ReachedAt, DelayRelease
    <3>2. QED
      BY <2>2, <1>2, <1>3, <3>1, ReachedStays DEF DelayRelease
  <2>3. CASE CompleteDelayedRelease(t)
    <3>1. ReachedAt(t)'
      BY <2>3, <1>1, SameOp DEF ReachedAt, CompleteDelayedRelease
    <3>2. QED
      BY <2>3, <1>2, <1>3, <3>1, ReachedStays DEF CompleteDelayedRelease
  <2>4. CASE ReleaseDependencies(t)
    <3>1. ReachedAt(t)'
      BY <2>4, <1>1, SameOp DEF ReachedAt, ReleaseDependencies
    <3>2. QED
      BY <2>4, <1>2, <1>3, <3>1, ReachedStays DEF ReleaseDependencies
  <2>5. CASE FinishSelf(t)
    <3>1. ReachedAt(t)'
      BY <2>5, <1>1, SameOp DEF ReachedAt, FinishSelf
    <3>2. QED
      BY <2>5, <1>2, <1>3, <3>1, ReachedStays DEF FinishSelf
  <2>6. CASE WakeAncestor(t)
    <3>1. ReachedAt(t)'
      BY <2>6, <1>1, SameOp DEF ReachedAt, WakeAncestor
    <3>2. QED
      BY <2>6, <1>2, <1>3, <3>1, ReachedStays DEF WakeAncestor
  <2>7. CASE PassFinished(t)
    <3>1. ReachedAt(t)'
      BY <2>7, <1>1, SameOp DEF ReachedAt, PassFinished
    <3>2. QED
      BY <2>7, <1>2, <1>3, <3>1, ReachedStays DEF PassFinished
  <2>8. CASE ReleaseAncestor(t)
    <3>1. ReachedAt(t)'
      BY <2>8, <1>1, SameOp DEF ReachedAt, ReleaseAncestor
    <3>2. QED
      BY <2>8, <1>2, <1>3, <3>1, ReachedStays DEF ReleaseAncestor
  <2>9. CASE FinishAncestor(t)
    <3>1. ReachedAt(t)'
      BY <2>9, <1>1, SameOp DEF ReachedAt, FinishAncestor
    <3>2. QED
      BY <2>9, <1>2, <1>3, <3>1, ReachedStays DEF FinishAncestor
  <2>10. CASE RemoveAncestor(t)
    <3>1. ReachedAt(t)'
      BY <2>10, <1>1, SameOp, ClimbersOf DEF ReachedAt, RemoveAncestor, DropRemoval
    <3>2. QED
      BY <2>10, <1>2, <1>3, <3>1, ReachedStays, ClimbersOf DEF RemoveAncestor, DropRemoval
  <2>11. CASE FinishParent(t)
    <3>1. ReachedAt(t)'
      BY <2>11, <1>1, SameOp DEF ReachedAt, FinishParent
    <3>2. QED
      BY <2>11, <1>2, <1>3, <3>1, ReachedStays DEF FinishParent
  <2>12. CASE RemoveSelf(t)
    <3>1. ReachedAt(t)'
      BY <2>12, <1>1, SameOp DEF ReachedAt, RemoveSelf, DropRemoval
    <3>2. QED
      BY <2>12, <1>2, <1>3, <3>1, ReachedStays DEF RemoveSelf, DropRemoval
  <2>13. QED
    BY <1>5, <2>1, <2>2, <2>3, <2>4, <2>5, <2>6, <2>7, <2>8, <2>9, <2>10, <2>11, <2>12 DEF Complete
<1>6. ASSUME NEW t \in Task, Dispose(t) PROVE Reached'
  <2> Body' = Body /\ If0' = If0 /\ Coroutines' = Coroutines
    BY <1>6, SameProgram DEF Dispose
  <2>1. CASE DropParent(t)
    <3>1. ReachedAt(t)'
      BY <2>1, <1>1, SameOp DEF ReachedAt, DropParent
    <3>2. QED
      BY <2>1, <1>2, <1>3, <3>1, ReachedStays DEF DropParent
  <2>2. CASE FreeTask(t)
    <3>1. ReachedAt(t)'
      BY <2>2, <1>1, SameOp DEF ReachedAt, FreeTask
    <3>2. QED
      BY <2>2, <1>2, <1>3, <3>1, ReachedStays DEF FreeTask
  <2>3. CASE DestroyTask(t)
    <3>1. ReachedAt(t)'
      BY <2>3, <1>1, SameOp DEF ReachedAt, DestroyTask
    <3>2. QED
      BY <2>3, <1>2, <1>3, <3>1, ReachedStays DEF DestroyTask
  <2>4. QED
    BY <1>6, <2>1, <2>2, <2>3 DEF Dispose
<1>7. ASSUME NEW t \in Task, Environment(t) PROVE Reached'
  <2> Body' = Body /\ If0' = If0 /\ Coroutines' = Coroutines
    BY <1>7, SameProgram DEF Environment
  <2>1. CASE BecomesReady(t)
    <3>1. ReachedAt(t)'
      BY <2>1, <1>1, SameOp DEF ReachedAt, BecomesReady
    <3>2. QED
      BY <2>1, <1>2, <1>3, <3>1, ReachedStays DEF BecomesReady
  <2>2. CASE DecreaseEvents(t)
    <3>1. ReachedAt(t)'
      BY <2>2, <1>1, SameOp DEF ReachedAt, DecreaseEvents
    <3>2. QED
      BY <2>2, <1>2, <1>3, <3>1, ReachedStays DEF DecreaseEvents
  <2>3. CASE AccessesGone(t)
    <3>1. ReachedAt(t)'
      BY <2>3, <1>1, SameOp DEF ReachedAt, AccessesGone, DropRemoval
    <3>2. QED
      BY <2>3, <1>2, <1>3, <3>1, ReachedStays DEF AccessesGone, DropRemoval
  <2>4. QED
    BY <1>7, <2>1, <2>2, <2>3 DEF Environment
<1>8. CASE Shutdown
  BY <1>8, <1>1, SameOp, SameProgram DEF Shutdown, Reached, ReachedAt
<1>9. CASE UNCHANGED vars
  BY <1>9, <1>1, SameOp, SameProgram DEF vars, counters, flags, external, accesses, disposeVars,
      Reached, ReachedAt
<1>10. QED
  BY <1>4, <1>5, <1>6, <1>7, <1>8, <1>9 DEF Next, Terminated

LEMMA FlowStep ==
  ASSUME TypesOK, Flow, Climbers, [Next]_vars
  PROVE  Flow'
<1>1. pc'[Main] # "none"
  BY OnlyStarts, LifecycleAssumption DEF Flow
<1>2. QED
  BY <1>1, NamedStep, ReachedStep DEF Flow

(* Every step keeps the flags.                                             *)
LEMMA FlagsAtStep ==
  ASSUME TypesOK, Flow, Climbers, Flags, [Next]_vars
  PROVE  \A p \in Task : FlagsAt(p)'
<1> USE DEF counters, flags, external, accesses, disposeVars, Pc, Early, Creates, Waits, InBody,
    Ended, Over, Climb
<1> /\ pc \in [Task -> Pc] /\ cur \in [Task -> Task \cup {NoTask}]
    /\ finished \in [Task -> BOOLEAN] /\ delayed \in [Task -> BOOLEAN] /\ releases \in [Task -> Int]
  BY DEF TypesOK
<1>1. \A p \in Task : FlagsAt(p) /\ ReleaseAt(p)
  BY DEF Flags
<1>2. \A p \in Task : pc[p] \in Climb => cur[p] \in Task
  BY DEF Climbers
<1>3. ASSUME NEW t \in Task, Run(t) PROVE \A p \in Task : FlagsAt(p)'
  <2> Delayed' = Delayed
    BY <1>3, SameProgram DEF Run
  <2>1. CASE SubmitTask(t)
    BY <2>1, <1>1, <1>2, AtCreate DEF SubmitTask, AddChild, AtOp, Flags, FlagsAt
  <2>2. CASE SubmitReady(t)
    <3>1. Subject(t) \in Task /\ pc[Subject(t)] = "registered"
      BY <2>2, InCreate DEF SubmitReady, Flow, Reached, ReachedAt
    <3>2. QED
      BY <2>2, <3>1, <1>1 DEF SubmitReady, Flags, FlagsAt
  <2>3. CASE InlineReturns(t)
    BY <2>3, <1>1, <1>2, InCreate DEF InlineReturns, Flags, FlagsAt
  <2>4. CASE SubmitNotReady(t)
    BY <2>4, <1>1, <1>2, InCreate DEF SubmitNotReady, Flags, FlagsAt
  <2>5. CASE If0Returns(t)
    BY <2>5, <1>1, <1>2, InCreate DEF If0Returns, Flags, FlagsAt
  <2>6. CASE Spawn(t)
    BY <2>6, <1>1, <1>2, AtSpawn DEF Spawn, AtOp, Flags, FlagsAt
  <2>7. CASE StartTask(t)
    BY <2>7, <1>1, <1>2 DEF StartTask, Flags, FlagsAt
  <2>8. CASE IncreaseEvents(t)
    BY <2>8, <1>1, <1>2 DEF IncreaseEvents, AtOp, Flags, FlagsAt
  <2>9. CASE EnterTaskwait(t)
    BY <2>9, <1>1, <1>2 DEF EnterTaskwait, AtOp, Flags, FlagsAt
  <2>10. CASE MarkAsBlocked(t)
    BY <2>10, <1>1, <1>2 DEF MarkAsBlocked, Flags, FlagsAt
  <2>11. CASE SuspendCoroutine(t)
    BY <2>11, <1>1, <1>2 DEF SuspendCoroutine, SubmitCreator, Flags, FlagsAt
  <2>12. CASE Resume(t)
    BY <2>12, <1>1, <1>2 DEF Resume, Flags, FlagsAt
  <2>13. CASE MarkAsUnblocked(t)
    BY <2>13, <1>1, <1>2 DEF MarkAsUnblocked, Flags, FlagsAt
  <2>14. CASE GetBlockingContext(t)
    BY <2>14, <1>1, <1>2 DEF GetBlockingContext, AtOp, Flags, FlagsAt
  <2>15. CASE BlockCurrentTask(t)
    BY <2>15, <1>1, <1>2 DEF BlockCurrentTask, AtOp, Flags, FlagsAt
  <2>16. CASE ReturnFromBlock(t)
    BY <2>16, <1>1, <1>2 DEF ReturnFromBlock, Flags, FlagsAt
  <2>17. CASE UnblockTask(t)
    BY <2>17, <1>1, <1>2 DEF UnblockTask, AtOp, Flags, FlagsAt
  <2>18. CASE EndBody(t)
    BY <2>18, <1>1, <1>2 DEF EndBody, SubmitCreator, Flags, FlagsAt
  <2>19. QED
    BY <1>3, <2>1, <2>2, <2>3, <2>4, <2>5, <2>6, <2>7, <2>8, <2>9, <2>10, <2>11, <2>12, <2>13,
        <2>14, <2>15, <2>16, <2>17, <2>18 DEF Run
<1>4. ASSUME NEW t \in Task, Complete(t) PROVE \A p \in Task : FlagsAt(p)'
  <2> Delayed' = Delayed
    BY <1>4, SameProgram DEF Complete
  <2>1. CASE MarkAsFinished(t)
    BY <2>1, <1>1, <1>2 DEF MarkAsFinished, Flags, FlagsAt
  <2>2. CASE DelayRelease(t)
    BY <2>2, <1>1, <1>2 DEF DelayRelease, Flags, FlagsAt
  <2>3. CASE CompleteDelayedRelease(t)
    BY <2>3, <1>1, <1>2 DEF CompleteDelayedRelease, Flags, FlagsAt
  <2>4. CASE ReleaseDependencies(t)
    BY <2>4, <1>1, <1>2 DEF ReleaseDependencies, Flags, FlagsAt
  <2>5. CASE FinishSelf(t)
    BY <2>5, <1>1, <1>2 DEF FinishSelf, Flags, FlagsAt
  <2>6. CASE WakeAncestor(t)
    BY <2>6, <1>1, <1>2 DEF WakeAncestor, Flags, FlagsAt
  <2>7. CASE PassFinished(t)
    BY <2>7, <1>1, <1>2 DEF PassFinished, Flags, FlagsAt
  <2>8. CASE ReleaseAncestor(t)
    <3>1. cur[t] \in Task /\ cur[t] # t /\ pc[cur[t]] = "detached"
      BY <2>8, <1>1, <1>2 DEF ReleaseAncestor, FlagsAt, Climbers, Sleeps
    <3>2. QED
      BY <2>8, <3>1, <1>1 DEF ReleaseAncestor, Flags, FlagsAt
  <2>9. CASE FinishAncestor(t)
    BY <2>9, <1>1, <1>2 DEF FinishAncestor, Flags, FlagsAt
  <2>10. CASE RemoveAncestor(t)
    <3>1. cur[t] \in Task /\ cur[t] # t /\ pc[cur[t]] = "detached" /\ ~delayed[cur[t]]
      BY <2>10, ClimbersOf DEF RemoveAncestor
    <3>2. releases[cur[t]] = 1 /\ finished[cur[t]]
      BY <3>1, <1>1 DEF FlagsAt, ReleaseAt
    <3>3. QED
      BY <2>10, <3>1, <3>2, <1>1 DEF RemoveAncestor, Flags, FlagsAt
  <2>11. CASE FinishParent(t)
    BY <2>11, <1>1, <1>2 DEF FinishParent, Flags, FlagsAt
  <2>12. CASE RemoveSelf(t)
    BY <2>12, <1>1, <1>2 DEF RemoveSelf, DropRemoval, Flags, FlagsAt
  <2>13. QED
    BY <1>4, <2>1, <2>2, <2>3, <2>4, <2>5, <2>6, <2>7, <2>8, <2>9, <2>10, <2>11, <2>12 DEF Complete
<1>5. ASSUME NEW t \in Task, Dispose(t) PROVE \A p \in Task : FlagsAt(p)'
  <2> Delayed' = Delayed
    BY <1>5, SameProgram DEF Dispose
  <2>1. CASE DropParent(t)
    BY <2>1, <1>1, <1>2 DEF DropParent, Flags, FlagsAt
  <2>2. CASE FreeTask(t)
    BY <2>2, <1>1, <1>2 DEF FreeTask, Flags, FlagsAt
  <2>3. CASE DestroyTask(t)
    BY <2>3, <1>1, <1>2 DEF DestroyTask, Flags, FlagsAt
  <2>4. QED
    BY <1>5, <2>1, <2>2, <2>3 DEF Dispose
<1>6. ASSUME NEW t \in Task, Environment(t) PROVE \A p \in Task : FlagsAt(p)'
  <2> Delayed' = Delayed
    BY <1>6, SameProgram DEF Environment
  <2>1. CASE BecomesReady(t)
    BY <2>1, <1>1, <1>2 DEF BecomesReady, Flags, FlagsAt
  <2>2. CASE DecreaseEvents(t)
    BY <2>2, <1>1, <1>2 DEF DecreaseEvents, Flags, FlagsAt
  <2>3. CASE AccessesGone(t)
    BY <2>3, <1>1, <1>2 DEF AccessesGone, DropRemoval, Flags, FlagsAt
  <2>4. QED
    BY <1>6, <2>1, <2>2, <2>3 DEF Environment
<1>7. CASE Shutdown
  BY <1>7, <1>1, SameProgram DEF Shutdown, Flags, FlagsAt
<1>8. CASE UNCHANGED vars
  BY <1>8, <1>1, SameProgram DEF vars, counters, flags, external, accesses, disposeVars, Flags,
      FlagsAt
<1>9. QED
  BY <1>3, <1>4, <1>5, <1>6, <1>7, <1>8 DEF Next, Terminated

LEMMA ReleaseStays ==
  ASSUME \A p \in Task : ReleaseAt(p), cur' = cur,
         \A u \in Task : pc[u] \in Climb \/ pc'[u] \in Climb => pc'[u] = pc[u],
         \A p \in Task : pc'[p] = "detached" => pc[p] = "detached" /\ delayed'[p] = delayed[p]
                                                /\ releases'[p] = releases[p]
  PROVE  \A p \in Task : ReleaseAt(p)'
  BY DEF ReleaseAt, At

(* ... and the delayed releases.                                           *)
LEMMA ReleaseAtStep ==
  ASSUME TypesOK, Flow, Climbers, Flags, [Next]_vars
  PROVE  \A p \in Task : ReleaseAt(p)'
<1> USE DEF counters, flags, external, accesses, disposeVars, Pc, Early, Creates, Waits, InBody,
    Ended, Over, Climb
<1> /\ pc \in [Task -> Pc] /\ cur \in [Task -> Task \cup {NoTask}]
    /\ finished \in [Task -> BOOLEAN] /\ delayed \in [Task -> BOOLEAN] /\ releases \in [Task -> Int]
  BY DEF TypesOK
<1>1. \A p \in Task : FlagsAt(p) /\ ReleaseAt(p)
  BY DEF Flags
<1>2. \A p \in Task : pc[p] \in Climb => cur[p] \in Task
  BY DEF Climbers
<1>3. ASSUME NEW t \in Task, Run(t) PROVE \A p \in Task : ReleaseAt(p)'
  <2> Delayed' = Delayed
    BY <1>3, SameProgram DEF Run
  <2>1. CASE SubmitTask(t)
    BY <2>1, <1>1, ReleaseStays, AtCreate DEF SubmitTask, AddChild, AtOp
  <2>2. CASE SubmitReady(t)
    <3>1. Subject(t) \in Task /\ pc[Subject(t)] = "registered"
      BY <2>2, InCreate DEF SubmitReady, Flow, Reached, ReachedAt
    <3>2. QED
      BY <2>2, <3>1, <1>1, ReleaseStays DEF SubmitReady
  <2>3. CASE InlineReturns(t)
    BY <2>3, <1>1, ReleaseStays, InCreate DEF InlineReturns
  <2>4. CASE SubmitNotReady(t)
    BY <2>4, <1>1, ReleaseStays, InCreate DEF SubmitNotReady
  <2>5. CASE If0Returns(t)
    BY <2>5, <1>1, ReleaseStays, InCreate DEF If0Returns
  <2>6. CASE Spawn(t)
    BY <2>6, <1>1, ReleaseStays, AtSpawn DEF Spawn, AtOp
  <2>7. CASE StartTask(t)
    BY <2>7, <1>1, ReleaseStays DEF StartTask
  <2>8. CASE IncreaseEvents(t)
    BY <2>8, <1>1, ReleaseStays DEF IncreaseEvents, AtOp
  <2>9. CASE EnterTaskwait(t)
    BY <2>9, <1>1, ReleaseStays DEF EnterTaskwait, AtOp
  <2>10. CASE MarkAsBlocked(t)
    BY <2>10, <1>1, ReleaseStays DEF MarkAsBlocked
  <2>11. CASE SuspendCoroutine(t)
    BY <2>11, <1>1, ReleaseStays DEF SuspendCoroutine, SubmitCreator
  <2>12. CASE Resume(t)
    BY <2>12, <1>1, ReleaseStays DEF Resume
  <2>13. CASE MarkAsUnblocked(t)
    BY <2>13, <1>1, ReleaseStays DEF MarkAsUnblocked
  <2>14. CASE GetBlockingContext(t)
    BY <2>14, <1>1, ReleaseStays DEF GetBlockingContext, AtOp
  <2>15. CASE BlockCurrentTask(t)
    BY <2>15, <1>1, ReleaseStays DEF BlockCurrentTask, AtOp
  <2>16. CASE ReturnFromBlock(t)
    BY <2>16, <1>1, ReleaseStays DEF ReturnFromBlock
  <2>17. CASE UnblockTask(t)
    BY <2>17, <1>1, ReleaseStays DEF UnblockTask, AtOp
  <2>18. CASE EndBody(t)
    BY <2>18, <1>1, ReleaseStays DEF EndBody, SubmitCreator
  <2>19. QED
    BY <1>3, <2>1, <2>2, <2>3, <2>4, <2>5, <2>6, <2>7, <2>8, <2>9, <2>10, <2>11, <2>12, <2>13,
        <2>14, <2>15, <2>16, <2>17, <2>18 DEF Run
<1>4. ASSUME NEW t \in Task, Complete(t) PROVE \A p \in Task : ReleaseAt(p)'
  <2> Delayed' = Delayed
    BY <1>4, SameProgram DEF Complete
  <2>1. CASE MarkAsFinished(t)
    BY <2>1, <1>1, ReleaseStays DEF MarkAsFinished
  <2>2. CASE DelayRelease(t)
    <3>1. \A u \in Task : ~At(u, t)
      BY <2>2 DEF DelayRelease, At, Climbers, Sleeps
    <3>2. FlagsAt(t)
      BY DEF Flags
    <3>3. QED
      BY <2>2, <3>1, <3>2, <1>1 DEF DelayRelease, ReleaseAt, FlagsAt, At
  <2>3. CASE CompleteDelayedRelease(t)
    BY <2>3, <1>1, ReleaseStays DEF CompleteDelayedRelease
  <2>4. CASE ReleaseDependencies(t)
    BY <2>4, <1>1, ReleaseStays DEF ReleaseDependencies
  <2>5. CASE FinishSelf(t)
    BY <2>5, <1>1 DEF FinishSelf, ReleaseAt, At
  <2>6. CASE WakeAncestor(t)
    <3>1. pc[cur[t]] # "detached"
      BY <2>6, <1>2 DEF WakeAncestor, Flags, FlagsAt
    <3>2. QED
      BY <2>6, <1>1, <3>1 DEF WakeAncestor, ReleaseAt, At
  <2>7. CASE PassFinished(t)
    <3>1. pc[cur[t]] # "detached"
      BY <2>7, <1>1, <1>2 DEF PassFinished, ReleaseAt, At, Climbers
    <3>2. QED
      BY <2>7, <1>1, <3>1 DEF PassFinished, ReleaseAt, At
  <2>8. CASE ReleaseAncestor(t)
    <3>1. cur[t] \in Task /\ cur[t] # t /\ pc[cur[t]] = "detached" /\ releases[cur[t]] = 0
      BY <2>8, <1>1, <1>2 DEF ReleaseAncestor, Flags, FlagsAt, Climbers, Sleeps, ReleaseAt
    <3>2. PICK a \in Task : a = cur[t]
      BY <3>1
    <3>3. \A p \in Task : p # a => ReleaseAt(p)'
      BY <2>8, <1>1, <3>1, <3>2 DEF ReleaseAncestor, ReleaseAt, At
    <3>4. ReleaseAt(a)'
      BY <2>8, <1>1, <3>1, <3>2 DEF ReleaseAncestor, ReleaseAt, At
    <3>5. QED
      BY <3>3, <3>4
  <2>9. CASE FinishAncestor(t)
    BY <2>9, <1>1, <1>2 DEF FinishAncestor, ReleaseAt, At
  <2>10. CASE RemoveAncestor(t)
    <3>1. cur[t] \in Task /\ cur[t] # t
      BY <2>10, ClimbersOf DEF RemoveAncestor
    <3>2. PICK a \in Task : a = cur[t]
      BY <3>1
    <3>3. ReleaseAt(a)'
      BY <2>10, <3>1, <3>2 DEF RemoveAncestor, DropRemoval, ReleaseAt
    <3>4. \A p \in Task : p # a => ReleaseAt(p)'
      <4>1. \A u \in Task : pc'[u] = IF u = a THEN "done" ELSE IF u = t THEN "up" ELSE pc[u]
        BY <2>10, <3>1, <3>2 DEF RemoveAncestor
      <4>2. cur' = cur /\ delayed' = delayed /\ releases' = releases /\ pc[a] = "detached"
        BY <2>10, <3>2, ClimbersOf DEF RemoveAncestor
      <4>3. QED
        BY <1>1, <3>1, <3>2, <4>1, <4>2 DEF ReleaseAt, At
    <3>5. QED
      BY <3>3, <3>4
  <2>11. CASE FinishParent(t)
    <3>1. cur[t] \in Task /\ pc[cur[t]] # "detached"
      BY <2>11, <1>2 DEF FinishParent, Climbers
    <3>2. PICK a \in Task \cup {NoTask} : a = Parent[cur[t]]
      BY <3>1, ParentType
    <3>3. \A p \in Task : p # a => ReleaseAt(p)'
      BY <2>11, <1>1, <3>1, <3>2 DEF FinishParent, ReleaseAt, At
    <3>4. a \in Task => ReleaseAt(a)'
      <4>1. SUFFICES ASSUME a \in Task, pc'[a] = "detached" PROVE ReleaseAt(a)'
        BY DEF ReleaseAt
      <4>2. a # t /\ pc[a] = "detached" /\ ReleaseAt(a)
        BY <2>11, <4>1, <1>1 DEF FinishParent
      <4>3. \A u \in Task \ {t} : pc'[u] = pc[u] /\ (At(u, a)' <=> At(u, a))
        BY <2>11 DEF FinishParent, At
      <4>4. pc'[t] \in {"climbing", "removing"} /\ ~At(t, a)
        BY <2>11, <3>1, <4>2 DEF FinishParent, At
      <4>5. delayed' = delayed /\ releases' = releases
        BY <2>11 DEF FinishParent
      <4>6. QED
        BY <4>1, <4>2, <4>3, <4>4, <4>5 DEF ReleaseAt, At
    <3>5. QED
      BY <3>3, <3>4
  <2>12. CASE RemoveSelf(t)
    BY SMTT(30), <2>12, <1>1, LifecycleAssumption DEF RemoveSelf, DropRemoval, ReleaseAt, At
  <2>13. QED
    BY <1>4, <2>1, <2>2, <2>3, <2>4, <2>5, <2>6, <2>7, <2>8, <2>9, <2>10, <2>11, <2>12 DEF Complete
<1>5. ASSUME NEW t \in Task, Dispose(t) PROVE \A p \in Task : ReleaseAt(p)'
  <2> Delayed' = Delayed
    BY <1>5, SameProgram DEF Dispose
  <2>1. CASE DropParent(t)
    BY <2>1, <1>1, ReleaseStays DEF DropParent
  <2>2. CASE FreeTask(t)
    BY <2>2, <1>1, ReleaseStays DEF FreeTask
  <2>3. CASE DestroyTask(t)
    BY <2>3, <1>1, ReleaseStays DEF DestroyTask
  <2>4. QED
    BY <1>5, <2>1, <2>2, <2>3 DEF Dispose
<1>6. ASSUME NEW t \in Task, Environment(t) PROVE \A p \in Task : ReleaseAt(p)'
  <2> Delayed' = Delayed
    BY <1>6, SameProgram DEF Environment
  <2>1. CASE BecomesReady(t)
    BY <2>1, <1>1, ReleaseStays DEF BecomesReady
  <2>2. CASE DecreaseEvents(t)
    BY <2>2, <1>1, ReleaseStays DEF DecreaseEvents
  <2>3. CASE AccessesGone(t)
    BY <2>3, <1>1, ReleaseStays DEF AccessesGone, DropRemoval
  <2>4. QED
    BY <1>6, <2>1, <2>2, <2>3 DEF Environment
<1>7. CASE Shutdown
  BY <1>7, <1>1, SameProgram DEF Shutdown, ReleaseAt, At
<1>8. CASE UNCHANGED vars
  BY <1>8, <1>1, SameProgram DEF vars, counters, flags, external, accesses, disposeVars, ReleaseAt,
      At
<1>9. QED
  BY <1>3, <1>4, <1>5, <1>6, <1>7, <1>8 DEF Next, Terminated
LEMMA FlagsStep ==
  ASSUME TypesOK, Flow, Climbers, Flags, [Next]_vars
  PROVE  Flags'
  BY FlagsAtStep, ReleaseAtStep DEF Flags

(* Who is at a task in the loop of taskFinished is alone there, and the    *)
(* task does not run.                                                      *)
LEMMA AtFacts ==
  ASSUME TypesOK, Climbers, NEW t \in Task, NEW a \in Task, At(t, a)
  PROVE  /\ \A u \in Task : At(u, a) => u = t
         /\ pc[a] \in Sleeps \cup {"detached"} \cup Over
         /\ wakeUp[a] = IF pc[t] = "finishAncestor" THEN 1 ELSE 0
         /\ pc[t] = "finishAncestor" => pc[a] = "detached"
  BY DEF At, Climbers, Over, Climb

LEMMA CountedFinite ==
  ASSUME NEW a \in Task
  PROVE  IsFiniteSet(Counted(a)) /\ Cardinality(Counted(a)) \in Nat
         /\ (Counted(a) # {} => Cardinality(Counted(a)) > 0)
         /\ (Cardinality(Counted(a)) = 0 => Counted(a) = {})
<1>1. Counted(a) \subseteq Task /\ IsFiniteSet(Task)
  BY LifecycleAssumption DEF Counted, Kids
<1>2. IsFiniteSet(Counted(a))
  BY <1>1, FS_Subset
<1>3. QED
  BY <1>2, FS_CardinalityType, FS_EmptySet

(* A thread that goes on from a task finds its parent counting that task:  *)
(* nobody else is there, and it can go on only if the parent does not run. *)
LEMMA Arrival ==
  ASSUME TypesOK, Flow, Climbers, WakeUpCounts, NEW t \in Task, pc[t] = "up",
         NEW a \in Task, a = Parent[cur[t]]
  PROVE  /\ cur[t] \in Counted(a) /\ a # cur[t]
         /\ \A u \in Task : ~At(u, a)
         /\ wakeUp[a] \in Nat /\ wakeUp[a] > 0 /\ wakeUp[a] >= Itself(a) + 1
         /\ wakeUp[a] = 1 => pc[a] \in Sleeps \cup {"detached"} \cup Over
         /\ pc[a] \notin {"unblocking", "undelaying"}
         /\ a \in Delayed => pc[a] # "release"
<1>1. cur[t] \in Task /\ At(t, cur[t]) /\ pc[cur[t]] \in Over /\ wakeUp[cur[t]] = 0
  BY DEF Climbers, At, Climb, Over
<1>2. cur[t] \in Counted(a)
  BY <1>1 DEF Counted, Kids, Passed, Over, Climb
<1>3. Cardinality(Counted(a)) \in Nat /\ Cardinality(Counted(a)) > 0
  BY <1>2, CountedFinite
<1>4. wakeUp[a] = Itself(a) + Cardinality(Counted(a)) /\ Itself(a) \in {0, 1} /\ Awake(a)
  BY DEF WakeUpCounts, WakeAt, Itself
<1>5. wakeUp[a] \in Nat /\ wakeUp[a] > 0 /\ wakeUp[a] >= Itself(a) + 1
  BY <1>3, <1>4
<1>6. \A u \in Task : ~At(u, a)
  <2> SUFFICES ASSUME NEW u \in Task, At(u, a) PROVE FALSE
    OBVIOUS
  <2>1. wakeUp[a] = 1 /\ pc[u] = "finishAncestor" /\ pc[a] = "detached"
    BY <1>5, AtFacts
  <2>2. Itself(a) = 1
    BY <2>1 DEF Itself, Sleeps, Over, Climb
  <2>3. QED
    BY <1>5, <2>1, <2>2
<1>7. wakeUp[a] = 1 => pc[a] \in Sleeps \cup {"detached"} \cup Over
  <2>1. wakeUp[a] = 1 => Itself(a) = 0
    BY <1>4, <1>5
  <2>2. QED
    BY <1>4, <1>5, <2>1 DEF Itself, Awake
<1>8. a \in Delayed => pc[a] # "release"
  <2>1. pc[a] = "release" => Itself(a) = 1
    BY DEF Itself, Sleeps, Over, Climb
  <2>2. QED
    BY <1>4, <1>5, <2>1 DEF Awake
<1>9. QED
  BY <1>1, <1>2, <1>4, <1>5, <1>6, <1>7, <1>8 DEF Awake

LEMMA ClimbersStay ==
  ASSUME TypesOK, Climbers, cur' = cur,
         \A u \in Task : pc[u] \in Climb \/ pc'[u] \in Climb => pc'[u] = pc[u],
         \A a \in Task : (\E u \in Task : At(u, a)) =>
           /\ wakeUp'[a] = wakeUp[a] /\ (pc[a] = "detached" => delayed'[a] = delayed[a])
           /\ \/ pc'[a] = pc[a]
              \/ pc[a] \in Sleeps /\ pc'[a] \in Sleeps
              \/ pc[a] \in Over /\ pc'[a] \in Over
  PROVE  Climbers'
<1>1. \A t \in Task : pc'[t] \in Climb =>
        /\ pc'[t] = pc[t] /\ cur[t] \in Task /\ wakeUp'[cur[t]] = wakeUp[cur[t]]
        /\ (pc[cur[t]] = "detached" => delayed'[cur[t]] = delayed[cur[t]])
        /\ \/ pc'[cur[t]] = pc[cur[t]]
           \/ pc[cur[t]] \in Sleeps /\ pc'[cur[t]] \in Sleeps
           \/ pc[cur[t]] \in Over /\ pc'[cur[t]] \in Over
  BY DEF Climbers, At
<1>2. QED
  BY <1>1 DEF Climbers, Sleeps, Over, Climb

(* Every step keeps what is known of the threads in that loop.             *)
LEMMA ClimbersStep ==
  ASSUME TypesOK, Flow, Climbers, Flags, WakeUpCounts, Permits, [Next]_vars
  PROVE  Climbers'
<1> USE DEF counters, flags, external, accesses, disposeVars, Pc, Early, Creates, Waits, Sleeps,
    InBody, Ended, Over, Climb
<1> /\ pc \in [Task -> Pc] /\ cur \in [Task -> Task \cup {NoTask}]
    /\ wakeUp \in [Task -> Int] /\ delayed \in [Task -> BOOLEAN]
  BY DEF TypesOK
<1>1. \A u, a \in Task : At(u, a) => pc[a] \in Sleeps \cup {"detached"} \cup Over
  BY AtFacts
<1>2. \A p \in Task : FlagsAt(p) /\ ReleaseAt(p)
  BY DEF Flags
<1>3. ASSUME NEW t \in Task, Run(t) PROVE Climbers'
  <2> program' = program
    BY <1>3 DEF Run
  <2>1. CASE SubmitTask(t)
    BY <2>1, <1>1, ClimbersStay, AtCreate DEF SubmitTask, AddChild, AtOp
  <2>2. CASE SubmitReady(t)
    <3>1. Subject(t) \in Task /\ pc[Subject(t)] = "registered"
      BY <2>2, InCreate DEF SubmitReady, Flow, Reached, ReachedAt
    <3>2. QED
      BY <2>2, <3>1, <1>1, ClimbersStay DEF SubmitReady
  <2>3. CASE InlineReturns(t)
    BY <2>3, <1>1, ClimbersStay, InCreate DEF InlineReturns
  <2>4. CASE SubmitNotReady(t)
    BY <2>4, <1>1, ClimbersStay, InCreate DEF SubmitNotReady
  <2>5. CASE If0Returns(t)
    BY <2>5, <1>1, ClimbersStay, InCreate DEF If0Returns
  <2>6. CASE Spawn(t)
    BY <2>6, <1>1, ClimbersStay, AtSpawn DEF Spawn, AtOp
  <2>7. CASE StartTask(t)
    BY <2>7, <1>1, ClimbersStay DEF StartTask
  <2>8. CASE IncreaseEvents(t)
    BY <2>8, <1>1, ClimbersStay DEF IncreaseEvents, AtOp
  <2>9. CASE EnterTaskwait(t)
    BY <2>9, <1>1, ClimbersStay DEF EnterTaskwait, AtOp
  <2>10. CASE MarkAsBlocked(t)
    BY <2>10, <1>1, ClimbersStay DEF MarkAsBlocked
  <2>11. CASE SuspendCoroutine(t)
    BY <2>11, <1>1, ClimbersStay DEF SuspendCoroutine, SubmitCreator
  <2>12. CASE Resume(t)
    <3>1. \A u \in Task : ~At(u, t)
      BY <2>12 DEF Resume, Permits, PermitAt, Waits
    <3>2. QED
      BY <2>12, <1>1, <3>1, ClimbersStay DEF Resume
  <2>13. CASE MarkAsUnblocked(t)
    BY <2>13, <1>1, ClimbersStay DEF MarkAsUnblocked
  <2>14. CASE GetBlockingContext(t)
    BY <2>14, <1>1, ClimbersStay DEF GetBlockingContext, AtOp
  <2>15. CASE BlockCurrentTask(t)
    BY <2>15, <1>1, ClimbersStay DEF BlockCurrentTask, AtOp
  <2>16. CASE ReturnFromBlock(t)
    BY <2>16, <1>1, ClimbersStay DEF ReturnFromBlock
  <2>17. CASE UnblockTask(t)
    BY <2>17, <1>1, ClimbersStay DEF UnblockTask, AtOp
  <2>18. CASE EndBody(t)
    BY <2>18, <1>1, ClimbersStay DEF EndBody, SubmitCreator
  <2>19. QED
    BY <1>3, <2>1, <2>2, <2>3, <2>4, <2>5, <2>6, <2>7, <2>8, <2>9, <2>10, <2>11, <2>12, <2>13,
        <2>14, <2>15, <2>16, <2>17, <2>18 DEF Run
<1>4. ASSUME NEW t \in Task, Complete(t) PROVE Climbers'
  <2> program' = program
    BY <1>4 DEF Complete
  <2>1. CASE MarkAsFinished(t)
    BY <2>1, <1>1, ClimbersStay DEF MarkAsFinished
  <2>2. CASE DelayRelease(t)
    BY <2>2, <1>1, ClimbersStay DEF DelayRelease
  <2>3. CASE CompleteDelayedRelease(t)
    BY <2>3, <1>1, ClimbersStay DEF CompleteDelayedRelease
  <2>4. CASE ReleaseDependencies(t)
    BY <2>4, <1>1, ClimbersStay DEF ReleaseDependencies
  <2>5. CASE FinishSelf(t)
    <3>1. \A u \in Task : ~At(u, t)
      BY <2>5, <1>1 DEF FinishSelf
    <3>2. QED
      BY <2>5, <3>1 DEF FinishSelf, Climbers, At
  <2>6. CASE WakeAncestor(t)
    BY <2>6 DEF WakeAncestor, Climbers
  <2>7. CASE PassFinished(t)
    <3>1. cur[t] \in Task /\ pc[cur[t]] \in Over
      BY <2>7, <1>2 DEF PassFinished, Climbers, FlagsAt, ReleaseAt, At
    <3>2. QED
      BY <2>7, <3>1 DEF PassFinished, Climbers
  <2>8. CASE ReleaseAncestor(t)
    <3>1. /\ cur[t] \in Task /\ cur[t] # t /\ pc[cur[t]] = "detached" /\ wakeUp[cur[t]] = 0
          /\ \A u \in Task : u # t => ~At(u, cur[t])
      BY <2>8, <1>1, <1>2 DEF ReleaseAncestor, FlagsAt, Climbers, At
    <3>2. PICK a \in Task : a = cur[t]
      BY <3>1
    <3>3. /\ pc' = [pc EXCEPT ![t] = "finishAncestor"] /\ cur' = cur
          /\ wakeUp' = [wakeUp EXCEPT ![a] = @ + 1] /\ delayed' = [delayed EXCEPT ![a] = FALSE]
      BY <2>8, <3>2 DEF ReleaseAncestor
    <3>4. pc[t] = "climbing"
      BY <2>8 DEF ReleaseAncestor
    <3>5. QED
      BY <3>1, <3>2, <3>3, <3>4 DEF Climbers, At
  <2>9. CASE FinishAncestor(t)
    <3>1. /\ cur[t] \in Task /\ cur[t] # t /\ pc[cur[t]] = "detached" /\ wakeUp[cur[t]] = 1
          /\ \A u \in Task : u # t => ~At(u, cur[t])
      BY <2>9, ClimbersOf DEF FinishAncestor, Climbers, At
    <3>2. PICK a \in Task : a = cur[t]
      BY <3>1
    <3>3. /\ pc' = [pc EXCEPT ![t] = "removeAncestor"] /\ cur' = cur
          /\ wakeUp' = [wakeUp EXCEPT ![a] = @ - 1] /\ delayed' = delayed
          /\ pc[t] = "finishAncestor"
      BY <2>9, <3>2 DEF FinishAncestor
    <3>4. QED
      BY <3>1, <3>2, <3>3 DEF Climbers, At
  <2>10. CASE RemoveAncestor(t)
    <3>1. /\ cur[t] \in Task /\ cur[t] # t /\ pc[cur[t]] = "detached" /\ wakeUp[cur[t]] = 0
          /\ \A u \in Task : u # t => ~At(u, cur[t])
      BY <2>10, ClimbersOf DEF RemoveAncestor, Climbers, At
    <3>2. PICK a \in Task : a = cur[t]
      BY <3>1
    <3>3. /\ \A u \in Task : pc'[u] = IF u = a THEN "done" ELSE IF u = t THEN "up" ELSE pc[u]
          /\ cur' = cur /\ wakeUp' = wakeUp /\ delayed' = delayed /\ pc[t] = "removeAncestor"
      BY <2>10, <3>1, <3>2 DEF RemoveAncestor
    <3>4. QED
      BY <3>1, <3>2, <3>3 DEF Climbers, At
  <2>11. CASE FinishParent(t)
    <3>1. CASE Parent[cur[t]] = NoTask
      BY <2>11, <3>1 DEF FinishParent, Climbers
    <3>2. CASE Parent[cur[t]] # NoTask
      <4>1. cur[t] \in Task /\ pc[t] = "up"
        BY <2>11 DEF FinishParent, Climbers
      <4>2. PICK a \in Task : a = Parent[cur[t]]
        BY <3>2, <4>1, ParentType
      <4>3. /\ \A u \in Task : ~At(u, a)
            /\ wakeUp[a] = 1 => pc[a] \in Sleeps \cup {"detached"} \cup Over
        BY <4>1, <4>2, Arrival
      <4>4. /\ cur' = [cur EXCEPT ![t] = a] /\ wakeUp' = [wakeUp EXCEPT ![a] = @ - 1]
            /\ pc' = [pc EXCEPT ![t] = IF wakeUp[a] = 1 THEN "climbing" ELSE "removing"]
            /\ delayed' = delayed
        BY <2>11, <3>2, <4>2 DEF FinishParent
      <4>5. QED
        BY <4>1, <4>3, <4>4 DEF Climbers, At
    <3>3. QED
      BY <3>1, <3>2
  <2>12. CASE RemoveSelf(t)
    BY <2>12 DEF RemoveSelf, DropRemoval, Climbers
  <2>13. QED
    BY <1>4, <2>1, <2>2, <2>3, <2>4, <2>5, <2>6, <2>7, <2>8, <2>9, <2>10, <2>11, <2>12 DEF Complete
<1>5. ASSUME NEW t \in Task, Dispose(t) PROVE Climbers'
  <2> program' = program
    BY <1>5 DEF Dispose
  <2>1. CASE DropParent(t)
    BY <2>1, <1>1, ClimbersStay DEF DropParent
  <2>2. CASE FreeTask(t)
    BY <2>2, <1>1, ClimbersStay DEF FreeTask
  <2>3. CASE DestroyTask(t)
    BY <2>3, <1>1, ClimbersStay DEF DestroyTask
  <2>4. QED
    BY <1>5, <2>1, <2>2, <2>3 DEF Dispose
<1>6. ASSUME NEW t \in Task, Environment(t) PROVE Climbers'
  <2> program' = program
    BY <1>6 DEF Environment
  <2>1. CASE BecomesReady(t)
    BY <2>1, <1>1, ClimbersStay DEF BecomesReady
  <2>2. CASE DecreaseEvents(t)
    BY <2>2, <1>1, ClimbersStay DEF DecreaseEvents
  <2>3. CASE AccessesGone(t)
    BY <2>3, <1>1, ClimbersStay DEF AccessesGone, DropRemoval
  <2>4. QED
    BY <1>6, <2>1, <2>2, <2>3 DEF Environment
<1>7. CASE Shutdown
  BY <1>7, <1>1, ClimbersStay DEF Shutdown
<1>8. CASE UNCHANGED vars
  BY <1>8, <1>1, ClimbersStay DEF vars, counters, flags, external, accesses, disposeVars
<1>9. QED
  BY <1>3, <1>4, <1>5, <1>6, <1>7, <1>8 DEF Next, Terminated

(* What a step of a task that neither enters nor leaves the loop keeps.    *)
LEMMA PassedStays ==
  ASSUME \A u \in Task : pc[u] \in Climb \/ pc'[u] \in Climb =>
                           pc[u] \in Climb /\ pc'[u] \in Climb /\ cur'[u] = cur[u],
         \A c \in Task : pc[c] \in Over \/ pc'[c] \in Over =>
                           pc[c] \in Over /\ pc'[c] \in Over /\ wakeUp'[c] = wakeUp[c]
  PROVE  /\ \A u, a \in Task : At(u, a)' <=> At(u, a)
         /\ \A c \in Task : Passed(c)' <=> Passed(c)
  BY DEF Passed, At

LEMMA ItselfStays ==
  ASSUME \A u, a \in Task : At(u, a)' <=> At(u, a),
         \A u \in Task : pc'[u] = "finishAncestor" <=> pc[u] = "finishAncestor"
  PROVE  \A a \in Task : pc'[a] = pc[a] => Itself(a)' = Itself(a)
  BY DEF Itself

LEMMA WakeStays ==
  ASSUME TypesOK, \A a \in Task : WakeAt(a), Parent' = Parent,
         \A c \in Task : Parent[c] \in Task => (pc'[c] = "none" <=> pc[c] = "none"),
         \A c \in Task : Passed(c)' <=> Passed(c),
         \A a \in Task : wakeUp'[a] = wakeUp[a] + (Itself(a)' - Itself(a))
  PROVE  \A a \in Task : WakeAt(a)'
<1> SUFFICES ASSUME NEW a \in Task PROVE WakeAt(a)'
  OBVIOUS
<1>1. Counted(a)' = Counted(a)
  BY DEF Counted, Kids
<1>2. Cardinality(Counted(a)) \in Nat /\ wakeUp[a] \in Int
  BY CountedFinite DEF TypesOK
<1>3. Itself(a) \in Int /\ Itself(a)' \in Int
  BY DEF Itself
<1>4. QED
  BY <1>1, <1>2, <1>3 DEF WakeAt

(* Every step keeps what the first counter counts ...                      *)
LEMMA WakeAtStep ==
  ASSUME TypesOK, Flow, Climbers, Flags, WakeUpCounts, Permits, [Next]_vars
  PROVE  \A a \in Task : WakeAt(a)'
<1> USE DEF counters, flags, external, accesses, disposeVars, Pc, Early, Creates, Waits, Sleeps,
    InBody, Ended, Over, Climb
<1> /\ pc \in [Task -> Pc] /\ cur \in [Task -> Task \cup {NoTask}]
    /\ wakeUp \in [Task -> Int] /\ delayed \in [Task -> BOOLEAN]
  BY DEF TypesOK
<1>1. \A u, a \in Task : At(u, a) => pc[a] \in Sleeps \cup {"detached"} \cup Over
  BY AtFacts
<1>2. \A a \in Task : WakeAt(a)
  BY DEF WakeUpCounts
<1>3. \A x \in Task : Itself(x) \in {0, 1} /\ Itself(x)' \in {0, 1}
  BY DEF Itself
<1>4. ASSUME NEW t \in Task, Run(t) PROVE \A a \in Task : WakeAt(a)'
  <2> Parent' = Parent /\ Spawned' = Spawned
    BY <1>4, SameProgram DEF Run
  <2>1. CASE SubmitTask(t)
    <3> DEFINE c == Subject(t)
    <3>1. c \in Task /\ Parent[c] = t /\ pc[c] = "none" /\ c # t /\ pc[t] = "body"
      BY <2>1, AtCreate DEF SubmitTask, AtOp
    <3>2. /\ \A u \in Task \ {t, c} : pc'[u] = pc[u]
          /\ pc'[t] \in {"ready", "notReady"} /\ pc'[c] \in {"registered", "dependent"}
          /\ cur' = cur /\ \A u \in Task : wakeUp'[u] = IF u = t THEN wakeUp[u] + 1 ELSE wakeUp[u]
      BY <2>1, <3>1 DEF SubmitTask, AddChild
    <3>3. /\ \A u, x \in Task : At(u, x)' <=> At(u, x)
          /\ \A d \in Task : Passed(d)' <=> Passed(d)
      BY <3>1, <3>2, PassedStays
    <3>4. \A x \in Task : Itself(x)' = Itself(x)
      BY <3>1, <3>2, <3>3, ItselfStays DEF Itself
    <3>5. \A x \in Task \ {t} : Counted(x)' = Counted(x)
      BY <3>1, <3>2, <3>3 DEF Counted, Kids
    <3>6. Counted(t)' = Counted(t) \cup {c} /\ c \notin Counted(t)
      BY <3>1, <3>2, <3>3 DEF Counted, Kids, Passed
    <3>7. Cardinality(Counted(t))' = Cardinality(Counted(t)) + 1
      BY <3>6, CountedFinite, FS_AddElement
    <3>8. Cardinality(Counted(t)) \in Nat /\ Itself(t) \in Int
      BY CountedFinite DEF Itself
    <3>9. WakeAt(t)'
      BY <3>2, <3>4, <3>7, <3>8, <1>2 DEF WakeAt
    <3>10. \A x \in Task \ {t} : WakeAt(x)'
      BY <3>2, <3>4, <3>5, <1>2 DEF WakeAt
    <3>11. QED
      BY <3>9, <3>10
  <2>2. CASE SubmitReady(t)
    <3>0. Subject(t) \in Task /\ pc[Subject(t)] = "registered"
      BY <2>2, InCreate DEF SubmitReady, Flow, Reached, ReachedAt
    <3>1. /\ \A u, x \in Task : At(u, x)' <=> At(u, x)
          /\ \A c \in Task : Passed(c)' <=> Passed(c)
      BY <2>2, <3>0, PassedStays DEF SubmitReady
    <3>2. \A x \in Task : wakeUp'[x] = wakeUp[x] + (Itself(x)' - Itself(x))
      BY <2>2, <3>0, <3>1, <1>1, ItselfStays DEF SubmitReady, Itself
    <3>3. QED
      BY <2>2, <3>0, <3>1, <3>2, <1>2, WakeStays DEF SubmitReady
  <2>3. CASE InlineReturns(t)
    <3>1. /\ \A u, x \in Task : At(u, x)' <=> At(u, x)
          /\ \A c \in Task : Passed(c)' <=> Passed(c)
      BY <2>3, InCreate, PassedStays DEF InlineReturns
    <3>2. \A x \in Task : wakeUp'[x] = wakeUp[x] + (Itself(x)' - Itself(x))
      BY <2>3, InCreate, <3>1, <1>1, ItselfStays DEF InlineReturns, Itself
    <3>3. QED
      BY <2>3, InCreate, <3>1, <3>2, <1>2, WakeStays DEF InlineReturns
  <2>4. CASE SubmitNotReady(t)
    <3>1. /\ \A u, x \in Task : At(u, x)' <=> At(u, x)
          /\ \A c \in Task : Passed(c)' <=> Passed(c)
      BY <2>4, InCreate, PassedStays DEF SubmitNotReady
    <3>2. \A x \in Task : wakeUp'[x] = wakeUp[x] + (Itself(x)' - Itself(x))
      BY <2>4, InCreate, <3>1, <1>1, ItselfStays DEF SubmitNotReady, Itself
    <3>3. QED
      BY <2>4, InCreate, <3>1, <3>2, <1>2, WakeStays DEF SubmitNotReady
  <2>5. CASE If0Returns(t)
    <3>1. /\ \A u, x \in Task : At(u, x)' <=> At(u, x)
          /\ \A c \in Task : Passed(c)' <=> Passed(c)
      BY <2>5, InCreate, PassedStays DEF If0Returns
    <3>2. \A x \in Task : wakeUp'[x] = wakeUp[x] + (Itself(x)' - Itself(x))
      BY <2>5, InCreate, <3>1, <1>1, ItselfStays DEF If0Returns, Itself
    <3>3. QED
      BY <2>5, InCreate, <3>1, <3>2, <1>2, WakeStays DEF If0Returns
  <2>6. CASE Spawn(t)
    <3>1. /\ \A u, x \in Task : At(u, x)' <=> At(u, x)
          /\ \A c \in Task : Passed(c)' <=> Passed(c)
      BY <2>6, AtSpawn, LifecycleAssumption, PassedStays DEF Spawn, AtOp
    <3>2. \A x \in Task : wakeUp'[x] = wakeUp[x] + (Itself(x)' - Itself(x))
      BY <2>6, AtSpawn, LifecycleAssumption, <3>1, <1>1, ItselfStays DEF Spawn, AtOp, Itself
    <3>3. QED
      BY <2>6, AtSpawn, LifecycleAssumption, <3>1, <3>2, <1>2, WakeStays DEF Spawn, AtOp
  <2>7. CASE StartTask(t)
    <3>1. /\ \A u, x \in Task : At(u, x)' <=> At(u, x)
          /\ \A c \in Task : Passed(c)' <=> Passed(c)
      BY <2>7, PassedStays DEF StartTask
    <3>2. \A x \in Task : wakeUp'[x] = wakeUp[x] + (Itself(x)' - Itself(x))
      BY <2>7, <3>1, <1>1, ItselfStays DEF StartTask, Itself
    <3>3. QED
      BY <2>7, <3>1, <3>2, <1>2, WakeStays DEF StartTask
  <2>8. CASE IncreaseEvents(t)
    BY <2>8, <1>2 DEF IncreaseEvents, WakeAt, Itself, Counted, Kids, Passed, At
  <2>9. CASE EnterTaskwait(t)
    <3>1. /\ \A u, x \in Task : At(u, x)' <=> At(u, x)
          /\ \A c \in Task : Passed(c)' <=> Passed(c)
      BY <2>9, PassedStays DEF EnterTaskwait, AtOp
    <3>2. \A x \in Task : wakeUp'[x] = wakeUp[x] + (Itself(x)' - Itself(x))
      BY <2>9, <3>1, <1>1, ItselfStays DEF EnterTaskwait, AtOp, Itself
    <3>3. QED
      BY <2>9, <3>1, <3>2, <1>2, WakeStays DEF EnterTaskwait, AtOp
  <2>10. CASE MarkAsBlocked(t)
    <3>1. /\ \A u, x \in Task : At(u, x)' <=> At(u, x)
          /\ \A c \in Task : Passed(c)' <=> Passed(c)
      BY <2>10, PassedStays DEF MarkAsBlocked
    <3>2. \A x \in Task : wakeUp'[x] = wakeUp[x] + (Itself(x)' - Itself(x))
      BY <2>10, <3>1, <1>1, ItselfStays DEF MarkAsBlocked, Itself
    <3>3. QED
      BY <2>10, <3>1, <3>2, <1>2, WakeStays DEF MarkAsBlocked
  <2>11. CASE SuspendCoroutine(t)
    <3>1. /\ \A u, x \in Task : At(u, x)' <=> At(u, x)
          /\ \A c \in Task : Passed(c)' <=> Passed(c)
      BY <2>11, PassedStays DEF SuspendCoroutine
    <3>2. \A x \in Task : wakeUp'[x] = wakeUp[x] + (Itself(x)' - Itself(x))
      BY <2>11, <3>1, <1>1, ItselfStays DEF SuspendCoroutine, Itself
    <3>3. QED
      BY <2>11, <3>1, <3>2, <1>2, WakeStays DEF SuspendCoroutine
  <2>12. CASE Resume(t)
    <3>1. /\ \A u, x \in Task : At(u, x)' <=> At(u, x)
          /\ \A c \in Task : Passed(c)' <=> Passed(c)
      BY <2>12, PassedStays DEF Resume
    <3>2. \A x \in Task : wakeUp'[x] = wakeUp[x] + (Itself(x)' - Itself(x))
      BY <2>12, <3>1, <1>1, ItselfStays DEF Resume, Itself
    <3>3. QED
      BY <2>12, <3>1, <3>2, <1>2, WakeStays DEF Resume
  <2>13. CASE MarkAsUnblocked(t)
    <3>1. /\ \A u, x \in Task : At(u, x)' <=> At(u, x)
          /\ \A c \in Task : Passed(c)' <=> Passed(c)
      BY <2>13, PassedStays DEF MarkAsUnblocked
    <3>2. \A x \in Task : wakeUp'[x] = wakeUp[x] + (Itself(x)' - Itself(x))
      BY <2>13, <3>1, <1>1, ItselfStays DEF MarkAsUnblocked, Itself
    <3>3. QED
      BY <2>13, <3>1, <3>2, <1>2, WakeStays DEF MarkAsUnblocked
  <2>14. CASE GetBlockingContext(t)
    BY <2>14, <1>2 DEF GetBlockingContext, WakeAt, Itself, Counted, Kids, Passed, At
  <2>15. CASE BlockCurrentTask(t)
    <3>1. /\ \A u, x \in Task : At(u, x)' <=> At(u, x)
          /\ \A c \in Task : Passed(c)' <=> Passed(c)
      BY <2>15, PassedStays DEF BlockCurrentTask, AtOp
    <3>2. \A x \in Task : wakeUp'[x] = wakeUp[x] + (Itself(x)' - Itself(x))
      BY <2>15, <3>1, <1>1, ItselfStays DEF BlockCurrentTask, AtOp, Itself
    <3>3. QED
      BY <2>15, <3>1, <3>2, <1>2, WakeStays DEF BlockCurrentTask, AtOp
  <2>16. CASE ReturnFromBlock(t)
    <3>1. /\ \A u, x \in Task : At(u, x)' <=> At(u, x)
          /\ \A c \in Task : Passed(c)' <=> Passed(c)
      BY <2>16, PassedStays DEF ReturnFromBlock
    <3>2. \A x \in Task : wakeUp'[x] = wakeUp[x] + (Itself(x)' - Itself(x))
      BY <2>16, <3>1, <1>1, ItselfStays DEF ReturnFromBlock, Itself
    <3>3. QED
      BY <2>16, <3>1, <3>2, <1>2, WakeStays DEF ReturnFromBlock
  <2>17. CASE UnblockTask(t)
    BY <2>17, <1>2 DEF UnblockTask, WakeAt, Itself, Counted, Kids, Passed, At
  <2>18. CASE EndBody(t)
    <3>1. /\ \A u, x \in Task : At(u, x)' <=> At(u, x)
          /\ \A c \in Task : Passed(c)' <=> Passed(c)
      BY <2>18, PassedStays DEF EndBody
    <3>2. \A x \in Task : wakeUp'[x] = wakeUp[x] + (Itself(x)' - Itself(x))
      <4>1. pc[t] = "body" /\ pc' = [pc EXCEPT ![t] = "ended"] /\ wakeUp' = wakeUp
        BY <2>18 DEF EndBody
      <4>2. QED
        BY <3>1, <4>1, ItselfStays DEF Itself
    <3>3. QED
      BY <2>18, <3>1, <3>2, <1>2, WakeStays DEF EndBody
  <2>19. QED
    BY <1>4, <2>1, <2>2, <2>3, <2>4, <2>5, <2>6, <2>7, <2>8, <2>9, <2>10, <2>11, <2>12, <2>13,
        <2>14, <2>15, <2>16, <2>17, <2>18 DEF Run
<1>5. ASSUME NEW t \in Task, Complete(t) PROVE \A a \in Task : WakeAt(a)'
  <2> Parent' = Parent /\ Spawned' = Spawned
    BY <1>5, SameProgram DEF Complete
  <2>1. CASE MarkAsFinished(t)
    <3>1. /\ \A u, x \in Task : At(u, x)' <=> At(u, x)
          /\ \A c \in Task : Passed(c)' <=> Passed(c)
      BY <2>1, PassedStays DEF MarkAsFinished
    <3>2. \A x \in Task : wakeUp'[x] = wakeUp[x] + (Itself(x)' - Itself(x))
      BY <2>1, <3>1, <1>1, ItselfStays DEF MarkAsFinished, Itself
    <3>3. QED
      BY <2>1, <3>1, <3>2, <1>2, WakeStays DEF MarkAsFinished
  <2>2. CASE DelayRelease(t)
    <3>1. /\ \A u, x \in Task : At(u, x)' <=> At(u, x)
          /\ \A c \in Task : Passed(c)' <=> Passed(c)
      BY <2>2, PassedStays DEF DelayRelease
    <3>2. \A x \in Task : wakeUp'[x] = wakeUp[x] + (Itself(x)' - Itself(x))
      BY <2>2, <3>1, <1>1, ItselfStays DEF DelayRelease, Itself
    <3>3. QED
      BY <2>2, <3>1, <3>2, <1>2, WakeStays DEF DelayRelease
  <2>3. CASE CompleteDelayedRelease(t)
    <3>1. /\ \A u, x \in Task : At(u, x)' <=> At(u, x)
          /\ \A c \in Task : Passed(c)' <=> Passed(c)
      BY <2>3, PassedStays DEF CompleteDelayedRelease
    <3>2. \A x \in Task : wakeUp'[x] = wakeUp[x] + (Itself(x)' - Itself(x))
      BY <2>3, <3>1, <1>1, ItselfStays DEF CompleteDelayedRelease, Itself
    <3>3. QED
      BY <2>3, <3>1, <3>2, <1>2, WakeStays DEF CompleteDelayedRelease
  <2>4. CASE ReleaseDependencies(t)
    <3>1. /\ \A u, x \in Task : At(u, x)' <=> At(u, x)
          /\ \A c \in Task : Passed(c)' <=> Passed(c)
      BY <2>4, PassedStays DEF ReleaseDependencies
    <3>2. \A x \in Task : wakeUp'[x] = wakeUp[x] + (Itself(x)' - Itself(x))
      BY <2>4, <3>1, <1>1, ItselfStays DEF ReleaseDependencies, Itself
    <3>3. QED
      BY <2>4, <3>1, <3>2, <1>2, WakeStays DEF ReleaseDependencies
  <2>5. CASE FinishSelf(t)
    <3>1. \A u \in Task : ~At(u, t)
      BY <2>5, <1>1 DEF FinishSelf
    <3>2. /\ pc[t] = "finishing"
          /\ pc' = [pc EXCEPT ![t] = IF wakeUp[t] = 1 THEN "climbing" ELSE "removing"]
          /\ wakeUp' = [wakeUp EXCEPT ![t] = @ - 1] /\ cur' = [cur EXCEPT ![t] = t]
      BY <2>5 DEF FinishSelf
    <3>3. \A u, x \in Task : x # t => (At(u, x)' <=> At(u, x))
      BY <3>2 DEF At
    <3>4. ~Passed(t) /\ ~Passed(t)'
      BY <3>2 DEF Passed, At
    <3>5. \A c \in Task : Passed(c)' <=> Passed(c)
      BY <3>2, <3>3, <3>4 DEF Passed
    <3>6. \A x \in Task : wakeUp'[x] = wakeUp[x] + (Itself(x)' - Itself(x))
      BY <3>2, <3>3 DEF Itself, At
    <3>7. QED
      BY <3>2, <3>5, <3>6, <1>2, <1>3, WakeStays
  <2>6. CASE WakeAncestor(t)
    <3>1. PICK a \in Task : a = cur[t] /\ pc[a] \in Sleeps /\ a # t
      BY <2>6 DEF WakeAncestor, Climbers, Flags, FlagsAt, ReleaseAt
    <3>2. pc[t] = "climbing" /\ pc' = [pc EXCEPT ![t] = "removing"] /\ cur' = cur /\ wakeUp' = wakeUp
      BY <2>6 DEF WakeAncestor
    <3>3. \A u, x \in Task : x # a => (At(u, x)' <=> At(u, x))
      BY <3>1, <3>2 DEF At
    <3>4. \A c \in Task : Passed(c)' <=> Passed(c)
      BY <3>1, <3>2, <3>3 DEF Passed
    <3>5. \A x \in Task : wakeUp'[x] = wakeUp[x] + (Itself(x)' - Itself(x))
      BY <3>1, <3>2, <3>3 DEF Itself, At
    <3>6. QED
      BY <3>2, <3>4, <3>5, <1>2, <1>3, WakeStays
  <2>7. CASE PassFinished(t)
    <3>1. /\ \A u, x \in Task : At(u, x)' <=> At(u, x)
          /\ \A c \in Task : Passed(c)' <=> Passed(c)
      BY <2>7, PassedStays DEF PassFinished
    <3>2. \A x \in Task : wakeUp'[x] = wakeUp[x] + (Itself(x)' - Itself(x))
      BY <2>7, <3>1, <1>1, ItselfStays DEF PassFinished, Itself
    <3>3. QED
      BY <2>7, <3>1, <3>2, <1>2, WakeStays DEF PassFinished
  <2>8. CASE ReleaseAncestor(t)
    <3>1. PICK a \in Task : a = cur[t] /\ pc[a] = "detached" /\ a # t /\ wakeUp[a] = 0
      BY <2>8 DEF ReleaseAncestor, Climbers, Flags, FlagsAt
    <3>2. /\ pc[t] = "climbing" /\ pc' = [pc EXCEPT ![t] = "finishAncestor"] /\ cur' = cur
          /\ wakeUp' = [wakeUp EXCEPT ![a] = @ + 1]
      BY <2>8, <3>1 DEF ReleaseAncestor
    <3>3. /\ \A u, x \in Task : At(u, x)' <=> At(u, x)
          /\ \A c \in Task : Passed(c)' <=> Passed(c)
      BY <3>1, <3>2, PassedStays
    <3>4. \A u \in Task : At(u, a) => u = t
      BY <3>1, <3>2 DEF Climbers, At
    <3>5. Itself(a) = 0 /\ Itself(a)' = 1 /\ \A x \in Task \ {a} : Itself(x)' = Itself(x)
      BY <3>1, <3>2, <3>3, <3>4 DEF Itself, At
    <3>6. QED
      BY <3>1, <3>2, <3>3, <3>5, <1>2, <1>3, WakeStays
  <2>9. CASE FinishAncestor(t)
    <3>1. PICK a \in Task : a = cur[t] /\ pc[a] = "detached" /\ a # t
      BY <2>9, ClimbersOf DEF FinishAncestor
    <3>2. /\ pc[t] = "finishAncestor" /\ pc' = [pc EXCEPT ![t] = "removeAncestor"] /\ cur' = cur
          /\ wakeUp' = [wakeUp EXCEPT ![a] = @ - 1]
      BY <2>9, <3>1 DEF FinishAncestor
    <3>3. /\ \A u, x \in Task : At(u, x)' <=> At(u, x)
          /\ \A c \in Task : Passed(c)' <=> Passed(c)
      BY <3>1, <3>2, PassedStays
    <3>4. \A u \in Task : At(u, a) => u = t
      BY <3>1, <3>2 DEF Climbers, At
    <3>5. Itself(a) = 1 /\ Itself(a)' = 0 /\ \A x \in Task \ {a} : Itself(x)' = Itself(x)
      BY <3>1, <3>2, <3>3, <3>4 DEF Itself, At
    <3>6. QED
      BY <3>1, <3>2, <3>3, <3>5, <1>2, <1>3, WakeStays
  <2>10. CASE RemoveAncestor(t)
    <3>1. PICK a \in Task : a = cur[t] /\ pc[a] = "detached" /\ a # t
      BY <2>10, ClimbersOf DEF RemoveAncestor
    <3>2. /\ \A u \in Task : pc'[u] = IF u = a THEN "done" ELSE IF u = t THEN "up" ELSE pc[u]
          /\ pc[t] = "removeAncestor" /\ cur' = cur /\ wakeUp' = wakeUp
      BY <2>10, <3>1 DEF RemoveAncestor
    <3>3. \A u, x \in Task : At(u, x)' <=> At(u, x)
      BY <3>1, <3>2 DEF At
    <3>4. \A c \in Task : Passed(c)' <=> Passed(c)
      BY <3>1, <3>2, <3>3 DEF Passed, At
    <3>5. \A u \in Task : At(u, a) => u = t
      BY <3>1, <3>2 DEF Climbers, At
    <3>6. \A x \in Task : Itself(x)' = Itself(x)
      BY <3>1, <3>2, <3>3, <3>5 DEF Itself
    <3>7. QED
      BY <3>1, <3>2, <3>4, <3>6, <1>2, <1>3, WakeStays
  <2>11. CASE FinishParent(t)
    <3>1. PICK x \in Task : x = cur[t] /\ At(t, x) /\ pc[x] \in Over /\ wakeUp[x] = 0
      BY <2>11 DEF FinishParent, Climbers, At
    <3>2. pc[t] = "up" /\ \A u \in Task : At(u, x) => u = t
      BY <2>11, <3>1 DEF FinishParent, Climbers, At
    <3>3. CASE Parent[x] = NoTask
      <4>1. /\ cur' = [cur EXCEPT ![t] = NoTask] /\ pc' = [pc EXCEPT ![t] = "removing"]
            /\ wakeUp' = wakeUp
        BY <2>11, <3>1, <3>3 DEF FinishParent
      <4>2. \A c \in Task : Parent[c] \in Task => (Passed(c)' <=> Passed(c))
        BY <3>1, <3>2, <3>3, <4>1, LifecycleAssumption DEF Passed, At
      <4>3. \A a \in Task : Counted(a)' = Counted(a)
        BY <3>2, <4>1, <4>2 DEF Counted, Kids
      <4>4. \A a \in Task : Itself(a)' = Itself(a)
        BY <3>1, <3>2, <4>1 DEF Itself, At
      <4>5. QED
        BY <4>1, <4>3, <4>4, <1>2 DEF WakeAt
    <3>4. CASE Parent[x] # NoTask
      <4>1. PICK a \in Task : a = Parent[x]
        BY <3>4, ParentType
      <4>2. /\ x \in Counted(a) /\ a # x /\ \A u \in Task : ~At(u, a)
            /\ wakeUp[a] \in Nat /\ wakeUp[a] > 0
        BY <3>1, <3>2, <4>1, Arrival
      <4>3. /\ cur' = [cur EXCEPT ![t] = a] /\ wakeUp' = [wakeUp EXCEPT ![a] = @ - 1]
            /\ pc' = [pc EXCEPT ![t] = IF wakeUp[a] = 1 THEN "climbing" ELSE "removing"]
        BY <2>11, <3>1, <3>4, <4>1 DEF FinishParent
      <4>4. Passed(x)' /\ ~Passed(a) /\ ~Passed(a)'
        BY <3>1, <3>2, <4>2, <4>3 DEF Passed, At
      <4>5. \A c \in Task \ {x, a} : Passed(c)' <=> Passed(c)
        BY <3>1, <3>2, <4>3 DEF Passed, At
      <4>6. \A p \in Task : Itself(p)' = Itself(p)
        BY <3>1, <3>2, <4>2, <4>3 DEF Itself, At
      <4>7. \A p \in Task \ {a} : Counted(p)' = Counted(p)
        BY <3>2, <4>1, <4>3, <4>4, <4>5 DEF Counted, Kids
      <4>8. Counted(a)' = Counted(a) \ {x}
        BY <3>2, <4>1, <4>3, <4>4, <4>5 DEF Counted, Kids
      <4>9. Cardinality(Counted(a))' = Cardinality(Counted(a)) - 1 /\ Cardinality(Counted(a)) \in Nat
        BY ZenonT(60), <4>2, <4>8, CountedFinite, FS_RemoveElement
      <4>10. WakeAt(a)'
        BY <4>2, <4>3, <4>6, <4>9, <1>2 DEF WakeAt, Itself
      <4>11. \A p \in Task \ {a} : WakeAt(p)'
        BY <4>3, <4>6, <4>7, <1>2 DEF WakeAt
      <4>12. QED
        BY <4>10, <4>11
    <3>5. QED
      BY <3>3, <3>4
  <2>12. CASE RemoveSelf(t)
    <3>1. pc[t] = "removing" /\ pc' = [pc EXCEPT ![t] = "done"] /\ wakeUp' = wakeUp
          /\ \A u \in Task : u # t => cur'[u] = cur[u]
      BY <2>12 DEF RemoveSelf
    <3>2. /\ \A u, x \in Task : At(u, x)' <=> At(u, x)
          /\ \A c \in Task : Passed(c)' <=> Passed(c)
      BY <3>1, PassedStays
    <3>3. \A x \in Task : Itself(x)' = Itself(x)
      BY <3>1, <3>2, ItselfStays DEF Itself
    <3>4. QED
      BY <3>1, <3>2, <3>3, <1>2, <1>3, WakeStays
  <2>13. QED
    BY <1>5, <2>1, <2>2, <2>3, <2>4, <2>5, <2>6, <2>7, <2>8, <2>9, <2>10, <2>11, <2>12 DEF Complete
<1>6. ASSUME NEW t \in Task, Dispose(t) PROVE \A a \in Task : WakeAt(a)'
  <2> Parent' = Parent /\ Spawned' = Spawned
    BY <1>6, SameProgram DEF Dispose
  <2>1. CASE DropParent(t)
    BY <2>1, <1>2 DEF DropParent, WakeAt, Itself, Counted, Kids, Passed, At
  <2>2. CASE FreeTask(t)
    BY <2>2, <1>2 DEF FreeTask, WakeAt, Itself, Counted, Kids, Passed, At
  <2>3. CASE DestroyTask(t)
    BY <2>3, <1>2 DEF DestroyTask, WakeAt, Itself, Counted, Kids, Passed, At
  <2>4. QED
    BY <1>6, <2>1, <2>2, <2>3 DEF Dispose
<1>7. ASSUME NEW t \in Task, Environment(t) PROVE \A a \in Task : WakeAt(a)'
  <2> Parent' = Parent /\ Spawned' = Spawned
    BY <1>7, SameProgram DEF Environment
  <2>1. CASE BecomesReady(t)
    <3>1. /\ \A u, x \in Task : At(u, x)' <=> At(u, x)
          /\ \A c \in Task : Passed(c)' <=> Passed(c)
      BY <2>1, PassedStays DEF BecomesReady
    <3>2. \A x \in Task : wakeUp'[x] = wakeUp[x] + (Itself(x)' - Itself(x))
      BY <2>1, <3>1, <1>1, ItselfStays DEF BecomesReady, Itself
    <3>3. QED
      BY <2>1, <3>1, <3>2, <1>2, WakeStays DEF BecomesReady
  <2>2. CASE DecreaseEvents(t)
    BY <2>2, <1>2 DEF DecreaseEvents, WakeAt, Itself, Counted, Kids, Passed, At
  <2>3. CASE AccessesGone(t)
    BY <2>3, <1>2 DEF AccessesGone, DropRemoval, WakeAt, Itself, Counted, Kids, Passed, At
  <2>4. QED
    BY <1>7, <2>1, <2>2, <2>3 DEF Environment
<1>8. CASE Shutdown
  BY <1>8, <1>2, SameProgram DEF Shutdown, WakeAt, Itself, Counted, Kids, Passed, At
<1>9. CASE UNCHANGED vars
  BY <1>9, <1>2, SameProgram DEF vars, counters, flags, external, accesses, disposeVars, WakeAt,
      Itself, Counted, Kids, Passed, At
<1>10. QED
  BY <1>4, <1>5, <1>6, <1>7, <1>8, <1>9 DEF Next, Terminated

(* ... and when it is zero or one.                                         *)
LEMMA AwakeStep ==
  ASSUME TypesOK, Flow, Climbers, Flags, WakeUpCounts, Permits, [Next]_vars
  PROVE  \A a \in Task : Awake(a)'
<1> USE DEF counters, flags, external, accesses, disposeVars, Pc, Early, Creates, Waits, Sleeps,
    InBody, Ended, Over, Climb
<1> /\ pc \in [Task -> Pc] /\ cur \in [Task -> Task \cup {NoTask}]
    /\ wakeUp \in [Task -> Int] /\ delayed \in [Task -> BOOLEAN] /\ permits \in [Task -> Int]
  BY DEF TypesOK
<1>1. \A u, a \in Task : At(u, a) => pc[a] \in Sleeps \cup {"detached"} \cup Over
  BY AtFacts
<1>2. \A a \in Task : Awake(a)
  BY DEF WakeUpCounts
<1>3. \A u \in Task : pc[u] \in Climb => cur[u] \in Task
  BY DEF Climbers
<1>4. ASSUME NEW t \in Task, Run(t) PROVE \A a \in Task : Awake(a)'
  <2> Delayed' = Delayed
    BY <1>4, SameProgram DEF Run
  <2>1. CASE SubmitTask(t)
    BY <2>1, <1>1, <1>2, AtCreate DEF SubmitTask, AddChild, AtOp, Awake, At
  <2>2. CASE SubmitReady(t)
    <3>1. Subject(t) \in Task /\ pc[Subject(t)] = "registered"
      BY <2>2, InCreate DEF SubmitReady, Flow, Reached, ReachedAt
    <3>2. QED
      BY <2>2, <3>1, <1>1, <1>2 DEF SubmitReady, Awake, At
  <2>3. CASE InlineReturns(t)
    BY <2>3, <1>1, <1>2, InCreate DEF InlineReturns, Awake, At
  <2>4. CASE SubmitNotReady(t)
    BY <2>4, <1>1, <1>2, InCreate DEF SubmitNotReady, Awake, At
  <2>5. CASE If0Returns(t)
    BY <2>5, <1>1, <1>2, InCreate DEF If0Returns, Awake, At
  <2>6. CASE Spawn(t)
    BY <2>6, <1>1, <1>2, AtSpawn DEF Spawn, AtOp, Awake, At
  <2>7. CASE StartTask(t)
    BY <2>7, <1>1, <1>2 DEF StartTask, Awake, At
  <2>8. CASE IncreaseEvents(t)
    BY <2>8, <1>1, <1>2 DEF IncreaseEvents, AtOp, Awake, At
  <2>9. CASE EnterTaskwait(t)
    BY <2>9, <1>1, <1>2 DEF EnterTaskwait, AtOp, Awake, At
  <2>10. CASE MarkAsBlocked(t)
    BY <2>10, <1>1, <1>2 DEF MarkAsBlocked, Awake, At
  <2>11. CASE SuspendCoroutine(t)
    BY <2>11, <1>1, <1>2 DEF SuspendCoroutine, SubmitCreator, Awake, At
  <2>12. CASE Resume(t)
    <3>1. wakeUp[t] = 0 /\ \A u \in Task : ~At(u, t)
      BY <2>12 DEF Resume, Permits, PermitAt, Waits
    <3>2. QED
      BY <2>12, <1>2, <3>1 DEF Resume, Awake, At
  <2>13. CASE MarkAsUnblocked(t)
    BY <2>13, <1>1, <1>2 DEF MarkAsUnblocked, Awake, At
  <2>14. CASE GetBlockingContext(t)
    BY <2>14, <1>1, <1>2 DEF GetBlockingContext, AtOp, Awake, At
  <2>15. CASE BlockCurrentTask(t)
    BY <2>15, <1>1, <1>2 DEF BlockCurrentTask, AtOp, Awake, At
  <2>16. CASE ReturnFromBlock(t)
    BY <2>16, <1>1, <1>2 DEF ReturnFromBlock, Awake, At
  <2>17. CASE UnblockTask(t)
    BY <2>17, <1>1, <1>2 DEF UnblockTask, AtOp, Awake, At
  <2>18. CASE EndBody(t)
    BY <2>18, <1>1, <1>2 DEF EndBody, SubmitCreator, Awake, At
  <2>19. QED
    BY <1>4, <2>1, <2>2, <2>3, <2>4, <2>5, <2>6, <2>7, <2>8, <2>9, <2>10, <2>11, <2>12, <2>13,
        <2>14, <2>15, <2>16, <2>17, <2>18 DEF Run
<1>5. ASSUME NEW t \in Task, Complete(t) PROVE \A a \in Task : Awake(a)'
  <2> Delayed' = Delayed
    BY <1>5, SameProgram DEF Complete
  <2>1. CASE MarkAsFinished(t)
    <3>1. t \in Delayed => delayed[t]
      BY <2>1 DEF MarkAsFinished, Flags, FlagsAt
    <3>2. QED
      BY <2>1, <1>2, <3>1 DEF MarkAsFinished, Awake, At
  <2>2. CASE DelayRelease(t)
    BY <2>2, <1>1, <1>2 DEF DelayRelease, Awake, At
  <2>3. CASE CompleteDelayedRelease(t)
    BY <2>3, <1>1, <1>2 DEF CompleteDelayedRelease, Awake, At
  <2>4. CASE ReleaseDependencies(t)
    BY <2>4, <1>1, <1>2 DEF ReleaseDependencies, Awake, At
  <2>5. CASE FinishSelf(t)
    BY <2>5, <1>1, <1>2 DEF FinishSelf, Awake, At
  <2>6. CASE WakeAncestor(t)
    BY <2>6, <1>1, <1>2 DEF WakeAncestor, Awake, At
  <2>7. CASE PassFinished(t)
    BY <2>7, <1>1, <1>2 DEF PassFinished, Awake, At
  <2>8. CASE ReleaseAncestor(t)
    <3>1. cur[t] \in Task /\ cur[t] # t /\ pc[cur[t]] = "detached"
      BY <2>8, ClimbersOf, <1>3 DEF ReleaseAncestor, Flags, FlagsAt, Climbers
    <3>2. QED
      BY <2>8, <1>2, <3>1 DEF ReleaseAncestor, Awake, At
  <2>9. CASE FinishAncestor(t)
    <3>1. cur[t] \in Task /\ cur[t] # t /\ pc[cur[t]] = "detached"
      BY <2>9, ClimbersOf, <1>3 DEF FinishAncestor, Flags, FlagsAt, Climbers
    <3>2. QED
      BY <2>9, <1>2, <3>1 DEF FinishAncestor, Awake, At
  <2>10. CASE RemoveAncestor(t)
    <3>1. PICK a \in Task : a = cur[t]
      BY <2>10, ClimbersOf DEF RemoveAncestor
    <3>2. /\ \A u \in Task : pc'[u] = IF u = a THEN "done" ELSE IF u = t THEN "up" ELSE pc[u]
          /\ cur' = cur /\ wakeUp' = wakeUp /\ pc[t] = "removeAncestor"
      BY <2>10, <3>1 DEF RemoveAncestor
    <3>3. QED
      BY <1>2, <3>1, <3>2 DEF Awake, At
  <2>11. CASE FinishParent(t)
    <3>1. CASE Parent[cur[t]] = NoTask
      BY <2>11, <1>2, <3>1, LifecycleAssumption DEF FinishParent, Awake, At
    <3>2. CASE Parent[cur[t]] # NoTask
      <4>1. PICK a \in Task : a = Parent[cur[t]]
        BY <2>11, <3>2, <1>3, ParentType DEF FinishParent
      <4>2. pc[t] = "up" /\ pc[a] \notin {"unblocking", "undelaying"} /\ (a \in Delayed => pc[a] # "release")
        BY <2>11, <4>1, Arrival DEF FinishParent
      <4>3. /\ cur' = [cur EXCEPT ![t] = a] /\ wakeUp' = [wakeUp EXCEPT ![a] = @ - 1]
            /\ pc' = [pc EXCEPT ![t] = IF wakeUp[a] = 1 THEN "climbing" ELSE "removing"]
        BY <2>11, <3>2, <4>1 DEF FinishParent
      <4>4. QED
        BY <1>2, <4>2, <4>3 DEF Awake, At
    <3>3. QED
      BY <3>1, <3>2
  <2>12. CASE RemoveSelf(t)
    BY <2>12, <1>1, <1>2 DEF RemoveSelf, DropRemoval, Awake, At
  <2>13. QED
    BY <1>5, <2>1, <2>2, <2>3, <2>4, <2>5, <2>6, <2>7, <2>8, <2>9, <2>10, <2>11, <2>12 DEF Complete
<1>6. ASSUME NEW t \in Task, Dispose(t) PROVE \A a \in Task : Awake(a)'
  <2> Delayed' = Delayed
    BY <1>6, SameProgram DEF Dispose
  <2>1. CASE DropParent(t)
    BY <2>1, <1>1, <1>2 DEF DropParent, Awake, At
  <2>2. CASE FreeTask(t)
    BY <2>2, <1>1, <1>2 DEF FreeTask, Awake, At
  <2>3. CASE DestroyTask(t)
    BY <2>3, <1>1, <1>2 DEF DestroyTask, Awake, At
  <2>4. QED
    BY <1>6, <2>1, <2>2, <2>3 DEF Dispose
<1>7. ASSUME NEW t \in Task, Environment(t) PROVE \A a \in Task : Awake(a)'
  <2> Delayed' = Delayed
    BY <1>7, SameProgram DEF Environment
  <2>1. CASE BecomesReady(t)
    BY <2>1, <1>1, <1>2 DEF BecomesReady, Awake, At
  <2>2. CASE DecreaseEvents(t)
    BY <2>2, <1>1, <1>2 DEF DecreaseEvents, Awake, At
  <2>3. CASE AccessesGone(t)
    BY <2>3, <1>1, <1>2 DEF AccessesGone, DropRemoval, Awake, At
  <2>4. QED
    BY <1>7, <2>1, <2>2, <2>3 DEF Environment
<1>8. CASE Shutdown
  BY <1>8, <1>2, SameProgram DEF Shutdown, Awake, At
<1>9. CASE UNCHANGED vars
  BY <1>9, <1>2, SameProgram DEF vars, counters, flags, external, accesses, disposeVars, Awake, At
<1>10. QED
  BY <1>4, <1>5, <1>6, <1>7, <1>8, <1>9 DEF Next, Terminated

LEMMA WakeUpStep ==
  ASSUME TypesOK, Flow, Climbers, Flags, WakeUpCounts, Permits, [Next]_vars
  PROVE  WakeUpCounts'
  BY WakeAtStep, AwakeStep DEF WakeUpCounts

LEMMA UndisposedFinite ==
  ASSUME NEW a \in Task
  PROVE  IsFiniteSet(Undisposed(a)) /\ Cardinality(Undisposed(a)) \in Nat
         /\ (Undisposed(a) # {} => Cardinality(Undisposed(a)) > 0)
<1>1. Undisposed(a) \subseteq Task /\ IsFiniteSet(Task)
  BY LifecycleAssumption DEF Undisposed, Kids
<1>2. IsFiniteSet(Undisposed(a))
  BY <1>1, FS_Subset
<1>3. QED
  BY <1>2, FS_CardinalityType, FS_EmptySet

(* What the second counter says of a task: nobody disposes of it while it  *)
(* or a child of it is there.                                              *)
LEMMA RemovalFacts ==
  ASSUME TypesOK, RemovalCounts, Disposals, NEW a \in Task
  PROVE  /\ removal[a] \in Nat
         /\ removal[a] = 0 => pc[a] = "done" /\ ~linked[a] /\ Undisposed(a) = {}
         /\ pc[a] # "done" \/ linked[a] \/ Undisposed(a) # {} => disposal[a] = "none" /\ removal[a] > 0
         /\ removal[a] > 0 => disposal[a] = "none"
<1>1. RemovalAt(a) /\ Cardinality(Undisposed(a)) \in Nat
      /\ (Undisposed(a) # {} => Cardinality(Undisposed(a)) > 0)
  BY UndisposedFinite DEF RemovalCounts
<1>2. disposal[a] # "none" => removal[a] = 0
  BY DEF Disposals
<1>3. linked[a] \in BOOLEAN
  BY DEF TypesOK
<1>4. Share(pc[a] # "done") \in {0, 1} /\ Share(linked[a]) \in {0, 1}
      /\ (pc[a] # "done" => Share(pc[a] # "done") = 1) /\ (linked[a] => Share(linked[a]) = 1)
  BY DEF Share
<1>5. QED
  BY <1>1, <1>2, <1>4 DEF RemovalAt

LEMMA RemovalStays ==
  ASSUME TypesOK, RemovalCounts, Parent' = Parent, removal' = removal, linked' = linked,
         \A c \in Task : Parent[c] \in Task => (pc'[c] = "none" <=> pc[c] = "none"),
         \A c \in Task : pc'[c] = "done" <=> pc[c] = "done",
         \A c \in Task : disposal'[c] \in {"none", "due"} <=> disposal[c] \in {"none", "due"}
  PROVE  RemovalCounts'
<1> SUFFICES ASSUME NEW a \in Task PROVE RemovalAt(a)'
  BY DEF RemovalCounts
<1>1. Undisposed(a)' = Undisposed(a)
  BY DEF Undisposed, Kids
<1>2. QED
  BY <1>1 DEF RemovalCounts, RemovalAt, Share

(* Every step keeps what the second counter counts.                        *)
LEMMA RemovalStep ==
  ASSUME TypesOK, Flow, Climbers, RemovalCounts, Disposals, [Next]_vars
  PROVE  RemovalCounts'
<1> USE DEF counters, flags, external, accesses, disposeVars, Pc, Early, Creates, Waits, Sleeps,
    InBody, Ended, Over, Climb
<1> /\ pc \in [Task -> Pc] /\ removal \in [Task -> Int] /\ linked \in [Task -> BOOLEAN]
    /\ disposal \in [Task -> {"none", "due", "dropped", "freed", "destroyed"}]
  BY DEF TypesOK
<1>1. \A a \in Task : RemovalAt(a) /\ Cardinality(Undisposed(a)) \in Nat
  BY UndisposedFinite DEF RemovalCounts
<1>2. \A a \in Task : (removal[a] > 0 => disposal[a] = "none") /\ (removal[a] = 0 => pc[a] = "done")
  BY RemovalFacts
<1>3. ASSUME NEW t \in Task, Run(t) PROVE RemovalCounts'
  <2> Parent' = Parent /\ Spawned' = Spawned
    BY <1>3, SameProgram DEF Run
  <2>1. CASE SubmitTask(t)
    <3>1. PICK c \in Task : /\ c = Subject(t) /\ Parent[c] = t /\ pc[c] = "none" /\ c # t
                            /\ pc[t] = "body"
      BY <2>1, AtCreate DEF SubmitTask, AtOp
    <3>2. ~linked[c] /\ disposal[c] = "none"
      BY <3>1, RemovalFacts DEF Flow, Reached, ReachedAt
    <3>3. /\ \A u \in Task \ {t, c} : pc'[u] = pc[u] /\ linked'[u] = linked[u]
          /\ pc'[t] \in {"ready", "notReady"} /\ pc'[c] \in {"registered", "dependent"}
          /\ linked'[t] = linked[t] /\ (linked'[c] <=> c \in WithAccesses) /\ disposal' = disposal
      BY <2>1, <3>1 DEF SubmitTask
    <3>4. \A u \in Task : removal'[u] = IF u = t THEN removal[u] + 1
                                        ELSE IF u = c THEN removal[u] + Share(c \in WithAccesses)
                                        ELSE removal[u]
      BY <2>1, <3>1 DEF SubmitTask, AddChild, Share
    <3>5. \A x \in Task \ {t} : Undisposed(x)' = Undisposed(x)
      BY <3>1, <3>3 DEF Undisposed, Kids
    <3>6. Undisposed(t)' = Undisposed(t) \cup {c} /\ c \notin Undisposed(t)
      BY <3>1, <3>2, <3>3 DEF Undisposed, Kids
    <3>7. Cardinality(Undisposed(t))' = Cardinality(Undisposed(t)) + 1
      BY <3>6, UndisposedFinite, FS_AddElement
    <3>8. RemovalAt(t)'
      BY <3>1, <3>3, <3>4, <3>7, <1>1 DEF RemovalAt, Share
    <3>9. RemovalAt(c)'
      <4>1. /\ removal'[c] = removal[c] + Share(c \in WithAccesses) /\ removal[c] \in Int
            /\ RemovalAt(c) /\ Cardinality(Undisposed(c))' = Cardinality(Undisposed(c))
            /\ Cardinality(Undisposed(c)) \in Nat
        BY <3>1, <3>4, <3>5, <1>1
      <4>2. /\ Share(pc[c] # "done") = 1 /\ Share(pc[c] # "done")' = 1 /\ Share(linked[c]) = 0
            /\ Share(linked[c])' = Share(c \in WithAccesses) /\ Share(c \in WithAccesses) \in {0, 1}
        BY <3>1, <3>2, <3>3 DEF Share
      <4>3. QED
        BY <4>1, <4>2 DEF RemovalAt
    <3>10. \A x \in Task \ {t, c} : RemovalAt(x)'
      BY <3>3, <3>4, <3>5, <1>1 DEF RemovalAt, Share
    <3>11. QED
      BY <3>8, <3>9, <3>10 DEF RemovalCounts
  <2>2. CASE SubmitReady(t)
    <3>1. Subject(t) \in Task /\ pc[Subject(t)] = "registered"
      BY <2>2, InCreate DEF SubmitReady, Flow, Reached, ReachedAt
    <3>2. QED
      BY <2>2, <3>1, RemovalStays DEF SubmitReady
  <2>3. CASE InlineReturns(t)
    BY <2>3, RemovalStays, InCreate DEF InlineReturns
  <2>4. CASE SubmitNotReady(t)
    BY <2>4, RemovalStays, InCreate DEF SubmitNotReady
  <2>5. CASE If0Returns(t)
    BY <2>5, RemovalStays, InCreate DEF If0Returns
  <2>6. CASE Spawn(t)
    BY <2>6, RemovalStays, AtSpawn, LifecycleAssumption DEF Spawn, AtOp
  <2>7. CASE StartTask(t)
    BY <2>7, RemovalStays DEF StartTask
  <2>8. CASE IncreaseEvents(t)
    BY <2>8, RemovalStays DEF IncreaseEvents, AtOp
  <2>9. CASE EnterTaskwait(t)
    BY <2>9, RemovalStays DEF EnterTaskwait, AtOp
  <2>10. CASE MarkAsBlocked(t)
    BY <2>10, RemovalStays DEF MarkAsBlocked
  <2>11. CASE SuspendCoroutine(t)
    BY <2>11, RemovalStays DEF SuspendCoroutine, SubmitCreator
  <2>12. CASE Resume(t)
    BY <2>12, RemovalStays DEF Resume
  <2>13. CASE MarkAsUnblocked(t)
    BY <2>13, RemovalStays DEF MarkAsUnblocked
  <2>14. CASE GetBlockingContext(t)
    BY <2>14, RemovalStays DEF GetBlockingContext, AtOp
  <2>15. CASE BlockCurrentTask(t)
    BY <2>15, RemovalStays DEF BlockCurrentTask, AtOp
  <2>16. CASE ReturnFromBlock(t)
    BY <2>16, RemovalStays DEF ReturnFromBlock
  <2>17. CASE UnblockTask(t)
    BY <2>17, RemovalStays DEF UnblockTask, AtOp
  <2>18. CASE EndBody(t)
    BY <2>18, RemovalStays DEF EndBody, SubmitCreator
  <2>19. QED
    BY <1>3, <2>1, <2>2, <2>3, <2>4, <2>5, <2>6, <2>7, <2>8, <2>9, <2>10, <2>11, <2>12, <2>13,
        <2>14, <2>15, <2>16, <2>17, <2>18 DEF Run
<1>4. ASSUME NEW t \in Task, Complete(t) PROVE RemovalCounts'
  <2> Parent' = Parent /\ Spawned' = Spawned
    BY <1>4, SameProgram DEF Complete
  <2>1. CASE MarkAsFinished(t)
    BY <2>1, RemovalStays DEF MarkAsFinished
  <2>2. CASE DelayRelease(t)
    BY <2>2, RemovalStays DEF DelayRelease
  <2>3. CASE CompleteDelayedRelease(t)
    BY <2>3, RemovalStays DEF CompleteDelayedRelease
  <2>4. CASE ReleaseDependencies(t)
    BY <2>4, RemovalStays DEF ReleaseDependencies
  <2>5. CASE FinishSelf(t)
    BY <2>5, RemovalStays DEF FinishSelf
  <2>6. CASE WakeAncestor(t)
    BY <2>6, RemovalStays DEF WakeAncestor
  <2>7. CASE PassFinished(t)
    BY <2>7, RemovalStays DEF PassFinished
  <2>8. CASE ReleaseAncestor(t)
    BY <2>8, RemovalStays DEF ReleaseAncestor
  <2>9. CASE FinishAncestor(t)
    BY <2>9, RemovalStays DEF FinishAncestor
  <2>10. CASE RemoveAncestor(t)
    <3>1. PICK a \in Task : a = cur[t] /\ pc[a] = "detached" /\ pc[t] = "removeAncestor"
      BY <2>10, ClimbersOf DEF RemoveAncestor
    <3>2. /\ \A u \in Task : pc'[u] = IF u = a THEN "done" ELSE IF u = t THEN "up" ELSE pc[u]
          /\ linked' = linked
          /\ \A u \in Task : removal'[u] = IF u = a THEN removal[u] - 1 ELSE removal[u]
          /\ \A u \in Task : disposal'[u] = IF u = a /\ removal[a] = 1 THEN "due" ELSE disposal[u]
      BY <2>10, <3>1 DEF RemoveAncestor, DropRemoval
    <3>3. \A x \in Task : Undisposed(x)' = Undisposed(x)
      BY <3>1, <3>2, <1>2 DEF Undisposed, Kids
    <3>4. RemovalAt(a)'
      <4>1. /\ removal'[a] = removal[a] - 1 /\ removal[a] \in Int /\ RemovalAt(a)
            /\ Cardinality(Undisposed(a))' = Cardinality(Undisposed(a))
            /\ Cardinality(Undisposed(a)) \in Nat
        BY <3>2, <3>3, <1>1
      <4>2. Share(pc[a] # "done")' + Share(linked[a])' = Share(pc[a] # "done") + Share(linked[a]) - 1
            /\ Share(pc[a] # "done")' \in {0, 1} /\ Share(linked[a])' \in {0, 1}
            /\ Share(pc[a] # "done") \in {0, 1} /\ Share(linked[a]) \in {0, 1}
        BY <3>1, <3>2 DEF Share
      <4>3. QED
        BY <4>1, <4>2 DEF RemovalAt
    <3>5. \A x \in Task \ {a} : RemovalAt(x)'
      BY <3>1, <3>2, <3>3, <1>1 DEF RemovalAt, Share
    <3>6. QED
      BY <3>4, <3>5 DEF RemovalCounts
  <2>11. CASE FinishParent(t)
    BY <2>11, RemovalStays DEF FinishParent
  <2>12. CASE RemoveSelf(t)
    <3>1. PICK a \in Task : a = t /\ pc[a] = "removing"
      BY <2>12, ClimbersOf DEF RemoveSelf
    <3>2. /\ \A u \in Task : pc'[u] = IF u = a THEN "done" ELSE pc[u]
          /\ linked' = linked
          /\ \A u \in Task : removal'[u] = IF u = a THEN removal[u] - 1 ELSE removal[u]
          /\ \A u \in Task : disposal'[u] = IF u = a /\ removal[a] = 1 THEN "due" ELSE disposal[u]
      BY <2>12, <3>1 DEF RemoveSelf, DropRemoval
    <3>3. \A x \in Task : Undisposed(x)' = Undisposed(x)
      BY <3>1, <3>2, <1>2 DEF Undisposed, Kids
    <3>4. RemovalAt(a)'
      <4>1. /\ removal'[a] = removal[a] - 1 /\ removal[a] \in Int /\ RemovalAt(a)
            /\ Cardinality(Undisposed(a))' = Cardinality(Undisposed(a))
            /\ Cardinality(Undisposed(a)) \in Nat
        BY <3>2, <3>3, <1>1
      <4>2. Share(pc[a] # "done")' + Share(linked[a])' = Share(pc[a] # "done") + Share(linked[a]) - 1
            /\ Share(pc[a] # "done")' \in {0, 1} /\ Share(linked[a])' \in {0, 1}
            /\ Share(pc[a] # "done") \in {0, 1} /\ Share(linked[a]) \in {0, 1}
        BY <3>1, <3>2 DEF Share
      <4>3. QED
        BY <4>1, <4>2 DEF RemovalAt
    <3>5. \A x \in Task \ {a} : RemovalAt(x)'
      BY <3>1, <3>2, <3>3, <1>1 DEF RemovalAt, Share
    <3>6. QED
      BY <3>4, <3>5 DEF RemovalCounts
  <2>13. QED
    BY <1>4, <2>1, <2>2, <2>3, <2>4, <2>5, <2>6, <2>7, <2>8, <2>9, <2>10, <2>11, <2>12 DEF Complete
<1>5. ASSUME NEW t \in Task, Dispose(t) PROVE RemovalCounts'
  <2> Parent' = Parent /\ Spawned' = Spawned
    BY <1>5, SameProgram DEF Dispose
  <2>1. CASE DropParent(t)
    <3>1. removal[t] = 0 /\ pc[t] = "done" /\ disposal[t] = "due"
      BY <2>1, <1>2 DEF DropParent, Disposals
    <3>2. /\ pc' = pc /\ linked' = linked /\ disposal' = [disposal EXCEPT ![t] = "dropped"]
          /\ \A u \in Task : removal'[u] = IF u = Parent[t] THEN removal[u] - 1 ELSE removal[u]
      BY <2>1, LifecycleAssumption DEF DropParent
    <3>3. \A x \in Task : x # Parent[t] => Undisposed(x)' = Undisposed(x)
      BY <3>1, <3>2 DEF Undisposed, Kids
    <3>4. \A x \in Task : x # Parent[t] => RemovalAt(x)'
      BY <3>2, <3>3, <1>1 DEF RemovalAt, Share
    <3>5. ASSUME NEW x \in Task, x = Parent[t] PROVE RemovalAt(x)'
      <4>1. Undisposed(x)' = Undisposed(x) \ {t} /\ t \in Undisposed(x)
        BY <3>1, <3>2, <3>5 DEF Undisposed, Kids
      <4>2. Cardinality(Undisposed(x))' = Cardinality(Undisposed(x)) - 1
        BY <4>1, UndisposedFinite, FS_RemoveElement
      <4>3. QED
        BY <3>2, <3>5, <4>2, <1>1 DEF RemovalAt, Share
    <3>6. QED
      BY <3>4, <3>5 DEF RemovalCounts
  <2>2. CASE FreeTask(t)
    BY <2>2, RemovalStays DEF FreeTask
  <2>3. CASE DestroyTask(t)
    <3>1. disposable[t] => disposal[Parent[t]] = "none"
      BY <2>3 DEF DestroyTask, Disposals, Dropping
    <3>2. QED
      BY <2>3, <3>1, RemovalStays DEF DestroyTask
  <2>4. QED
    BY <1>5, <2>1, <2>2, <2>3 DEF Dispose
<1>6. ASSUME NEW t \in Task, Environment(t) PROVE RemovalCounts'
  <2> Parent' = Parent /\ Spawned' = Spawned
    BY <1>6, SameProgram DEF Environment
  <2>1. CASE BecomesReady(t)
    BY <2>1, RemovalStays DEF BecomesReady
  <2>2. CASE DecreaseEvents(t)
    BY <2>2, RemovalStays DEF DecreaseEvents
  <2>3. CASE AccessesGone(t)
    <3>1. PICK a \in Task : a = t /\ linked[a]
      BY <2>3, ClimbersOf DEF AccessesGone
    <3>2. /\ pc' = pc
          /\ ~linked'[a] /\ linked[a] /\ \A u \in Task \ {a} : linked'[u] = linked[u]
          /\ \A u \in Task : removal'[u] = IF u = a THEN removal[u] - 1 ELSE removal[u]
          /\ \A u \in Task : disposal'[u] = IF u = a /\ removal[a] = 1 THEN "due" ELSE disposal[u]
      BY <2>3, <3>1 DEF AccessesGone, DropRemoval
    <3>3. \A x \in Task : Undisposed(x)' = Undisposed(x)
      BY <3>1, <3>2, <1>2 DEF Undisposed, Kids
    <3>4. RemovalAt(a)'
      <4>1. /\ removal'[a] = removal[a] - 1 /\ removal[a] \in Int /\ RemovalAt(a)
            /\ Cardinality(Undisposed(a))' = Cardinality(Undisposed(a))
            /\ Cardinality(Undisposed(a)) \in Nat
        BY <3>2, <3>3, <1>1
      <4>2. Share(pc[a] # "done")' + Share(linked[a])' = Share(pc[a] # "done") + Share(linked[a]) - 1
            /\ Share(pc[a] # "done")' \in {0, 1} /\ Share(linked[a])' \in {0, 1}
            /\ Share(pc[a] # "done") \in {0, 1} /\ Share(linked[a]) \in {0, 1}
        BY <3>1, <3>2 DEF Share
      <4>3. QED
        BY <4>1, <4>2 DEF RemovalAt
    <3>5. \A x \in Task \ {a} : RemovalAt(x)'
      BY <3>1, <3>2, <3>3, <1>1 DEF RemovalAt, Share
    <3>6. QED
      BY <3>4, <3>5 DEF RemovalCounts
  <2>4. QED
    BY <1>6, <2>1, <2>2, <2>3 DEF Environment
<1>7. CASE Shutdown
  BY <1>7, RemovalStays, SameProgram DEF Shutdown
<1>8. CASE UNCHANGED vars
  BY <1>8, RemovalStays, SameProgram DEF vars, counters, flags, external, accesses, disposeVars
<1>9. QED
  BY <1>3, <1>4, <1>5, <1>6, <1>7, <1>8 DEF Next, Terminated

(* Every step keeps what is known of the tasks that are disposed of.       *)
LEMMA DisposalsStep ==
  ASSUME TypesOK, Flow, Climbers, RemovalCounts, Disposals, [Next]_vars
  PROVE  Disposals'
<1> USE DEF counters, flags, external, accesses, disposeVars, Pc, Early, Creates, Waits, Sleeps,
    InBody, Ended, Over, Climb
<1> /\ pc \in [Task -> Pc] /\ removal \in [Task -> Int] /\ disposable \in [Task -> BOOLEAN]
    /\ disposal \in [Task -> {"none", "due", "dropped", "freed", "destroyed"}]
  BY DEF TypesOK
<1>1. \A a \in Task : /\ removal[a] \in Nat /\ (removal[a] > 0 => disposal[a] = "none")
                       /\ (pc[a] # "done" => removal[a] > 0) /\ (linked[a] => removal[a] > 0)
  BY RemovalFacts
<1>2. \A a, c \in Task : c \in Undisposed(a) => removal[a] > 0
  BY RemovalFacts
<1>3. ASSUME NEW t \in Task, Run(t) PROVE Disposals'
  <2> Parent' = Parent /\ Spawned' = Spawned
    BY <1>3, SameProgram DEF Run
  <2>1. CASE SubmitTask(t)
    <3>1. PICK c \in Task : c = Subject(t) /\ pc[c] = "none" /\ c # t /\ pc[t] = "body"
      BY <2>1, AtCreate DEF SubmitTask, AtOp
    <3>2. /\ \A u \in Task : removal[u] = 0 => removal'[u] = 0
          /\ disposal' = disposal /\ disposable' = disposable
      <4>1. removal[t] > 0 /\ removal[c] > 0 /\ disposal' = disposal /\ disposable' = disposable
        BY <2>1, <3>1, <1>1 DEF SubmitTask
      <4>2. \A u \in Task \ {t, c} : removal'[u] = removal[u]
        BY <2>1, <3>1 DEF SubmitTask, AddChild
      <4>3. QED
        BY <4>1, <4>2
    <3>3. QED
      BY <3>2 DEF Disposals, Dropping
  <2>2. CASE SubmitReady(t)
    BY <2>2 DEF SubmitReady, Disposals, Dropping
  <2>3. CASE InlineReturns(t)
    BY <2>3 DEF InlineReturns, Disposals, Dropping
  <2>4. CASE SubmitNotReady(t)
    BY <2>4 DEF SubmitNotReady, Disposals, Dropping
  <2>5. CASE If0Returns(t)
    BY <2>5 DEF If0Returns, Disposals, Dropping
  <2>6. CASE Spawn(t)
    BY <2>6 DEF Spawn, Disposals, Dropping
  <2>7. CASE StartTask(t)
    BY <2>7 DEF StartTask, Disposals, Dropping
  <2>8. CASE IncreaseEvents(t)
    BY <2>8 DEF IncreaseEvents, Disposals, Dropping
  <2>9. CASE EnterTaskwait(t)
    BY <2>9 DEF EnterTaskwait, Disposals, Dropping
  <2>10. CASE MarkAsBlocked(t)
    BY <2>10 DEF MarkAsBlocked, Disposals, Dropping
  <2>11. CASE SuspendCoroutine(t)
    BY <2>11 DEF SuspendCoroutine, SubmitCreator, Disposals, Dropping
  <2>12. CASE Resume(t)
    BY <2>12 DEF Resume, Disposals, Dropping
  <2>13. CASE MarkAsUnblocked(t)
    BY <2>13 DEF MarkAsUnblocked, Disposals, Dropping
  <2>14. CASE GetBlockingContext(t)
    BY <2>14 DEF GetBlockingContext, Disposals, Dropping
  <2>15. CASE BlockCurrentTask(t)
    BY <2>15 DEF BlockCurrentTask, Disposals, Dropping
  <2>16. CASE ReturnFromBlock(t)
    BY <2>16 DEF ReturnFromBlock, Disposals, Dropping
  <2>17. CASE UnblockTask(t)
    BY <2>17 DEF UnblockTask, Disposals, Dropping
  <2>18. CASE EndBody(t)
    BY <2>18 DEF EndBody, SubmitCreator, Disposals, Dropping
  <2>19. QED
    BY <1>3, <2>1, <2>2, <2>3, <2>4, <2>5, <2>6, <2>7, <2>8, <2>9, <2>10, <2>11, <2>12, <2>13,
        <2>14, <2>15, <2>16, <2>17, <2>18 DEF Run
<1>4. ASSUME NEW t \in Task, Complete(t) PROVE Disposals'
  <2> Parent' = Parent /\ Spawned' = Spawned
    BY <1>4, SameProgram DEF Complete
  <2>1. CASE MarkAsFinished(t)
    BY <2>1 DEF MarkAsFinished, Disposals, Dropping
  <2>2. CASE DelayRelease(t)
    BY <2>2 DEF DelayRelease, Disposals, Dropping
  <2>3. CASE CompleteDelayedRelease(t)
    BY <2>3 DEF CompleteDelayedRelease, Disposals, Dropping
  <2>4. CASE ReleaseDependencies(t)
    BY <2>4 DEF ReleaseDependencies, Disposals, Dropping
  <2>5. CASE FinishSelf(t)
    BY <2>5 DEF FinishSelf, Disposals, Dropping
  <2>6. CASE WakeAncestor(t)
    BY <2>6 DEF WakeAncestor, Disposals, Dropping
  <2>7. CASE PassFinished(t)
    BY <2>7 DEF PassFinished, Disposals, Dropping
  <2>8. CASE ReleaseAncestor(t)
    BY <2>8 DEF ReleaseAncestor, Disposals, Dropping
  <2>9. CASE FinishAncestor(t)
    BY <2>9 DEF FinishAncestor, Disposals, Dropping
  <2>10. CASE RemoveAncestor(t)
    <3>1. PICK a \in Task : a = cur[t] /\ pc[a] = "detached"
      BY <2>10, ClimbersOf DEF RemoveAncestor
    <3>2. /\ removal[a] > 0 /\ disposal[a] = "none"
          /\ \A u \in Task : removal'[u] = IF u = a THEN removal[u] - 1 ELSE removal[u]
          /\ \A u \in Task : disposal'[u] = IF u = a /\ removal[a] = 1 THEN "due" ELSE disposal[u]
          /\ disposable' = disposable
      BY <2>10, <3>1, <1>1 DEF RemoveAncestor, DropRemoval
    <3>3. QED
      BY <3>1, <3>2 DEF Disposals, Dropping
  <2>11. CASE FinishParent(t)
    BY <2>11 DEF FinishParent, Disposals, Dropping
  <2>12. CASE RemoveSelf(t)
    <3>1. PICK a \in Task : a = t /\ pc[a] = "removing"
      BY <2>12, ClimbersOf DEF RemoveSelf
    <3>2. /\ removal[a] > 0 /\ disposal[a] = "none"
          /\ \A u \in Task : removal'[u] = IF u = a THEN removal[u] - 1 ELSE removal[u]
          /\ \A u \in Task : disposal'[u] = IF u = a /\ removal[a] = 1 THEN "due" ELSE disposal[u]
          /\ disposable' = disposable
      BY <2>12, <3>1, <1>1 DEF RemoveSelf, DropRemoval
    <3>3. QED
      BY <3>1, <3>2 DEF Disposals, Dropping
  <2>13. QED
    BY <1>4, <2>1, <2>2, <2>3, <2>4, <2>5, <2>6, <2>7, <2>8, <2>9, <2>10, <2>11, <2>12 DEF Complete
<1>5. ASSUME NEW t \in Task, Dispose(t) PROVE Disposals'
  <2> Parent' = Parent /\ Spawned' = Spawned
    BY <1>5, SameProgram DEF Dispose
  <2>1. CASE DropParent(t)
    <3>1. removal[t] = 0 /\ pc[t] = "done" /\ disposal[t] = "due" /\ ~disposable[t]
      BY <2>1, <1>1 DEF DropParent, Disposals
    <3>2. CASE Parent[t] = NoTask
      <4>1. /\ disposal' = [disposal EXCEPT ![t] = "dropped"] /\ removal' = removal
            /\ disposable' = [disposable EXCEPT ![t] = FALSE]
        BY <2>1, <3>2 DEF DropParent
      <4>2. QED
        BY <3>1, <4>1 DEF Disposals, Dropping
    <3>3. CASE Parent[t] # NoTask
      <4>1. PICK p \in Task : p = Parent[t]
        BY <3>3, ParentType
      <4>2. t \in Undisposed(p)
        BY <3>1, <4>1 DEF Undisposed, Kids
      <4>3. removal[p] > 0 /\ disposal[p] = "none" /\ p # t
        BY <4>2, <3>1, <1>1, <1>2
      <4>4. /\ disposal' = [disposal EXCEPT ![t] = "dropped"]
            /\ removal' = [removal EXCEPT ![p] = @ - 1]
            /\ disposable' = [disposable EXCEPT ![t] = (removal[p] = 1)]
        BY <2>1, <3>3, <4>1 DEF DropParent
      <4>5. \A c \in Task : disposable[c] => Parent[c] # p
        BY <4>3 DEF Disposals
      <4>6. QED
        BY <3>1, <4>1, <4>3, <4>4, <4>5 DEF Disposals, Dropping
    <3>4. QED
      BY <3>2, <3>3
  <2>2. CASE FreeTask(t)
    BY <2>2 DEF FreeTask, Disposals, Dropping
  <2>3. CASE DestroyTask(t)
    <3>1. disposal[t] = "freed" /\ removal' = removal /\ disposable' = disposable
          /\ \A u \in Task : disposal'[u] = IF u = t THEN "destroyed"
                                            ELSE IF disposable[t] /\ u = Parent[t] THEN "due"
                                            ELSE disposal[u]
      BY <2>3 DEF DestroyTask
    <3>2. QED
      BY <3>1 DEF Disposals, Dropping
  <2>4. QED
    BY <1>5, <2>1, <2>2, <2>3 DEF Dispose
<1>6. ASSUME NEW t \in Task, Environment(t) PROVE Disposals'
  <2> Parent' = Parent /\ Spawned' = Spawned
    BY <1>6, SameProgram DEF Environment
  <2>1. CASE BecomesReady(t)
    BY <2>1 DEF BecomesReady, Disposals, Dropping
  <2>2. CASE DecreaseEvents(t)
    BY <2>2 DEF DecreaseEvents, Disposals, Dropping
  <2>3. CASE AccessesGone(t)
    <3>1. PICK a \in Task : a = t /\ linked[a]
      BY <2>3, ClimbersOf DEF AccessesGone
    <3>2. /\ removal[a] > 0 /\ disposal[a] = "none"
          /\ \A u \in Task : removal'[u] = IF u = a THEN removal[u] - 1 ELSE removal[u]
          /\ \A u \in Task : disposal'[u] = IF u = a /\ removal[a] = 1 THEN "due" ELSE disposal[u]
          /\ disposable' = disposable
      BY <2>3, <3>1, <1>1 DEF AccessesGone, DropRemoval
    <3>3. QED
      BY <3>1, <3>2 DEF Disposals, Dropping
  <2>4. QED
    BY <1>6, <2>1, <2>2, <2>3 DEF Environment
<1>7. CASE Shutdown
  BY <1>7, SameProgram DEF Shutdown, Disposals, Dropping
<1>8. CASE UNCHANGED vars
  BY <1>8, SameProgram DEF vars, counters, flags, external, accesses, disposeVars, Disposals,
      Dropping
<1>9. QED
  BY <1>3, <1>4, <1>5, <1>6, <1>7, <1>8 DEF Next, Terminated

LEMMA LastOne ==
  ASSUME TypesOK, RemovalCounts, NEW a \in Task, removal[a] = 1
  PROVE  /\ pc[a] # "done" => Undisposed(a) = {}
         /\ linked[a] => pc[a] = "done" /\ Undisposed(a) = {}
<1>1. RemovalAt(a) /\ Cardinality(Undisposed(a)) \in Nat
      /\ (Undisposed(a) # {} => Cardinality(Undisposed(a)) > 0)
  BY UndisposedFinite DEF RemovalCounts
<1>2. Share(pc[a] # "done") \in {0, 1} /\ Share(linked[a]) \in {0, 1}
      /\ (pc[a] # "done" => Share(pc[a] # "done") = 1) /\ (linked[a] => Share(linked[a]) = 1)
  BY DEF Share
<1>3. QED
  BY <1>1, <1>2 DEF RemovalAt

(* Who becomes due has ended and has no child left.                        *)
LEMMA BecomesDue ==
  ASSUME TypesOK, Flow, Climbers, RemovalCounts, Disposals, [Next]_vars
  PROVE  \A s \in Task : disposal[s] = "none" /\ disposal'[s] # "none" =>
           Undisposed(s) = {} /\ pc[s] \in {"detached", "removing", "done"}
<1> USE DEF counters, flags, external, accesses, disposeVars, Pc, Early, Creates, Waits, Sleeps,
    InBody, Ended, Over, Climb
<1> /\ pc \in [Task -> Pc] /\ removal \in [Task -> Int] /\ disposable \in [Task -> BOOLEAN]
    /\ disposal \in [Task -> {"none", "due", "dropped", "freed", "destroyed"}]
  BY DEF TypesOK
<1>1. \A a \in Task : removal[a] = 0 => pc[a] = "done" /\ Undisposed(a) = {}
  BY RemovalFacts
<1>2. \A a \in Task : removal[a] = 1 /\ pc[a] # "done" => Undisposed(a) = {}
  BY LastOne
<1>3. \A a \in Task : removal[a] = 1 /\ linked[a] => pc[a] = "done" /\ Undisposed(a) = {}
  BY LastOne
<1>4. ASSUME NEW t \in Task, Run(t) PROVE \A s \in Task : disposal[s] = "none" /\ disposal'[s] # "none" =>
        Undisposed(s) = {} /\ pc[s] \in {"detached", "removing", "done"}
  <2> program' = program
    BY <1>4 DEF Run
  <2>1. CASE SubmitTask(t)
    BY <2>1 DEF SubmitTask, AddChild
  <2>2. CASE SubmitReady(t)
    BY <2>2 DEF SubmitReady
  <2>3. CASE InlineReturns(t)
    BY <2>3 DEF InlineReturns
  <2>4. CASE SubmitNotReady(t)
    BY <2>4 DEF SubmitNotReady
  <2>5. CASE If0Returns(t)
    BY <2>5 DEF If0Returns
  <2>6. CASE Spawn(t)
    BY <2>6 DEF Spawn
  <2>7. CASE StartTask(t)
    BY <2>7 DEF StartTask
  <2>8. CASE IncreaseEvents(t)
    BY <2>8 DEF IncreaseEvents
  <2>9. CASE EnterTaskwait(t)
    BY <2>9 DEF EnterTaskwait
  <2>10. CASE MarkAsBlocked(t)
    BY <2>10 DEF MarkAsBlocked
  <2>11. CASE SuspendCoroutine(t)
    BY <2>11 DEF SuspendCoroutine, SubmitCreator
  <2>12. CASE Resume(t)
    BY <2>12 DEF Resume
  <2>13. CASE MarkAsUnblocked(t)
    BY <2>13 DEF MarkAsUnblocked
  <2>14. CASE GetBlockingContext(t)
    BY <2>14 DEF GetBlockingContext
  <2>15. CASE BlockCurrentTask(t)
    BY <2>15 DEF BlockCurrentTask
  <2>16. CASE ReturnFromBlock(t)
    BY <2>16 DEF ReturnFromBlock
  <2>17. CASE UnblockTask(t)
    BY <2>17 DEF UnblockTask
  <2>18. CASE EndBody(t)
    BY <2>18 DEF EndBody, SubmitCreator
  <2>19. QED
    BY <1>4, <2>1, <2>2, <2>3, <2>4, <2>5, <2>6, <2>7, <2>8, <2>9, <2>10, <2>11, <2>12, <2>13,
        <2>14, <2>15, <2>16, <2>17, <2>18 DEF Run
<1>5. ASSUME NEW t \in Task, Complete(t) PROVE \A s \in Task : disposal[s] = "none" /\ disposal'[s] # "none" =>
        Undisposed(s) = {} /\ pc[s] \in {"detached", "removing", "done"}
  <2> program' = program
    BY <1>5 DEF Complete
  <2>1. CASE MarkAsFinished(t)
    BY <2>1 DEF MarkAsFinished
  <2>2. CASE DelayRelease(t)
    BY <2>2 DEF DelayRelease
  <2>3. CASE CompleteDelayedRelease(t)
    BY <2>3 DEF CompleteDelayedRelease
  <2>4. CASE ReleaseDependencies(t)
    BY <2>4 DEF ReleaseDependencies
  <2>5. CASE FinishSelf(t)
    BY <2>5 DEF FinishSelf
  <2>6. CASE WakeAncestor(t)
    BY <2>6 DEF WakeAncestor
  <2>7. CASE PassFinished(t)
    BY <2>7 DEF PassFinished
  <2>8. CASE ReleaseAncestor(t)
    BY <2>8 DEF ReleaseAncestor
  <2>9. CASE FinishAncestor(t)
    BY <2>9 DEF FinishAncestor
  <2>10. CASE RemoveAncestor(t)
    <3>1. PICK a \in Task : a = cur[t] /\ pc[a] = "detached"
      BY <2>10, ClimbersOf DEF RemoveAncestor
    <3>2. \A u \in Task : disposal'[u] = IF u = a /\ removal[a] = 1 THEN "due" ELSE disposal[u]
      BY <2>10, <3>1 DEF RemoveAncestor, DropRemoval
    <3>3. QED
      BY <3>1, <3>2, <1>2, <1>3
  <2>11. CASE FinishParent(t)
    BY <2>11 DEF FinishParent
  <2>12. CASE RemoveSelf(t)
    <3>1. PICK a \in Task : a = t /\ pc[a] = "removing"
      BY <2>12, ClimbersOf DEF RemoveSelf
    <3>2. \A u \in Task : disposal'[u] = IF u = a /\ removal[a] = 1 THEN "due" ELSE disposal[u]
      BY <2>12, <3>1 DEF RemoveSelf, DropRemoval
    <3>3. QED
      BY <3>1, <3>2, <1>2, <1>3
  <2>13. QED
    BY <1>5, <2>1, <2>2, <2>3, <2>4, <2>5, <2>6, <2>7, <2>8, <2>9, <2>10, <2>11, <2>12 DEF Complete
<1>6. ASSUME NEW t \in Task, Dispose(t) PROVE \A s \in Task : disposal[s] = "none" /\ disposal'[s] # "none" =>
        Undisposed(s) = {} /\ pc[s] \in {"detached", "removing", "done"}
  <2> program' = program
    BY <1>6 DEF Dispose
  <2>1. CASE DropParent(t)
    BY <2>1 DEF DropParent
  <2>2. CASE FreeTask(t)
    BY <2>2 DEF FreeTask
  <2>3. CASE DestroyTask(t)
    <3>1. disposable[t] => Parent[t] \in Task /\ removal[Parent[t]] = 0
      BY DEF Disposals
    <3>2. QED
      BY <2>3, <3>1, <1>1 DEF DestroyTask
  <2>4. QED
    BY <1>6, <2>1, <2>2, <2>3 DEF Dispose
<1>7. ASSUME NEW t \in Task, Environment(t) PROVE \A s \in Task : disposal[s] = "none" /\ disposal'[s] # "none" =>
        Undisposed(s) = {} /\ pc[s] \in {"detached", "removing", "done"}
  <2> program' = program
    BY <1>7 DEF Environment
  <2>1. CASE BecomesReady(t)
    BY <2>1 DEF BecomesReady
  <2>2. CASE DecreaseEvents(t)
    BY <2>2 DEF DecreaseEvents
  <2>3. CASE AccessesGone(t)
    <3>1. PICK a \in Task : a = t /\ linked[a]
      BY <2>3, ClimbersOf DEF AccessesGone
    <3>2. \A u \in Task : disposal'[u] = IF u = a /\ removal[a] = 1 THEN "due" ELSE disposal[u]
      BY <2>3, <3>1 DEF AccessesGone, DropRemoval
    <3>3. QED
      BY <3>1, <3>2, <1>2, <1>3
  <2>4. QED
    BY <1>7, <2>1, <2>2, <2>3 DEF Environment
<1>8. CASE Shutdown
  BY <1>8 DEF Shutdown
<1>9. CASE UNCHANGED vars
  BY <1>9 DEF vars, counters, flags, external, accesses, disposeVars
<1>10. QED
  BY <1>4, <1>5, <1>6, <1>7, <1>8, <1>9 DEF Next, Terminated

(* How a thread moves in the loop of taskFinished.                         *)
LEMMA Moves ==
  ASSUME TypesOK, Flow, Climbers, [Next]_vars
  PROVE  \A s \in Task : pc'[s] \in Climb =>
           \/ pc[s] \in Climb /\ cur'[s] = cur[s]
           \/ pc[s] = "finishing" /\ cur'[s] = s
           \/ pc[s] = "up" /\ cur'[s] = Parent[cur[s]] /\ cur'[s] \in Task
<1> USE DEF counters, flags, external, accesses, disposeVars, Pc, Early, Creates, Waits, Sleeps,
    InBody, Ended, Over, Climb
<1> pc \in [Task -> Pc] /\ cur \in [Task -> Task \cup {NoTask}]
  BY DEF TypesOK
<1>1. \A u \in Task : pc[u] \in Climb => cur[u] \in Task
  BY DEF Climbers
<1>2. ASSUME NEW t \in Task, Run(t) PROVE \A s \in Task : pc'[s] \in Climb =>
           \/ pc[s] \in Climb /\ cur'[s] = cur[s]
           \/ pc[s] = "finishing" /\ cur'[s] = s
           \/ pc[s] = "up" /\ cur'[s] = Parent[cur[s]] /\ cur'[s] \in Task
  <2> program' = program
    BY <1>2 DEF Run
  <2>1. CASE SubmitTask(t)
    BY <2>1, AtCreate DEF SubmitTask, AddChild
  <2>2. CASE SubmitReady(t)
    BY <2>2, InCreate DEF SubmitReady
  <2>3. CASE InlineReturns(t)
    BY <2>3, InCreate DEF InlineReturns
  <2>4. CASE SubmitNotReady(t)
    BY <2>4, InCreate DEF SubmitNotReady
  <2>5. CASE If0Returns(t)
    BY <2>5, InCreate DEF If0Returns
  <2>6. CASE Spawn(t)
    BY <2>6, AtSpawn DEF Spawn
  <2>7. CASE StartTask(t)
    BY <2>7 DEF StartTask
  <2>8. CASE IncreaseEvents(t)
    BY <2>8 DEF IncreaseEvents
  <2>9. CASE EnterTaskwait(t)
    BY <2>9 DEF EnterTaskwait
  <2>10. CASE MarkAsBlocked(t)
    BY <2>10 DEF MarkAsBlocked
  <2>11. CASE SuspendCoroutine(t)
    BY <2>11 DEF SuspendCoroutine, SubmitCreator
  <2>12. CASE Resume(t)
    BY <2>12 DEF Resume
  <2>13. CASE MarkAsUnblocked(t)
    BY <2>13 DEF MarkAsUnblocked
  <2>14. CASE GetBlockingContext(t)
    BY <2>14 DEF GetBlockingContext
  <2>15. CASE BlockCurrentTask(t)
    BY <2>15 DEF BlockCurrentTask
  <2>16. CASE ReturnFromBlock(t)
    BY <2>16 DEF ReturnFromBlock
  <2>17. CASE UnblockTask(t)
    BY <2>17 DEF UnblockTask
  <2>18. CASE EndBody(t)
    BY <2>18 DEF EndBody, SubmitCreator
  <2>19. QED
    BY <1>2, <2>1, <2>2, <2>3, <2>4, <2>5, <2>6, <2>7, <2>8, <2>9, <2>10, <2>11, <2>12, <2>13,
        <2>14, <2>15, <2>16, <2>17, <2>18 DEF Run
<1>3. ASSUME NEW t \in Task, Complete(t) PROVE \A s \in Task : pc'[s] \in Climb =>
           \/ pc[s] \in Climb /\ cur'[s] = cur[s]
           \/ pc[s] = "finishing" /\ cur'[s] = s
           \/ pc[s] = "up" /\ cur'[s] = Parent[cur[s]] /\ cur'[s] \in Task
  <2> program' = program
    BY <1>3 DEF Complete
  <2>1. CASE MarkAsFinished(t)
    BY <2>1 DEF MarkAsFinished
  <2>2. CASE DelayRelease(t)
    BY <2>2 DEF DelayRelease
  <2>3. CASE CompleteDelayedRelease(t)
    BY <2>3 DEF CompleteDelayedRelease
  <2>4. CASE ReleaseDependencies(t)
    BY <2>4 DEF ReleaseDependencies
  <2>5. CASE FinishSelf(t)
    BY <2>5 DEF FinishSelf
  <2>6. CASE WakeAncestor(t)
    BY <2>6 DEF WakeAncestor
  <2>7. CASE PassFinished(t)
    BY <2>7 DEF PassFinished
  <2>8. CASE ReleaseAncestor(t)
    BY <2>8 DEF ReleaseAncestor
  <2>9. CASE FinishAncestor(t)
    BY <2>9 DEF FinishAncestor
  <2>10. CASE RemoveAncestor(t)
    BY <2>10, ClimbersOf DEF RemoveAncestor, DropRemoval
  <2>11. CASE FinishParent(t)
    <3>1. cur[t] \in Task /\ (Parent[cur[t]] # NoTask => Parent[cur[t]] \in Task)
      BY <2>11, <1>1, ParentType DEF FinishParent
    <3>2. QED
      BY <2>11, <3>1 DEF FinishParent
  <2>12. CASE RemoveSelf(t)
    BY <2>12 DEF RemoveSelf, DropRemoval
  <2>13. QED
    BY <1>3, <2>1, <2>2, <2>3, <2>4, <2>5, <2>6, <2>7, <2>8, <2>9, <2>10, <2>11, <2>12 DEF Complete
<1>4. ASSUME NEW t \in Task, Dispose(t) PROVE \A s \in Task : pc'[s] \in Climb =>
           \/ pc[s] \in Climb /\ cur'[s] = cur[s]
           \/ pc[s] = "finishing" /\ cur'[s] = s
           \/ pc[s] = "up" /\ cur'[s] = Parent[cur[s]] /\ cur'[s] \in Task
  <2> program' = program
    BY <1>4 DEF Dispose
  <2>1. CASE DropParent(t)
    BY <2>1 DEF DropParent
  <2>2. CASE FreeTask(t)
    BY <2>2 DEF FreeTask
  <2>3. CASE DestroyTask(t)
    BY <2>3 DEF DestroyTask
  <2>4. QED
    BY <1>4, <2>1, <2>2, <2>3 DEF Dispose
<1>5. ASSUME NEW t \in Task, Environment(t) PROVE \A s \in Task : pc'[s] \in Climb =>
           \/ pc[s] \in Climb /\ cur'[s] = cur[s]
           \/ pc[s] = "finishing" /\ cur'[s] = s
           \/ pc[s] = "up" /\ cur'[s] = Parent[cur[s]] /\ cur'[s] \in Task
  <2> program' = program
    BY <1>5 DEF Environment
  <2>1. CASE BecomesReady(t)
    BY <2>1 DEF BecomesReady
  <2>2. CASE DecreaseEvents(t)
    BY <2>2 DEF DecreaseEvents
  <2>3. CASE AccessesGone(t)
    BY <2>3 DEF AccessesGone, DropRemoval
  <2>4. QED
    BY <1>5, <2>1, <2>2, <2>3 DEF Environment
<1>6. CASE Shutdown
  BY <1>6 DEF Shutdown
<1>7. CASE UNCHANGED vars
  BY <1>7 DEF vars, counters, flags, external, accesses, disposeVars
<1>8. QED
  BY <1>2, <1>3, <1>4, <1>5, <1>6, <1>7 DEF Next, Terminated

LEMMA PathsStep ==
  ASSUME TypesOK, Flow, Climbers, RemovalCounts, Disposals, Paths, [Next]_vars
  PROVE  Paths'
<1>1. Parent' = Parent
  BY SameProgram DEF Next, Run, Complete, Dispose, Environment, Shutdown, Terminated, vars
<1>2. \A s \in Task : pc[s] # "none" => pc'[s] # "none"
  BY OnlyStarts
<1>3. \A s \in Task : disposal[s] = "none" /\ disposal'[s] # "none" =>
        Undisposed(s) = {} /\ pc[s] \in {"detached", "removing", "done"}
  BY BecomesDue
<1>4. \A s, c \in Task : pc[c] # "none" /\ disposal[c] = "none" /\ Parent[c] = s => c \in Undisposed(s)
  BY DEF Undisposed, Kids
<1> SUFFICES ASSUME NEW t \in Task, pc'[t] \in Climb PROVE \E S \in SUBSET Task : Path(t, S)'
  BY DEF Paths
<1>5. CASE pc[t] \in Climb /\ cur'[t] = cur[t]
  <2>1. PICK S \in SUBSET Task : Path(t, S)
    BY <1>5 DEF Paths
  <2>2. \A s \in S : disposal'[s] = "none"
    BY <1>3, <1>4, <1>5, <2>1 DEF Path, Climb
  <2>3. Path(t, S)'
    BY <1>1, <1>2, <1>5, <2>1, <2>2 DEF Path
  <2>4. QED
    BY <2>3
<1>6. CASE pc[t] = "finishing" /\ cur'[t] = t
  <2>1. disposal[t] = "none"
    BY <1>6, RemovalFacts
  <2>2. Path(t, {t})'
    BY <1>2, <1>3, <1>6, <2>1 DEF Path
  <2>3. QED
    BY <2>2
<1>7. CASE pc[t] = "up" /\ cur'[t] = Parent[cur[t]] /\ cur'[t] \in Task
  <2>1. PICK S \in SUBSET Task : Path(t, S)
    BY <1>7 DEF Paths, Climb
  <2>2. PICK a \in Task : a = cur'[t]
    BY <1>7
  <2>3. cur[t] \in S /\ Parent[cur[t]] = a /\ pc[cur[t]] # "none" /\ disposal[cur[t]] = "none"
    BY <1>7, <2>1, <2>2 DEF Path
  <2>4. cur[t] \in Undisposed(a) /\ pc[a] # "none"
    BY <2>1, <2>3, <1>4, ParentRuns, LifecycleAssumption DEF Early
  <2>5. disposal[a] = "none"
    BY <2>4, RemovalFacts
  <2>6. \A s \in S \cup {a} : disposal'[s] = "none"
    BY <1>3, <1>4, <1>7, <2>1, <2>4, <2>5 DEF Path
  <2>7. Path(t, S \cup {a})'
    BY <1>1, <1>2, <2>1, <2>2, <2>3, <2>4, <2>6 DEF Path
  <2>8. QED
    BY <2>1, <2>7
<1>8. QED
  BY <1>5, <1>6, <1>7, Moves

LEMMA PendingFinite ==
  IsFiniteSet({s \in Task : Pending(s)}) /\ Cardinality({s \in Task : Pending(s)}) \in Nat
<1>1. {s \in Task : Pending(s)} \subseteq Task /\ IsFiniteSet(Task)
  BY LifecycleAssumption
<1>2. QED
  BY <1>1, FS_Subset, FS_CardinalityType

LEMMA PendingStays ==
  ASSUME PendingCounts, Spawned' = Spawned, pendingSpawned' = pendingSpawned,
         \A s \in Task : s \in Spawned => (pc'[s] = "none" <=> pc[s] = "none"),
         \A s \in Task : disposal'[s] \in {"freed", "destroyed"} <=> disposal[s] \in {"freed", "destroyed"}
  PROVE  PendingCounts'
<1>1. {s \in Task : Pending(s)}' = {s \in Task : Pending(s)}
  BY DEF Pending
<1>2. QED
  BY <1>1 DEF PendingCounts

(* Every step keeps what _pendingSpawnedFunctions counts.                  *)
LEMMA PendingStep ==
  ASSUME TypesOK, Flow, Climbers, RemovalCounts, Disposals, PendingCounts, [Next]_vars
  PROVE  PendingCounts'
<1> USE DEF counters, flags, external, accesses, disposeVars, Pc, Early, Creates, Waits, Sleeps,
    InBody, Ended, Over, Climb
<1> /\ pc \in [Task -> Pc] /\ removal \in [Task -> Int] /\ pendingSpawned \in Int
    /\ disposal \in [Task -> {"none", "due", "dropped", "freed", "destroyed"}]
  BY DEF TypesOK
<1>1. \A a \in Task : (removal[a] > 0 => disposal[a] = "none") /\ (removal[a] = 0 => pc[a] = "done")
  BY RemovalFacts
<1>2. \A a \in Task : pc[a] # "none" => pc'[a] # "none"
  BY OnlyStarts
<1>3. ASSUME NEW t \in Task, Run(t) PROVE PendingCounts'
  <2> Parent' = Parent /\ Spawned' = Spawned
    BY <1>3, SameProgram DEF Run
  <2>1. CASE SubmitTask(t)
    BY <2>1, <1>2, PendingStays, AtCreate DEF SubmitTask, AddChild, AtOp
  <2>2. CASE SubmitReady(t)
    <3>1. Subject(t) \in Task /\ pc[Subject(t)] = "registered"
      BY <2>2, InCreate DEF SubmitReady, Flow, Reached, ReachedAt
    <3>2. QED
      BY <2>2, <3>1, PendingStays DEF SubmitReady
  <2>3. CASE InlineReturns(t)
    BY <2>3, <1>2, PendingStays, InCreate DEF InlineReturns
  <2>4. CASE SubmitNotReady(t)
    BY <2>4, <1>2, PendingStays, InCreate DEF SubmitNotReady
  <2>5. CASE If0Returns(t)
    BY <2>5, <1>2, PendingStays, InCreate DEF If0Returns
  <2>6. CASE Spawn(t)
    <3>1. PICK c \in Task : c = Subject(t) /\ c \in Spawned /\ pc[c] = "none" /\ c # t
      BY <2>6, AtSpawn DEF Spawn
    <3>2. /\ pc' = [pc EXCEPT ![c] = "submitted"] /\ disposal' = disposal
          /\ pendingSpawned' = pendingSpawned + 1
      BY <2>6, <3>1 DEF Spawn
    <3>3. disposal[c] = "none"
      BY <3>1, RemovalFacts
    <3>4. {s \in Task : Pending(s)}' = {s \in Task : Pending(s)} \cup {c} /\ ~Pending(c)
      BY <3>1, <3>2, <3>3 DEF Pending
    <3>5. Cardinality({s \in Task : Pending(s)})' = Cardinality({s \in Task : Pending(s)}) + 1
      BY <3>4, PendingFinite, FS_AddElement
    <3>6. QED
      BY <3>2, <3>5 DEF PendingCounts
  <2>7. CASE StartTask(t)
    BY <2>7, <1>2, PendingStays DEF StartTask
  <2>8. CASE IncreaseEvents(t)
    BY <2>8, <1>2, PendingStays DEF IncreaseEvents, AtOp
  <2>9. CASE EnterTaskwait(t)
    BY <2>9, <1>2, PendingStays DEF EnterTaskwait, AtOp
  <2>10. CASE MarkAsBlocked(t)
    BY <2>10, <1>2, PendingStays DEF MarkAsBlocked
  <2>11. CASE SuspendCoroutine(t)
    BY <2>11, <1>2, PendingStays DEF SuspendCoroutine, SubmitCreator
  <2>12. CASE Resume(t)
    BY <2>12, <1>2, PendingStays DEF Resume
  <2>13. CASE MarkAsUnblocked(t)
    BY <2>13, <1>2, PendingStays DEF MarkAsUnblocked
  <2>14. CASE GetBlockingContext(t)
    BY <2>14, <1>2, PendingStays DEF GetBlockingContext, AtOp
  <2>15. CASE BlockCurrentTask(t)
    BY <2>15, <1>2, PendingStays DEF BlockCurrentTask, AtOp
  <2>16. CASE ReturnFromBlock(t)
    BY <2>16, <1>2, PendingStays DEF ReturnFromBlock
  <2>17. CASE UnblockTask(t)
    BY <2>17, <1>2, PendingStays DEF UnblockTask, AtOp
  <2>18. CASE EndBody(t)
    BY <2>18, <1>2, PendingStays DEF EndBody, SubmitCreator
  <2>19. QED
    BY <1>3, <2>1, <2>2, <2>3, <2>4, <2>5, <2>6, <2>7, <2>8, <2>9, <2>10, <2>11, <2>12, <2>13,
        <2>14, <2>15, <2>16, <2>17, <2>18 DEF Run
<1>4. ASSUME NEW t \in Task, Complete(t) PROVE PendingCounts'
  <2> Parent' = Parent /\ Spawned' = Spawned
    BY <1>4, SameProgram DEF Complete
  <2>1. CASE MarkAsFinished(t)
    BY <2>1, <1>2, PendingStays DEF MarkAsFinished
  <2>2. CASE DelayRelease(t)
    BY <2>2, <1>2, PendingStays DEF DelayRelease
  <2>3. CASE CompleteDelayedRelease(t)
    BY <2>3, <1>2, PendingStays DEF CompleteDelayedRelease
  <2>4. CASE ReleaseDependencies(t)
    BY <2>4, <1>2, PendingStays DEF ReleaseDependencies
  <2>5. CASE FinishSelf(t)
    BY <2>5, <1>2, PendingStays DEF FinishSelf
  <2>6. CASE WakeAncestor(t)
    BY <2>6, <1>2, PendingStays DEF WakeAncestor
  <2>7. CASE PassFinished(t)
    BY <2>7, <1>2, PendingStays DEF PassFinished
  <2>8. CASE ReleaseAncestor(t)
    BY <2>8, <1>2, PendingStays DEF ReleaseAncestor
  <2>9. CASE FinishAncestor(t)
    BY <2>9, <1>2, PendingStays DEF FinishAncestor
  <2>10. CASE RemoveAncestor(t)
    <3>1. PICK a \in Task : a = cur[t] /\ pc[a] = "detached"
      BY <2>10, ClimbersOf DEF RemoveAncestor
    <3>2. \A u \in Task : disposal'[u] = IF u = a /\ removal[a] = 1 THEN "due" ELSE disposal[u]
      BY <2>10, <3>1 DEF RemoveAncestor, DropRemoval
    <3>3. \A u \in Task : pc'[u] = "none" <=> pc[u] = "none"
      BY <2>10, <3>1 DEF RemoveAncestor
    <3>4. QED
      BY <2>10, <3>1, <3>2, <3>3, <1>1, PendingStays DEF RemoveAncestor
  <2>11. CASE FinishParent(t)
    BY <2>11, <1>2, PendingStays DEF FinishParent
  <2>12. CASE RemoveSelf(t)
    <3>1. PICK a \in Task : a = t /\ pc[a] = "removing"
      BY <2>12, ClimbersOf DEF RemoveSelf
    <3>2. \A u \in Task : disposal'[u] = IF u = a /\ removal[a] = 1 THEN "due" ELSE disposal[u]
      BY <2>12, <3>1 DEF RemoveSelf, DropRemoval
    <3>3. \A u \in Task : pc'[u] = "none" <=> pc[u] = "none"
      BY <2>12, <3>1 DEF RemoveSelf
    <3>4. QED
      BY <2>12, <3>1, <3>2, <3>3, <1>1, PendingStays DEF RemoveSelf
  <2>13. QED
    BY <1>4, <2>1, <2>2, <2>3, <2>4, <2>5, <2>6, <2>7, <2>8, <2>9, <2>10, <2>11, <2>12 DEF Complete
<1>5. ASSUME NEW t \in Task, Dispose(t) PROVE PendingCounts'
  <2> Parent' = Parent /\ Spawned' = Spawned
    BY <1>5, SameProgram DEF Dispose
  <2>1. CASE DropParent(t)
    BY <2>1, <1>2, PendingStays DEF DropParent
  <2>2. CASE FreeTask(t)
    <3>1. /\ pc' = pc /\ disposal[t] = "dropped" /\ disposal' = [disposal EXCEPT ![t] = "freed"]
          /\ pendingSpawned' = pendingSpawned - Share(t \in Spawned)
      BY <2>2 DEF FreeTask, Share
    <3>2. CASE t \notin Spawned
      <4>1. pendingSpawned' = pendingSpawned
        BY <3>1, <3>2 DEF Share
      <4>2. disposal'[t] \notin {"none", "due"} /\ t \notin Spawned'
        BY <3>1, <3>2
      <4>3. {s \in Task : Pending(s)}' = {s \in Task : Pending(s)}
        BY <3>1, <3>2, <4>2 DEF Pending
      <4>4. QED
        BY <4>1, <4>3 DEF PendingCounts
    <3>3. CASE t \in Spawned
      <4>1. pc[t] = "done"
        BY <3>1, <1>1 DEF Disposals
      <4>2. {s \in Task : Pending(s)}' = {s \in Task : Pending(s)} \ {t} /\ Pending(t)
        BY <3>1, <3>3, <4>1 DEF Pending
      <4>3. Cardinality({s \in Task : Pending(s)})' = Cardinality({s \in Task : Pending(s)}) - 1
        BY <4>2, PendingFinite, FS_RemoveElement
      <4>4. QED
        BY <3>1, <3>3, <4>3 DEF PendingCounts, Share
    <3>4. QED
      BY <3>2, <3>3
  <2>3. CASE DestroyTask(t)
    <3>1. disposable[t] => disposal[Parent[t]] = "none"
      BY <2>3 DEF DestroyTask, Disposals, Dropping
    <3>2. QED
      BY <2>3, <3>1, PendingStays DEF DestroyTask
  <2>4. QED
    BY <1>5, <2>1, <2>2, <2>3 DEF Dispose
<1>6. ASSUME NEW t \in Task, Environment(t) PROVE PendingCounts'
  <2> Parent' = Parent /\ Spawned' = Spawned
    BY <1>6, SameProgram DEF Environment
  <2>1. CASE BecomesReady(t)
    BY <2>1, <1>2, PendingStays DEF BecomesReady
  <2>2. CASE DecreaseEvents(t)
    BY <2>2, <1>2, PendingStays DEF DecreaseEvents
  <2>3. CASE AccessesGone(t)
    <3>1. PICK a \in Task : a = t /\ linked[a]
      BY <2>3, ClimbersOf DEF AccessesGone
    <3>2. \A u \in Task : disposal'[u] = IF u = a /\ removal[a] = 1 THEN "due" ELSE disposal[u]
      BY <2>3, <3>1 DEF AccessesGone, DropRemoval
    <3>3. \A u \in Task : pc'[u] = "none" <=> pc[u] = "none"
      BY <2>3, <3>1 DEF AccessesGone
    <3>4. QED
      BY <2>3, <3>1, <3>2, <3>3, <1>1, PendingStays DEF AccessesGone
  <2>4. QED
    BY <1>6, <2>1, <2>2, <2>3 DEF Environment
<1>7. CASE Shutdown
  BY <1>7, PendingStays, SameProgram DEF Shutdown
<1>8. CASE UNCHANGED vars
  BY <1>8, PendingStays, SameProgram DEF vars, counters, flags, external, accesses, disposeVars
<1>9. QED
  BY <1>3, <1>4, <1>5, <1>6, <1>7, <1>8 DEF Next, Terminated

(* Who ended does not run again.                                           *)
LEMMA NoComeBack ==
  ASSUME TypesOK, Flow, Climbers, [Next]_vars
  PROVE  \A c \in Task : pc'[c] \in Early \cup InBody => pc[c] \in Early \cup InBody
<1> USE DEF Early, InBody
<1> pc \in [Task -> Pc]
  BY DEF TypesOK
<1>1. ASSUME NEW t \in Task, Run(t)
      PROVE  \A c \in Task : pc'[c] \in Early \cup InBody => pc[c] \in Early \cup InBody
  <2> program' = program
    BY <1>1 DEF Run
  <2>1. CASE SubmitTask(t)
    BY <2>1, AtCreate DEF SubmitTask, AddChild, AtOp
  <2>2. CASE SubmitReady(t)
    <3>1. Subject(t) \in Task /\ pc[Subject(t)] = "registered"
      BY <2>2, InCreate DEF SubmitReady, Flow, Reached, ReachedAt, Creates
    <3>2. QED
      BY <2>2, <3>1 DEF SubmitReady
  <2>3. CASE InlineReturns(t)
    BY <2>3, InCreate DEF InlineReturns, Creates
  <2>4. CASE SubmitNotReady(t)
    BY <2>4, InCreate DEF SubmitNotReady, Creates
  <2>5. CASE If0Returns(t)
    BY <2>5, InCreate DEF If0Returns, Creates
  <2>6. CASE Spawn(t)
    BY <2>6, AtSpawn DEF Spawn, AtOp
  <2>7. CASE StartTask(t)
    BY <2>7 DEF StartTask
  <2>8. CASE IncreaseEvents(t)
    BY <2>8, AtAny DEF IncreaseEvents
  <2>9. CASE EnterTaskwait(t)
    BY <2>9, AtAny DEF EnterTaskwait, AtOp
  <2>10. CASE MarkAsBlocked(t)
    BY <2>10 DEF MarkAsBlocked
  <2>11. CASE SuspendCoroutine(t)
    BY <2>11 DEF SuspendCoroutine, SubmitCreator
  <2>12. CASE Resume(t)
    BY <2>12 DEF Resume
  <2>13. CASE MarkAsUnblocked(t)
    BY <2>13 DEF MarkAsUnblocked
  <2>14. CASE GetBlockingContext(t)
    BY <2>14, AtAny DEF GetBlockingContext
  <2>15. CASE BlockCurrentTask(t)
    BY <2>15, AtAny DEF BlockCurrentTask, AtOp
  <2>16. CASE ReturnFromBlock(t)
    BY <2>16 DEF ReturnFromBlock
  <2>17. CASE UnblockTask(t)
    BY <2>17, AtAny DEF UnblockTask
  <2>18. CASE EndBody(t)
    BY <2>18 DEF EndBody, SubmitCreator
  <2>19. QED
    BY <1>1, <2>1, <2>2, <2>3, <2>4, <2>5, <2>6, <2>7, <2>8, <2>9, <2>10, <2>11, <2>12, <2>13,
        <2>14, <2>15, <2>16, <2>17, <2>18 DEF Run
<1>2. ASSUME NEW t \in Task, Complete(t)
      PROVE  \A c \in Task : pc'[c] \in Early \cup InBody => pc[c] \in Early \cup InBody
  <2> program' = program
    BY <1>2 DEF Complete
  <2>1. CASE MarkAsFinished(t)
    BY <2>1 DEF MarkAsFinished
  <2>2. CASE DelayRelease(t)
    BY <2>2 DEF DelayRelease
  <2>3. CASE CompleteDelayedRelease(t)
    BY <2>3 DEF CompleteDelayedRelease
  <2>4. CASE ReleaseDependencies(t)
    BY <2>4 DEF ReleaseDependencies
  <2>5. CASE FinishSelf(t)
    BY <2>5 DEF FinishSelf
  <2>6. CASE WakeAncestor(t)
    BY <2>6 DEF WakeAncestor
  <2>7. CASE PassFinished(t)
    BY <2>7 DEF PassFinished
  <2>8. CASE ReleaseAncestor(t)
    BY <2>8 DEF ReleaseAncestor
  <2>9. CASE FinishAncestor(t)
    BY <2>9 DEF FinishAncestor
  <2>10. CASE RemoveAncestor(t)
    BY <2>10, ClimbersOf DEF RemoveAncestor, DropRemoval
  <2>11. CASE FinishParent(t)
    BY <2>11 DEF FinishParent
  <2>12. CASE RemoveSelf(t)
    BY <2>12 DEF RemoveSelf, DropRemoval
  <2>13. QED
    BY <1>2, <2>1, <2>2, <2>3, <2>4, <2>5, <2>6, <2>7, <2>8, <2>9, <2>10, <2>11, <2>12 DEF Complete
<1>3. ASSUME NEW t \in Task, Dispose(t)
      PROVE  \A c \in Task : pc'[c] \in Early \cup InBody => pc[c] \in Early \cup InBody
  <2> program' = program
    BY <1>3 DEF Dispose
  <2>1. CASE DropParent(t)
    BY <2>1 DEF DropParent
  <2>2. CASE FreeTask(t)
    BY <2>2 DEF FreeTask
  <2>3. CASE DestroyTask(t)
    BY <2>3 DEF DestroyTask
  <2>4. QED
    BY <1>3, <2>1, <2>2, <2>3 DEF Dispose
<1>4. ASSUME NEW t \in Task, Environment(t)
      PROVE  \A c \in Task : pc'[c] \in Early \cup InBody => pc[c] \in Early \cup InBody
  <2> program' = program
    BY <1>4 DEF Environment
  <2>1. CASE BecomesReady(t)
    BY <2>1 DEF BecomesReady
  <2>2. CASE DecreaseEvents(t)
    BY <2>2 DEF DecreaseEvents
  <2>3. CASE AccessesGone(t)
    BY <2>3 DEF AccessesGone, DropRemoval
  <2>4. QED
    BY <1>4, <2>1, <2>2, <2>3 DEF Environment
<1>5. CASE Shutdown
  BY <1>5 DEF Shutdown
<1>6. CASE UNCHANGED vars
  BY <1>6 DEF vars, counters, flags, external, accesses, disposeVars
<1>7. QED
  BY <1>1, <1>2, <1>3, <1>4, <1>5, <1>6 DEF Next, Terminated

(* What the operations behind the body say changes with three of them only.*)
LEMMA OpsAt ==
  ASSUME TypesOK, Body' = Body, NEW p \in Task, ip'[p] \in {ip[p], ip[p] + 1},
         ip'[p] = ip[p] + 1 => ip[p] \in DOMAIN Body[p]
  PROVE  \A op : HasPassed(p, op)' <=> HasPassed(p, op) \/ (ip'[p] = ip[p] + 1 /\ Op(p)[1] = op)
<1> ip[p] \in Nat
  BY DEF TypesOK
<1>1. CASE ip'[p] = ip[p]
  BY <1>1 DEF HasPassed
<1>2. CASE ip'[p] = ip[p] + 1
  <2>1. 1..(ip'[p] - 1) = 1..(ip[p] - 1) \cup {ip[p]}
    <3>1. ip[p] \in Nat /\ ip[p] >= 1
      BY DEF TypesOK
    <3>2. QED
      BY <1>2, <3>1
  <2>2. QED
    BY <1>2, <2>1 DEF HasPassed, Op
<1>3. QED
  BY <1>1, <1>2

(* What the operations behind a body say changes with three of them only.  *)
LEMMA UnblockedStays ==
  ASSUME TypesOK, Body' = Body, NEW a \in Task,
         \A p \in Task : \/ ip'[p] = ip[p]
                         \/ /\ ip'[p] = ip[p] + 1 /\ ip[p] \in DOMAIN Body[p]
                            /\ Op(p) # <<"unblock", a>>
  PROVE  Unblocked(a)' <=> Unblocked(a)
<1>1. ASSUME NEW p \in Task, NEW i \in DOMAIN Body[p], Body[p][i] = <<"unblock", a>>
      PROVE  i < ip'[p] <=> i < ip[p]
  <2>1. i \in Nat /\ ip[p] \in Nat
    BY OpType DEF TypesOK
  <2>2. ip[p] = i => Op(p) = <<"unblock", a>>
    BY <1>1 DEF Op
  <2>3. QED
    BY <2>1, <2>2
<1>2. QED
  BY <1>1 DEF Unblocked

LEMMA PassStay ==
  ASSUME TypesOK, Body' = Body, NEW a \in Task,
         \/ ip'[a] = ip[a]
         \/ /\ ip'[a] = ip[a] + 1 /\ ip[a] \in DOMAIN Body[a]
            /\ Op(a)[1] \notin {"context", "block"}
  PROVE  /\ HasPassed(a, "context")' <=> HasPassed(a, "context")
         /\ HasPassed(a, "block")' <=> HasPassed(a, "block")
         /\ AboutToBlock(a)' <=> AboutToBlock(a)
<1>1. /\ ip'[a] \in {ip[a], ip[a] + 1} /\ ip'[a] = ip[a] + 1 => ip[a] \in DOMAIN Body[a]
      /\ ip'[a] = ip[a] + 1 => Op(a)[1] \notin {"context", "block"}
  <2>1. ip[a] \in Nat
    BY DEF TypesOK
  <2>2. QED
    BY <2>1
<1>2. HasPassed(a, "context")' <=> HasPassed(a, "context")
  BY <1>1, OpsAt
<1>3. HasPassed(a, "block")' <=> HasPassed(a, "block")
  BY <1>1, OpsAt
<1>4. QED
  BY <1>2, <1>3 DEF AboutToBlock

LEMMA OpsStay ==
  ASSUME TypesOK, Body' = Body,
         \A p \in Task : \/ ip'[p] = ip[p]
                         \/ /\ ip'[p] = ip[p] + 1 /\ ip[p] \in DOMAIN Body[p]
                            /\ Op(p)[1] \notin {"context", "block", "unblock"}
  PROVE  \A a \in Task : /\ HasPassed(a, "context")' <=> HasPassed(a, "context")
                         /\ HasPassed(a, "block")' <=> HasPassed(a, "block")
                         /\ AboutToBlock(a)' <=> AboutToBlock(a)
                         /\ Unblocked(a)' <=> Unblocked(a)
  BY PassStay, UnblockedStays

(* What PairedWakeUps says of the program that is run.                     *)
LEMMA Paired ==
  ASSUME TypesOK, PairedWakeUps
  PROVE  /\ Coroutines \cap If0 = {}
         /\ \A t, u \in Task : \A i \in DOMAIN Body[t], j \in DOMAIN Body[u] :
              Body[t][i][1] = "unblock" /\ Body[u][j] = Body[t][i] => t = u /\ i = j
         /\ \A t \in Task : \A k \in DOMAIN Body[t] :
              Body[t][k][1] = "block" => \E i \in 1..(k - 1) : Body[t][i][1] = "context"
         /\ \A t \in Task : \A k \in DOMAIN Body[t] :
              /\ Body[t][k][1] = "taskwait" \/ (Body[t][k][1] = "create" /\ Body[t][k][2] \in If0)
              /\ \E i \in 1..(k - 1) : Body[t][i][1] = "context"
              => \E j \in 1..(k - 1) : Body[t][j][1] = "block"
<1> program \in DOMAIN Programs
  BY DEF TypesOK
<1>1. Coroutines \cap If0 = {}
  BY DEF PairedWakeUps, Coroutines, If0
<1>2. \A t, u \in Task : \A i \in DOMAIN Body[t], j \in DOMAIN Body[u] :
        Body[t][i][1] = "unblock" /\ Body[u][j] = Body[t][i] => t = u /\ i = j
  BY DEF PairedWakeUps, Body
<1>3. \A t \in Task : \A k \in DOMAIN Body[t] :
        Body[t][k][1] = "block" => \E i \in 1..(k - 1) : Body[t][i][1] = "context"
  BY DEF PairedWakeUps, Body
<1>4. \A t \in Task : \A k \in DOMAIN Body[t] :
        /\ Body[t][k][1] = "taskwait" \/ (Body[t][k][1] = "create" /\ Body[t][k][2] \in If0)
        /\ \E i \in 1..(k - 1) : Body[t][i][1] = "context"
        => \E j \in 1..(k - 1) : Body[t][j][1] = "block"
  BY DEF PairedWakeUps, Body, If0
<1>5. QED
  BY <1>1, <1>2, <1>3, <1>4

(* What it says of the operation a task is at.                             *)
LEMMA NotYetUnblocked ==
  ASSUME TypesOK, PairedWakeUps, NEW t \in Task, AtOp(t, "unblock")
  PROVE  ~Unblocked(Subject(t))
<1>1. ip[t] \in DOMAIN Body[t] /\ Op(t) = <<"unblock", Subject(t)>> /\ ip[t] \in Nat
  BY AtAny
<1>2. \A p \in Task : \A i \in DOMAIN Body[p] : Body[p][i] = <<"unblock", Subject(t)>> => p = t /\ i = ip[t]
  BY <1>1, Paired DEF Op
<1>3. QED
  BY <1>1, <1>2 DEF Unblocked

LEMMA BlocksBefore ==
  ASSUME TypesOK, PairedWakeUps, NEW t \in Task, ip[t] \in DOMAIN Body[t]
  PROVE  /\ Op(t)[1] = "block" => HasPassed(t, "context")
         /\ Op(t)[1] = "taskwait" \/ (Op(t)[1] = "create" /\ Subject(t) \in If0) => ~AboutToBlock(t)
<1>1. Op(t)[1] = "block" => HasPassed(t, "context")
  BY Paired DEF HasPassed, Op
<1>2. Op(t)[1] = "taskwait" \/ (Op(t)[1] = "create" /\ Subject(t) \in If0) =>
        (HasPassed(t, "context") => HasPassed(t, "block"))
  BY Paired DEF HasPassed, Op, Subject
<1>3. QED
  BY <1>1, <1>2 DEF AboutToBlock

(* A task that is not resumed or submitted again keeps what its permits    *)
(* stand for.                                                              *)
LEMMA BlocksStay ==
  ASSUME NEW a \in Task, BlocksAt(a), HasPassed(a, "context")' <=> HasPassed(a, "context"),
         HasPassed(a, "block")' <=> HasPassed(a, "block"), Unblocked(a)' <=> Unblocked(a),
         pc'[a] = "blocked" => pc[a] = "blocked" \/ HasPassed(a, "context")
  PROVE  BlocksAt(a)'
  BY DEF BlocksAt

LEMMA PermitStay ==
  ASSUME NEW a \in Task, PermitAt(a), AboutToBlock(a)' <=> AboutToBlock(a),
         Unblocked(a)' <=> Unblocked(a), permits'[a] = permits[a],
         AboutToBlock(a) => pc'[a] \notin Waits \cup {"inline", "waitIf0"},
         permits[a] = 1 /\ pc[a] \in Sleeps =>
           /\ pc'[a] \in Sleeps /\ wakeUp'[a] = wakeUp[a]
           /\ \A t \in Task : At(t, a)' => At(t, a),
         permits[a] = 1 /\ pc[a] = "waitIf0" =>
           /\ pc'[a] = "waitIf0" /\ Subject(a)' = Subject(a)
           /\ pc'[Subject(a)] \in Early \cup InBody => pc[Subject(a)] \in Early \cup InBody
  PROVE  PermitAt(a)'
<1>1. CASE AboutToBlock(a)
  <2>1. Share(Unblocked(a))' = Share(Unblocked(a))
    BY DEF Share
  <2>2. permits[a] = Share(Unblocked(a))
    BY <1>1 DEF PermitAt
  <2>3. QED
    BY <1>1, <2>1, <2>2 DEF PermitAt
<1>2. CASE ~AboutToBlock(a) /\ permits[a] = 0
  BY <1>2 DEF PermitAt
<1>3. CASE ~AboutToBlock(a) /\ permits[a] = 1 /\ pc[a] \in Sleeps
  BY <1>3 DEF PermitAt, Sleeps
<1>4. CASE ~AboutToBlock(a) /\ permits[a] = 1 /\ pc[a] = "waitIf0"
  BY <1>4 DEF PermitAt, Sleeps
<1>5. QED
  BY <1>1, <1>2, <1>3, <1>4 DEF PermitAt

LEMMA InlinedStay ==
  ASSUME NEW c \in Task, InlinedAt(c), If0' = If0, Parent' = Parent, inlined'[c] = inlined[c],
         pc'[c] \in Early \cup InBody => pc[c] \in Early \cup InBody,
         ~inlined[c] /\ pc[c] \in Early \cup InBody =>
           /\ pc'[Parent[c]] = "waitIf0" /\ Subject(Parent[c])' = Subject(Parent[c])
           /\ permits'[Parent[c]] = 0
  PROVE  InlinedAt(c)'
<1>1. (c \in If0)' <=> c \in If0
  OBVIOUS
<1>2. CASE inlined[c]
  BY <1>2 DEF InlinedAt
<1>3. CASE ~inlined[c] /\ pc'[c] \notin Early \cup InBody
  BY <1>1, <1>3 DEF InlinedAt
<1>4. CASE ~inlined[c] /\ pc'[c] \in Early \cup InBody
  <2> DEFINE p == Parent[c]
  <2>1. c \in If0 /\ p \in Task /\ Subject(p) = c
    BY <1>4 DEF InlinedAt
  <2>2. p' = p /\ pc'[p] = "waitIf0" /\ Subject(p)' = c /\ permits'[p] = 0
    BY <1>4, <2>1
  <2>3. QED
    BY <1>1, <1>4, <2>1, <2>2 DEF InlinedAt
<1>5. QED
  BY <1>2, <1>3, <1>4

LEMMA PermitsStay ==
  ASSUME TypesOK, Flow, Permits, Body' = Body, If0' = If0, Parent' = Parent,
         permits' = permits, inlined' = inlined,
         \A p \in Task : \/ ip'[p] = ip[p]
                         \/ /\ ip'[p] = ip[p] + 1 /\ ip[p] \in DOMAIN Body[p]
                            /\ Op(p)[1] \notin {"context", "block", "unblock"},
         \A p \in Task : pc'[p] \in Early \cup InBody => pc[p] \in Early \cup InBody,
         \A p \in Task : pc[p] = "waitIf0" => pc'[p] = "waitIf0" /\ ip'[p] = ip[p],
         \A p \in Task : AboutToBlock(p) => pc'[p] \notin Waits \cup {"inline", "waitIf0"},
         \A p \in Task : pc'[p] = "blocked" => pc[p] = "blocked" \/ HasPassed(p, "context"),
         \A p \in Task : permits[p] = 1 /\ pc[p] \in Sleeps =>
           /\ pc'[p] \in Sleeps /\ wakeUp'[p] = wakeUp[p]
           /\ \A t \in Task : At(t, p)' => At(t, p)
  PROVE  Permits'
<1> SUFFICES ASSUME NEW a \in Task PROVE BlocksAt(a)' /\ PermitAt(a)' /\ InlinedAt(a)'
  BY DEF Permits
<1>1. BlocksAt(a) /\ PermitAt(a) /\ InlinedAt(a)
  BY DEF Permits
<1>2. /\ HasPassed(a, "context")' <=> HasPassed(a, "context")
      /\ HasPassed(a, "block")' <=> HasPassed(a, "block")
      /\ AboutToBlock(a)' <=> AboutToBlock(a)
      /\ Unblocked(a)' <=> Unblocked(a)
  BY OpsStay
<1>3. BlocksAt(a)'
  BY <1>1, <1>2, BlocksStay
<1>4. PermitAt(a)'
  <2>1. pc[a] = "waitIf0" =>
          /\ pc'[a] = "waitIf0" /\ Subject(a)' = Subject(a) /\ Subject(a) \in Task
          /\ pc'[Subject(a)] \in Early \cup InBody => pc[Subject(a)] \in Early \cup InBody
    BY InCreate, SameOp DEF Creates
  <2>2. QED
    BY <1>1, <1>2, <2>1, PermitStay
<1>5. InlinedAt(a)'
  <2>1. ~inlined[a] /\ pc[a] \in Early \cup InBody =>
          /\ pc'[Parent[a]] = "waitIf0" /\ Subject(Parent[a])' = Subject(Parent[a])
          /\ permits'[Parent[a]] = 0
    BY <1>1, SameOp DEF InlinedAt
  <2>2. QED
    BY <1>1, <2>1, InlinedStay
<1>6. QED
  BY <1>3, <1>4, <1>5

LEMMA OthersStay ==
  ASSUME TypesOK, Flow, Permits, Body' = Body, NEW a \in Task,
         ip'[a] = ip[a], pc'[a] = pc[a], permits'[a] = permits[a], wakeUp'[a] = wakeUp[a],
         Unblocked(a)' <=> Unblocked(a), \A u \in Task : At(u, a)' => At(u, a),
         \A c \in Task : pc'[c] \in Early \cup InBody => pc[c] \in Early \cup InBody
  PROVE  BlocksAt(a)' /\ PermitAt(a)'
<1>1. BlocksAt(a) /\ PermitAt(a)
  BY DEF Permits
<1>2. /\ HasPassed(a, "context")' <=> HasPassed(a, "context")
      /\ HasPassed(a, "block")' <=> HasPassed(a, "block")
      /\ AboutToBlock(a)' <=> AboutToBlock(a)
  BY DEF HasPassed, AboutToBlock
<1>3. pc[a] = "waitIf0" => Subject(a) \in Task /\ Subject(a)' = Subject(a)
  BY InCreate, SameOp DEF Creates
<1>4. AboutToBlock(a) => pc'[a] \notin Waits \cup {"inline", "waitIf0"}
  BY <1>1 DEF PermitAt
<1>5. QED
  BY <1>1, <1>2, <1>3, <1>4, BlocksStay, PermitStay

LEMMA InlinedAllStay ==
  ASSUME TypesOK, Permits, Body' = Body, If0' = If0, Parent' = Parent, inlined' = inlined,
         \A c \in Task : pc'[c] \in Early \cup InBody => pc[c] \in Early \cup InBody,
         \A p \in Task : pc[p] = "waitIf0" /\ permits[p] = 0 =>
           pc'[p] = "waitIf0" /\ ip'[p] = ip[p] /\ permits'[p] = 0
  PROVE  \A c \in Task : InlinedAt(c)'
<1> SUFFICES ASSUME NEW c \in Task PROVE InlinedAt(c)'
  OBVIOUS
<1>1. InlinedAt(c)
  BY DEF Permits
<1>2. ~inlined[c] /\ pc[c] \in Early \cup InBody =>
        /\ pc'[Parent[c]] = "waitIf0" /\ Subject(Parent[c])' = Subject(Parent[c])
        /\ permits'[Parent[c]] = 0
  BY <1>1, SameOp DEF InlinedAt
<1>3. QED
  BY <1>1, <1>2, InlinedStay

(* Every step keeps what a permit stands for.                              *)
LEMMA PermitsStep ==
  ASSUME TypesOK, PairedWakeUps, Flow, Flags, Climbers, WakeUpCounts, Permits, [Next]_vars
  PROVE  Permits'
<1> USE DEF counters, flags, external, accesses, disposeVars, Early, Creates, Waits, Sleeps, InBody,
    Climb
<1> /\ pc \in [Task -> Pc] /\ cur \in [Task -> Task \cup {NoTask}] /\ ip \in [Task -> Nat \ {0}]
    /\ wakeUp \in [Task -> Int] /\ permits \in [Task -> Int] /\ inlined \in [Task -> BOOLEAN]
  BY DEF TypesOK
<1>1. \A c \in Task : pc'[c] \in Early \cup InBody => pc[c] \in Early \cup InBody
  BY NoComeBack
<1>2. /\ \A p \in Task : AboutToBlock(p) => pc[p] \notin Waits \cup {"inline", "waitIf0"}
      /\ \A p \in Task : pc[p] = "blocked" => HasPassed(p, "context")
      /\ \A p \in Task : permits[p] = 1 /\ pc[p] \in Sleeps => wakeUp[p] = 0 /\ \A u \in Task : ~At(u, p)
  BY DEF Permits, PermitAt, BlocksAt
<1>3. \A p \in Task : /\ pc[p] \in Creates => ip[p] \in DOMAIN Body[p] /\ Op(p)[1] = "create"
                      /\ pc[p] \in Waits => ip[p] \in DOMAIN Body[p] /\ Op(p)[1] = "taskwait"
  BY DEF Flow, Reached, ReachedAt
<1>4. \A p \in Task : BlocksAt(p) /\ PermitAt(p) /\ InlinedAt(p)
  BY DEF Permits
<1>5. ASSUME NEW t \in Task, Run(t) PROVE Permits'
  <2> Body' = Body /\ If0' = If0 /\ Parent' = Parent
    BY <1>5, SameProgram DEF Run
  <2>1. CASE SubmitTask(t)
    BY <2>1, <1>1, <1>2, <1>3, PermitsStay, AtCreate DEF SubmitTask, AddChild, At, AtOp
  <2>2. CASE SubmitReady(t)
    <3>1. Subject(t) \in Task /\ pc[Subject(t)] = "registered" /\ ip[t] \in DOMAIN Body[t]
          /\ Op(t)[1] = "create"
      BY <2>2, InCreate DEF SubmitReady, Flow, Reached, ReachedAt
    <3>2. Subject(t) \in If0 => ~AboutToBlock(t)
      BY <3>1, BlocksBefore
    <3>3. QED
      BY <2>2, <3>1, <3>2, <1>1, <1>2, PermitsStay DEF SubmitReady, At
  <2>3. CASE InlineReturns(t)
    BY <2>3, <1>1, <1>2, <1>3, PermitsStay, InCreate DEF InlineReturns, At
  <2>4. CASE SubmitNotReady(t)
    <3>1. CASE Subject(t) \notin If0
      BY <2>4, <3>1, <1>1, <1>2, <1>3, PermitsStay, InCreate DEF SubmitNotReady, At
    <3>2. CASE Subject(t) \in If0
      <4>1. PICK c \in Task : c = Subject(t) /\ Parent[c] = t /\ c \in If0
        BY <2>4, <3>2, InCreate DEF SubmitNotReady
      <4>2. /\ inlined' = [inlined EXCEPT ![c] = FALSE] /\ pc' = [pc EXCEPT ![t] = "waitIf0"]
            /\ ip' = ip /\ permits' = permits /\ cur' = cur /\ wakeUp' = wakeUp /\ pc[t] = "notReady"
        BY <2>4, <4>1 DEF SubmitNotReady
      <4>3. ~AboutToBlock(t) /\ permits[t] = 0
        <5>1. ip[t] \in DOMAIN Body[t] /\ Op(t)[1] = "create"
          BY <4>2, <1>3
        <5>2. ~AboutToBlock(t)
          BY <5>1, <3>2, BlocksBefore
        <5>3. QED
          BY <5>2, <4>2, <1>4 DEF PermitAt
      <4>4. \A a \in Task : /\ HasPassed(a, "context")' <=> HasPassed(a, "context")
                            /\ HasPassed(a, "block")' <=> HasPassed(a, "block")
                            /\ AboutToBlock(a)' <=> AboutToBlock(a)
                            /\ Unblocked(a)' <=> Unblocked(a)
        BY <4>2, OpsStay
      <4>5. \A p \in Task : Subject(p)' = Subject(p)
        BY <4>2, SameOp
      <4>6. \A a \in Task : BlocksAt(a)'
        BY <4>2, <4>4, <1>4, BlocksStay
      <4>7. ASSUME NEW a \in Task PROVE PermitAt(a)'
        <5>1. CASE a = t
          BY <5>1, <4>2, <4>3, <4>4 DEF PermitAt
        <5>2. CASE a # t
          <6>1. pc[a] = "waitIf0" => Subject(a) \in Task
            BY InCreate
          <6>2. QED
            BY <5>2, <6>1, <4>2, <4>4, <4>5, <1>1, <1>2, <1>4, PermitStay DEF At
        <5>3. QED
          BY <5>1, <5>2
      <4>8. ASSUME NEW d \in Task PROVE InlinedAt(d)'
        <5>1. CASE d = c
          <6>1. Parent'[c] = t /\ pc'[t] = "waitIf0" /\ Subject(t)' = c /\ permits'[t] = 0 /\ c \in If0'
            BY <4>1, <4>2, <4>3, <4>5
          <6>2. QED
            BY <5>1, <6>1, <4>5 DEF InlinedAt
        <5>2. CASE d # c
          <6>1. inlined'[d] = inlined[d]
            BY <5>2, <4>2
          <6>2. ~inlined[d] /\ pc[d] \in Early \cup InBody =>
                  /\ pc'[Parent[d]] = "waitIf0" /\ Subject(Parent[d])' = Subject(Parent[d])
                  /\ permits'[Parent[d]] = 0
            <7>1. InlinedAt(d)
              BY <1>4
            <7>2. QED
              BY <7>1, <4>2, <4>5 DEF InlinedAt
          <6>3. QED
            BY <6>1, <6>2, <1>1, <1>4, InlinedStay
        <5>3. QED
          BY <5>1, <5>2
      <4>9. QED
        BY <4>6, <4>7, <4>8 DEF Permits
    <3>3. QED
      BY <3>1, <3>2
  <2>5. CASE If0Returns(t)
    <3>1. /\ ip[t] \in DOMAIN Body[t] /\ Op(t)[1] = "create" /\ ~AboutToBlock(t) /\ permits[t] = 1
      BY <2>5, <1>3, <1>4 DEF If0Returns, PermitAt
    <3>2. /\ pc[t] \in {"waitIf0", "paused"} /\ pc' = [pc EXCEPT ![t] = pc'[t]] /\ pc'[t] \in InBody
          /\ pc'[t] \notin Sleeps \cup {"waitIf0", "blocked"} /\ ~AboutToBlock(t) /\ permits'[t] = 0
          /\ permits' = [permits EXCEPT ![t] = 0]
          /\ cur' = cur /\ wakeUp' = wakeUp /\ inlined' = inlined
          /\ \A p \in Task : p # t => ip'[p] = ip[p]
      BY <2>5, <3>1 DEF If0Returns
    <3>3. \A a \in Task : /\ HasPassed(a, "context")' <=> HasPassed(a, "context")
                          /\ HasPassed(a, "block")' <=> HasPassed(a, "block")
                          /\ AboutToBlock(a)' <=> AboutToBlock(a)
                          /\ Unblocked(a)' <=> Unblocked(a)
      BY <2>5, <3>1, OpsStay DEF If0Returns
    <3>4. ASSUME NEW a \in Task PROVE BlocksAt(a)' /\ PermitAt(a)'
      <4>1. CASE a = t
        BY <4>1, <3>2, <3>3, <1>4 DEF PermitAt, BlocksAt
      <4>2. CASE a # t
        <5>1. pc'[a] = pc[a] /\ permits'[a] = permits[a]
          BY <4>2, <3>2
        <5>2. BlocksAt(a)'
          BY <5>1, <3>3, <1>4, BlocksStay
        <5>3. pc[a] = "waitIf0" => Subject(a) \in Task /\ Subject(a)' = Subject(a)
          BY <4>2, <3>2, InCreate, SameOp
        <5>4. \A u \in Task : At(u, a)' => At(u, a)
          BY <3>2 DEF At
        <5>5. PermitAt(a)'
          BY <5>1, <5>3, <5>4, <3>2, <3>3, <1>1, <1>2, <1>4, PermitStay
        <5>6. QED
          BY <5>2, <5>5
      <4>3. QED
        BY <4>1, <4>2
    <3>5. ASSUME NEW d \in Task PROVE InlinedAt(d)'
      <4>1. ~inlined[d] /\ pc[d] \in Early \cup InBody => Parent[d] # t /\ Parent[d] \in Task
        BY <2>5, <3>1, <1>4 DEF InlinedAt, If0Returns
      <4>2. ~inlined[d] /\ pc[d] \in Early \cup InBody =>
              /\ pc'[Parent[d]] = "waitIf0" /\ Subject(Parent[d])' = Subject(Parent[d])
              /\ permits'[Parent[d]] = 0
        <5>1. InlinedAt(d)
          BY <1>4
        <5>2. QED
          BY <5>1, <4>1, <3>2, SameOp DEF InlinedAt
      <4>3. QED
        BY <4>2, <3>2, <1>1, <1>4, InlinedStay
    <3>6. QED
      BY <3>4, <3>5 DEF Permits
  <2>6. CASE Spawn(t)
    BY <2>6, <1>1, <1>2, <1>3, PermitsStay, AtSpawn DEF Spawn, At, AtOp
  <2>7. CASE StartTask(t)
    BY <2>7, <1>1, <1>2, <1>3, PermitsStay DEF StartTask, At
  <2>8. CASE IncreaseEvents(t)
    BY <2>8, <1>1, <1>2, <1>3, PermitsStay, AtAny DEF IncreaseEvents, At, AtOp
  <2>9. CASE EnterTaskwait(t)
    <3>1. ip[t] \in DOMAIN Body[t] /\ Op(t)[1] = "taskwait" /\ ~AboutToBlock(t)
      BY <2>9, BlocksBefore DEF EnterTaskwait, AtOp
    <3>2. QED
      BY <2>9, <3>1, <1>1, <1>2, PermitsStay DEF EnterTaskwait, AtOp, At
  <2>10. CASE MarkAsBlocked(t)
    BY <2>10, <1>1, <1>2, <1>3, PermitsStay DEF MarkAsBlocked, At
  <2>11. CASE SuspendCoroutine(t)
    <3>1. inlined[t]
      BY <2>11, <1>4, Paired DEF SuspendCoroutine, Flow, Reached, ReachedAt, InlinedAt
    <3>2. QED
      BY <2>11, <3>1, <1>1, <1>2, PermitsStay DEF SuspendCoroutine, SubmitCreator, At
  <2>12. CASE Resume(t)
    <3>1. ~AboutToBlock(t) /\ permits[t] = 1
      BY <2>12, <1>4 DEF Resume, PermitAt
    <3>2. /\ pc[t] \in {"waitIf0", "paused"} /\ pc' = [pc EXCEPT ![t] = pc'[t]] /\ pc'[t] \in InBody
          /\ pc'[t] \notin Sleeps \cup {"waitIf0", "blocked"} /\ ~AboutToBlock(t) /\ permits'[t] = 0
          /\ permits' = [permits EXCEPT ![t] = 0]
          /\ cur' = cur /\ wakeUp' = wakeUp /\ inlined' = inlined
          /\ \A p \in Task : p # t => ip'[p] = ip[p]
      BY <2>12, <3>1 DEF Resume
    <3>3. \A a \in Task : /\ HasPassed(a, "context")' <=> HasPassed(a, "context")
                          /\ HasPassed(a, "block")' <=> HasPassed(a, "block")
                          /\ AboutToBlock(a)' <=> AboutToBlock(a)
                          /\ Unblocked(a)' <=> Unblocked(a)
      BY <2>12, <3>1, OpsStay DEF Resume
    <3>4. ASSUME NEW a \in Task PROVE BlocksAt(a)' /\ PermitAt(a)'
      <4>1. CASE a = t
        BY <4>1, <3>2, <3>3, <1>4 DEF PermitAt, BlocksAt
      <4>2. CASE a # t
        <5>1. pc'[a] = pc[a] /\ permits'[a] = permits[a]
          BY <4>2, <3>2
        <5>2. BlocksAt(a)'
          BY <5>1, <3>3, <1>4, BlocksStay
        <5>3. pc[a] = "waitIf0" => Subject(a) \in Task /\ Subject(a)' = Subject(a)
          BY <4>2, <3>2, InCreate, SameOp
        <5>4. \A u \in Task : At(u, a)' => At(u, a)
          BY <3>2 DEF At
        <5>5. PermitAt(a)'
          BY <5>1, <5>3, <5>4, <3>2, <3>3, <1>1, <1>2, <1>4, PermitStay
        <5>6. QED
          BY <5>2, <5>5
      <4>3. QED
        BY <4>1, <4>2
    <3>5. ASSUME NEW d \in Task PROVE InlinedAt(d)'
      <4>1. ~inlined[d] /\ pc[d] \in Early \cup InBody => Parent[d] # t /\ Parent[d] \in Task
        BY <2>12, <3>1, <1>4 DEF InlinedAt, Resume
      <4>2. ~inlined[d] /\ pc[d] \in Early \cup InBody =>
              /\ pc'[Parent[d]] = "waitIf0" /\ Subject(Parent[d])' = Subject(Parent[d])
              /\ permits'[Parent[d]] = 0
        <5>1. InlinedAt(d)
          BY <1>4
        <5>2. QED
          BY <5>1, <4>1, <3>2, SameOp DEF InlinedAt
      <4>3. QED
        BY <4>2, <3>2, <1>1, <1>4, InlinedStay
    <3>6. QED
      BY <3>4, <3>5 DEF Permits
  <2>13. CASE MarkAsUnblocked(t)
    BY <2>13, <1>1, <1>2, <1>3, PermitsStay DEF MarkAsUnblocked, At
  <2>14. CASE GetBlockingContext(t)
    <3>1. /\ ip' = [ip EXCEPT ![t] = @ + 1] /\ pc' = pc /\ permits' = permits /\ inlined' = inlined
          /\ cur' = cur /\ wakeUp' = wakeUp /\ pc[t] = "body"
      BY <2>14 DEF GetBlockingContext, AtOp
    <3>2. ip[t] \in DOMAIN Body[t] /\ Op(t) = <<"context", Subject(t)>> /\ ip'[t] = ip[t] + 1
      BY <2>14, <3>1, AtAny DEF GetBlockingContext
    <3>3. \A a \in Task : Unblocked(a)' <=> Unblocked(a)
      BY <3>1, <3>2, UnblockedStays
    <3>4. HasPassed(t, "context")' /\ (HasPassed(t, "block")' <=> HasPassed(t, "block"))
      BY <3>2, OpsAt
    <3>5. ASSUME NEW a \in Task PROVE BlocksAt(a)' /\ PermitAt(a)'
      <4>1. CASE a # t
        BY <4>1, <3>1, <3>3, <1>1, OthersStay DEF At
      <4>2. CASE a = t /\ HasPassed(t, "block")
        <5>1. ~AboutToBlock(t) /\ ~AboutToBlock(t)'
          BY <4>2, <3>4 DEF AboutToBlock
        <5>2. permits[t] = 0
          BY <5>1, <3>1, <1>4 DEF PermitAt
        <5>3. QED
          BY <4>2, <5>1, <5>2, <3>1, <3>3, <3>4, <1>4 DEF PermitAt, BlocksAt
      <4>3. CASE a = t /\ ~HasPassed(t, "block")
        <5>1. AboutToBlock(t)'
          BY <4>3, <3>4 DEF AboutToBlock
        <5>2. permits[t] = Share(Unblocked(t))
          <6>1. CASE AboutToBlock(t)
            BY <6>1, <1>4 DEF PermitAt
          <6>2. CASE ~AboutToBlock(t)
            <7>1. ~Unblocked(t)
              BY <4>3, <6>2, <1>4 DEF BlocksAt, AboutToBlock
            <7>2. permits[t] = 0
              BY <6>2, <3>1, <1>4 DEF PermitAt
            <7>3. QED
              BY <7>1, <7>2 DEF Share
          <6>3. QED
            BY <6>1, <6>2
        <5>3. Share(Unblocked(t))' = Share(Unblocked(t))
          BY <3>3 DEF Share
        <5>4. PermitAt(t)'
          BY <5>1, <5>2, <5>3, <3>1 DEF PermitAt
        <5>5. BlocksAt(t)'
          BY <4>3, <3>1, <3>3, <3>4, <1>4 DEF BlocksAt
        <5>6. QED
          BY <4>3, <5>4, <5>5
      <4>4. QED
        BY <4>1, <4>2, <4>3
    <3>6. \A c \in Task : InlinedAt(c)'
      BY <3>1, <1>1, InlinedAllStay
    <3>7. QED
      BY <3>5, <3>6 DEF Permits
  <2>15. CASE BlockCurrentTask(t)
    <3>1. ip[t] \in DOMAIN Body[t] /\ HasPassed(t, "context")
      BY <2>15, BlocksBefore DEF BlockCurrentTask, AtOp
    <3>2. QED
      BY <2>15, <3>1, <1>1, <1>2, PermitsStay DEF BlockCurrentTask, AtOp, At
  <2>16. CASE ReturnFromBlock(t)
    <3>1. /\ ip' = [ip EXCEPT ![t] = @ + 1] /\ pc' = [pc EXCEPT ![t] = "body"] /\ pc[t] = "blocked"
          /\ permits' = [permits EXCEPT ![t] = @ - 1] /\ permits[t] > 0 /\ inlined' = inlined
          /\ cur' = cur /\ wakeUp' = wakeUp
      BY <2>16 DEF ReturnFromBlock
    <3>2. ip[t] \in DOMAIN Body[t] /\ Op(t)[1] = "block" /\ ip'[t] = ip[t] + 1
      BY <3>1 DEF Flow, Reached, ReachedAt
    <3>3. \A a \in Task : Unblocked(a)' <=> Unblocked(a)
      BY <3>1, <3>2, UnblockedStays
    <3>4. HasPassed(t, "block")' /\ (HasPassed(t, "context")' <=> HasPassed(t, "context"))
      BY <3>2, OpsAt
    <3>5. AboutToBlock(t)
      BY <3>1, <1>4 DEF PermitAt
    <3>6. permits'[t] = 0 /\ Unblocked(t)
      BY <3>1, <3>5, <1>4 DEF PermitAt, Share
    <3>7. ASSUME NEW a \in Task PROVE BlocksAt(a)' /\ PermitAt(a)'
      <4>1. CASE a # t
        BY <4>1, <3>1, <3>3, <1>1, OthersStay DEF At
      <4>2. CASE a = t
        <5>1. ~AboutToBlock(t)'
          BY <3>4 DEF AboutToBlock
        <5>2. QED
          BY <4>2, <5>1, <3>1, <3>3, <3>4, <3>5, <3>6 DEF PermitAt, BlocksAt, AboutToBlock
      <4>3. QED
        BY <4>1, <4>2
    <3>8. \A c \in Task : InlinedAt(c)'
      BY <3>1, <1>1, InlinedAllStay
    <3>9. QED
      BY <3>7, <3>8 DEF Permits
  <2>17. CASE UnblockTask(t)
    <3>1. PICK b \in Task : b = Subject(t)
      BY <2>17, AtAny DEF UnblockTask
    <3>2. /\ ip' = [ip EXCEPT ![t] = @ + 1] /\ pc' = pc /\ permits' = [permits EXCEPT ![b] = @ + 1]
          /\ inlined' = inlined /\ cur' = cur /\ wakeUp' = wakeUp /\ pc[t] = "body"
          /\ HasPassed(b, "context")
      BY <2>17, <3>1 DEF UnblockTask, AtOp
    <3>3. ip[t] \in DOMAIN Body[t] /\ Op(t) = <<"unblock", b>> /\ ip'[t] = ip[t] + 1
      BY <2>17, <3>1, <3>2, AtAny DEF UnblockTask
    <3>4. ~Unblocked(b)
      BY <2>17, <3>1, NotYetUnblocked DEF UnblockTask
    <3>5. Unblocked(b)'
      <4>1. Body'[t][ip[t]] = <<"unblock", b>> /\ ip[t] < ip'[t] /\ ip[t] \in DOMAIN Body'[t]
        BY <3>3 DEF Op
      <4>2. QED
        BY <4>1 DEF Unblocked
    <3>6. \A a \in Task : a # b => (Unblocked(a)' <=> Unblocked(a))
      BY <3>1, <3>2, <3>3, UnblockedStays
    <3>7. \A a \in Task : /\ HasPassed(a, "context")' <=> HasPassed(a, "context")
                          /\ HasPassed(a, "block")' <=> HasPassed(a, "block")
                          /\ AboutToBlock(a)' <=> AboutToBlock(a)
      BY <3>2, <3>3, PassStay
    <3>8. AboutToBlock(b)
      BY <3>2, <3>4, <1>4 DEF AboutToBlock, BlocksAt
    <3>9. permits[b] = 0
      BY <3>4, <3>8, <1>4 DEF PermitAt, Share
    <3>10. ASSUME NEW a \in Task PROVE BlocksAt(a)' /\ PermitAt(a)'
      <4>1. CASE a # b
        <5>1. BlocksAt(a)'
          BY <4>1, <3>2, <3>6, <3>7, <1>4, BlocksStay
        <5>2. pc[a] = "waitIf0" => Subject(a)' = Subject(a) /\ Subject(a) \in Task
          BY <3>2, InCreate, SameOp
        <5>3. PermitAt(a)'
          BY <4>1, <5>2, <3>2, <3>6, <3>7, <1>1, <1>2, <1>4, PermitStay DEF At
        <5>4. QED
          BY <5>1, <5>3
      <4>2. CASE a = b
        <5>1. Share(Unblocked(b))' = 1 /\ permits'[b] = 1
          BY <3>2, <3>5, <3>9 DEF Share
        <5>2. QED
          BY <4>2, <5>1, <3>2, <3>5, <3>7, <3>8, <1>2, <1>4 DEF PermitAt, BlocksAt
      <4>3. QED
        BY <4>1, <4>2
    <3>11. \A c \in Task : InlinedAt(c)'
      BY <3>2, <3>8, <1>1, <1>2, InlinedAllStay
    <3>12. QED
      BY <3>10, <3>11 DEF Permits
  <2>18. CASE EndBody(t)
    <3>1. /\ pc[t] = "body" /\ pc' = [pc EXCEPT ![t] = "ended"] /\ ip' = ip /\ inlined' = inlined
          /\ cur' = cur /\ wakeUp' = wakeUp
      BY <2>18 DEF EndBody
    <3>2. CASE inlined[t]
      BY <2>18, <3>1, <3>2, <1>1, <1>2, PermitsStay DEF EndBody, SubmitCreator, At
    <3>3. CASE ~inlined[t]
      <4>1. PICK p \in Task : p = Parent[t] /\ pc[p] = "waitIf0" /\ Subject(p) = t /\ permits[p] = 0
        BY <3>1, <3>3, <1>4 DEF InlinedAt
      <4>2. permits' = [permits EXCEPT ![p] = 1]
        BY <2>18, <3>3, <4>1 DEF EndBody, SubmitCreator
      <4>3. ~AboutToBlock(p)
        BY <4>1, <1>2
      <4>4. \A a \in Task : /\ AboutToBlock(a)' <=> AboutToBlock(a)
                            /\ Unblocked(a)' <=> Unblocked(a)
                            /\ HasPassed(a, "context")' <=> HasPassed(a, "context")
                            /\ HasPassed(a, "block")' <=> HasPassed(a, "block")
        BY <3>1, OpsStay
      <4>5. \A q \in Task : Subject(q)' = Subject(q)
        BY <3>1, SameOp
      <4>6. ASSUME NEW a \in Task PROVE BlocksAt(a)' /\ PermitAt(a)'
        <5>1. BlocksAt(a)'
          BY <4>4, <3>1, <1>4, BlocksStay
        <5>2. CASE a = p
          BY <5>1, <5>2, <4>1, <4>2, <4>3, <4>4, <4>5, <3>1 DEF PermitAt
        <5>3. CASE a # p
          <6>1. pc[a] = "waitIf0" => Subject(a) \in Task
            BY InCreate
          <6>2. PermitAt(a)'
            BY <5>3, <6>1, <4>2, <4>4, <4>5, <3>1, <1>1, <1>2, <1>4, PermitStay DEF At
          <6>3. QED
            BY <5>1, <6>2
        <5>4. QED
          BY <5>2, <5>3
      <4>7. ASSUME NEW c \in Task PROVE InlinedAt(c)'
        <5>1. CASE c = t
          BY <5>1, <3>1, <3>3, <1>4 DEF InlinedAt
        <5>2. CASE c # t
          <6>1. ~inlined[c] /\ pc[c] \in Early \cup InBody =>
                  /\ pc'[Parent[c]] = "waitIf0" /\ Subject(Parent[c])' = Subject(Parent[c])
                  /\ permits'[Parent[c]] = 0
            <7>1. InlinedAt(c)
              BY <1>4
            <7>2. QED
              BY <7>1, <5>2, <4>1, <4>2, <4>5, <3>1 DEF InlinedAt
          <6>2. QED
            BY <6>1, <3>1, <1>1, <1>4, InlinedStay
        <5>3. QED
          BY <5>1, <5>2
      <4>8. QED
        BY <4>6, <4>7 DEF Permits
    <3>4. QED
      BY <3>2, <3>3
  <2>19. QED
    BY <1>5, <2>1, <2>2, <2>3, <2>4, <2>5, <2>6, <2>7, <2>8, <2>9, <2>10, <2>11, <2>12, <2>13,
        <2>14, <2>15, <2>16, <2>17, <2>18 DEF Run
<1>6. ASSUME NEW t \in Task, Complete(t) PROVE Permits'
  <2> Body' = Body /\ If0' = If0 /\ Parent' = Parent
    BY <1>6, SameProgram DEF Complete
  <2>1. CASE MarkAsFinished(t)
    BY <2>1, <1>1, <1>2, <1>3, PermitsStay DEF MarkAsFinished, At
  <2>2. CASE DelayRelease(t)
    BY <2>2, <1>1, <1>2, <1>3, PermitsStay DEF DelayRelease, At
  <2>3. CASE CompleteDelayedRelease(t)
    BY <2>3, <1>1, <1>2, <1>3, PermitsStay DEF CompleteDelayedRelease, At
  <2>4. CASE ReleaseDependencies(t)
    BY <2>4, <1>1, <1>2, <1>3, PermitsStay DEF ReleaseDependencies, At
  <2>5. CASE FinishSelf(t)
    BY <2>5, <1>1, <1>2, <1>3, PermitsStay DEF FinishSelf, At
  <2>6. CASE WakeAncestor(t)
    <3>1. pc[t] = "climbing" /\ ~finished[cur[t]] /\ cur[t] \in Task
      BY <2>6 DEF WakeAncestor, Climbers
    <3>2. PICK a \in Task : a = cur[t]
      BY <3>1
    <3>3. pc[a] \in Sleeps
      <4>1. At(t, a) /\ pc[a] \notin Ended
        BY <3>1, <3>2 DEF At, Flags, FlagsAt
      <4>2. QED
        BY <4>1, AtFacts DEF Ended, Over
    <3>4. /\ permits' = [permits EXCEPT ![a] = @ + 1] /\ pc' = [pc EXCEPT ![t] = "removing"]
          /\ ip' = ip /\ inlined' = inlined /\ cur' = cur /\ wakeUp' = wakeUp
      BY <2>6, <3>2 DEF WakeAncestor
    <3>5. At(t, a) /\ (\A u \in Task : At(u, a) => u = t) /\ wakeUp[a] = 0
      BY <3>1, <3>2, AtFacts DEF At
    <3>6. ~AboutToBlock(a) /\ permits[a] = 0
      BY <3>3, <3>5, <1>2, <1>4 DEF PermitAt
    <3>7. \A p \in Task : /\ AboutToBlock(p)' <=> AboutToBlock(p)
                          /\ Unblocked(p)' <=> Unblocked(p)
                          /\ HasPassed(p, "context")' <=> HasPassed(p, "context")
                          /\ HasPassed(p, "block")' <=> HasPassed(p, "block")
      BY <3>4, OpsStay
    <3>8. ASSUME NEW p \in Task PROVE BlocksAt(p)' /\ PermitAt(p)'
      <4>1. BlocksAt(p)'
        BY <3>1, <3>4, <3>7, <1>4, BlocksStay
      <4>2. CASE p = a
        <5>1. permits'[a] = 1 /\ pc'[a] \in Sleeps /\ wakeUp'[a] = 0 /\ ~AboutToBlock(a)'
          BY <3>1, <3>3, <3>4, <3>5, <3>6, <3>7
        <5>2. \A u \in Task : ~At(u, a)'
          BY <3>4, <3>5 DEF At
        <5>3. QED
          BY <4>1, <4>2, <5>1, <5>2 DEF PermitAt
      <4>3. CASE p # a
        <5>1. pc[p] = "waitIf0" => Subject(p)' = Subject(p) /\ Subject(p) \in Task
          BY <3>4, InCreate, SameOp
        <5>2. PermitAt(p)'
          BY <4>3, <5>1, <3>1, <3>4, <3>7, <1>1, <1>2, <1>4, PermitStay DEF At
        <5>3. QED
          BY <4>1, <5>2
      <4>4. QED
        BY <4>2, <4>3
    <3>9. \A c \in Task : InlinedAt(c)'
      BY <3>1, <3>3, <3>4, <1>1, InlinedAllStay
    <3>10. QED
      BY <3>8, <3>9 DEF Permits
  <2>7. CASE PassFinished(t)
    BY <2>7, <1>1, <1>2, <1>3, PermitsStay DEF PassFinished, At
  <2>8. CASE ReleaseAncestor(t)
    BY <2>8, <1>1, <1>2, <1>3, PermitsStay DEF ReleaseAncestor, At
  <2>9. CASE FinishAncestor(t)
    BY <2>9, <1>1, <1>2, <1>3, PermitsStay DEF FinishAncestor, At
  <2>10. CASE RemoveAncestor(t)
    <3>1. PICK a \in Task : a = cur[t] /\ pc[a] = "detached"
      BY <2>10, ClimbersOf DEF RemoveAncestor
    <3>2. /\ \A u \in Task : pc'[u] = IF u = a THEN "done" ELSE IF u = t THEN "up" ELSE pc[u]
          /\ ip' = ip /\ cur' = cur /\ wakeUp' = wakeUp /\ permits' = permits /\ inlined' = inlined
          /\ pc[t] = "removeAncestor"
      BY <2>10, <3>1 DEF RemoveAncestor
    <3>3. QED
      BY <3>1, <3>2, <1>1, <1>2, PermitsStay DEF At
  <2>11. CASE FinishParent(t)
    <3>1. CASE Parent[cur[t]] = NoTask
      BY <2>11, <3>1, <1>1, <1>2, PermitsStay DEF FinishParent, At
    <3>2. CASE Parent[cur[t]] # NoTask
      <4>1. cur[t] \in Task /\ pc[t] = "up"
        BY <2>11 DEF FinishParent, Climbers
      <4>2. PICK a \in Task : a = Parent[cur[t]]
        BY <3>2, <4>1, ParentType
      <4>3. wakeUp[a] > 0 /\ wakeUp[a] # 0
        BY <4>1, <4>2, Arrival
      <4>4. cur' = [cur EXCEPT ![t] = a] /\ wakeUp' = [wakeUp EXCEPT ![a] = @ - 1]
        BY <2>11, <3>2, <4>2 DEF FinishParent
      <4>5. pc' = [pc EXCEPT ![t] = IF wakeUp[a] = 1 THEN "climbing" ELSE "removing"]
        BY <2>11, <3>2, <4>2 DEF FinishParent
      <4>6. ip' = ip /\ permits' = permits /\ inlined' = inlined
        BY <2>11 DEF FinishParent
      <4>7. \A p \in Task : permits[p] = 1 /\ pc[p] \in Sleeps =>
              /\ p # a /\ pc'[p] = pc[p] /\ wakeUp'[p] = wakeUp[p]
              /\ \A u \in Task : At(u, p)' => At(u, p)
        BY <4>1, <4>3, <4>4, <4>5, <1>2 DEF At
      <4>8. QED
        BY <4>1, <4>4, <4>5, <4>6, <4>7, <1>1, <1>2, PermitsStay
    <3>3. QED
      BY <3>1, <3>2
  <2>12. CASE RemoveSelf(t)
    BY <2>12, <1>1, <1>2, <1>3, PermitsStay DEF RemoveSelf, DropRemoval, At
  <2>13. QED
    BY <1>6, <2>1, <2>2, <2>3, <2>4, <2>5, <2>6, <2>7, <2>8, <2>9, <2>10, <2>11, <2>12 DEF Complete
<1>7. ASSUME NEW t \in Task, Dispose(t) PROVE Permits'
  <2> Body' = Body /\ If0' = If0 /\ Parent' = Parent
    BY <1>7, SameProgram DEF Dispose
  <2>1. CASE DropParent(t)
    BY <2>1, <1>1, <1>2, <1>3, PermitsStay DEF DropParent, At
  <2>2. CASE FreeTask(t)
    BY <2>2, <1>1, <1>2, <1>3, PermitsStay DEF FreeTask, At
  <2>3. CASE DestroyTask(t)
    BY <2>3, <1>1, <1>2, <1>3, PermitsStay DEF DestroyTask, At
  <2>4. QED
    BY <1>7, <2>1, <2>2, <2>3 DEF Dispose
<1>8. ASSUME NEW t \in Task, Environment(t) PROVE Permits'
  <2> Body' = Body /\ If0' = If0 /\ Parent' = Parent
    BY <1>8, SameProgram DEF Environment
  <2>1. CASE BecomesReady(t)
    BY <2>1, <1>1, <1>2, <1>3, PermitsStay DEF BecomesReady, At
  <2>2. CASE DecreaseEvents(t)
    BY <2>2, <1>1, <1>2, <1>3, PermitsStay DEF DecreaseEvents, At
  <2>3. CASE AccessesGone(t)
    BY <2>3, <1>1, <1>2, <1>3, PermitsStay DEF AccessesGone, DropRemoval, At
  <2>4. QED
    BY <1>8, <2>1, <2>2, <2>3 DEF Environment
<1>9. CASE Shutdown
  BY <1>9, <1>1, <1>2, <1>3, PermitsStay, SameProgram DEF Shutdown, At
<1>10. CASE UNCHANGED vars
  BY <1>10, <1>1, <1>2, <1>3, PermitsStay, SameProgram DEF vars, counters, flags, external,
      accesses, disposeVars, At
<1>11. QED
  BY <1>5, <1>6, <1>7, <1>8, <1>9, <1>10 DEF Next, Terminated

LEMMA InitInvariant ==
  ASSUME Init, PairedWakeUps
  PROVE  IInv
<1>1. TypesOK
  <2>1. /\ program \in DOMAIN Programs /\ pc \in [Task -> Pc] /\ ip \in [Task -> Nat \ {0}]
        /\ cur \in [Task -> Task \cup {NoTask}]
    BY DEF Init, Pc, Early, InBody
  <2>2. /\ wakeUp \in [Task -> Int] /\ removal \in [Task -> Int] /\ events \in [Task -> Nat]
        /\ permits \in [Task -> Int] /\ releases \in [Task -> Int]
    BY DEF Init
  <2>3. /\ finished \in [Task -> BOOLEAN] /\ delayed \in [Task -> BOOLEAN]
        /\ inlined \in [Task -> BOOLEAN] /\ linked \in [Task -> BOOLEAN]
        /\ disposable \in [Task -> BOOLEAN]
    BY DEF Init
  <2>4. disposal = [t \in Task |-> "none"] /\ pendingSpawned = 1 /\ shutdown = FALSE
    BY DEF Init
  <2>5. disposal \in [Task -> {"none", "due", "dropped", "freed", "destroyed"}]
    BY <2>4
  <2>6. pendingSpawned \in Int
    BY <2>4
  <2>7. shutdown \in BOOLEAN
    BY <2>4
  <2>8. QED
    BY <2>1, <2>2, <2>3, <2>5, <2>6, <2>7 DEF TypesOK
<1>2. /\ \A t \in Task : pc[t] = (IF t = Main THEN "body" ELSE "none") /\ ip[t] = 1
      /\ Main \in Task /\ \A a \in Task : Parent[Main] # a
  BY <1>1, MainHasNoParent, LifecycleAssumption DEF Init
<1>3. \A a \in Task : Kids(a) = {}
  BY <1>2 DEF Kids
<1>4. \A t, a \in Task : ~At(t, a)
  BY <1>2 DEF At, Climb
<1>5. Flow
  <2>1. Named
    <3>1. ASSUME NEW p \in Task, NEW i \in DOMAIN Body[p], Body[p][i][1] \in {"create", "spawn"}
          PROVE  pc[Body[p][i][2]] = "none"
      BY <3>1, <1>1, <1>2, CreatedBy, SpawnedBy
    <3>2. QED
      BY <3>1 DEF Named
  <2>2. Reached
    BY <1>2 DEF Init, Reached, ReachedAt, Early, Creates, Waits
  <2>3. QED
    BY <1>2, <2>1, <2>2 DEF Flow
<1>6. Flags
  <2>1. \A t \in Task : FlagsAt(t)
    BY <1>2 DEF Init, FlagsAt, Early, InBody, Ended, Over, Climb
  <2>2. \A t \in Task : ReleaseAt(t)
    BY <1>2 DEF ReleaseAt
  <2>3. QED
    BY <2>1, <2>2 DEF Flags
<1>7. Climbers
  BY <1>2 DEF Climbers, Climb
<1>8. WakeUpCounts
  <2> SUFFICES ASSUME NEW a \in Task PROVE WakeAt(a) /\ Awake(a)
    BY DEF WakeUpCounts
  <2>1. Cardinality(Counted(a)) = 0
    BY <1>3, FS_EmptySet DEF Counted
  <2>2. Itself(a) = 1 /\ wakeUp[a] = 1
    BY <1>2 DEF Init, Itself, Sleeps, Over, Climb
  <2>3. QED
    BY <1>2, <2>1, <2>2 DEF WakeAt, Awake
<1>9. RemovalCounts
  <2> SUFFICES ASSUME NEW a \in Task PROVE RemovalAt(a)
    BY DEF RemovalCounts
  <2>1. Cardinality(Undisposed(a)) = 0
    BY <1>3, FS_EmptySet DEF Undisposed
  <2>2. Share(pc[a] # "done") = 1 /\ Share(linked[a]) = 0 /\ removal[a] = 1
    BY <1>2 DEF Init, Share
  <2>3. QED
    BY <2>1, <2>2 DEF RemovalAt
<1>10. Disposals
  BY DEF Init, Disposals, Dropping
<1>11. Paths
  BY <1>2 DEF Paths, Climb
<1>12. PendingCounts
  <2>1. {s \in Task : Pending(s)} = {Main}
    BY <1>1, <1>2, MainHasNoParent DEF Init, Pending
  <2>2. Cardinality({Main}) = 1
    BY FS_Singleton
  <2>3. QED
    BY <2>1, <2>2 DEF PendingCounts, Init
<1>13. Permits
  <2> SUFFICES ASSUME NEW a \in Task PROVE BlocksAt(a) /\ PermitAt(a) /\ InlinedAt(a)
    BY DEF Permits
  <2>1. \A op : ~HasPassed(a, op)
    BY <1>2 DEF HasPassed
  <2>2. ~Unblocked(a)
    BY <1>1, <1>2, OpType DEF Unblocked
  <2>3. permits[a] = 0 /\ inlined[a]
    BY DEF Init
  <2>4. QED
    BY <1>2, <2>1, <2>2, <2>3 DEF BlocksAt, PermitAt, InlinedAt, AboutToBlock
<1>14. QED
  BY <1>1, <1>5, <1>6, <1>7, <1>8, <1>9, <1>10, <1>11, <1>12, <1>13 DEF IInv

LEMMA StepInvariant ==
  ASSUME IInv, [Next]_vars
  PROVE  IInv'
<1> USE DEF IInv
<1>1. TypesOK' /\ Flow' /\ Flags'
  BY TypesStep, FlowStep, FlagsStep
<1>2. Climbers' /\ WakeUpCounts'
  BY ClimbersStep, WakeUpStep
<1>3. RemovalCounts' /\ Disposals' /\ Paths' /\ PendingCounts'
  BY RemovalStep, DisposalsStep, PathsStep, PendingStep
<1>4. Permits'
  BY PermitsStep
<1>5. PairedWakeUps'
  BY DEF PairedWakeUps
<1>6. QED
  BY <1>1, <1>2, <1>3, <1>4, <1>5

(* If nobody else submits a task that waits, every state satisfies the     *)
(* invariant.                                                              *)
THEOREM Invariance ==
  ASSUME PairedWakeUps
  PROVE  Spec => []IInv
<1>1. Init => IInv
  BY InitInvariant
<1>2. IInv /\ [Next]_vars => IInv'
  BY StepInvariant
<1>3. QED
  BY <1>1, <1>2, PTL DEF Spec

(* The counters never go below zero.                                       *)
LEMMA Counters ==
  ASSUME IInv, NEW t \in Task
  PROVE  /\ wakeUp[t] \in Nat /\ removal[t] \in Nat /\ permits[t] \in Nat /\ releases[t] \in {0, 1}
         /\ Itself(t) \in {0, 1} /\ Itself(t) + Cardinality(Counted(t)) = wakeUp[t]
<1> USE DEF IInv
<1>1. Itself(t) \in {0, 1} /\ Itself(t) + Cardinality(Counted(t)) = wakeUp[t]
  BY DEF WakeUpCounts, WakeAt, Itself
<1>2. wakeUp[t] \in Nat
  BY <1>1, CountedFinite
<1>3. removal[t] \in Nat
  BY RemovalFacts
<1>4. permits[t] \in Nat
  BY DEF Permits, PermitAt, Share
<1>5. releases[t] \in {0, 1}
  <2>1. pc[t] \in Pc /\ FlagsAt(t) /\ ReleaseAt(t)
    BY DEF TypesOK, Flags
  <2>2. QED
    BY <2>1 DEF FlagsAt, ReleaseAt, Pc, Ended
<1>6. QED
  BY <1>1, <1>2, <1>3, <1>4, <1>5

(* Type correctness: the asserts of finishChild, markAsBlocked and         *)
(* decreaseRemovalBlockingCount, that no counter underflows, hold for any  *)
(* tree of tasks.                                                          *)
THEOREM TypeCorrect ==
  ASSUME PairedWakeUps
  PROVE  Spec => []TypeOK
<1>1. ASSUME IInv PROVE TypeOK
  <2>1. TypesOK
    BY <1>1 DEF IInv
  <2>2. wakeUp \in [Task -> Nat] /\ removal \in [Task -> Nat]
    BY <1>1, <2>1, Counters DEF TypesOK
  <2>3. permits \in [Task -> Nat] /\ releases \in [Task -> Nat]
    BY <1>1, <2>1, Counters DEF TypesOK
  <2>4. pendingSpawned \in Nat
    BY <1>1, PendingFinite DEF IInv, PendingCounts
  <2>5. pc \in [Task -> Pc] /\ ip \in [Task -> Nat \ {0}] /\ cur \in [Task -> Task \cup {NoTask}]
    BY <2>1 DEF TypesOK
  <2>6. pc \in [Task -> {"none", "dependent", "registered", "submitted", "body", "ready",
                      "notReady", "inline", "waitIf0", "blocking", "suspending", "paused",
                      "unblocking", "blocked",
                      "ended", "delaying", "undelaying", "detached", "release", "finishing",
                      "climbing", "up", "finishAncestor", "removeAncestor", "removing", "done"}]
    BY <2>5 DEF Pc, Early, InBody, Ended, Over, Climb
  <2>7. QED
    BY <2>1, <2>2, <2>3, <2>4, <2>6 DEF TypeOK, TypesOK
<1>2. QED
  BY <1>1, Invariance, PTL

(* The dependencies of a task are released once, by the thread of the task *)
(* or by the one of its last child (taskCompletedCallback, taskFinished).  *)
THEOREM OneRelease ==
  ASSUME PairedWakeUps
  PROVE  Spec => []ReleasedOnce
<1>1. ASSUME IInv PROVE ReleasedOnce
  <2> SUFFICES ASSUME NEW t \in Task PROVE releases[t] <= 1
    BY DEF ReleasedOnce
  <2>1. releases[t] \in {0, 1}
    BY <1>1, Counters
  <2>2. QED
    BY <2>1
<1>2. QED
  BY <1>1, Invariance, PTL

(* A task is submitted again only while it is paused or about to be, and   *)
(* once.                                                                   *)
THEOREM WakeUpsMatch ==
  ASSUME PairedWakeUps
  PROVE  Spec => []WakeUpsMatchPauses
<1>1. ASSUME IInv PROVE WakeUpsMatchPauses
  <2> SUFFICES ASSUME NEW p \in Task
               PROVE  permits[p] <= IF pc[p] \in {"suspending", "paused", "waitIf0"} \/ AboutToBlock(p)
                                    THEN 1 ELSE 0
    BY DEF WakeUpsMatchPauses
  <2>1. PermitAt(p)
    BY <1>1 DEF IInv, Permits
  <2>2. QED
    BY <2>1 DEF PermitAt, Share, Sleeps
<1>2. QED
  BY <1>1, Invariance, PTL

(* Nobody touches a task that was freed: neither the threads that run or   *)
(* complete it, nor those that climb from a descendant to it, nor those    *)
(* that dispose a child (disposeTask).                                     *)
THEOREM NoneUsedAfterFree ==
  ASSUME PairedWakeUps
  PROVE  Spec => []NoUseAfterFree
<1>1. ASSUME IInv PROVE NoUseAfterFree
  <2> USE <1>1 DEF IInv
  <2> SUFFICES ASSUME NEW t \in Task
               PROVE  /\ Unfinished(t) => Live(t)
                      /\ Climbs(t) => Live(cur[t])
                      /\ (Unfinished(t) \/ disposal[t] = "due" \/ (disposal[t] # "destroyed" /\ disposable[t]))
                           /\ Parent[t] # NoTask => Live(Parent[t])
    BY DEF NoUseAfterFree
  <2>1. \A a \in Task : /\ Unfinished(a) => disposal[a] = "none"
                        /\ disposal[a] # "none" => pc[a] = "done"
                        /\ Undisposed(a) # {} => disposal[a] = "none"
    BY RemovalFacts DEF Unfinished
  <2>2. Unfinished(t) => Live(t)
    BY <2>1 DEF Live
  <2>3. ASSUME Climbs(t) PROVE Live(cur[t])
    <3>1. PICK S \in SUBSET Task : Path(t, S)
      BY <2>3 DEF Climbs, Climb, Paths
    <3>2. QED
      BY <3>1 DEF Path, Live
  <2>4. ASSUME Unfinished(t) \/ disposal[t] = "due", Parent[t] # NoTask PROVE Live(Parent[t])
    <3>1. Parent[t] \in Task
      BY <2>4, ParentType
    <3>2. t \in Undisposed(Parent[t])
      BY <2>1, <2>4 DEF Undisposed, Kids, Unfinished
    <3>3. QED
      BY <2>1, <3>1, <3>2 DEF Live
  <2>5. ASSUME disposal[t] # "destroyed", disposable[t] PROVE Live(Parent[t])
    <3>1. disposal[t] \in {"dropped", "freed"}
      BY <2>5 DEF Disposals, TypesOK
    <3>2. QED
      BY <2>5, <3>1 DEF Disposals, Dropping, Live
  <2>6. QED
    BY <2>2, <2>3, <2>4, <2>5
<1>2. QED
  BY <1>1, Invariance, PTL

-----------------------------------------------------------------------------
-----------------------------------------------------------------------------
(* A set with the parent of a task and of each of its members has all the  *)
(* ancestors of the task.                                                  *)
LEMMA AncestorsIncluded ==
  ASSUME TypesOK, NEW d \in Task, NEW S \in SUBSET Task,
         \A s \in {d} \cup S : Parent[s] \in S \cup {NoTask}
  PROVE  Ancestors(d) \subseteq S
<1>1. Ancestors(d) = {a \in Task : \A T \in SUBSET Task :
        (\A s \in {d} \cup T : ParentIn[program][s] \in T \cup {NoTask}) => a \in T}
  BY DEF Ancestors, AncestorsIn, TypesOK
<1>2. \A s \in {d} \cup S : ParentIn[program][s] \in S \cup {NoTask}
  BY DEF Parent
<1>3. QED
  BY <1>1, <1>2

(* When every child of a task has passed, every descendant has released.   *)
LEMMA AllPassed ==
  ASSUME IInv, NEW a \in Task, Counted(a) = {}
  PROVE  AllReleased(Descendants(a))
<1> USE DEF IInv
<1> SUFFICES ASSUME NEW d \in Task, a \in Ancestors(d), pc[d] # "none", releases[d] = 0
             PROVE  FALSE
  <2>1. \A d \in Task : releases[d] \in {0, 1}
    BY Counters
  <2>2. QED
    BY <2>1 DEF AllReleased, Descendants
<1> DEFINE S == {x \in Task : pc[x] # "none" /\ Counted(x) # {}}
<1>1. \A s \in Task : pc[s] # "none" /\ ~Passed(s) /\ Parent[s] # NoTask => Parent[s] \in S
  BY ParentRuns DEF Counted, Kids, Early
<1>2. ~Passed(d)
  BY DEF Flags, FlagsAt, Passed
<1>3. ASSUME NEW s \in S PROVE ~Passed(s)
  <2>1. Cardinality(Counted(s)) \in Nat /\ Cardinality(Counted(s)) > 0
    BY CountedFinite
  <2>2. wakeUp[s] # 0
    BY <2>1, Counters
  <2>3. QED
    BY <2>2 DEF Passed
<1>4. \A s \in {d} \cup S : Parent[s] \in S \cup {NoTask}
  BY <1>1, <1>2, <1>3
<1>5. S \in SUBSET Task
  OBVIOUS
<1>6. Ancestors(d) \subseteq S
  <2> HIDE DEF S
  <2>1. QED
    BY <1>4, <1>5, AncestorsIncluded
<1>7. QED
  BY <1>6

(* ... and so it has when no child of the task is left.                    *)
LEMMA AllRemoved ==
  ASSUME IInv, NEW a \in Task, Undisposed(a) = {}
  PROVE  AllReleased(Descendants(a))
<1> USE DEF IInv
<1> SUFFICES ASSUME NEW d \in Task, a \in Ancestors(d), pc[d] # "none", releases[d] = 0
             PROVE  FALSE
  <2>1. \A d \in Task : releases[d] \in {0, 1}
    BY Counters
  <2>2. QED
    BY <2>1 DEF AllReleased, Descendants
<1> DEFINE S == {x \in Task : pc[x] # "none" /\ Undisposed(x) # {}}
<1>1. \A s \in Task : pc[s] # "none" /\ disposal[s] = "none" /\ Parent[s] # NoTask => Parent[s] \in S
  BY ParentRuns DEF Undisposed, Kids, Early
<1>2. disposal[d] = "none"
  <2>1. pc[d] # "done"
    BY DEF Flags, FlagsAt, Over
  <2>2. QED
    BY <2>1, RemovalFacts
<1>3. \A s \in S : disposal[s] = "none"
  BY RemovalFacts
<1>4. \A s \in {d} \cup S : Parent[s] \in S \cup {NoTask}
  BY <1>1, <1>2, <1>3
<1>5. S \in SUBSET Task
  OBVIOUS
<1>6. Ancestors(d) \subseteq S
  <2> HIDE DEF S
  <2>1. QED
    BY <1>4, <1>5, AncestorsIncluded
<1>7. QED
  BY <1>6

(* A task goes past a taskwait by the short cut or after being woken up.   *)
LEMMA PastTaskwait ==
  ASSUME TypesOK, Flow, [Next]_vars
  PROVE  \A p \in Task : ip'[p] > ip[p] /\ Op(p)[1] = "taskwait" =>
           (removal[p] = 1 /\ pc[p] = "body") \/ pc[p] = "unblocking"
<1> USE DEF counters, flags, external, accesses, disposeVars, Creates, Waits
<1> pc \in [Task -> Pc] /\ ip \in [Task -> Nat \ {0}]
  BY DEF TypesOK
<1>1. \A p \in Task : /\ pc[p] \in Creates => Op(p)[1] = "create"
                      /\ pc[p] = "blocked" => Op(p)[1] = "block"
  BY DEF Flow, Reached, ReachedAt
<1>2. ASSUME NEW t \in Task, Run(t) 
      PROVE  \A p \in Task : ip'[p] > ip[p] /\ Op(p)[1] = "taskwait"
               => (removal[p] = 1 /\ pc[p] = "body") \/ pc[p] = "unblocking"
  <2> program' = program
    BY <1>2 DEF Run
  <2>1. CASE SubmitTask(t)
    BY <2>1, <1>1 DEF SubmitTask, AddChild, AtOp
  <2>2. CASE SubmitReady(t)
    BY <2>2, <1>1 DEF SubmitReady
  <2>3. CASE InlineReturns(t)
    BY <2>3, <1>1 DEF InlineReturns
  <2>4. CASE SubmitNotReady(t)
    BY <2>4, <1>1 DEF SubmitNotReady
  <2>5. CASE If0Returns(t)
    BY <2>5, <1>1 DEF If0Returns
  <2>6. CASE Spawn(t)
    BY <2>6, <1>1 DEF Spawn, AtOp
  <2>7. CASE StartTask(t)
    BY <2>7, <1>1 DEF StartTask
  <2>8. CASE IncreaseEvents(t)
    BY <2>8, <1>1 DEF IncreaseEvents, AtOp
  <2>9. CASE EnterTaskwait(t)
    BY <2>9, <1>1 DEF EnterTaskwait, AtOp
  <2>10. CASE MarkAsBlocked(t)
    BY <2>10, <1>1 DEF MarkAsBlocked
  <2>11. CASE SuspendCoroutine(t)
    BY <2>11, <1>1 DEF SuspendCoroutine, SubmitCreator
  <2>12. CASE Resume(t)
    BY <2>12, <1>1 DEF Resume
  <2>13. CASE MarkAsUnblocked(t)
    BY <2>13, <1>1 DEF MarkAsUnblocked
  <2>14. CASE GetBlockingContext(t)
    BY <2>14, <1>1 DEF GetBlockingContext, AtOp
  <2>15. CASE BlockCurrentTask(t)
    BY <2>15, <1>1 DEF BlockCurrentTask, AtOp
  <2>16. CASE ReturnFromBlock(t)
    BY <2>16, <1>1 DEF ReturnFromBlock
  <2>17. CASE UnblockTask(t)
    BY <2>17, <1>1 DEF UnblockTask, AtOp
  <2>18. CASE EndBody(t)
    BY <2>18, <1>1 DEF EndBody, SubmitCreator
  <2>19. QED
    BY <1>2, <2>1, <2>2, <2>3, <2>4, <2>5, <2>6, <2>7, <2>8, <2>9, <2>10, <2>11, <2>12, <2>13,
        <2>14, <2>15, <2>16, <2>17, <2>18 DEF Run
<1>3. ASSUME NEW t \in Task, Complete(t) 
      PROVE  \A p \in Task : ip'[p] > ip[p] /\ Op(p)[1] = "taskwait"
               => (removal[p] = 1 /\ pc[p] = "body") \/ pc[p] = "unblocking"
  <2> program' = program
    BY <1>3 DEF Complete
  <2>1. CASE MarkAsFinished(t)
    BY <2>1, <1>1 DEF MarkAsFinished
  <2>2. CASE DelayRelease(t)
    BY <2>2, <1>1 DEF DelayRelease
  <2>3. CASE CompleteDelayedRelease(t)
    BY <2>3, <1>1 DEF CompleteDelayedRelease
  <2>4. CASE ReleaseDependencies(t)
    BY <2>4, <1>1 DEF ReleaseDependencies
  <2>5. CASE FinishSelf(t)
    BY <2>5, <1>1 DEF FinishSelf
  <2>6. CASE WakeAncestor(t)
    BY <2>6, <1>1 DEF WakeAncestor
  <2>7. CASE PassFinished(t)
    BY <2>7, <1>1 DEF PassFinished
  <2>8. CASE ReleaseAncestor(t)
    BY <2>8, <1>1 DEF ReleaseAncestor
  <2>9. CASE FinishAncestor(t)
    BY <2>9, <1>1 DEF FinishAncestor
  <2>10. CASE RemoveAncestor(t)
    BY <2>10, <1>1 DEF RemoveAncestor, DropRemoval
  <2>11. CASE FinishParent(t)
    BY <2>11, <1>1 DEF FinishParent
  <2>12. CASE RemoveSelf(t)
    BY <2>12, <1>1 DEF RemoveSelf, DropRemoval
  <2>13. QED
    BY <1>3, <2>1, <2>2, <2>3, <2>4, <2>5, <2>6, <2>7, <2>8, <2>9, <2>10, <2>11, <2>12 DEF Complete
<1>4. ASSUME NEW t \in Task, Dispose(t) 
      PROVE  \A p \in Task : ip'[p] > ip[p] /\ Op(p)[1] = "taskwait"
               => (removal[p] = 1 /\ pc[p] = "body") \/ pc[p] = "unblocking"
  <2> program' = program
    BY <1>4 DEF Dispose
  <2>1. CASE DropParent(t)
    BY <2>1, <1>1 DEF DropParent
  <2>2. CASE FreeTask(t)
    BY <2>2, <1>1 DEF FreeTask
  <2>3. CASE DestroyTask(t)
    BY <2>3, <1>1 DEF DestroyTask
  <2>4. QED
    BY <1>4, <2>1, <2>2, <2>3 DEF Dispose
<1>5. ASSUME NEW t \in Task, Environment(t) 
      PROVE  \A p \in Task : ip'[p] > ip[p] /\ Op(p)[1] = "taskwait"
               => (removal[p] = 1 /\ pc[p] = "body") \/ pc[p] = "unblocking"
  <2> program' = program
    BY <1>5 DEF Environment
  <2>1. CASE BecomesReady(t)
    BY <2>1, <1>1 DEF BecomesReady
  <2>2. CASE DecreaseEvents(t)
    BY <2>2, <1>1 DEF DecreaseEvents
  <2>3. CASE AccessesGone(t)
    BY <2>3, <1>1 DEF AccessesGone, DropRemoval
  <2>4. QED
    BY <1>5, <2>1, <2>2, <2>3 DEF Environment
<1>6. CASE Shutdown
  BY <1>6, <1>1 DEF Shutdown
<1>7. CASE UNCHANGED vars
  BY <1>7, <1>1 DEF vars, counters, flags, external, accesses, disposeVars
<1>8. QED
  BY <1>2, <1>3, <1>4, <1>5, <1>6, <1>7 DEF Next, Terminated

(* A task goes past a taskwait (nanos6_taskwait) only when every           *)
(* descendant it has, however deep and however its ancestors ended,        *)
(* completed and released its dependencies.                                *)
THEOREM TaskwaitIsSafe ==
  ASSUME PairedWakeUps
  PROVE  Spec => TaskwaitWaits
<1>1. ASSUME IInv, [Next]_vars
      PROVE  \A p \in Task : ip'[p] > ip[p] /\ Op(p)[1] = "taskwait" => AllReleased(Descendants(p))
  <2> USE <1>1 DEF IInv
  <2> SUFFICES ASSUME NEW p \in Task, ip'[p] > ip[p], Op(p)[1] = "taskwait"
               PROVE  AllReleased(Descendants(p))
    OBVIOUS
  <2>1. (removal[p] = 1 /\ pc[p] = "body") \/ pc[p] = "unblocking"
    BY PastTaskwait
  <2>2. CASE pc[p] = "unblocking"
    <3>1. wakeUp[p] = 0 /\ Cardinality(Counted(p)) \in Nat
      BY <2>2, CountedFinite DEF WakeUpCounts, Awake
    <3>2. Cardinality(Counted(p)) = 0
      BY <3>1, Counters
    <3>3. QED
      BY <3>2, CountedFinite, AllPassed
  <2>3. CASE removal[p] = 1 /\ pc[p] = "body"
    <3>1. RemovalAt(p) /\ Share(pc[p] # "done") = 1 /\ Share(linked[p]) \in {0, 1}
      BY <2>3 DEF RemovalCounts, Share
    <3>2. Cardinality(Undisposed(p)) \in Nat /\ (Undisposed(p) # {} => Cardinality(Undisposed(p)) > 0)
      BY UndisposedFinite
    <3>3. Undisposed(p) = {}
      BY <2>3, <3>1, <3>2 DEF RemovalAt
    <3>4. QED
      BY <3>3, AllRemoved
  <2>4. QED
    BY <2>1, <2>2, <2>3
<1>2. QED
  BY <1>1, Invariance, PTL DEF Spec, TaskwaitWaits

(* Who releases the dependencies of a task.                                *)
LEMMA Releases ==
  ASSUME TypesOK, Flags, Climbers, [Next]_vars
  PROVE  \A r \in Task : releases'[r] > releases[r] =>
           pc[r] = "release" \/ (pc[r] = "detached" /\ wakeUp[r] = 0)
<1> USE DEF counters, flags, external, accesses, disposeVars
<1> pc \in [Task -> Pc] /\ releases \in [Task -> Int]
  BY DEF TypesOK
<1>1. ASSUME NEW t \in Task, Run(t)
      PROVE  \A r \in Task : releases'[r] > releases[r] =>
               pc[r] = "release" \/ (pc[r] = "detached" /\ wakeUp[r] = 0)
  <2> program' = program
    BY <1>1 DEF Run
  <2>1. CASE SubmitTask(t)
    BY <2>1 DEF SubmitTask, AddChild
  <2>2. CASE SubmitReady(t)
    BY <2>2 DEF SubmitReady
  <2>3. CASE InlineReturns(t)
    BY <2>3 DEF InlineReturns
  <2>4. CASE SubmitNotReady(t)
    BY <2>4 DEF SubmitNotReady
  <2>5. CASE If0Returns(t)
    BY <2>5 DEF If0Returns
  <2>6. CASE Spawn(t)
    BY <2>6 DEF Spawn
  <2>7. CASE StartTask(t)
    BY <2>7 DEF StartTask
  <2>8. CASE IncreaseEvents(t)
    BY <2>8 DEF IncreaseEvents
  <2>9. CASE EnterTaskwait(t)
    BY <2>9 DEF EnterTaskwait
  <2>10. CASE MarkAsBlocked(t)
    BY <2>10 DEF MarkAsBlocked
  <2>11. CASE SuspendCoroutine(t)
    BY <2>11 DEF SuspendCoroutine, SubmitCreator
  <2>12. CASE Resume(t)
    BY <2>12 DEF Resume
  <2>13. CASE MarkAsUnblocked(t)
    BY <2>13 DEF MarkAsUnblocked
  <2>14. CASE GetBlockingContext(t)
    BY <2>14 DEF GetBlockingContext
  <2>15. CASE BlockCurrentTask(t)
    BY <2>15 DEF BlockCurrentTask
  <2>16. CASE ReturnFromBlock(t)
    BY <2>16 DEF ReturnFromBlock
  <2>17. CASE UnblockTask(t)
    BY <2>17 DEF UnblockTask
  <2>18. CASE EndBody(t)
    BY <2>18 DEF EndBody, SubmitCreator
  <2>19. QED
    BY <1>1, <2>1, <2>2, <2>3, <2>4, <2>5, <2>6, <2>7, <2>8, <2>9, <2>10, <2>11, <2>12, <2>13,
        <2>14, <2>15, <2>16, <2>17, <2>18 DEF Run
<1>2. ASSUME NEW t \in Task, Complete(t)
      PROVE  \A r \in Task : releases'[r] > releases[r] =>
               pc[r] = "release" \/ (pc[r] = "detached" /\ wakeUp[r] = 0)
  <2> program' = program
    BY <1>2 DEF Complete
  <2>1. CASE MarkAsFinished(t)
    BY <2>1 DEF MarkAsFinished
  <2>2. CASE DelayRelease(t)
    BY <2>2 DEF DelayRelease
  <2>3. CASE CompleteDelayedRelease(t)
    BY <2>3 DEF CompleteDelayedRelease
  <2>4. CASE ReleaseDependencies(t)
    BY <2>4 DEF ReleaseDependencies
  <2>5. CASE FinishSelf(t)
    BY <2>5 DEF FinishSelf
  <2>6. CASE WakeAncestor(t)
    BY <2>6 DEF WakeAncestor
  <2>7. CASE PassFinished(t)
    BY <2>7 DEF PassFinished
  <2>8. CASE ReleaseAncestor(t)
    <3>1. pc[t] = "climbing" /\ cur[t] \in Task /\ finished[cur[t]] /\ delayed[cur[t]]
      BY <2>8 DEF ReleaseAncestor, Climbers, Climb
    <3>2. PICK a \in Task : a = cur[t]
      BY <3>1
    <3>3. pc[a] = "detached" /\ wakeUp[a] = 0
      <4>1. At(t, a) /\ FlagsAt(a)
        BY <3>1, <3>2 DEF At, Climb, Flags
      <4>2. QED
        BY <3>1, <3>2, <4>1, AtFacts DEF FlagsAt, Ended, Sleeps, Over, Climb
    <3>4. releases' = [releases EXCEPT ![a] = @ + 1]
      BY <2>8, <3>2 DEF ReleaseAncestor
    <3>5. QED
      BY <3>3, <3>4
  <2>9. CASE FinishAncestor(t)
    BY <2>9 DEF FinishAncestor
  <2>10. CASE RemoveAncestor(t)
    BY <2>10 DEF RemoveAncestor, DropRemoval
  <2>11. CASE FinishParent(t)
    BY <2>11 DEF FinishParent
  <2>12. CASE RemoveSelf(t)
    BY <2>12 DEF RemoveSelf, DropRemoval
  <2>13. QED
    BY <1>2, <2>1, <2>2, <2>3, <2>4, <2>5, <2>6, <2>7, <2>8, <2>9, <2>10, <2>11, <2>12 DEF Complete
<1>3. ASSUME NEW t \in Task, Dispose(t)
      PROVE  \A r \in Task : releases'[r] > releases[r] =>
               pc[r] = "release" \/ (pc[r] = "detached" /\ wakeUp[r] = 0)
  <2> program' = program
    BY <1>3 DEF Dispose
  <2>1. CASE DropParent(t)
    BY <2>1 DEF DropParent
  <2>2. CASE FreeTask(t)
    BY <2>2 DEF FreeTask
  <2>3. CASE DestroyTask(t)
    BY <2>3 DEF DestroyTask
  <2>4. QED
    BY <1>3, <2>1, <2>2, <2>3 DEF Dispose
<1>4. ASSUME NEW t \in Task, Environment(t)
      PROVE  \A r \in Task : releases'[r] > releases[r] =>
               pc[r] = "release" \/ (pc[r] = "detached" /\ wakeUp[r] = 0)
  <2> program' = program
    BY <1>4 DEF Environment
  <2>1. CASE BecomesReady(t)
    BY <2>1 DEF BecomesReady
  <2>2. CASE DecreaseEvents(t)
    BY <2>2 DEF DecreaseEvents
  <2>3. CASE AccessesGone(t)
    BY <2>3 DEF AccessesGone, DropRemoval
  <2>4. QED
    BY <1>4, <2>1, <2>2, <2>3 DEF Environment
<1>5. CASE Shutdown
  BY <1>5 DEF Shutdown
<1>6. CASE UNCHANGED vars
  BY <1>6 DEF vars, counters, flags, external, accesses, disposeVars
<1>7. QED
  BY <1>1, <1>2, <1>3, <1>4, <1>5, <1>6 DEF Next, Terminated

(* A task with a wait clause releases its dependencies after all of its    *)
(* descendants did, whichever thread releases them (markAsDelayed,         *)
(* taskFinished).                                                          *)
THEOREM DelayedReleaseIsSafe ==
  ASSUME PairedWakeUps
  PROVE  Spec => DelayedReleaseWaits
<1>1. ASSUME IInv, [Next]_vars
      PROVE  \A t \in Delayed : releases'[t] > releases[t] => AllReleased(Descendants(t))
  <2> USE <1>1 DEF IInv
  <2> SUFFICES ASSUME NEW t \in Task, t \in Delayed, releases'[t] > releases[t]
               PROVE  AllReleased(Descendants(t))
    BY LifecycleAssumption DEF TypesOK, Delayed
  <2>1. Cardinality(Counted(t)) \in Nat /\ Itself(t) + Cardinality(Counted(t)) = wakeUp[t]
        /\ Itself(t) \in {0, 1}
    BY CountedFinite, Counters
  <2>2. CASE pc[t] = "release"
    <3>1. wakeUp[t] = 1 /\ Itself(t) = 1
      BY <2>2 DEF WakeUpCounts, Awake, Itself, Sleeps, Over, Climb
    <3>2. Cardinality(Counted(t)) = 0
      BY <2>1, <3>1
    <3>3. QED
      BY <3>2, CountedFinite, AllPassed
  <2>3. CASE pc[t] = "detached" /\ wakeUp[t] = 0
    <3>1. Cardinality(Counted(t)) = 0
      BY <2>1, <2>3
    <3>2. QED
      BY <3>1, CountedFinite, AllPassed
  <2>4. QED
    BY <2>2, <2>3, Releases
<1>2. QED
  BY <1>1, Invariance, PTL DEF Spec, DelayedReleaseWaits

=============================================================================
