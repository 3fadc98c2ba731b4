----------------------- MODULE DataAccessRegistration -----------------------
(***************************************************************************)
(* dependencies/discrete/DataAccessRegistration.cpp: tasks register their  *)
(* accesses when they are submitted, link them behind the last access to   *)
(* the same address, and unregister them when they end.  Every thread      *)
(* works on the flags of accesses other threads are linking, satisfying    *)
(* and disposing at the same time; the only synchronisation is that each   *)
(* change of flags is one fetch_add.  One action is therefore one fetch_add *)
(* together with the thread-local work that follows it.                    *)
(*                                                                         *)
(* The thread that runs a task is named by the task.  A task is a list of  *)
(* operations: create a child, release an access early, taskwait.          *)
(***************************************************************************)
EXTENDS DataAccess, Integers, FiniteSets

CONSTANTS
  Task, Main,     (* the tasks; Main is the one that has no parent         *)
  Address,        (* the addresses tasks depend on                         *)
  Programs,       (* the possible programs, by name: body[t] is the        *)
                  (* sequence of operations of task t, declarations the    *)
                  (* set of [Task -> [addresses of the task ->             *)
                  (* [type, weak, operator]]] it is run with               *)
  Bit, Hash,      (* addressHash % commutative_mask_bits, a function       *)
  NoTask

ASSUME RegistrationAssumption ==
  /\ Main \in Task /\ NoTask \notin Task /\ NoAccess \notin Task \X Address
  /\ \A g \in DOMAIN Programs :
       Programs[g].body \in [Task -> Seq({"create", "release", "taskwait"} \X (Task \cup Address))]
  /\ Hash \in [Address -> Bit]

(* The main task is not created and has no accesses; every other task is   *)
(* created at most once.                                                   *)
ASSUME OneCreationEach ==
  \A g \in DOMAIN Programs : LET body == Programs[g].body IN
    \A t, u \in Task : \A i \in DOMAIN body[t], j \in DOMAIN body[u] :
      body[t][i][1] = "create" =>
        /\ body[t][i][2] \in Task \ {Main}
        /\ body[u][j] = body[t][i] => t = u /\ i = j

(* A task releases an access it has (releaseAccessRegion fails otherwise), *)
(* once, and creates no child below it afterwards.                         *)
ASSUME ProperDeclarations ==
  \A g \in DOMAIN Programs : LET body == Programs[g].body IN
    \A D \in Programs[g].declarations :
      /\ DOMAIN D[Main] = {}
      /\ \A t \in Task :
           /\ DOMAIN D[t] \subseteq Address
           /\ \A x \in DOMAIN D[t] :
                D[t][x] \in [type : AccessType, weak : BOOLEAN, operator : {"+", "*"}]
           /\ \A i \in DOMAIN body[t] : body[t][i][1] = "release" =>
                /\ body[t][i][2] \in DOMAIN D[t]
                /\ \A j \in DOMAIN body[t] :
                     /\ body[t][j] = body[t][i] => i = j
                     /\ body[t][j][1] = "create" /\ i < j =>
                          body[t][i][2] \notin DOMAIN D[body[t][j][2]]

AccessId == Task \X Address

VARIABLES
  program,          (* the program that is run, and one of its declarations*)
  access,           (* access[t][x]: the DataAccess of task t on x         *)
  bottomMap,        (* bottomMap[t][x]: _subaccessBottomMap of task t      *)
  reductionCount,   (* ReductionInfo::_registeredAccesses; an info is      *)
                    (* named by the access that allocated it               *)
  combined,         (* the infos whose combine() was executed              *)
  predecessors,     (* TaskMetadata::_predecessorCount                     *)
  deletable,        (* TaskDataAccesses::_deletableCount                   *)
  removal,          (* TaskMetadata::_removalCount                         *)
  pc, frame,        (* where the thread of each task is, and its locals    *)
  satisfied,        (* _satisfiedOriginators of the CPU of each thread     *)
  deletables,       (* _deletableOriginators of the CPU of each thread     *)
  submits,          (* how often each task was submitted (history)         *)
  disposed,         (* the destroyed tasks                                 *)
  commutativeMask, mask, waitingTasks, scan, satisfiedCommutative, holding

semaphoreVars ==
  <<commutativeMask, mask, waitingTasks, scan, satisfiedCommutative, holding>>
reductionVars == <<reductionCount, combined>>
discardVars   == <<deletable, removal, deletables>>
accessVars    == <<access, bottomMap, reductionVars>>
vars == <<program, accessVars, predecessors, discardVars, pc, frame, satisfied, submits,
          disposed, semaphoreVars>>

Semaphore == INSTANCE CommutativeSemaphore WITH phase <- pc

-----------------------------------------------------------------------------
(* The program.                                                            *)
Body == Programs[program].body

Creates(B, t, c) == \E i \in DOMAIN B[t] : B[t][i] = <<"create", c>>
Creator(B, c) ==
  IF \E t \in Task : Creates(B, t, c) THEN CHOOSE t \in Task : Creates(B, t, c) ELSE NoTask

ParentIn == [g \in DOMAIN Programs |-> [c \in Task |-> Creator(Programs[g].body, c)]]
Parent == ParentIn[program]
ProgramTasks == {t \in Task : t = Main \/ Parent[t] # NoTask}
Children(t) == {c \in Task \ {Main} : Parent[c] = t}
Op(t) == Body[t][frame[t].ip]

Acc(a) == access[a[1]][a[2]]
Declared(t) == DOMAIN access[t]
HasDataAccesses(t) == Declared(t) # {}

(* The access of the parent a task's first access to x is nested under.    *)
ParentAccess(c, x) ==
  IF x \in Declared(Parent[c]) THEN <<Parent[c], x>> ELSE NoAccess

NoReduction == NoAccess
ReductionOf(a) == IF a = NoAccess THEN NoReduction ELSE Acc(a).reductionInfo

NoFrame == [ip |-> 1, todo |-> {}, addr |-> NoAccess, message |-> NoMessage,
            own |-> NoMessage, mailBox |-> <<>>, reductionInfo |-> NoReduction]

-----------------------------------------------------------------------------
(* Pieces of actions.                                                      *)

(* fetch_add(F) on the flags of access a of the accesses A.                *)
Added(A, a, F) == [A EXCEPT ![a[1]][a[2]].flags = @ \cup F]

(* What access a answers when the flags F are added to it.                 *)
Answer(A, a, F) ==
  LET acc == A[a[1]][a[2]] IN Messages(a, acc, F, acc.successor, acc.child)

(* applySingle: the flags are added and the one answer is popped.          *)
Single(A, a, F) ==
  IF F = {} \/ Answer(A, a, F) = <<>> THEN NoMessage ELSE Head(Answer(A, a, F))

(* decreaseDeletableCountOrDelete(t) by thread p, when "disposes" holds.   *)
Discard(p, t, disposes) ==
  IF disposes
  THEN /\ deletable' = [deletable EXCEPT ![t] = @ - 1]
       /\ removal' = IF deletable[t] = 1 THEN [removal EXCEPT ![t] = @ - 1] ELSE removal
       /\ deletables' = IF deletable[t] = 1 /\ removal[t] = 1
                        THEN [deletables EXCEPT ![p] = @ \cup {t}] ELSE deletables
  ELSE UNCHANGED discardVars

(* incrementUnregisteredAccesses or markAsClosed on each info of the set R; *)
(* the one that takes the count to zero combines and deletes the info.     *)
Unregistered(R, counts) == [r \in AccessId |-> counts[r] - IF r \in R THEN 1 ELSE 0]
(* Mutant: the combination is done one access too early.                   *)
UnregisterEarly(R) ==
  /\ reductionCount' = Unregistered(R, reductionCount)
  /\ combined' = combined \cup {r \in R : reductionCount[r] = 2}

Unregister(R) ==
  /\ reductionCount' = Unregistered(R, reductionCount)
  /\ combined' = combined \cup {r \in R : reductionCount[r] = 1}

(* A task without predecessors and with commutative accesses needs its     *)
(* bits of the semaphore as well.  "list" is where the thread p puts it.   *)
BecomesReady(p, t) ==
  IF commutativeMask[t] = {}
  THEN /\ satisfied' = [satisfied EXCEPT ![p] = @ \cup {t}]
       /\ UNCHANGED semaphoreVars
  ELSE \/ /\ Semaphore!RegisterAcquires(t)
          /\ satisfied' = [satisfied EXCEPT ![p] = @ \cup {t}]
       \/ /\ Semaphore!RegisterWaits(t)
          /\ UNCHANGED satisfied

(* Mutant: the end of the registration takes back one of its two guards.   *)
DecreaseByOne(p, t, n) ==
  /\ predecessors' = [predecessors EXCEPT ![t] = @ - 1]
  /\ IF predecessors[t] = 1 THEN BecomesReady(p, t)
     ELSE UNCHANGED <<satisfied, semaphoreVars>>

(* Who takes the count of predecessors to zero makes the task ready.       *)
DecreasePredecessors(p, t, n) ==
  /\ predecessors' = [predecessors EXCEPT ![t] = @ - n]
  /\ IF predecessors[t] = n THEN BecomesReady(p, t)
     ELSE UNCHANGED <<satisfied, semaphoreVars>>

(* satisfyTask(t), when "schedule" holds.                                  *)
Satisfy(p, t, schedule) ==
  IF schedule THEN DecreasePredecessors(p, t, 1)
  ELSE UNCHANGED <<predecessors, satisfied, semaphoreVars>>

(* Mutant: the reductions are left open.                                   *)
NoClosedReductions(t, X) == {}

(* closeBottomReductions and the same loop of finalizeChildTaskAccesses:   *)
(* the reductions open in the bottom map of t, unless t itself takes part  *)
(* in them through a weak reduction access.                                *)
ClosedReductions(t, X) ==
  {bottomMap[t][x].reductionInfo :
     x \in {y \in X : /\ bottomMap[t][y].reductionInfo # NoReduction
                      /\ (y \in Declared(t) => access[t][y].type # "REDUCTION")}}

WithoutReductions(t, X) ==
  [bottomMap EXCEPT ![t] =
     [x \in Address |-> IF bottomMap[t][x].reductionInfo \in ClosedReductions(t, X)
                        THEN [@[x] EXCEPT !.reductionInfo = NoReduction] ELSE @[x]]]

-----------------------------------------------------------------------------
Init ==
  /\ program \in DOMAIN Programs
  /\ \E D \in Programs[program].declarations :
       access = [t \in Task |->
                   [x \in DOMAIN D[t] |->
                      [type |-> D[t][x].type, weak |-> D[t][x].weak,
                       operator |-> D[t][x].operator, flags |-> {},
                       successor |-> NoAccess, child |-> NoAccess,
                       reductionInfo |-> NoReduction]]]
  /\ bottomMap = [t \in Task |->
                    [x \in Address |-> [access |-> NoAccess, reductionInfo |-> NoReduction]]]
  /\ reductionCount = [a \in AccessId |-> 0]
  /\ combined = {}
  /\ predecessors = [t \in Task |-> 0]
  /\ deletable = [t \in Task |-> 0]
  /\ removal = [t \in Task |-> 1]
  /\ pc = [t \in Task |-> IF t = Main THEN "body" ELSE "none"]
  /\ frame = [t \in Task |-> NoFrame]
  /\ satisfied = [t \in Task |-> {}]
  /\ deletables = [t \in Task |-> {}]
  /\ submits = [t \in Task |-> 0]
  /\ disposed = {}
  /\ commutativeMask = [t \in Task |-> {}]
  /\ Semaphore!InitFree

(* The thread of p is at an operation of its body; the lists of its CPU    *)
(* are empty there.                                                        *)
InBody(p, op) ==
  /\ pc[p] = "body"
  /\ satisfied[p] \cup deletables[p] = {}
  /\ frame[p].ip \in DOMAIN Body[p]
  /\ Op(p)[1] = op

(* nanos6_submit_task and the start of registerTaskDataAccesses: two       *)
(* predecessors stand for the registration itself.                         *)
SubmitTask(p) ==
  /\ InBody(p, "create")
  /\ LET c == Op(p)[2]
     IN  /\ removal' = [removal EXCEPT ![p] = @ + 1]
         /\ predecessors' = [predecessors EXCEPT ![c] = 2]
         /\ deletable' = [deletable EXCEPT ![c] = 1 + Cardinality(Declared(c))]
         /\ pc' = [pc EXCEPT ![p] = "insert", ![c] = "registering"]
         /\ frame' = [frame EXCEPT ![p].todo = Declared(c)]
  /\ UNCHANGED <<accessVars, deletables, satisfied, submits, disposed, semaphoreVars>>

(* insertAccesses for one address, up to the first fetch_add: the new      *)
(* access becomes the bottom of its address, a reduction joins the open    *)
(* reduction or allocates one, and the previous bottom (or the access of   *)
(* the parent, for the first one) learns of it.  Nobody else sees an       *)
(* access without either, which gets every satisfiability at once.         *)
InsertAccess(p, x) ==
  /\ pc[p] = "insert"
  /\ x \in frame[p].todo
  /\ LET c     == Op(p)[2]
         new   == <<c, x>>
         entry == bottomMap[p][x]
         isRed == access[c][x].type = "REDUCTION"
         pred  == entry.access
         above == IF pred = NoAccess THEN ParentAccess(c, x) ELSE NoAccess
         inherited == ReductionOf(above)
         open  == IF entry.reductionInfo # NoReduction \/ ~isRed
                  THEN entry.reductionInfo ELSE inherited
         mine  == IF ~isRed THEN NoReduction
                  ELSE IF open # NoReduction /\ Acc(open).operator = access[c][x].operator
                  THEN open ELSE new
         A0 == [access EXCEPT ![c][x].reductionInfo = mine]
         A1 == IF pred # NoAccess THEN [A0 EXCEPT ![pred[1]][x].successor = new]
               ELSE IF above # NoAccess THEN [A0 EXCEPT ![p][x].child = new]
               ELSE A0
         link == IF pred # NoAccess THEN <<pred, {HASNEXT}>>
                 ELSE IF above # NoAccess THEN <<above, {HASCHILD}>>
                 ELSE <<new, Satisfied(Kind)>>
         message == Single(A1, link[1], link[2])
     IN  /\ access' = Added(A1, link[1], link[2])
         /\ bottomMap' = [bottomMap EXCEPT ![p][x] =
                            [access |-> new, reductionInfo |-> mine]]
         /\ reductionCount' =
              IF isRed
              THEN [reductionCount EXCEPT ![mine] = IF mine = new THEN 3 ELSE @ + 1]
              ELSE reductionCount
         /\ commutativeMask' =
              IF access[c][x].type = "COMMUTATIVE" /\ ~access[c][x].weak
              THEN [commutativeMask EXCEPT ![c] = @ \cup {Hash[x]}]
              ELSE commutativeMask
         /\ frame' = [frame EXCEPT
              ![p].todo = @ \ {x}, ![p].addr = new, ![p].reductionInfo = open,
              ![p].message = IF link[1] = new THEN NoMessage ELSE message,
              ![p].own = IF link[1] = new THEN [message EXCEPT !.schedule = TRUE]
                         ELSE NoMessage]
         /\ pc' = [pc EXCEPT ![p] =
              IF link[1] # new /\ message.flagsForNext # {} THEN "give" ELSE "linked"]
  /\ UNCHANGED <<combined, predecessors, discardVars, satisfied, submits, disposed,
                 mask, waitingTasks, scan, satisfiedCommutative, holding>>

(* access->applySingle(message.flagsForNext): other threads may reach the  *)
(* new access from now on.                                                 *)
GiveToNew(p) ==
  /\ pc[p] = "give"
  /\ LET new == frame[p].addr
         F   == frame[p].message.flagsForNext
     IN  /\ access' = Added(access, new, F)
         /\ frame' = [frame EXCEPT ![p].own = Single(access, new, F)]
  /\ pc' = [pc EXCEPT ![p] = "linked"]
  /\ UNCHANGED <<bottomMap, reductionVars, predecessors, discardVars, satisfied,
                 submits, disposed, semaphoreVars>>

(* The rest of insertAccesses for the address: the previous access knows   *)
(* that its message arrived (and may be disposed), a reduction that is     *)
(* satisfied already notes it, one that was closed by this access may      *)
(* combine, and the task counts a predecessor unless it may start.         *)
LinkAccess(p) ==
  /\ pc[p] = "linked"
  /\ LET new  == frame[p].addr
         m    == frame[p].message
         own  == frame[p].own
         mine == Acc(new).reductionInfo
         old  == frame[p].reductionInfo
         A1   == IF m.from = NoAccess THEN access
                 ELSE Added(access, m.from, m.flagsAfterPropagation)
     IN  /\ access' = IF own.combine THEN Added(A1, new, own.flagsAfterPropagation) ELSE A1
         /\ IF m.from = NoAccess THEN UNCHANGED discardVars
            ELSE Discard(p, m.from[1], Disposes(Acc(m.from), m.flagsAfterPropagation))
         /\ Unregister({r \in {mine} : own.combine /\ mine # old}
                         \cup {r \in {old} : old # NoReduction /\ mine # old})
         /\ predecessors' =
              IF own.schedule \/ Acc(new).weak \/ Acc(new).type = "REDUCTION"
              THEN predecessors
              ELSE [predecessors EXCEPT ![new[1]] = @ + 1]
  /\ frame' = [frame EXCEPT ![p] = [NoFrame EXCEPT !.ip = frame[p].ip, !.todo = frame[p].todo]]
  /\ pc' = [pc EXCEPT ![p] = "insert"]
  /\ UNCHANGED <<bottomMap, satisfied, submits, disposed, semaphoreVars>>

(* The end of registerTaskDataAccesses and of submitTask.                  *)
EndRegistration(p) ==
  /\ pc[p] = "insert"
  /\ frame[p].todo = {}
  /\ deletables[p] = {}
  /\ LET c == Op(p)[2]
     IN  /\ removal' = IF HasDataAccesses(c) THEN [removal EXCEPT ![c] = @ + 1] ELSE removal
         /\ DecreasePredecessors(p, c, 2)
         /\ pc' = [pc EXCEPT ![p] = "body", ![c] = "submitted"]
  /\ frame' = [frame EXCEPT ![p].ip = @ + 1]
  /\ UNCHANGED <<accessVars, deletable, deletables, submits, disposed>>
-----------------------------------------------------------------------------
(* finalizeDataAccess, for an access whose subaccesses must first be       *)
(* chained to it: the last of them gets the access as its successor.       *)
JoinChildren(p, x) ==
  LET last    == bottomMap[p][x].access
      A1      == [access EXCEPT ![last[1]][x].successor = <<p, x>>]
      message == Single(A1, last, {HASNEXT, NEXTISPARENT})
  IN  /\ access[p][x].child # NoAccess
      /\ access' = Added(A1, last, {HASNEXT, NEXTISPARENT})
      /\ frame' = [frame EXCEPT ![p].addr = <<p, x>>, ![p].todo = @ \ {x},
                                ![p].message = message]
      /\ pc' = [pc EXCEPT ![p] =
                  IF message.flagsForNext = {} THEN "unregister" ELSE "joinGive"]
      /\ UNCHANGED <<bottomMap, reductionVars, predecessors, discardVars, satisfied,
                     submits, disposed, semaphoreVars>>

JoinGive(p) ==
  /\ pc[p] = "joinGive"
  /\ access' = Added(access, frame[p].addr, frame[p].message.flagsForNext)
  /\ pc' = [pc EXCEPT ![p] = "joined"]
  /\ UNCHANGED <<bottomMap, reductionVars, predecessors, discardVars, frame, satisfied,
                 submits, disposed, semaphoreVars>>

Joined(p) ==
  /\ pc[p] = "joined"
  /\ access' = Added(access, frame[p].message.from, frame[p].message.flagsAfterPropagation)
  /\ frame' = [frame EXCEPT ![p].message = NoMessage]
  /\ pc' = [pc EXCEPT ![p] = "unregister"]
  /\ UNCHANGED <<bottomMap, reductionVars, predecessors, discardVars, satisfied,
                 submits, disposed, semaphoreVars>>

(* The rest of finalizeDataAccess: a reduction is counted, then the access *)
(* is unregistered and what that makes it send is left in the mailbox.     *)
UnregisterAccess(p, x) ==
  LET acc == access[p][x]
      F   == {UNREGISTERED} \cup (IF acc.child = NoAccess THEN ChildDone(Kind) ELSE {})
      mailBox == Answer(access, <<p, x>>, F)
  IN  /\ access' = Added(access, <<p, x>>, F)
      /\ Unregister({acc.reductionInfo} \ {NoReduction})
      /\ Discard(p, p, mailBox = <<>> /\ Disposes(acc, F))
      /\ frame' = [frame EXCEPT ![p].addr = NoAccess, ![p].todo = @ \ {x},
                                ![p].mailBox = mailBox,
                                ![p].reductionInfo = acc.reductionInfo]
      /\ pc' = [pc EXCEPT ![p] = "propagate"]
      /\ UNCHANGED <<bottomMap, predecessors, satisfied, submits, disposed, semaphoreVars>>

FinalizeAccess(p, x) ==
  IF access[p][x].child = NoAccess THEN UnregisterAccess(p, x) ELSE JoinChildren(p, x)

(* releaseAccessRegion: "#pragma oss release" in the body of the task.     *)
ReleaseAccessRegion(p) ==
  /\ InBody(p, "release")
  /\ FinalizeAccess(p, Op(p)[2])

(* The end of the task: unregisterTaskDataAccesses begins.                 *)
EndBody(p) ==
  /\ pc[p] = "body"
  /\ satisfied[p] \cup deletables[p] = {}
  /\ frame[p].ip > Len(Body[p])
  /\ frame' = [frame EXCEPT ![p].todo =
                 {x \in Declared(p) : UNREGISTERED \notin access[p][x].flags}]
  /\ pc' = [pc EXCEPT ![p] = "finalize"]
  /\ UNCHANGED <<accessVars, predecessors, discardVars, satisfied, submits, disposed,
                 semaphoreVars>>

FinalizeNext(p) ==
  /\ pc[p] = "finalize"
  /\ \E x \in frame[p].todo : FinalizeAccess(p, x)

FinalizeJoined(p) ==
  /\ pc[p] = "unregister"
  /\ UnregisterAccess(p, frame[p].addr[2])

(* propagateMessages: the top message is delivered.                        *)
Deliver(p) ==
  /\ pc[p] = "propagate"
  /\ frame[p].mailBox # <<>>
  /\ LET m    == Head(frame[p].mailBox)
         rest == Tail(frame[p].mailBox)
     IN  IF m.flagsForNext = {}
         THEN /\ frame' = [frame EXCEPT ![p].message = m, ![p].mailBox = rest]
              /\ UNCHANGED <<access, discardVars>>
         ELSE /\ access' = Added(access, m.to, m.flagsForNext)
              /\ frame' = [frame EXCEPT ![p].message = m,
                             ![p].mailBox = Answer(access, m.to, m.flagsForNext) \o rest]
              /\ Discard(p, m.to[1], Disposes(Acc(m.to), m.flagsForNext))
  /\ pc' = [pc EXCEPT ![p] = "delivered"]
  /\ UNCHANGED <<bottomMap, reductionVars, predecessors, satisfied, submits, disposed,
                 semaphoreVars>>

(* ... and then what the message means for its sender.                     *)
AfterDelivery(p) ==
  /\ pc[p] = "delivered"
  /\ LET m    == frame[p].message
         t    == m.from[1]
         info == Acc(m.from).reductionInfo
     IN  /\ Satisfy(p, t, m.schedule)
         /\ Unregister({r \in {info} : m.combine /\ info # frame[p].reductionInfo})
         /\ access' = Added(access, m.from, m.flagsAfterPropagation)
         /\ Discard(p, t, Disposes(Acc(m.from), m.flagsAfterPropagation))
         /\ frame' = [frame EXCEPT ![p].message = NoMessage,
                                   ![p].reductionInfo = IF m.combine THEN info ELSE @]
  /\ pc' = [pc EXCEPT ![p] = "propagate"]
  /\ UNCHANGED <<bottomMap, submits, disposed>>

(* The mailbox is empty: back to the caller of finalizeDataAccess.         *)
EndPropagation(p) ==
  /\ pc[p] = "propagate"
  /\ frame[p].mailBox = <<>>
  /\ LET released == frame[p].ip <= Len(Body[p])
     IN  /\ pc' = [pc EXCEPT ![p] = IF released THEN "body" ELSE "finalize"]
         /\ frame' = [frame EXCEPT ![p].reductionInfo = NoReduction,
                                   ![p].ip = IF released THEN @ + 1 ELSE @]
  /\ UNCHANGED <<accessVars, predecessors, discardVars, satisfied, submits, disposed,
                 semaphoreVars>>

(* Every access is unregistered: finalizeChildTaskAccesses goes through    *)
(* the bottom map.                                                         *)
EndFinalize(p) ==
  /\ pc[p] = "finalize"
  /\ frame[p].todo = {}
  /\ frame' = [frame EXCEPT ![p].todo =
                 {x \in Address : bottomMap[p][x].access # NoAccess}]
  /\ pc' = [pc EXCEPT ![p] = "children"]
  /\ UNCHANGED <<accessVars, predecessors, discardVars, satisfied, submits, disposed,
                 semaphoreVars>>

(* The last child access on x learns that no other one will come.          *)
FinalizeChildAccess(p, x) ==
  /\ pc[p] = "children"
  /\ x \in frame[p].todo
  /\ LET last == bottomMap[p][x].access
     IN  /\ access' = Added(access, last, {PARENT_DONE})
         /\ Discard(p, last[1], Disposes(Acc(last), {PARENT_DONE}))
         /\ Unregister(ClosedReductions(p, {x}))
         /\ bottomMap' = WithoutReductions(p, {x})
  /\ frame' = [frame EXCEPT ![p].todo = @ \ {x}]
  /\ UNCHANGED <<predecessors, pc, satisfied, submits, disposed, semaphoreVars>>

(* The commutative bits of the task are given back, then its own share of  *)
(* the deletable count.                                                    *)
ReleaseCommutative(p) ==
  /\ pc[p] = "children"
  /\ frame[p].todo = {}
  /\ commutativeMask[p] # {}
  /\ Semaphore!BeginRelease(p)
  /\ pc' = [pc EXCEPT ![p] = "releasing"]
  /\ UNCHANGED <<accessVars, predecessors, discardVars, frame, satisfied, submits, disposed>>

ScanCommutative(p) ==
  /\ Semaphore!TakeCandidate(p) \/ Semaphore!SkipCandidate(p) \/ Semaphore!EndRelease(p)
  /\ UNCHANGED <<accessVars, predecessors, discardVars, pc, frame, satisfied, submits,
                 disposed>>

DropOwnShare(p) ==
  /\ \/ pc[p] = "children" /\ frame[p].todo = {} /\ commutativeMask[p] = {}
     \/ pc[p] = "releasing" /\ scan.owner # p
  /\ IF HasDataAccesses(p)
     THEN /\ deletable' = [deletable EXCEPT ![p] = @ - 1]
          /\ removal' = IF deletable[p] = 1 THEN [removal EXCEPT ![p] = @ - 1] ELSE removal
     ELSE UNCHANGED <<deletable, removal>>
  /\ pc' = [pc EXCEPT ![p] = "completing"]
  /\ UNCHANGED <<accessVars, predecessors, deletables, frame, satisfied, submits,
                 disposed, semaphoreVars>>

(* The rest of taskCompletedCallback.                                      *)
CompleteTask(p) ==
  /\ pc[p] = "completing"
  /\ satisfied[p] \cup satisfiedCommutative[p] \cup deletables[p] = {}
  /\ removal' = [removal EXCEPT ![p] = @ - 1]
  /\ deletables' = IF removal[p] = 1 THEN [deletables EXCEPT ![p] = {p}] ELSE deletables
  /\ pc' = [pc EXCEPT ![p] = "done"]
  /\ frame' = [frame EXCEPT ![p] = NoFrame]
  /\ UNCHANGED <<accessVars, predecessors, deletable, satisfied, submits, disposed,
                 semaphoreVars>>

-----------------------------------------------------------------------------
(* processSatisfiedOriginators: at the end of an operation, or before when *)
(* a list is full (its size depends on the machine, so at any time).       *)
SubmitSatisfied(p) ==
  LET ready == satisfied[p] \cup (IF scan.owner = p THEN {} ELSE satisfiedCommutative[p])
  IN  /\ ready # {}
      /\ submits' = [t \in Task |-> submits[t] + IF t \in ready THEN 1 ELSE 0]
      /\ satisfied' = [satisfied EXCEPT ![p] = {}]
      /\ satisfiedCommutative' = IF scan.owner = p THEN satisfiedCommutative
                                 ELSE [satisfiedCommutative EXCEPT ![p] = {}]
      /\ UNCHANGED <<accessVars, predecessors, discardVars, pc, frame, disposed,
                     commutativeMask, mask, waitingTasks, scan, holding>>

(* disposeTask for one task of the list; a parent that only waited for it  *)
(* is next.                                                                *)
DisposeTask(p) ==
  \E t \in deletables[p] :
    LET above == IF t = Main THEN {} ELSE {Parent[t]}
    IN  /\ disposed' = disposed \cup {t}
        /\ removal' = [u \in Task |-> removal[u] - IF u \in above THEN 1 ELSE 0]
        /\ deletables' = [deletables EXCEPT ![p] =
                            (@ \ {t}) \cup {u \in above : removal[u] = 1}]
        /\ UNCHANGED <<accessVars, predecessors, deletable, pc, frame, satisfied, submits,
                       semaphoreVars>>

(* nOS-V runs a submitted task.                                            *)
StartTask(p) ==
  /\ pc[p] = "submitted"
  /\ submits[p] > 0
  /\ pc' = [pc EXCEPT ![p] = "body"]
  /\ UNCHANGED <<accessVars, predecessors, discardVars, frame, satisfied, submits,
                 disposed, semaphoreVars>>

(* nanos6_taskwait.  A task that nothing but itself keeps alive goes on;   *)
(* the others close the reductions of their children and wait until all    *)
(* their descendants have finished.                                        *)
EnterTaskwait(p) ==
  /\ InBody(p, "taskwait")
  /\ IF removal[p] = 1
     THEN /\ frame' = [frame EXCEPT ![p].ip = @ + 1]
          /\ UNCHANGED <<bottomMap, reductionVars, pc>>
     ELSE /\ Unregister(ClosedReductions(p, Address))
          /\ bottomMap' = WithoutReductions(p, Address)
          /\ pc' = [pc EXCEPT ![p] = "taskwait"]
          /\ UNCHANGED frame
  /\ UNCHANGED <<access, predecessors, discardVars, satisfied, submits, disposed,
                 semaphoreVars>>

AncestorsIn[g \in DOMAIN Programs, t \in Task] ==
  LET parent == ParentIn[g][t]
  IN  IF parent = NoTask THEN {} ELSE {parent} \cup AncestorsIn[g, parent]
Ancestors(t) == AncestorsIn[program, t]

(* taskFinished comes between unregisterTaskDataAccesses and the decrement *)
(* of the removal count.                                                   *)
TaskFinished(t) ==
  \/ pc[t] = "done"
  \/ pc[t] = "completing" /\ satisfied[t] \cup satisfiedCommutative[t] \cup deletables[t] = {}

ExitTaskwait(p) ==
  /\ pc[p] = "taskwait"
  /\ \A t \in Task : p \in Ancestors(t) => pc[t] = "none" \/ TaskFinished(t)
  /\ pc' = [pc EXCEPT ![p] = "body"]
  /\ frame' = [frame EXCEPT ![p].ip = @ + 1]
  /\ UNCHANGED <<accessVars, predecessors, discardVars, satisfied, submits, disposed,
                 semaphoreVars>>

RegisterStep(p) ==
  \/ SubmitTask(p)
  \/ \E x \in Address : InsertAccess(p, x)
  \/ GiveToNew(p) \/ LinkAccess(p) \/ EndRegistration(p)

UnregisterStep(p) ==
  \/ ReleaseAccessRegion(p) \/ EndBody(p) \/ FinalizeNext(p)
  \/ JoinGive(p) \/ Joined(p) \/ FinalizeJoined(p)
  \/ Deliver(p) \/ AfterDelivery(p) \/ EndPropagation(p) \/ EndFinalize(p)
  \/ \E x \in Address : FinalizeChildAccess(p, x)
  \/ ReleaseCommutative(p) \/ ScanCommutative(p) \/ DropOwnShare(p) \/ CompleteTask(p)

Step(p) ==
  /\ \/ RegisterStep(p) \/ UnregisterStep(p)
     \/ SubmitSatisfied(p) \/ DisposeTask(p) \/ StartTask(p)
     \/ EnterTaskwait(p) \/ ExitTaskwait(p)
  /\ UNCHANGED program

(* The program is over.                                                    *)
Terminated == disposed = ProgramTasks /\ UNCHANGED vars

Next == (\E p \in Task : Step(p)) \/ Terminated

Spec == Init /\ [][Next]_vars

(* Some thread that can take a step takes one; more is not needed, because *)
(* no thread of a program takes steps for ever.                            *)
FairSpec == Spec /\ WF_vars(Next)
-----------------------------------------------------------------------------
(* The properties.                                                         *)

Message == [flagsForNext : SUBSET Flag, flagsAfterPropagation : SUBSET Flag,
            from : AccessId \cup {NoAccess}, to : AccessId \cup {NoAccess},
            schedule : BOOLEAN, combine : BOOLEAN]

(* The shape of the state.  The counters are never negative, which         *)
(* decreasePredecessors, decreaseDeletableCount and                        *)
(* decreaseRemovalBlockingCount assert, and no task is submitted twice.    *)
TypeOK ==
  /\ \A a \in Task \X Address : a[2] \in Declared(a[1]) =>
       Acc(a) \in [type : AccessType, weak : BOOLEAN, operator : {"+", "*"},
                   flags : SUBSET Flag,
                   successor : AccessId \cup {NoAccess},
                   child : AccessId \cup {NoAccess},
                   reductionInfo : AccessId \cup {NoReduction}]
  /\ bottomMap \in [Task -> [Address -> [access : AccessId \cup {NoAccess},
                                         reductionInfo : AccessId \cup {NoReduction}]]]
  /\ reductionCount \in [AccessId -> Nat]
  /\ combined \subseteq AccessId
  /\ predecessors \in [Task -> Nat]
  /\ deletable \in [Task -> Nat]
  /\ removal \in [Task -> Nat]
  /\ frame \in [Task -> [ip : Nat \ {0}, todo : SUBSET Address,
                         addr : AccessId \cup {NoAccess}, message : Message,
                         own : Message, mailBox : Seq(Message),
                         reductionInfo : AccessId \cup {NoReduction}]]
  /\ satisfied \in [Task -> SUBSET Task]
  /\ deletables \in [Task -> SUBSET Task]
  /\ submits \in [Task -> 0..1]
  /\ disposed \subseteq Task

(* Where a thread is in the life of its task.                              *)
Finished(t) ==
  \/ pc[t] \in {"finalize", "children", "releasing", "completing", "done"}
  \/ pc[t] \in {"joinGive", "joined", "unregister", "propagate", "delivered"}
     /\ frame[t].ip > Len(Body[t])

Running(t) == pc[t] \notin {"none", "registering", "submitted"} /\ ~Finished(t)

(* <<u, t>> when the sequential execution of the program runs u before t,  *)
(* u not containing t: the branches to u and t leave a task in this order. *)
CreatedBefore(B, u, t) ==
  \E p \in Task : \E i, j \in DOMAIN B[p] :
    i < j /\ B[p][i] = <<"create", u>> /\ B[p][j] = <<"create", t>>

BeforeIn ==
  [g \in DOMAIN Programs |->
     {e \in Task \X Task :
        \E v \in {e[1]} \cup AncestorsIn[g, e[1]], w \in {e[2]} \cup AncestorsIn[g, e[2]] :
          CreatedBefore(Programs[g].body, v, w)}]
Before == BeforeIn[program]

Abstract ==
  INSTANCE TaskDependencies WITH
    before <- Before,
    declared <- [t \in Task |-> [x \in Declared(t) |->
                   [type |-> access[t][x].type, weak |-> access[t][x].weak]]],
    status <- [t \in Task |->
                 IF pc[t] = "none" THEN "none"
                 ELSE IF Finished(t) THEN "finished"
                 ELSE IF Running(t) THEN "running" ELSE "created"],
    released <- [t \in Task |->
                   {x \in Declared(t) : /\ UNREGISTERED \in access[t][x].flags
                                        /\ <<"release", x>> \in {Body[t][i] : i \in DOMAIN Body[t]}}]

(* The accesses, flags and messages implement the sequential order of the  *)
(* program on conflicting accesses, nested tasks, early releases and       *)
(* commutative exclusion included.                                         *)
ImplementsTaskDependencies == Abstract!Spec

(* A reduction is combined before a task that comes after it and uses its  *)
(* address runs (the assertion that a read sees the reduced value in       *)
(* tests/correctness/reductions).                                          *)
RunsTooEarly(t, u, x) ==
  /\ Running(t)
  /\ x \in Declared(t) \cap Declared(u) /\ <<u, t>> \in Before
  /\ ~access[t][x].weak /\ access[t][x].type # "REDUCTION"
  /\ access[u][x].type = "REDUCTION" /\ access[u][x].reductionInfo \notin combined

CombinedBeforeUse == \A t, u \in Task, x \in Address : ~RunsTooEarly(t, u, x)

(* A reduction is combined when all the accesses that registered in it are *)
(* unregistered (ReductionInfo.cpp:51, "combine is only done once when all *)
(* accesses have freed their slots"), and nobody joins it afterwards.      *)
CombinedWhenQuiet ==
  \A t \in Task : \A x \in Declared(t) :
    access[t][x].reductionInfo \in combined => UNREGISTERED \in access[t][x].flags


(* After a taskwait the task sees the result of the reductions of the      *)
(* children it created before it, unless it takes part in them itself.     *)
CombinedAtTaskwait ==
  \A p \in Task : \A i, j \in DOMAIN Body[p] :
    (j < i /\ Body[p][i][1] = "taskwait" /\ Body[p][j][1] = "create"
       /\ (frame[p].ip > i \/ Finished(p))) =>
      LET c == Body[p][j][2]
      IN  \A x \in Declared(c) :
            access[c][x].type = "REDUCTION" /\ ~(x \in Declared(p) /\ access[p][x].type = "REDUCTION") =>
              access[c][x].reductionInfo \in combined

(* What a thread is about to touch: the access it works on, both ends of   *)
(* the messages in its mailbox, and the sender of the one in its hands.    *)
Touched(p) ==
  LET queued == {frame[p].mailBox[i] : i \in DOMAIN frame[p].mailBox}
  IN  ({frame[p].addr, frame[p].message.from} \cup UNION {{m.from, m.to} : m \in queued})
        \ {NoAccess}

(* The pointers an access still follows: its successor and its child, when *)
(* not everything was delivered to them yet.                               *)
Delivered(a) ==
  Acc(a).flags \cup
    UNION {frame[p].message.flagsAfterPropagation :
             p \in {q \in Task : frame[q].message.from = a}}

Followed(a) ==
  {b \in {Acc(a).successor} :
     HASNEXT \in Acc(a).flags /\ ~(NextSatisfied(Kind) \subseteq Delivered(a))}
  \cup
  {b \in {Acc(a).child} :
     HASCHILD \in Acc(a).flags /\ ~(ChildSatisfied(Kind) \subseteq Delivered(a))}

(* The bottom map entries task p will still use.                           *)
BottomInUse(p) ==
  {bottomMap[p][x].access :
     x \in {y \in Address : /\ pc[p] \notin {"releasing", "completing", "done"}
                            /\ pc[p] = "children" => y \in frame[p].todo}} \ {NoAccess}

(* A task is destroyed only when no thread will touch its accesses, when   *)
(* no live access and no bottom map leads to them, and after its children, *)
(* whose accesses use its bottom map and counters.                         *)
NoUseAfterFree ==
  \A t \in disposed :
    /\ pc[t] = "done" /\ Children(t) \subseteq disposed
    /\ \A p \in Task :
         /\ \A a \in Touched(p) \cup BottomInUse(p) : a[1] # t
         /\ t \notin satisfied[p] \cup satisfiedCommutative[p] \cup deletables[p]
         /\ p \notin disposed => \A x \in Declared(p) : \A a \in Followed(<<p, x>>) : a[1] # t

(* The next fetch_add of every thread adds flags that are not there: an    *)
(* addition would otherwise carry into other flags (the assertions         *)
(* "!(oldFlags & flags)" of DataAccess.cpp), and an answer that is a       *)
(* single message has a single destination.                                *)
Pending(p) ==
  LET m == frame[p].message
      head == IF pc[p] = "propagate" /\ frame[p].mailBox # <<>>
              THEN Head(frame[p].mailBox) ELSE NoMessage
  IN  CASE pc[p] = "give" -> {<<frame[p].addr, m.flagsForNext>>}
        [] pc[p] = "joinGive" -> {<<frame[p].addr, m.flagsForNext>>}
        [] pc[p] \in {"linked", "joined", "delivered"} /\ m.from # NoAccess ->
             {<<m.from, m.flagsAfterPropagation>>}
        [] pc[p] = "propagate" /\ head.to # NoAccess -> {<<head.to, head.flagsForNext>>}
        [] OTHER -> {}

AdditionsAreAtomic ==
  \A p \in Task : \A add \in Pending(p) :
    AddsOnce(Acc(add[1]), add[2]) /\ OneDestination(Acc(add[1]), add[2])

(* Where the code asserts that an access cannot be disposed yet            *)
(* (applySingle, insertAccesses, finalizeDataAccess) or does not look      *)
(* (the last child in finalizeDataAccess), it cannot: nobody would take    *)
(* the access off the deletable count.                                     *)
Unheeded(p) ==
  LET m == frame[p].message
  IN  CASE pc[p] \in {"give", "joinGive"} -> {<<frame[p].addr, m.flagsForNext>>}
        [] pc[p] = "joined" -> {<<m.from, m.flagsAfterPropagation>>}
        [] pc[p] = "linked" ->
             {<<a, m.flagsAfterPropagation>> : a \in {m.from} \cap {<<p, x>> : x \in Address}}
               \cup {<<frame[p].addr, frame[p].own.flagsAfterPropagation>>}
        [] pc[p] = "unregister" /\ Answer(access, frame[p].addr, {UNREGISTERED}) # <<>> ->
             {<<frame[p].addr, {UNREGISTERED}>>}
        [] OTHER -> {}

NoUnheededDisposal ==
  \A p \in Task : \A add \in Unheeded(p) : ~Disposes(Acc(add[1]), add[2])

(* When the program is over, every reduction was combined and no bit of    *)
(* the commutative semaphore is taken.                                     *)
NothingLeaks ==
  disposed = ProgramTasks =>
    /\ mask = {} /\ waitingTasks = <<>>
    /\ \A t \in Task : \A x \in Declared(t) :
         access[t][x].type = "REDUCTION" => access[t][x].reductionInfo \in combined

(* Every task runs and is destroyed in the end.                            *)
AllDisposed == <>(disposed = ProgramTasks)
=============================================================================
