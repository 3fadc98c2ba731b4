------------------------ MODULE CommutativeSemaphore ------------------------
(***************************************************************************)
(* dependencies/discrete/CommutativeSemaphore.{hpp,cpp}: commutative tasks *)
(* run in any order but not together.  Every strong commutative access     *)
(* adds the hash of its address, a bit, to the mask of its task; a task    *)
(* that has no predecessor left starts when no bit of its mask is taken,   *)
(* and waits in a queue otherwise.  A task that ends gives its bits back   *)
(* and scans the queue for the tasks that may start now.                   *)
(*                                                                         *)
(* _lock is held during the whole of registerTask, which is one action,    *)
(* and of releaseTask, which is one action per candidate of the queue.     *)
(***************************************************************************)
EXTENDS Naturals, Sequences, SequencesExt

CONSTANTS
  Task,       (* the tasks                                                 *)
  Bit,        (* the positions of a commutative mask                       *)
  NoTask      (* scan.owner when no releaseTask is under way               *)

ASSUME NoTaskAssumption == NoTask \notin Task

VARIABLES
  commutativeMask,       (* TaskDataAccesses::_commutativeMask of each task *)
  mask,                  (* _mask: the bits that are taken                 *)
  waitingTasks,          (* _waitingTasks, a deque                         *)
  scan,                  (* the releaseTask under way: its task, the       *)
                         (* iterator "it" and "released"                   *)
  satisfiedCommutative,  (* _satisfiedCommutativeOriginators of the CPU    *)
                         (* that runs the releaseTask of each task         *)
  holding                (* the tasks that own their bits (history)        *)

semaphoreVars ==
  <<commutativeMask, mask, waitingTasks, scan, satisfiedCommutative, holding>>

NoScan == [owner |-> NoTask, it |-> 0, released |-> {}]

LockFree == scan.owner = NoTask

(* Mutant: masks that overlap in part are compatible.                      *)
MaskIsDifferent(candidate) == mask # candidate

MaskIsCompatible(candidate) == mask \cap candidate = {}

InitFree ==
  /\ mask = {}
  /\ waitingTasks = <<>>
  /\ scan = NoScan
  /\ satisfiedCommutative = [t \in Task |-> {}]
  /\ holding = {}

(* registerTask returns true.                                              *)
RegisterAcquires(t) ==
  /\ LockFree
  /\ MaskIsCompatible(commutativeMask[t])
  /\ mask' = mask \cup commutativeMask[t]
  /\ holding' = holding \cup {t}
  /\ UNCHANGED <<commutativeMask, waitingTasks, scan, satisfiedCommutative>>

(* registerTask returns false: the task waits for a release.               *)
RegisterWaits(t) ==
  /\ LockFree
  /\ ~MaskIsCompatible(commutativeMask[t])
  /\ waitingTasks' = Append(waitingTasks, t)
  /\ UNCHANGED <<commutativeMask, mask, scan, satisfiedCommutative, holding>>

(* releaseTask takes the lock and gives the bits of t back.                *)
BeginRelease(t) ==
  /\ LockFree
  /\ t \in holding
  /\ mask' = mask \ commutativeMask[t]
  /\ holding' = holding \ {t}
  /\ scan' = [owner |-> t, it |-> 1, released |-> {}]
  /\ UNCHANGED <<commutativeMask, waitingTasks, satisfiedCommutative>>

(* Mutant: the scan stops at the first candidate that fits.                *)
TakeOneCandidate(t) ==
  /\ scan.owner = t
  /\ scan.it <= Len(waitingTasks)
  /\ LET candidate == waitingTasks[scan.it]
     IN  /\ MaskIsCompatible(commutativeMask[candidate])
         /\ mask' = mask \cup commutativeMask[candidate]
         /\ holding' = holding \cup {candidate}
         /\ satisfiedCommutative' =
              [satisfiedCommutative EXCEPT ![t] = @ \cup {candidate}]
         /\ waitingTasks' = RemoveAt(waitingTasks, scan.it)
         /\ scan' = NoScan
  /\ UNCHANGED commutativeMask

(* A candidate that fits starts; when every bit that t gave back is taken  *)
(* again the rest of the queue is not looked at.                           *)
TakeCandidate(t) ==
  /\ scan.owner = t
  /\ scan.it <= Len(waitingTasks)
  /\ LET candidate == waitingTasks[scan.it]
         released  == scan.released \cup
                        (commutativeMask[t] \cap commutativeMask[candidate])
     IN  /\ MaskIsCompatible(commutativeMask[candidate])
         /\ mask' = mask \cup commutativeMask[candidate]
         /\ holding' = holding \cup {candidate}
         /\ satisfiedCommutative' =
              [satisfiedCommutative EXCEPT ![t] = @ \cup {candidate}]
         /\ waitingTasks' = RemoveAt(waitingTasks, scan.it)
         /\ scan' = IF released = commutativeMask[t]
                    THEN NoScan
                    ELSE [scan EXCEPT !.released = released]
  /\ UNCHANGED commutativeMask

(* Mutant: a candidate is erased from the queue although it does not fit.  *)
SkipAndErase(t) ==
  /\ scan.owner = t
  /\ scan.it <= Len(waitingTasks)
  /\ ~MaskIsCompatible(commutativeMask[waitingTasks[scan.it]])
  /\ waitingTasks' = RemoveAt(waitingTasks, scan.it)
  /\ UNCHANGED <<commutativeMask, mask, scan, satisfiedCommutative, holding>>

SkipCandidate(t) ==
  /\ scan.owner = t
  /\ scan.it <= Len(waitingTasks)
  /\ ~MaskIsCompatible(commutativeMask[waitingTasks[scan.it]])
  /\ scan' = [scan EXCEPT !.it = @ + 1]
  /\ UNCHANGED <<commutativeMask, mask, waitingTasks, satisfiedCommutative, holding>>

EndRelease(t) ==
  /\ scan.owner = t
  /\ scan.it > Len(waitingTasks)
  /\ scan' = NoScan
  /\ UNCHANGED <<commutativeMask, mask, waitingTasks, satisfiedCommutative, holding>>

(* processSatisfiedOriginators submits what the release made ready.        *)
SubmitSatisfiedCommutative(t) ==
  /\ satisfiedCommutative[t] # {}
  /\ satisfiedCommutative' = [satisfiedCommutative EXCEPT ![t] = {}]
  /\ UNCHANGED <<commutativeMask, mask, waitingTasks, scan, holding>>

-----------------------------------------------------------------------------
(* The semaphore with the tasks that use it: each is registered once, runs *)
(* when it was granted its bits and submitted, and releases them when it   *)
(* ends.                                                                   *)
VARIABLE phase

vars == <<semaphoreVars, phase>>

Init ==
  /\ InitFree
  /\ commutativeMask \in [Task -> SUBSET Bit \ {{}}]
  /\ phase = [t \in Task |-> "dependent"]

Register(t) ==
  /\ phase[t] = "dependent"
  /\ \/ RegisterAcquires(t) /\ phase' = [phase EXCEPT ![t] = "running"]
     \/ RegisterWaits(t) /\ phase' = [phase EXCEPT ![t] = "waiting"]

Release(t) ==
  /\ phase[t] = "running"
  /\ BeginRelease(t)
  /\ phase' = [phase EXCEPT ![t] = "releasing"]

Scan(t) ==
  /\ TakeCandidate(t) \/ SkipCandidate(t) \/ EndRelease(t)
  /\ UNCHANGED phase

Submit(t) ==
  /\ scan.owner # t
  /\ phase[t] = "releasing"
  /\ SubmitSatisfiedCommutative(t)
  /\ phase' = [u \in Task |->
                 IF u \in satisfiedCommutative[t] THEN "running" ELSE phase[u]]

Next == \E t \in Task : Register(t) \/ Release(t) \/ Scan(t) \/ Submit(t)

Fairness == \A t \in Task : WF_vars(Register(t) \/ Release(t) \/ Scan(t) \/ Submit(t))

Spec == Init /\ [][Next]_vars

FairSpec == Spec /\ Fairness
-----------------------------------------------------------------------------
Waiting == {waitingTasks[i] : i \in DOMAIN waitingTasks}

(* The shape of the state (CommutativeSemaphore.hpp:37-45).                *)
TypeOK ==
  /\ commutativeMask \in [Task -> SUBSET Bit]
  /\ mask \in SUBSET Bit
  /\ waitingTasks \in Seq(Task)
  /\ scan \in [owner : Task \cup {NoTask}, it : Nat, released : SUBSET Bit]
  /\ satisfiedCommutative \in [Task -> SUBSET Task]
  /\ holding \in SUBSET Task
  /\ phase \in [Task -> {"dependent", "waiting", "running", "releasing"}]

(* Two tasks that share a commutative address, or whose addresses have the *)
(* same hash, never own their bits together, whatever the order of the     *)
(* registrations and of the scans: at most one of them runs.               *)
Exclusion ==
  \A t, u \in holding : t # u => commutativeMask[t] \cap commutativeMask[u] = {}

(* _mask is exact: no bit leaks (a task that waits for it would wait for   *)
(* ever) and none is given back while a task still owns it.                *)
MaskIsHolders == mask = UNION {commutativeMask[t] : t \in holding}

(* No wake-up is lost: outside releaseTask, every queued task is kept by a *)
(* bit some task still owns, so a later release looks at it.  The scan     *)
(* stops when released = mask; that must never leave behind a candidate    *)
(* that fits.                                                              *)
NoLostWakeUp ==
  LockFree => \A t \in Waiting : ~MaskIsCompatible(commutativeMask[t])

(* Halfway through a release: what the iterator passed does not fit, and   *)
(* what it has not reached is kept by a bit that is taken or by a bit of   *)
(* the release that nobody took yet.  So stopping at the end of the queue, *)
(* or when every bit was taken again, leaves no candidate that fits.       *)
ScanCovers ==
  scan.owner # NoTask =>
    /\ scan.it >= 1
    /\ \A i \in DOMAIN waitingTasks :
         LET candidate == commutativeMask[waitingTasks[i]]
         IN  IF i < scan.it THEN ~MaskIsCompatible(candidate)
             ELSE candidate \cap (mask \cup (commutativeMask[scan.owner] \ scan.released)) # {}

(* Every task gets its bits in the end, however many bits it needs and     *)
(* however the others interleave.                                          *)
EveryTaskRuns == \A t \in Task : <>(phase[t] = "releasing")
=============================================================================
