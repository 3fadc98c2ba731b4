--------------------- MODULE CommutativeSemaphore_proofs ---------------------
(***************************************************************************)
(* For any tasks, any number of bits and any masks: the commutative        *)
(* semaphore excludes, its mask is exact, and it loses no wake-up.         *)
(*                                                                         *)
(* TypeOK, Exclusion and MaskIsHolders are inductive together.  For        *)
(* NoLostWakeUp the release that is under way counts too: ScanCovers says  *)
(* what is known of the candidates on both sides of its iterator.          *)
(***************************************************************************)
EXTENDS CommutativeSemaphore, SequenceTheorems, TLAPS

(* What erase leaves of the queue.                                         *)
LEMMA RemoveAtProperties ==
  ASSUME NEW S, NEW s \in Seq(S), NEW i \in 1 .. Len(s)
  PROVE  /\ RemoveAt(s, i) \in Seq(S)
         /\ Len(RemoveAt(s, i)) = Len(s) - 1
         /\ \A j \in 1 .. Len(s) - 1 : RemoveAt(s, i)[j] = IF j < i THEN s[j] ELSE s[j + 1]
<1> DEFINE before == SubSeq(s, 1, i - 1)
           after == SubSeq(s, i + 1, Len(s))
<1>1. /\ before \in Seq(S) /\ Len(before) = i - 1
      /\ \A j \in 1 .. i - 1 : before[j] = s[j]
  <2>1. \A j \in 1 .. i - 1 : s[j] \in S
    OBVIOUS
  <2>2. QED
    BY <2>1, SubSeqProperties
<1>2. /\ after \in Seq(S) /\ Len(after) = Len(s) - i
      /\ \A j \in 1 .. Len(s) - i : after[j] = s[i + j]
  <2>1. \A j \in i + 1 .. Len(s) : s[j] \in S
    OBVIOUS
  <2>2. /\ after \in Seq(S)
        /\ Len(after) = IF i + 1 <= Len(s) THEN Len(s) - (i + 1) + 1 ELSE 0
        /\ \A j \in 1 .. Len(s) - (i + 1) + 1 : after[j] = s[i + 1 + j - 1]
    BY <2>1, SubSeqProperties
  <2>3. QED
    BY <2>2
<1>3. /\ before \o after \in Seq(S)
      /\ Len(before \o after) = Len(before) + Len(after)
      /\ \A j \in 1 .. Len(before) + Len(after) :
           (before \o after)[j] = IF j <= Len(before) THEN before[j] ELSE after[j - Len(before)]
  <2> HIDE DEF before, after
  <2>1. QED
    BY <1>1, <1>2, ConcatProperties
<1>4. ASSUME NEW j \in 1 .. Len(s) - 1
      PROVE  (before \o after)[j] = IF j < i THEN s[j] ELSE s[j + 1]
  <2> HIDE DEF before, after
  <2>0. Len(before) + Len(after) = Len(s) - 1 /\ Len(s) \in Nat
    BY <1>1, <1>2
  <2>1. CASE j < i
    BY <2>0, <2>1, <1>1, <1>3
  <2>2. CASE j >= i
    <3>1. /\ j - Len(before) \in 1 .. Len(s) - i
          /\ i + (j - Len(before)) = j + 1
      BY <2>2, <1>1, <2>0
    <3>2. after[j - Len(before)] = s[j + 1]
      BY <3>1, <1>2
    <3>3. QED
      BY <2>2, <3>2, <2>0, <1>1, <1>3
  <2>3. QED
    BY <2>0, <2>1, <2>2
<1>5. Len(before) + Len(after) = Len(s) - 1
  <2> HIDE DEF before, after
  <2>1. QED
    BY <1>1, <1>2
<1>6. RemoveAt(s, i) = before \o after
  BY DEF RemoveAt
<1>7. QED
  <2> HIDE DEF before, after
  <2>1. QED
    BY <1>3, <1>4, <1>5, <1>6

-----------------------------------------------------------------------------
(* What each step that changes the queue does to it.                       *)
LEMMA AppendedQueue ==
  ASSUME TypeOK, NEW t \in Task
  PROVE  /\ Append(waitingTasks, t) \in Seq(Task)
         /\ DOMAIN Append(waitingTasks, t) = 1 .. Len(waitingTasks) + 1
         /\ \A i \in DOMAIN waitingTasks :
              Append(waitingTasks, t)[i] = waitingTasks[i] /\ waitingTasks[i] \in Task
         /\ Append(waitingTasks, t)[Len(waitingTasks) + 1] = t
BY DEF TypeOK

LEMMA ErasedQueue ==
  ASSUME TypeOK, NEW i \in 1 .. Len(waitingTasks)
  PROVE  /\ waitingTasks[i] \in Task
         /\ RemoveAt(waitingTasks, i) \in Seq(Task)
         /\ DOMAIN RemoveAt(waitingTasks, i) = 1 .. Len(waitingTasks) - 1
         /\ \A j \in 1 .. Len(waitingTasks) - 1 :
              RemoveAt(waitingTasks, i)[j] =
                IF j < i THEN waitingTasks[j] ELSE waitingTasks[j + 1]
<1>1. waitingTasks \in Seq(Task)
  BY DEF TypeOK
<1> DEFINE rest == RemoveAt(waitingTasks, i)
<1>2. /\ rest \in Seq(Task)
      /\ Len(rest) = Len(waitingTasks) - 1
      /\ \A j \in 1 .. Len(waitingTasks) - 1 :
           rest[j] = IF j < i THEN waitingTasks[j] ELSE waitingTasks[j + 1]
  BY <1>1, RemoveAtProperties
<1> HIDE DEF rest
<1>3. waitingTasks[i] \in Task
  BY <1>1
<1>4. DOMAIN rest = 1 .. Len(waitingTasks) - 1
  BY <1>2
<1>5. QED
  BY <1>2, <1>3, <1>4 DEF rest

(* The iterator never runs before the queue.                               *)
IteratorOK == scan.owner # NoTask => scan.it >= 1

LEMMA InitType == Init => TypeOK /\ IteratorOK
BY DEF Init, InitFree, NoScan, TypeOK, IteratorOK

LEMMA TypeStep == TypeOK /\ IteratorOK /\ [Next]_vars => TypeOK' /\ IteratorOK'
<1> SUFFICES ASSUME TypeOK, IteratorOK, [Next]_vars
             PROVE  TypeOK' /\ IteratorOK'
  OBVIOUS
<1>1. ASSUME NEW t \in Task, Register(t)
      PROVE  TypeOK' /\ IteratorOK'
  <2>1. CASE RegisterAcquires(t) /\ phase' = [phase EXCEPT ![t] = "running"]
    BY <2>1 DEF RegisterAcquires, TypeOK, IteratorOK
  <2>2. CASE RegisterWaits(t) /\ phase' = [phase EXCEPT ![t] = "waiting"]
    BY <2>2, AppendedQueue DEF RegisterWaits, TypeOK, IteratorOK
  <2>3. QED
    BY <1>1, <2>1, <2>2 DEF Register
<1>2. ASSUME NEW t \in Task, Release(t)
      PROVE  TypeOK' /\ IteratorOK'
  BY <1>2 DEF Release, BeginRelease, TypeOK, IteratorOK
<1>3. ASSUME NEW t \in Task, Scan(t)
      PROVE  TypeOK' /\ IteratorOK'
  <2> USE NoTaskAssumption
  <2>1. CASE TakeCandidate(t) /\ UNCHANGED phase
    <3>1. scan.it \in 1 .. Len(waitingTasks)
      BY <2>1 DEF TakeCandidate, TypeOK, IteratorOK
    <3>2. waitingTasks[scan.it] \in Task /\ RemoveAt(waitingTasks, scan.it) \in Seq(Task)
      BY <3>1, ErasedQueue
    <3>3. QED
      BY <2>1, <3>1, <3>2 DEF TakeCandidate, TypeOK, IteratorOK, NoScan
  <2>2. CASE SkipCandidate(t) /\ UNCHANGED phase
    BY SMTT(30), <2>2 DEF SkipCandidate, TypeOK, IteratorOK
  <2>3. CASE EndRelease(t) /\ UNCHANGED phase
    BY <2>3 DEF EndRelease, NoScan, TypeOK, IteratorOK
  <2>4. QED
    BY <1>3, <2>1, <2>2, <2>3 DEF Scan
<1>4. ASSUME NEW t \in Task, Submit(t)
      PROVE  TypeOK' /\ IteratorOK'
  BY <1>4 DEF Submit, SubmitSatisfiedCommutative, TypeOK, IteratorOK
<1>5. CASE UNCHANGED vars
  BY <1>5 DEF vars, semaphoreVars, TypeOK, IteratorOK
<1>6. QED
  BY <1>1, <1>2, <1>3, <1>4, <1>5 DEF Next

(* The state has its shape in every reachable state.                       *)
THEOREM TypeCorrect == Spec => []TypeOK
<1>1. TypeOK /\ IteratorOK => TypeOK
  OBVIOUS
<1>2. QED
  BY InitType, TypeStep, <1>1, PTL DEF Spec

-----------------------------------------------------------------------------
(* _mask is exact while the owners of bits are disjoint, and they are      *)
(* disjoint while _mask is exact.                                          *)
Exact == Exclusion /\ MaskIsHolders

LEMMA Acquire ==
  ASSUME Exact, NEW t \in Task, MaskIsCompatible(commutativeMask[t]),
         mask' = mask \cup commutativeMask[t],
         holding' = holding \cup {t},
         commutativeMask' = commutativeMask
  PROVE  Exact'
<1>1. MaskIsHolders'
  BY DEF Exact, MaskIsHolders
<1>2. \A u \in holding : commutativeMask[u] \cap commutativeMask[t] = {}
  BY DEF Exact, MaskIsHolders, MaskIsCompatible
<1>3. Exclusion'
  BY <1>2 DEF Exact, Exclusion
<1>4. QED
  BY <1>1, <1>3 DEF Exact

LEMMA ExactStep == TypeOK /\ IteratorOK /\ Exact /\ [Next]_vars => Exact'
<1> SUFFICES ASSUME TypeOK, IteratorOK, Exact, [Next]_vars
             PROVE  Exact'
  OBVIOUS
<1>1. ASSUME NEW t \in Task, RegisterAcquires(t)
      PROVE  Exact'
  BY <1>1, Acquire DEF RegisterAcquires
<1>2. ASSUME NEW t \in Task, BeginRelease(t)
      PROVE  Exact'
  <2>1. Exclusion'
    BY <1>2 DEF BeginRelease, Exact, Exclusion
  <2>2. mask' = UNION {commutativeMask[u] : u \in holding \ {t}}
    BY <1>2 DEF BeginRelease, Exact, Exclusion, MaskIsHolders
  <2>3. QED
    BY <1>2, <2>1, <2>2 DEF BeginRelease, Exact, MaskIsHolders
<1>3. ASSUME NEW t \in Task, TakeCandidate(t)
      PROVE  Exact'
  <2>1. scan.it \in 1 .. Len(waitingTasks)
    BY <1>3, NoTaskAssumption DEF TakeCandidate, TypeOK, IteratorOK
  <2>2. waitingTasks[scan.it] \in Task
    BY <2>1, ErasedQueue
  <2>3. QED
    BY <1>3, <2>2, Acquire DEF TakeCandidate
<1>4. ASSUME UNCHANGED <<commutativeMask, mask, holding>>
      PROVE  Exact'
  BY <1>4 DEF Exact, Exclusion, MaskIsHolders
<1>5. QED
  BY <1>1, <1>2, <1>3, <1>4
  DEF Next, Register, RegisterWaits, Release, Scan, SkipCandidate, EndRelease, Submit,
      SubmitSatisfiedCommutative, vars, semaphoreVars

LEMMA InitExact == Init => Exact
BY DEF Init, InitFree, Exact, Exclusion, MaskIsHolders

(* Two tasks that share a bit never own it together.                       *)
THEOREM ExclusionHolds == Spec => []Exclusion
<1>1. Exact => Exclusion
  BY DEF Exact
<1>2. QED
  BY InitType, TypeStep, InitExact, ExactStep, <1>1, PTL DEF Spec

(* _mask holds the bits of the owners, no more and no fewer.               *)
THEOREM MaskIsExact == Spec => []MaskIsHolders
<1>1. Exact => MaskIsHolders
  BY DEF Exact
<1>2. QED
  BY InitType, TypeStep, InitExact, ExactStep, <1>1, PTL DEF Spec

-----------------------------------------------------------------------------
(* Every candidate of the queue is kept by a bit that is taken, or that the*)
(* release under way will still offer.                                     *)
Covered == NoLostWakeUp /\ ScanCovers

LEMMA InitCovered == Init => Covered
BY DEF Init, InitFree, NoScan, Covered, NoLostWakeUp, ScanCovers, Waiting

LEMMA CoveredStep == TypeOK /\ Covered /\ [Next]_vars => Covered'
<1> SUFFICES ASSUME TypeOK, Covered, [Next]_vars
             PROVE  Covered'
  OBVIOUS
<1> USE NoTaskAssumption
<1>0. IteratorOK
  BY DEF IteratorOK, Covered, ScanCovers
<1>1. ASSUME NEW t \in Task, RegisterAcquires(t)
      PROVE  Covered'
  BY <1>1 DEF RegisterAcquires, LockFree, Covered, NoLostWakeUp, ScanCovers, Waiting,
              MaskIsCompatible
<1>2. ASSUME NEW t \in Task, RegisterWaits(t)
      PROVE  Covered'
  <2>1. \A u \in Waiting' : u \in Waiting \/ u = t
    <3>1. DOMAIN waitingTasks = 1 .. Len(waitingTasks) /\ Len(waitingTasks) \in Nat
      BY DEF TypeOK
    <3>2. QED
      BY <1>2, <3>1, AppendedQueue DEF RegisterWaits, Waiting
  <2>2. \A u \in Waiting : ~MaskIsCompatible(commutativeMask[u])
    BY <1>2 DEF RegisterWaits, LockFree, Covered, NoLostWakeUp
  <2>3. NoLostWakeUp'
    BY <1>2, <2>1, <2>2 DEF RegisterWaits, NoLostWakeUp, MaskIsCompatible
  <2>4. ScanCovers'
    BY <1>2 DEF RegisterWaits, LockFree, ScanCovers
  <2>5. QED
    BY <2>3, <2>4 DEF Covered
<1>3. ASSUME NEW t \in Task, BeginRelease(t)
      PROVE  Covered'
  <2>1. \A i \in DOMAIN waitingTasks : mask \cap commutativeMask[waitingTasks[i]] # {}
    BY <1>3 DEF BeginRelease, LockFree, Covered, NoLostWakeUp, MaskIsCompatible, Waiting
  <2>2. mask \subseteq mask' \cup (commutativeMask[t] \ {})
    BY <1>3 DEF BeginRelease
  <2>3. scan' = [owner |-> t, it |-> 1, released |-> {}]
        /\ waitingTasks' = waitingTasks /\ commutativeMask' = commutativeMask
    BY <1>3 DEF BeginRelease
  <2>4. DOMAIN waitingTasks \subseteq Nat \ {0}
    BY DEF TypeOK
  <2>5. \A i \in DOMAIN waitingTasks : ~(i < 1)
    BY <2>4
  <2>6. ScanCovers'
    BY <2>1, <2>2, <2>3, <2>5 DEF ScanCovers
  <2>7. NoLostWakeUp'
    BY <2>3 DEF NoLostWakeUp, LockFree
  <2>8. QED
    BY <2>6, <2>7 DEF Covered
<1>4. ASSUME NEW t \in Task, TakeCandidate(t)
      PROVE  Covered'
  <2> DEFINE candidate == waitingTasks[scan.it]
             released == scan.released \cup (commutativeMask[t] \cap commutativeMask[candidate])
             left == commutativeMask[t] \ scan.released
  <2>1. scan.it \in 1 .. Len(waitingTasks)
    BY <1>4, <1>0 DEF TakeCandidate, TypeOK, IteratorOK
  <2>2. /\ DOMAIN waitingTasks = 1 .. Len(waitingTasks) /\ Len(waitingTasks) \in Nat
        /\ DOMAIN waitingTasks' = 1 .. Len(waitingTasks) - 1
        /\ \A j \in DOMAIN waitingTasks' :
             waitingTasks'[j] = IF j < scan.it THEN waitingTasks[j] ELSE waitingTasks[j + 1]
    <3>1. waitingTasks' = RemoveAt(waitingTasks, scan.it)
      BY <1>4 DEF TakeCandidate
    <3>2. DOMAIN waitingTasks = 1 .. Len(waitingTasks) /\ Len(waitingTasks) \in Nat
      BY DEF TypeOK
    <3>3. QED
      BY <2>1, <3>1, <3>2, ErasedQueue
  <2>3. /\ mask' = mask \cup commutativeMask[candidate]
        /\ commutativeMask' = commutativeMask
        /\ scan' = IF released = commutativeMask[t]
                   THEN NoScan ELSE [scan EXCEPT !.released = released]
        /\ scan.owner = t
    BY <1>4 DEF TakeCandidate
  <2>4. mask \cup left \subseteq mask' \cup (commutativeMask[t] \ released)
    BY <2>3
  <2>5. ASSUME NEW j \in DOMAIN waitingTasks', j < scan.it
        PROVE  mask' \cap commutativeMask[waitingTasks'[j]] # {}
    <3>1. waitingTasks'[j] = waitingTasks[j] /\ j \in DOMAIN waitingTasks
      BY <2>2, <2>5
    <3>2. mask \cap commutativeMask[waitingTasks[j]] # {}
      BY <2>3, <2>5, <3>1 DEF Covered, ScanCovers, MaskIsCompatible
    <3>3. QED
      BY <2>3, <3>1, <3>2
  <2>6. ASSUME NEW j \in DOMAIN waitingTasks', ~(j < scan.it)
        PROVE  commutativeMask[waitingTasks'[j]]
                 \cap (mask' \cup (commutativeMask[t] \ released)) # {}
    <3>1. /\ waitingTasks'[j] = waitingTasks[j + 1]
          /\ j + 1 \in DOMAIN waitingTasks /\ ~(j + 1 < scan.it)
      BY <2>1, <2>2, <2>6
    <3>2. commutativeMask[waitingTasks[j + 1]] \cap (mask \cup left) # {}
      BY <2>3, <3>1 DEF Covered, ScanCovers
    <3>3. QED
      BY <2>4, <3>1, <3>2
  <2>7. CASE released = commutativeMask[t]
    <3>1. \A j \in DOMAIN waitingTasks' : mask' \cap commutativeMask[waitingTasks'[j]] # {}
      BY <2>5, <2>6, <2>7
    <3>2. NoLostWakeUp'
      BY <2>3, <3>1 DEF NoLostWakeUp, Waiting, MaskIsCompatible
    <3>3. ScanCovers'
      BY <2>3, <2>7 DEF ScanCovers, NoScan
    <3>4. QED
      BY <3>2, <3>3 DEF Covered
  <2>8. CASE released # commutativeMask[t]
    <3>1. /\ scan'.owner = t /\ scan'.it = scan.it /\ scan'.released = released
      BY <2>3, <2>8 DEF TypeOK
    <3>2. ScanCovers'
      <4> HIDE DEF released
      <4>1. QED
        BY <2>1, <2>3, <2>5, <2>6, <3>1 DEF ScanCovers, MaskIsCompatible
    <3>3. NoLostWakeUp'
      BY <3>1 DEF NoLostWakeUp, LockFree
    <3>4. QED
      BY <3>2, <3>3 DEF Covered
  <2>9. QED
    BY <2>7, <2>8
<1>5. ASSUME NEW t \in Task, SkipCandidate(t)
      PROVE  Covered'
  <2>1. /\ scan'.owner = t /\ scan'.it = scan.it + 1 /\ scan'.released = scan.released
        /\ UNCHANGED <<commutativeMask, mask, waitingTasks>>
        /\ scan.owner = t /\ scan.it \in Nat
        /\ ~MaskIsCompatible(commutativeMask[waitingTasks[scan.it]])
    BY <1>5 DEF SkipCandidate, TypeOK
  <2>2. \A i \in DOMAIN waitingTasks : i \in Nat
    BY DEF TypeOK
  <2>3. \A i \in DOMAIN waitingTasks : i < scan.it + 1 <=> i < scan.it \/ i = scan.it
    BY <2>1, <2>2
  <2>4. ScanCovers'
    BY <2>1, <2>3 DEF Covered, ScanCovers, MaskIsCompatible
  <2>5. NoLostWakeUp'
    BY <2>1 DEF NoLostWakeUp, LockFree
  <2>6. QED
    BY <2>4, <2>5 DEF Covered
<1>6. ASSUME NEW t \in Task, EndRelease(t)
      PROVE  Covered'
  <2>1. \A i \in DOMAIN waitingTasks : i < scan.it
    BY <1>6 DEF EndRelease, TypeOK
  <2>2. \A i \in DOMAIN waitingTasks : ~MaskIsCompatible(commutativeMask[waitingTasks[i]])
    BY <1>6, <2>1 DEF EndRelease, Covered, ScanCovers
  <2>3. QED
    BY <1>6, <2>2
    DEF EndRelease, NoScan, Covered, NoLostWakeUp, ScanCovers, Waiting, MaskIsCompatible
<1>7. ASSUME UNCHANGED <<commutativeMask, mask, waitingTasks, scan>>
      PROVE  Covered'
  BY <1>7 DEF Covered, NoLostWakeUp, ScanCovers, LockFree, Waiting, MaskIsCompatible
<1>8. QED
  BY <1>1, <1>2, <1>3, <1>4, <1>5, <1>6, <1>7
  DEF Next, Register, Release, Scan, Submit, SubmitSatisfiedCommutative, vars, semaphoreVars

(* Outside a release every queued task is kept by a bit a task still owns: *)
(* the early exit of the scan leaves no task behind.                       *)
THEOREM NoWakeUpIsLost == Spec => []NoLostWakeUp
<1>1. Covered => NoLostWakeUp
  BY DEF Covered
<1>2. QED
  BY InitType, TypeStep, InitCovered, CoveredStep, <1>1, PTL DEF Spec

(* Both sides of the iterator during a release.                            *)
THEOREM ScanLosesNothing == Spec => []ScanCovers
<1>1. Covered => ScanCovers
  BY DEF Covered
<1>2. QED
  BY InitType, TypeStep, InitCovered, CoveredStep, <1>1, PTL DEF Spec
=============================================================================
