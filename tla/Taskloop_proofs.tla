--------------------------- MODULE Taskloop_proofs ---------------------------
(***************************************************************************)
(* For any loop whose bounds do not wrap around, any grainsize and any     *)
(* number of CPUs: the chunks of the children partition the iterations.    *)
(* The lower bound of the source is where the last chunk ended, and it     *)
(* moves by at least one iteration and never past the upper bound.         *)
(* These chunks are the ones that were registered, and the accesses fit.   *)
(***************************************************************************)
EXTENDS Taskloop, FiniteSetTheorems, SequenceTheorems, TLAPS

End(k) == IF k = 0 THEN taskloop.lower ELSE childChunks[k].bounds[2]

Follows(k) ==
  /\ childChunks[k].bounds[1] = End(k - 1)
  /\ End(k - 1) < End(k)

LoopOK ==
  /\ taskloop \in Taskloops
  /\ lowerBound \in taskloop.lower..taskloop.upper
  /\ progress # "create" => grain \in Nat \ {0} /\ taskloop.upper + grain < Modulus
  /\ childChunks \in Seq([bounds : Size \X Size, room : {maxChildDeps}])

NotYet ==
  progress \in {"create", "register"} => childChunks = <<>> /\ lowerBound = taskloop.lower

Partitioned ==
  /\ \A k \in 1..Len(childChunks) : Follows(k)
  /\ lowerBound = End(Len(childChunks))
  /\ progress = "done" => lowerBound = taskloop.upper

IInv == LoopOK /\ NotYet /\ Partitioned

-----------------------------------------------------------------------------
(* Below the modulus size_t arithmetic is that of the numbers.             *)
LEMMA WrapIsIdentity ==
  ASSUME NEW n \in Size
  PROVE  Wrap(n) = n
  BY TaskloopAssumption DEF Wrap, Size

(* The bounds of a loop are sizes.                                         *)
LEMMA LoopBounds ==
  ASSUME taskloop \in Taskloops
  PROVE  /\ taskloop.lower \in Size /\ taskloop.upper \in Size
         /\ taskloop.grainsize \in Size
         /\ taskloop.lower <= taskloop.upper
         /\ taskloop.upper + GrainSize(taskloop.upper - taskloop.lower, taskloop.grainsize) < Modulus
  BY TaskloopAssumption, NoWrapAssumption

(* A chunk has at least one iteration (nanos6_create_loop sets the grain). *)
LEMMA GrainIsPositive ==
  ASSUME NEW n \in Nat, NEW g \in Size
  PROVE  GrainSize(n, g) \in Nat \ {0}
<1>1. n \div NosvCpus \in Int
  BY TaskloopAssumption DEF Size
<1>2. QED
  BY <1>1, TaskloopAssumption DEF GrainSize, Larger, Size

(* While the lower bound is within the loop, the count of the iterations   *)
(* that are left does not wrap around.                                     *)
LEMMA IterationsLeft ==
  ASSUME LoopOK
  PROVE  IterationCount = taskloop.upper - lowerBound
<1>1. taskloop.upper - lowerBound \in Size
  BY LoopBounds, TaskloopAssumption DEF LoopOK, Size
<1>2. QED
  BY <1>1, WrapIsIdentity DEF IterationCount

(* The chunk createTaskloopExecutor cuts off is not empty and ends at the  *)
(* upper bound at the latest.                                              *)
LEMMA ChunkCutOff ==
  ASSUME LoopOK, progress = "ready", IterationCount > 0,
         NEW upper, upper = Smaller(Wrap(lowerBound + grain), taskloop.upper)
  PROVE  /\ lowerBound \in Size /\ upper \in Size
         /\ lowerBound < upper /\ upper <= taskloop.upper
<1>1. lowerBound < taskloop.upper
  BY IterationsLeft, LoopBounds DEF LoopOK, Size
<1>2. lowerBound + grain \in Size
  BY <1>1, LoopBounds, TaskloopAssumption DEF LoopOK, Size
<1>3. upper = Smaller(lowerBound + grain, taskloop.upper)
  BY <1>2, WrapIsIdentity
<1>4. QED
  BY <1>1, <1>2, <1>3, LoopBounds, TaskloopAssumption DEF LoopOK, Size, Smaller

(* Before the loop is created nothing was cut off.                         *)
LEMMA Initial == TaskloopInit => IInv
<1> SUFFICES ASSUME TaskloopInit PROVE IInv
  OBVIOUS
<1>1. taskloop.lower \in Int /\ taskloop.upper \in Int /\ taskloop.lower <= taskloop.upper
  BY LoopBounds, TaskloopAssumption DEF TaskloopInit, Size
<1>2. LoopOK
  BY <1>1 DEF TaskloopInit, LoopOK
<1>3. NotYet /\ Partitioned
  BY <1>1 DEF TaskloopInit, NotYet, Partitioned, End
<1>4. QED
  BY <1>2, <1>3 DEF IInv

(* nanos6_create_loop.                                                     *)
LEMMA CreateLoopStep ==
  ASSUME IInv, CreateLoop
  PROVE  IInv'
<1>1. IterationCount = taskloop.upper - taskloop.lower
  BY IterationsLeft DEF IInv, NotYet, CreateLoop
<1>2. IterationCount \in Nat
  BY <1>1, LoopBounds, TaskloopAssumption DEF IInv, LoopOK, Size
<1>3. LoopOK'
  BY <1>1, <1>2, GrainIsPositive, LoopBounds DEF IInv, LoopOK, CreateLoop
<1>4. NotYet' /\ Partitioned'
  BY DEF IInv, NotYet, Partitioned, Follows, End, CreateLoop
<1>5. QED
  BY <1>3, <1>4 DEF IInv

(* createTaskloopExecutor: the new chunk follows the last one.             *)
LEMMA GenerateChildStep ==
  ASSUME IInv, GenerateChild
  PROVE  IInv'
<1> DEFINE upper == Smaller(Wrap(lowerBound + grain), taskloop.upper)
           chunk == [bounds |-> <<lowerBound, upper>>, room |-> maxChildDeps]
<1>0. PICK n \in Nat : n = Len(childChunks)
  BY DEF IInv, LoopOK
<1>1. /\ progress = "ready" /\ progress' = progress
      /\ IterationCount > 0
      /\ childChunks' = Append(childChunks, chunk)
      /\ lowerBound' = upper
      /\ UNCHANGED <<taskloop, grain, maxChildDeps>>
  BY DEF GenerateChild
<1>2. /\ lowerBound \in Size /\ upper \in Size
      /\ lowerBound < upper /\ upper <= taskloop.upper
  BY <1>1, ChunkCutOff DEF IInv
<1> HIDE DEF upper
<1>3. /\ chunk \in [bounds : Size \X Size, room : {maxChildDeps}]
      /\ chunk.bounds[1] = lowerBound /\ chunk.bounds[2] = upper
  BY <1>2
<1> HIDE DEF chunk
<1>4. /\ childChunks' \in Seq([bounds : Size \X Size, room : {maxChildDeps}])
      /\ Len(childChunks') = n + 1
      /\ childChunks'[n + 1] = chunk
      /\ \A k \in 1..n : childChunks'[k] = childChunks[k]
  BY <1>0, <1>1, <1>3 DEF IInv, LoopOK
<1>5. LoopOK'
  BY <1>1, <1>2, <1>4, LoopBounds, TaskloopAssumption DEF IInv, LoopOK, Size
<1>6. End(n + 1)' = upper /\ \A k \in 0..n : End(k)' = End(k)
  BY <1>1, <1>3, <1>4 DEF End
<1>7. Partitioned'
  <2>1. ASSUME NEW k \in 1..n PROVE Follows(k)'
    BY <1>0, <1>4, <1>6 DEF IInv, Partitioned, Follows
  <2>2. Follows(n + 1)'
    BY <1>0, <1>2, <1>3, <1>4, <1>6 DEF IInv, Partitioned, Follows
  <2>3. QED
    BY <1>1, <1>4, <1>6, <2>1, <2>2 DEF Partitioned
<1>8. QED
  BY <1>1, <1>5, <1>7 DEF IInv, NotYet

(* Every step of nanos6_create_loop, of the registration and of the        *)
(* generation keeps the invariant.                                         *)
LEMMA Inductive == IInv /\ [TaskloopNext]_taskloopVars => IInv'
<1> SUFFICES ASSUME IInv, [TaskloopNext]_taskloopVars PROVE IInv'
  OBVIOUS
<1>1. CASE CreateLoop
  BY <1>1, CreateLoopStep
<1>2. CASE RegisterChunk
  BY <1>2 DEF IInv, LoopOK, NotYet, Partitioned, Follows, End, RegisterChunk
<1>3. CASE EndRegistration
  BY <1>3 DEF IInv, LoopOK, NotYet, Partitioned, Follows, End, EndRegistration
<1>4. CASE GenerateChild
  BY <1>4, GenerateChildStep
<1>5. CASE EndGeneration
  <2>1. lowerBound = taskloop.upper
    BY <1>5, IterationsLeft, LoopBounds DEF IInv, LoopOK, EndGeneration, Size
  <2>2. QED
    BY <1>5, <2>1 DEF IInv, LoopOK, NotYet, Partitioned, Follows, End, EndGeneration
<1>6. CASE UNCHANGED taskloopVars
  BY <1>6 DEF IInv, LoopOK, NotYet, Partitioned, Follows, End, taskloopVars
<1>7. QED
  BY <1>1, <1>2, <1>3, <1>4, <1>5, <1>6 DEF TaskloopNext

(* Every iteration of the loop is in one chunk: the chunks follow each     *)
(* other without a gap, none is empty, and the last one ends the loop      *)
(* (createTaskloopExecutor, generateChildTasks).                           *)
THEOREM LoopIsPartitioned == TaskloopSpec => []ChunksPartitionLoop
<1>1. IInv => ChunksPartitionLoop
  <2> SUFFICES ASSUME IInv PROVE ChunksPartitionLoop
    OBVIOUS
  <2>1. DOMAIN childChunks = 1..Len(childChunks)
    BY DEF IInv, LoopOK
  <2>2. QED
    BY <2>1 DEF IInv, Partitioned, Follows, End, ChunksPartitionLoop
<1>2. QED
  BY <1>1, Initial, Inductive, PTL DEF TaskloopSpec

-----------------------------------------------------------------------------
(* The chunks of the source and of the children.  Both are the same: the   *)
(* lower bound of the source, after k children, is where the registration  *)
(* put the k-th chunk by multiplication.                                   *)
NumChunks == Ceil(taskloop.upper - taskloop.lower, grain)
Bound(k)  == taskloop.lower + k * grain
Bounds(k) == <<Bound(k - 1), Smaller(Bound(k), taskloop.upper)>>
Calls(k)  == Registrations(Bounds(k)[1], Bounds(k)[2])

ChunksOK ==
  /\ chunks \in Seq(Size \X Size) /\ maxChildDeps \in Nat
  /\ progress = "create" => chunks = <<>>
  /\ progress # "create" => Len(chunks) <= NumChunks
  /\ \A k \in 1..Len(chunks) : chunks[k] = Bounds(k) /\ Calls(k) <= maxChildDeps
  /\ progress \in {"ready", "done"} => Len(chunks) = NumChunks

RoomOK ==
  /\ taskloop.numDeps = Dynamic /\ progress # "create" => room = Dynamic
  /\ taskloop.numDeps # Dynamic => registered = Len(chunks) * taskloop.numDeps
  /\ taskloop.numDeps # Dynamic /\ progress # "create" => room = NumChunks * taskloop.numDeps

ChildrenOK ==
  /\ \A k \in 1..Len(childChunks) : childChunks[k].bounds = Bounds(k)
  /\ lowerBound = Smaller(Bound(Len(childChunks)), taskloop.upper)
  /\ progress # "create" => Len(childChunks) <= NumChunks
  /\ progress = "done" => Len(childChunks) = NumChunks
  /\ progress \in {"create", "register", "ready", "done"}

Fit == IInv /\ ChunksOK /\ RoomOK /\ ChildrenOK

(* Multiples of the grain are ordered like their factors.                  *)
LEMMA Multiples ==
  ASSUME NEW i \in Int, NEW j \in Int, NEW g \in Nat \ {0}, i * g < j * g
  PROVE  i < j
<1>1. SUFFICES ASSUME i >= j PROVE FALSE
  OBVIOUS
<1>2. PICK d \in Nat : i = j + d
  BY <1>1
<1>3. i * g = j * g + d * g
  BY <1>2
<1>4. d * g \in Nat
  OBVIOUS
<1>5. QED
  BY <1>3, <1>4

(* How many chunks of g iterations n iterations have: one less is not      *)
(* enough (MathSupport::ceil).                                             *)
LEMMA ChunkCount ==
  ASSUME NEW n \in Nat, NEW g \in Nat \ {0}, n + g < Modulus
  PROVE  Ceil(n, g) \in Nat /\ n <= Ceil(n, g) * g /\ (Ceil(n, g) - 1) * g < n
<1>1. Wrap(g - 1) = g - 1 /\ Wrap(n + (g - 1)) = n + g - 1
  BY WrapIsIdentity, TaskloopAssumption DEF Size
<1>2. Ceil(n, g) = (n + g - 1) \div g
  BY <1>1 DEF Ceil
<1> DEFINE c == (n + g - 1) \div g
<1>3. c \in Nat /\ c * g <= n + g - 1 /\ n + g - 1 < c * g + g
  OBVIOUS
<1>4. (c - 1) * g = c * g - g
  BY <1>3
<1> HIDE DEF c
<1>5. n <= c * g /\ (c - 1) * g < n
  BY <1>3, <1>4
<1>6. QED
  BY <1>2, <1>3, <1>5 DEF c

(* The same of the loop.                                                   *)
LEMMA LoopCount ==
  ASSUME LoopOK, progress # "create"
  PROVE  /\ taskloop.lower \in Nat /\ taskloop.upper \in Nat /\ grain \in Nat \ {0}
         /\ taskloop.upper + grain < Modulus
         /\ NumChunks \in Nat
         /\ taskloop.upper - taskloop.lower <= NumChunks * grain
         /\ (NumChunks - 1) * grain < taskloop.upper - taskloop.lower
<1>1. /\ taskloop.lower \in Nat /\ taskloop.upper \in Nat /\ grain \in Nat \ {0}
      /\ taskloop.upper + grain < Modulus /\ taskloop.lower <= taskloop.upper
  BY LoopBounds, TaskloopAssumption DEF LoopOK, Size
<1> DEFINE n == taskloop.upper - taskloop.lower
<1>2. n \in Nat /\ n + grain < Modulus
  BY <1>1, TaskloopAssumption
<1> HIDE DEF n
<1>3. Ceil(n, grain) \in Nat /\ n <= Ceil(n, grain) * grain /\ (Ceil(n, grain) - 1) * grain < n
  BY <1>1, <1>2, ChunkCount
<1>4. QED
  BY <1>1, <1>3 DEF NumChunks, n

(* A chunk registers a number of accesses.                                 *)
LEMMA CallsAreCounted ==
  ASSUME taskloop \in Taskloops, NEW i, NEW j
  PROVE  Registrations(i, j) \in Nat
<1>1. taskloop.accessing \subseteq Size /\ taskloop.numDeps \in Size \cup {Dynamic}
  BY TaskloopAssumption
<1> DEFINE S == {a \in taskloop.accessing : i <= a /\ a < j}
<1>2. IsFiniteSet(Size)
  BY FS_Interval, TaskloopAssumption DEF Size
<1>3. Cardinality(S) \in Nat
  BY <1>1, <1>2, FS_Subset, FS_CardinalityType
<1>4. QED
  BY <1>1, <1>3 DEF Registrations, Size

(* The chunk after k chunks, within the loop, does not wrap around.        *)
LEMMA NextChunk ==
  ASSUME LoopOK, progress # "create", NEW k \in Nat, Bound(k) < taskloop.upper
  PROVE  /\ Wrap(Bound(k)) = Bound(k) /\ Bound(k) \in Size
         /\ Wrap(Bound(k) + grain) = Bound(k + 1) /\ Bound(k + 1) \in Size
         /\ Bound(k) < Bound(k + 1)
         /\ k < NumChunks
<1>1. /\ taskloop.lower \in Nat /\ taskloop.upper \in Nat /\ grain \in Nat \ {0}
      /\ taskloop.upper + grain < Modulus /\ NumChunks \in Nat
      /\ taskloop.upper - taskloop.lower <= NumChunks * grain
  BY LoopCount
<1>2. k * grain \in Nat /\ (k + 1) * grain = k * grain + grain /\ NumChunks * grain \in Nat
  BY <1>1
<1>3. Bound(k) \in Nat /\ Bound(k + 1) = Bound(k) + grain
  BY <1>1, <1>2 DEF Bound
<1>4. k * grain < NumChunks * grain
  BY <1>1, <1>2 DEF Bound
<1>5. k < NumChunks
  BY <1>1, <1>4, Multiples
<1>6. Bound(k) \in Size /\ Bound(k) + grain \in Size
  BY <1>1, <1>3, TaskloopAssumption DEF Size
<1>7. QED
  BY <1>1, <1>3, <1>5, <1>6, WrapIsIdentity

(* No chunk that is counted starts behind the loop.                        *)
LEMMA ChunkInLoop ==
  ASSUME LoopOK, progress # "create", NEW k \in Nat, k < NumChunks
  PROVE  Bound(k) < taskloop.upper
<1>1. /\ taskloop.lower \in Nat /\ taskloop.upper \in Nat /\ grain \in Nat \ {0}
      /\ NumChunks \in Nat
      /\ (NumChunks - 1) * grain < taskloop.upper - taskloop.lower
  BY LoopCount
<1>2. ~((NumChunks - 1) * grain < k * grain)
  BY <1>1, Multiples
<1>3. k * grain \in Nat /\ (NumChunks - 1) * grain \in Int
  BY <1>1
<1>4. QED
  BY <1>1, <1>2, <1>3 DEF Bound

LEMMA FitInitially == TaskloopInit => Fit
<1> SUFFICES ASSUME TaskloopInit PROVE Fit
  OBVIOUS
<1>1. taskloop.lower \in Nat /\ taskloop.upper \in Nat /\ taskloop.lower <= taskloop.upper
  BY LoopBounds, TaskloopAssumption DEF TaskloopInit, Size
<1>2. ChunksOK
  BY DEF TaskloopInit, ChunksOK
<1>3. RoomOK
  BY <1>1, TaskloopAssumption DEF TaskloopInit, RoomOK, Size
<1>4. ChildrenOK
  BY <1>1 DEF TaskloopInit, ChildrenOK, Bound, Smaller
<1>5. QED
  BY <1>2, <1>3, <1>4, Initial DEF Fit

(* nanos6_create_loop gives the source room for the accesses of all chunks.*)
LEMMA FitAfterCreate ==
  ASSUME Fit, CreateLoop
  PROVE  Fit'
<1> DEFINE n == taskloop.upper - taskloop.lower
<1>0. IInv'
  BY CreateLoopStep DEF Fit
<1>1. IterationCount = n /\ n \in Nat /\ taskloop \in Taskloops
  BY IterationsLeft, LoopBounds, TaskloopAssumption DEF Fit, IInv, LoopOK, NotYet, CreateLoop, Size
<1>2. /\ progress = "create" /\ progress' = "register"
      /\ grain' = GrainSize(n, taskloop.grainsize)
      /\ room' = IF taskloop.numDeps = Dynamic THEN Dynamic
                 ELSE Wrap(taskloop.numDeps * ComputeNumTasks(n, taskloop.grainsize))
      /\ UNCHANGED <<taskloop, lowerBound, chunks, registered, maxChildDeps, childChunks>>
  BY <1>1 DEF CreateLoop
<1>3. grain' \in Nat \ {0} /\ n + grain' < Modulus
  BY <1>0, <1>2, LoopBounds, TaskloopAssumption DEF IInv, LoopOK, Size
<1>4. NumChunks' = Ceil(n, grain') /\ NumChunks' = ComputeNumTasks(n, taskloop.grainsize)
  BY <1>2 DEF NumChunks, ComputeNumTasks
<1>5. NumChunks' \in Nat
  BY <1>1, <1>3, <1>4, ChunkCount
<1>6. chunks = <<>> /\ childChunks = <<>> /\ lowerBound = taskloop.lower
  BY <1>2 DEF Fit, IInv, ChunksOK, NotYet
<1>7. ChunksOK'
  BY <1>2, <1>5, <1>6 DEF Fit, ChunksOK
<1>8. RoomOK'
  <2>1. CASE taskloop.numDeps = Dynamic
    BY <1>2, <2>1 DEF RoomOK
  <2>2. CASE taskloop.numDeps # Dynamic
    <3>1. taskloop.numDeps \in Size
      BY <1>1, <2>2, TaskloopAssumption
    <3>2. taskloop.numDeps * NumChunks' < Modulus
      BY <1>1, <1>4, <2>2, RoomAssumption
    <3>3. taskloop.numDeps * NumChunks' \in Size
      BY <1>5, <3>1, <3>2, TaskloopAssumption DEF Size
    <3>4. room' = taskloop.numDeps * NumChunks'
      BY <1>2, <1>4, <2>2, <3>3, WrapIsIdentity
    <3>5. taskloop.numDeps * NumChunks' = NumChunks' * taskloop.numDeps
      BY <1>5, <3>1 DEF Size
    <3>6. QED
      BY <1>2, <2>2, <3>4, <3>5 DEF Fit, RoomOK
  <2>3. QED
    BY <2>1, <2>2
<1>9. ChildrenOK'
  <2>1. taskloop.lower \in Nat /\ taskloop.upper \in Nat /\ taskloop.lower <= taskloop.upper
    BY <1>1, LoopBounds, TaskloopAssumption DEF Size
  <2>2. Bound(0)' = taskloop.lower
    BY <1>2, <1>3, <2>1 DEF Bound
  <2>3. QED
    BY <1>2, <1>5, <1>6, <2>1, <2>2 DEF ChildrenOK, Smaller
<1>10. QED
  BY <1>0, <1>7, <1>8, <1>9 DEF Fit

(* registerDependencies, one chunk.                                        *)
LEMMA FitAfterChunk ==
  ASSUME Fit, RegisterChunk
  PROVE  Fit'
<1>0. IInv'
  BY Inductive DEF Fit, TaskloopNext
<1>1. /\ progress = "register" /\ progress' = "register" /\ Len(chunks) < NumTasks
      /\ UNCHANGED <<taskloop, lowerBound, grain, room, childChunks>>
  BY DEF RegisterChunk
<1>2. LoopOK /\ NumTasks = NumChunks
  BY <1>1, IterationsLeft
     DEF Fit, IInv, LoopOK, NotYet, NumTasks, NumChunks, ComputeNumTasks, GrainSize
<1>3. PICK k \in Nat : k = Len(chunks)
  BY DEF Fit, ChunksOK
<1>4. k < NumChunks /\ NumChunks \in Nat /\ taskloop.upper \in Nat
  BY <1>1, <1>2, <1>3, LoopCount
<1>5. Chunk(k) = Bounds(k + 1) /\ Bounds(k + 1) \in Size \X Size
  <2>1. /\ Wrap(Bound(k)) = Bound(k) /\ Bound(k) \in Size
        /\ Wrap(Bound(k) + grain) = Bound(k + 1) /\ Bound(k + 1) \in Size
    BY <1>1, <1>2, <1>4, ChunkInLoop, NextChunk
  <2>2. Chunk(k) = <<Bound(k), Smaller(Bound(k + 1), taskloop.upper)>>
    BY <2>1 DEF Chunk, Bound
  <2>3. Bounds(k + 1) = <<Bound(k), Smaller(Bound(k + 1), taskloop.upper)>>
    BY DEF Bounds
  <2>4. taskloop.upper \in Size
    BY <1>2, LoopBounds DEF LoopOK
  <2>5. QED
    BY <2>1, <2>2, <2>3, <2>4 DEF Smaller
<1>6. PICK calls \in Nat : calls = Calls(k + 1)
  BY <1>2, CallsAreCounted DEF Calls, LoopOK
<1>7. /\ chunks' = Append(chunks, Bounds(k + 1))
      /\ registered' = registered + calls
      /\ maxChildDeps' = Larger(maxChildDeps, calls)
  BY <1>3, <1>5, <1>6 DEF RegisterChunk, Calls
<1>8. NumChunks' = NumChunks /\ \A j \in Int : Bounds(j)' = Bounds(j) /\ Calls(j)' = Calls(j)
  BY <1>1 DEF NumChunks, Bounds, Bound, Calls, Registrations
<1>9. /\ chunks' \in Seq(Size \X Size) /\ Len(chunks') = k + 1
      /\ chunks'[k + 1] = Bounds(k + 1) /\ \A j \in 1..k : chunks'[j] = chunks[j]
  BY <1>3, <1>5, <1>7 DEF Fit, ChunksOK
<1>10. maxChildDeps' \in Nat /\ maxChildDeps <= maxChildDeps' /\ calls <= maxChildDeps'
  BY <1>6, <1>7 DEF Fit, ChunksOK, Larger
<1>11. ChunksOK'
  <2>1. ASSUME NEW j \in 1..(k + 1)
        PROVE  chunks'[j] = Bounds(j) /\ Calls(j) <= maxChildDeps'
    <3>1. CASE j = k + 1
      BY <1>6, <1>9, <1>10, <3>1
    <3>2. CASE j \in 1..k
      <4>1. chunks[j] = Bounds(j) /\ Calls(j) <= maxChildDeps /\ Calls(j) \in Nat
        BY <1>2, <1>3, <3>2, CallsAreCounted DEF Fit, ChunksOK, Calls, LoopOK
      <4>2. QED
        BY <1>9, <1>10, <3>2, <4>1 DEF Fit, ChunksOK
    <3>3. QED
      BY <3>1, <3>2
  <2>2. QED
    BY <1>1, <1>4, <1>8, <1>9, <1>10, <2>1 DEF ChunksOK
<1>12. RoomOK'
  <2>1. ASSUME taskloop.numDeps # Dynamic
        PROVE  registered' = (k + 1) * taskloop.numDeps
    <3>1. calls = taskloop.numDeps /\ registered = k * taskloop.numDeps
      BY <1>3, <1>6, <2>1 DEF Fit, RoomOK, Calls, Registrations
    <3>2. (k + 1) * calls = k * calls + calls
      OBVIOUS
    <3>3. QED
      BY <1>7, <3>1, <3>2
  <2>2. QED
    BY <1>1, <1>8, <1>9, <2>1 DEF Fit, RoomOK
<1>13. ChildrenOK'
  BY <1>1, <1>8 DEF Fit, ChildrenOK, Bound, Bounds, NumChunks
<1>14. QED
  BY <1>0, <1>11, <1>12, <1>13 DEF Fit

(* createTaskloopExecutor cuts off the chunk that was registered.          *)
LEMMA FitAfterChild ==
  ASSUME Fit, GenerateChild
  PROVE  Fit'
<1>0. IInv'
  BY Inductive DEF Fit, TaskloopNext
<1> DEFINE upper == Smaller(Wrap(lowerBound + grain), taskloop.upper)
           chunk == [bounds |-> <<lowerBound, upper>>, room |-> maxChildDeps]
<1>1. /\ progress = "ready" /\ progress' = "ready" /\ IterationCount > 0
      /\ childChunks' = Append(childChunks, chunk) /\ lowerBound' = upper
      /\ UNCHANGED <<taskloop, grain, room, chunks, registered, maxChildDeps>>
  BY DEF GenerateChild
<1>2. LoopOK /\ lowerBound < taskloop.upper /\ taskloop.upper \in Nat
  BY <1>1, IterationsLeft, LoopBounds DEF Fit, IInv, LoopOK, Size
<1>3. PICK k \in Nat : k = Len(childChunks)
  BY <1>2 DEF LoopOK
<1>4. lowerBound = Bound(k) /\ Bound(k) < taskloop.upper
  <2>1. lowerBound = Smaller(Bound(k), taskloop.upper)
    BY <1>3 DEF Fit, ChildrenOK
  <2>2. QED
    BY <1>2, <2>1 DEF Smaller
<1>5. /\ Wrap(Bound(k) + grain) = Bound(k + 1) /\ k < NumChunks /\ NumChunks \in Nat
  BY <1>1, <1>2, <1>3, <1>4, NextChunk, LoopCount
<1>6. upper = Smaller(Bound(k + 1), taskloop.upper) /\ chunk.bounds = Bounds(k + 1)
  BY <1>4, <1>5 DEF Bounds
<1> HIDE DEF upper, chunk
<1>7. /\ Len(childChunks') = k + 1 /\ childChunks'[k + 1] = chunk
      /\ \A j \in 1..k : childChunks'[j] = childChunks[j]
  BY <1>1, <1>2, <1>3 DEF LoopOK
<1>8. /\ NumChunks' = NumChunks
      /\ \A j \in Int : Bounds(j)' = Bounds(j) /\ Bound(j)' = Bound(j) /\ Calls(j)' = Calls(j)
  BY <1>1 DEF NumChunks, Bounds, Bound, Calls, Registrations
<1>9. ChunksOK' /\ RoomOK'
  BY <1>1, <1>3, <1>8 DEF Fit, ChunksOK, RoomOK
<1>10. ChildrenOK'
  <2>1. ASSUME NEW j \in 1..(k + 1) PROVE childChunks'[j].bounds = Bounds(j)
    BY <1>3, <1>6, <1>7 DEF Fit, ChildrenOK
  <2>2. QED
    BY <1>1, <1>5, <1>6, <1>7, <1>8, <2>1 DEF ChildrenOK
<1>11. QED
  BY <1>0, <1>9, <1>10 DEF Fit

(* The registration, and the generation, end with the last chunk.          *)
LEMMA FitAtTheEnd ==
  ASSUME Fit, EndRegistration \/ EndGeneration
  PROVE  Fit'
<1>0. IInv'
  BY Inductive DEF Fit, TaskloopNext
<1>1. /\ progress \in {"register", "ready"}
      /\ UNCHANGED <<taskloop, lowerBound, grain, room, chunks, registered, maxChildDeps,
                     childChunks>>
  BY DEF EndRegistration, EndGeneration
<1>2. LoopOK /\ NumChunks \in Nat
  BY <1>1, LoopCount DEF Fit, IInv
<1>3. /\ NumChunks' = NumChunks
      /\ \A j \in Int : Bounds(j)' = Bounds(j) /\ Bound(j)' = Bound(j) /\ Calls(j)' = Calls(j)
  BY <1>1 DEF NumChunks, Bounds, Bound, Calls, Registrations
<1>4. CASE EndRegistration
  <2>1. NumTasks = NumChunks
    BY <1>2, <1>4, IterationsLeft
       DEF Fit, IInv, LoopOK, NotYet, EndRegistration, NumTasks, NumChunks, ComputeNumTasks,
           GrainSize
  <2>2. progress = "register" /\ progress' = "ready" /\ Len(chunks) = NumChunks
    BY <1>4, <2>1 DEF EndRegistration
  <2>3. ChunksOK' /\ RoomOK' /\ ChildrenOK'
    BY <1>1, <1>3, <2>2 DEF Fit, ChunksOK, RoomOK, ChildrenOK
  <2>4. QED
    BY <1>0, <2>3 DEF Fit
<1>5. CASE EndGeneration
  <2>1. progress = "ready" /\ progress' = "done" /\ lowerBound = taskloop.upper
    BY <1>2, <1>5, IterationsLeft, LoopBounds DEF EndGeneration, LoopOK, Size
  <2>2. PICK k \in Nat : k = Len(childChunks)
    BY <1>2 DEF LoopOK
  <2>3. k <= NumChunks /\ taskloop.upper = Smaller(Bound(k), taskloop.upper)
    BY <2>1, <2>2 DEF Fit, ChildrenOK
  <2>4. ~(k < NumChunks)
    <3>1. SUFFICES ASSUME k < NumChunks PROVE FALSE
      OBVIOUS
    <3>2. Bound(k) < taskloop.upper
      BY <1>1, <1>2, <3>1, ChunkInLoop
    <3>3. taskloop.upper \in Nat /\ Bound(k) \in Int
      BY <1>1, <1>2, LoopCount DEF Bound
    <3>4. QED
      BY <2>3, <3>2, <3>3 DEF Smaller
  <2>5. k = NumChunks
    BY <1>2, <2>3, <2>4
  <2>6. ChunksOK' /\ RoomOK'
    BY <1>1, <1>3, <2>1 DEF Fit, ChunksOK, RoomOK
  <2>7. \A j \in 1..Len(childChunks) : childChunks'[j].bounds = Bounds(j)'
    BY <1>1 DEF Fit, ChildrenOK, Bounds, Bound
  <2>8. ChildrenOK'
    BY <1>1, <1>3, <2>1, <2>2, <2>3, <2>5, <2>7 DEF ChildrenOK
  <2>9. QED
    BY <1>0, <2>6, <2>8 DEF Fit
<1>6. QED
  BY <1>4, <1>5

LEMMA FitInductive == Fit /\ [TaskloopNext]_taskloopVars => Fit'
<1> SUFFICES ASSUME Fit, [TaskloopNext]_taskloopVars PROVE Fit'
  OBVIOUS
<1>1. CASE UNCHANGED taskloopVars
  <2>1. IInv'
    BY <1>1, Inductive DEF Fit
  <2>2. ChunksOK' /\ RoomOK' /\ ChildrenOK'
    BY <1>1 DEF Fit, ChunksOK, RoomOK, ChildrenOK, NumChunks, Bounds, Bound, Calls,
                Registrations, taskloopVars
  <2>3. QED
    BY <2>1, <2>2 DEF Fit
<1>2. QED
  BY <1>1, FitAfterCreate, FitAfterChunk, FitAfterChild, FitAtTheEnd DEF TaskloopNext

(* The children have the chunks the source registered, as many of them, a  *)
(* child has room for what its chunk registers, and the source for what    *)
(* all of them do (createTaskloopExecutor, registerDependencies).          *)
THEOREM RegisteredAccessesFit == TaskloopSpec => []AccessesFit
<1>1. Fit => AccessesFit
  <2> SUFFICES ASSUME Fit PROVE AccessesFit
    OBVIOUS
  <2>1. /\ DOMAIN childChunks = 1..Len(childChunks) /\ DOMAIN chunks = 1..Len(chunks)
        /\ Len(childChunks) \in Nat /\ Len(chunks) \in Nat
    BY DEF Fit, IInv, LoopOK, ChunksOK
  <2>2. progress = "done" => Len(childChunks) = Len(chunks)
    BY DEF Fit, ChunksOK, ChildrenOK
  <2>3. Len(childChunks) > 0 => Len(childChunks) <= Len(chunks)
    <3>1. progress \in {"create", "register"} => Len(childChunks) = 0
      BY DEF Fit, IInv, NotYet
    <3>2. QED
      BY <3>1 DEF Fit, ChunksOK, ChildrenOK
  <2>4. ASSUME NEW k \in DOMAIN childChunks
        PROVE  LET bounds == childChunks[k].bounds
               IN  /\ k \in DOMAIN chunks /\ chunks[k] = bounds
                   /\ Registrations(bounds[1], bounds[2]) <= childChunks[k].room
    <3>1. k \in 1..Len(childChunks) /\ k \in 1..Len(chunks)
      BY <2>1, <2>3
    <3>2. childChunks[k].bounds = Bounds(k) /\ chunks[k] = Bounds(k) /\ Calls(k) <= maxChildDeps
      BY <3>1 DEF Fit, ChunksOK, ChildrenOK
    <3>3. childChunks[k] \in [bounds : Size \X Size, room : {maxChildDeps}]
      BY <3>1, ElementOfSeq DEF Fit, IInv, LoopOK
    <3>4. childChunks[k].room = maxChildDeps
      BY <3>3
    <3>5. QED
      BY <2>1, <3>1, <3>2, <3>4 DEF Calls
  <2>5. room # Dynamic /\ progress # "create" => registered <= room
    <3> SUFFICES ASSUME room # Dynamic, progress # "create" PROVE registered <= room
      OBVIOUS
    <3>1. taskloop.numDeps # Dynamic /\ taskloop.numDeps \in Nat
      BY TaskloopAssumption DEF Fit, RoomOK, IInv, LoopOK, Size
    <3>2. NumChunks \in Nat /\ Len(chunks) <= NumChunks
      BY LoopCount DEF Fit, IInv, ChunksOK
    <3>3. registered = Len(chunks) * taskloop.numDeps /\ room = NumChunks * taskloop.numDeps
      BY <3>1 DEF Fit, RoomOK
    <3>4. PICK d \in Nat : NumChunks = Len(chunks) + d
      BY <2>1, <3>2
    <3>5. NumChunks * taskloop.numDeps = Len(chunks) * taskloop.numDeps + d * taskloop.numDeps
      BY <2>1, <3>1, <3>4
    <3>6. d * taskloop.numDeps \in Nat /\ Len(chunks) * taskloop.numDeps \in Nat
      BY <2>1, <3>1, <3>4
    <3>7. QED
      BY <3>3, <3>5, <3>6
  <2>6. QED
    BY <2>2, <2>4, <2>5 DEF AccessesFit
<1>2. QED
  BY <1>1, FitInitially, FitInductive, PTL DEF TaskloopSpec
=============================================================================
