------------------------------ MODULE Taskloop ------------------------------
(***************************************************************************)
(* tasks/TaskloopMetadata.hpp and .cpp, nanos6_create_loop: a taskloop is  *)
(* a source task that registers the accesses of all its chunks when it is  *)
(* submitted, and creates a child task for each chunk later: when it runs, *)
(* or at once in a taskiter (nanos6_submit_task).  The chunks are computed *)
(* twice, from the number of tasks and by moving the lower bound, and the  *)
(* children get room for as many accesses as the largest chunk registered. *)
(*                                                                         *)
(* Bounds and sizes are size_t: they wrap at Modulus.  A chunk registers   *)
(* numDeps accesses when the compiler knows their number, and otherwise    *)
(* (NODES calls it -1) one for each of its iterations in accessing.        *)
(***************************************************************************)
EXTENDS Integers, Sequences, FiniteSets

CONSTANTS
  Modulus,        (* 2^64                                                  *)
  NosvCpus,       (* nosv_get_num_cpus                                     *)
  Taskloops,      (* the possible loops: [lower, upper, grainsize, numDeps,*)
                  (* accessing]                                            *)
  Dynamic         (* numDeps when the compiler does not know it            *)

Size == 0..(Modulus - 1)

ASSUME TaskloopAssumption ==
  /\ Modulus \in Nat \ {0}
  /\ NosvCpus \in Size \ {0}
  /\ Dynamic \notin Nat
  /\ Taskloops \subseteq
       [lower : Size, upper : Size, grainsize : Size, numDeps : Size \cup {Dynamic},
        accessing : SUBSET Size]

Wrap(n) == n % Modulus
Smaller(m, n) == IF m <= n THEN m ELSE n
Larger(m, n) == IF m <= n THEN n ELSE m

(* MathSupport::ceil, in size_t.                                           *)
Ceil(x, y) == Wrap(x + Wrap(y - 1)) \div y

(* The default: as many chunks as there are CPUs.                          *)
GrainSize(iterations, grainsize) ==
  IF grainsize = 0 THEN Larger(iterations \div NosvCpus, 1) ELSE grainsize

(* No bound of a chunk wraps around: the compiler gives bounds whose sum    *)
(* with the grainsize is a size_t (otherwise chunks are lost).             *)
ASSUME NoWrapAssumption ==
  \A T \in Taskloops :
    /\ T.lower <= T.upper
    /\ T.upper + GrainSize(T.upper - T.lower, T.grainsize) < Modulus

ComputeNumTasks(iterations, grainsize) ==
  Ceil(iterations, GrainSize(iterations, grainsize))

(* nanos6_create_loop allocates the accesses of all chunks: their number   *)
(* is a size_t.                                                            *)
ASSUME RoomAssumption ==
  \A T \in Taskloops :
    T.numDeps # Dynamic => T.numDeps * ComputeNumTasks(T.upper - T.lower, T.grainsize) < Modulus

VARIABLES
  taskloop,       (* the arguments of nanos6_create_loop                   *)
  progress,       (* create, register, ready, done                         *)
  lowerBound,     (* _bounds.lower_bound of the source                     *)
  grain,          (* _bounds.grainsize                                     *)
  room,           (* how many accesses fit into the source                 *)
  chunks,         (* the chunks the source registered: <<lower, upper>>    *)
  registered,     (* how many accesses it registered                       *)
  maxChildDeps,   (* _maxChildDeps                                         *)
  childChunks     (* the chunks of the children, with their room           *)

taskloopVars ==
  <<taskloop, progress, lowerBound, grain, room, chunks, registered, maxChildDeps, childChunks>>

IterationCount == Wrap(taskloop.upper - lowerBound)

(* register_depinfo of a chunk: how often it registers an access.          *)
Registrations(lower, upper) ==
  IF taskloop.numDeps = Dynamic
  THEN Cardinality({i \in taskloop.accessing : lower <= i /\ i < upper})
  ELSE taskloop.numDeps

TaskloopInit ==
  /\ taskloop \in Taskloops
  /\ progress = "create"
  /\ lowerBound = taskloop.lower
  /\ grain = 0 /\ room = 0
  /\ chunks = <<>> /\ registered = 0 /\ maxChildDeps = 0
  /\ childChunks = <<>>

(* nanos6_create_loop.                                                     *)
CreateLoop ==
  /\ progress = "create" /\ progress' = "register"
  /\ room' = IF taskloop.numDeps = Dynamic THEN Dynamic
             ELSE Wrap(taskloop.numDeps * ComputeNumTasks(IterationCount, taskloop.grainsize))
  /\ grain' = GrainSize(IterationCount, taskloop.grainsize)
  /\ UNCHANGED <<taskloop, lowerBound, chunks, registered, maxChildDeps, childChunks>>

(* The chunk that iteration t of TaskloopMetadata::registerDependencies    *)
(* registers.                                                              *)
Chunk(t) ==
  LET lower == Wrap(taskloop.lower + t * grain)
  IN  <<lower, Smaller(Wrap(lower + grain), taskloop.upper)>>

NumTasks == ComputeNumTasks(IterationCount, grain)

(* Mutant: the last chunk decides how much room a child gets.              *)
RegisterLastChunk ==
  /\ progress = "register" /\ Len(chunks) < NumTasks
  /\ LET chunk == Chunk(Len(chunks))
         calls == Registrations(chunk[1], chunk[2])
     IN  /\ chunks' = Append(chunks, chunk)
         /\ registered' = registered + calls
         /\ maxChildDeps' = calls
  /\ UNCHANGED <<taskloop, progress, lowerBound, grain, room, childChunks>>

RegisterChunk ==
  /\ progress = "register" /\ Len(chunks) < NumTasks
  /\ LET chunk == Chunk(Len(chunks))
         calls == Registrations(chunk[1], chunk[2])
     IN  /\ chunks' = Append(chunks, chunk)
         /\ registered' = registered + calls
         /\ maxChildDeps' = Larger(maxChildDeps, calls)
  /\ UNCHANGED <<taskloop, progress, lowerBound, grain, room, childChunks>>

EndRegistration ==
  /\ progress = "register" /\ Len(chunks) = NumTasks
  /\ progress' = "ready"
  /\ UNCHANGED <<taskloop, lowerBound, grain, room, chunks, registered, maxChildDeps, childChunks>>

(* Mutant: the lower bound moves by a whole grain also at the end.         *)
GenerateBeyond ==
  /\ progress = "ready" /\ IterationCount > 0
  /\ LET upper == Smaller(Wrap(lowerBound + grain), taskloop.upper)
     IN  /\ childChunks' = Append(childChunks, [bounds |-> <<lowerBound, upper>>, room |-> maxChildDeps])
         /\ lowerBound' = Wrap(lowerBound + grain)
  /\ UNCHANGED <<taskloop, progress, grain, room, chunks, registered, maxChildDeps>>

(* createTaskloopExecutor, called by generateChildTasks.                   *)
GenerateChild ==
  /\ progress = "ready" /\ IterationCount > 0
  /\ LET upper == Smaller(Wrap(lowerBound + grain), taskloop.upper)
     IN  /\ childChunks' = Append(childChunks, [bounds |-> <<lowerBound, upper>>, room |-> maxChildDeps])
         /\ lowerBound' = upper
  /\ UNCHANGED <<taskloop, progress, grain, room, chunks, registered, maxChildDeps>>

EndGeneration ==
  /\ progress = "ready" /\ IterationCount = 0
  /\ progress' = "done"
  /\ UNCHANGED <<taskloop, lowerBound, grain, room, chunks, registered, maxChildDeps, childChunks>>

TaskloopNext ==
  CreateLoop \/ RegisterChunk \/ EndRegistration \/ GenerateChild \/ EndGeneration

TaskloopSpec == TaskloopInit /\ [][TaskloopNext]_taskloopVars

-----------------------------------------------------------------------------
(* Properties.                                                             *)

(* Every iteration runs once: the chunks of the children follow each other *)
(* from the lower bound on, none is empty, and the last one ends at the    *)
(* upper bound (createTaskloopExecutor).                                   *)
ChunksPartitionLoop ==
  LET end(k) == IF k = 0 THEN taskloop.lower ELSE childChunks[k].bounds[2]
  IN  /\ \A k \in DOMAIN childChunks :
           childChunks[k].bounds[1] = end(k - 1) /\ end(k - 1) < end(k)
      /\ progress = "done" => end(Len(childChunks)) = taskloop.upper

(* The accesses of a child are below those of the source: its chunk is one *)
(* the source registered, which registerDependencies computes another way. *)
(* And there is room for them: for all chunks in the source, and for its   *)
(* own chunk in each child ("assert(_currentIndex < _maxDeps)",            *)
(* TaskDataAccesses.hpp:189).                                              *)
AccessesFit ==
  /\ progress = "done" => Len(childChunks) = Len(chunks)
  /\ \A k \in DOMAIN childChunks :
       LET bounds == childChunks[k].bounds
       IN  /\ k \in DOMAIN chunks /\ chunks[k] = bounds
           /\ Registrations(bounds[1], bounds[2]) <= childChunks[k].room
  /\ room # Dynamic /\ progress # "create" => registered <= room
=============================================================================
