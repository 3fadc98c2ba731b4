-------------------------- MODULE ReductionStorage --------------------------
(***************************************************************************)
(* The private storage of one reduction (devices/HostReductionStorage.cpp, *)
(* ReductionInfo.cpp and common/AtomicBitset.hpp).  The first task that    *)
(* runs allocates the storage of the device, under a lock that is tested   *)
(* twice; every task then takes a slot with a compare and exchange on the  *)
(* word of the slot in a bitset, works on the copy in the slot and frees   *)
(* the slot again, with what it accumulated, for the tasks that run later. *)
(* When the last access is unregistered the copies are combined into the   *)
(* original address, with no lock but that count.                          *)
(*                                                                         *)
(* One action is one access to memory that other threads share: a pointer, *)
(* a word of the bitset, the count, or a private copy.  A copy holds how   *)
(* often the contribution of each task is in it.                           *)
(*                                                                         *)
(* A task stays on its CPU from the translation of its addresses to the    *)
(* release of its slot: HostReductionStorage.cpp:78-82 excludes scheduling *)
(* points within a reduction.                                              *)
(***************************************************************************)
EXTENDS Integers, FiniteSets

CONSTANTS
  Task, Cpu,
  WordBits,         (* the bits of backingstorage_t                        *)
  NoStorage, NoSlot

ASSUME StorageAssumption ==
  /\ IsFiniteSet(Task) /\ IsFiniteSet(Cpu) /\ Cpu # {}
  /\ WordBits \in Nat \ {0}
  /\ NoStorage \notin Task /\ NoSlot \notin Int

NumCpus == Cardinality(Cpu)
Slot == 0 .. NumCpus - 1

VARIABLES
  pc, cpu,          (* where each task is, and on which CPU (a set)        *)
  registered,       (* ReductionInfo::_registeredAccesses                  *)
  closed, satisfied,(* the two extra counts were given back                *)
  deviceStorage,    (* ReductionInfo::_deviceStorages: a storage is named  *)
                    (* by the task that allocated it                       *)
  taken,            (* HostReductionStorage::_freeSlotIndices: the set bits*)
  current,          (* _currentCpuSlotIndices of each storage and CPU      *)
  copy,             (* _slots of each storage: {} when not initialized     *)
  storage,          (* the local of getFreeSlot                            *)
  pos, value,       (* currentPos and value of setFirst                    *)
  slot, read,       (* the slot of the task, and the copy it is updating   *)
  combining, result (* combineInStorage, and the original address          *)

bitsetVars == <<taken, pos, value>>
storageVars == <<deviceStorage, storage>>
slotVars == <<current, slot>>
countVars == <<registered, closed, satisfied>>
combineVars == <<combining, result>>
vars == <<pc, cpu, countVars, storageVars, bitsetVars, slotVars, copy, read, combineVars>>

Nothing == [t \in Task |-> 0]

Init ==
  /\ pc = [t \in Task |-> "none"]
  /\ cpu = [t \in Task |-> {}]
  /\ registered = 2 /\ closed = FALSE /\ satisfied = FALSE
  /\ deviceStorage = NoStorage
  /\ taken = [s \in Task |-> {}]
  /\ current = [s \in Task |-> [c \in Cpu |-> NoSlot]]
  /\ copy = [s \in Task |-> [i \in Slot |-> {}]]
  /\ storage = [t \in Task |-> NoStorage]
  /\ pos = [t \in Task |-> 0]
  /\ value = [t \in Task |-> {}]
  /\ slot = [t \in Task |-> NoSlot]
  /\ read = [t \in Task |-> Nothing]
  /\ combining = NoSlot
  /\ result = Nothing

-----------------------------------------------------------------------------
(* The count of the accesses (ReductionInfo.hpp); who takes it to zero     *)
(* combines.                                                               *)
Register(t) ==
  /\ pc[t] = "none" /\ ~closed
  /\ registered' = registered + 1
  /\ pc' = [pc EXCEPT ![t] = "ready"]
  /\ UNCHANGED <<cpu, closed, satisfied, storageVars, bitsetVars, slotVars, copy, read, combineVars>>

GiveBack ==
  /\ registered' = registered - 1
  /\ combining' = IF registered = 1 THEN 0 ELSE combining

Close ==
  /\ ~closed /\ \E t \in Task : pc[t] # "none"
  /\ closed' = TRUE
  /\ GiveBack
  /\ UNCHANGED <<pc, cpu, satisfied, storageVars, bitsetVars, slotVars, copy, read, result>>

(* The accesses before the reduction are done.                             *)
Satisfy ==
  /\ ~satisfied /\ \E t \in Task : pc[t] # "none"
  /\ satisfied' = TRUE
  /\ GiveBack
  /\ UNCHANGED <<pc, cpu, closed, storageVars, bitsetVars, slotVars, copy, read, result>>

Unregister(t) ==
  /\ pc[t] = "released"
  /\ pc' = [pc EXCEPT ![t] = "unregistered"]
  /\ GiveBack
  /\ UNCHANGED <<cpu, closed, satisfied, storageVars, bitsetVars, slotVars, copy, read, result>>

-----------------------------------------------------------------------------
(* A reduction task never waits for its dependencies.                      *)
Start(t, c) ==
  /\ pc[t] = "ready"
  /\ \A u \in Task : c \notin cpu[u]
  /\ cpu' = [cpu EXCEPT ![t] = {c}]
  /\ pc' = [pc EXCEPT ![t] = "pointer"]
  /\ UNCHANGED <<countVars, storageVars, bitsetVars, slotVars, copy, read, combineVars>>

(* ReductionInfo::getFreeSlot reads the pointer without the lock ...       *)
ReadPointer(t) ==
  /\ pc[t] = "pointer"
  /\ storage' = [storage EXCEPT ![t] = deviceStorage]
  /\ pc' = [pc EXCEPT ![t] = IF deviceStorage = NoStorage THEN "allocate" ELSE "index"]
  /\ UNCHANGED <<cpu, countVars, deviceStorage, bitsetVars, slotVars, copy, read, combineVars>>

(* Mutant: ... and does not look at it again under the lock.               *)
AllocateAgain(t) ==
  /\ pc[t] = "allocate"
  /\ deviceStorage' = t
  /\ storage' = [storage EXCEPT ![t] = deviceStorage']
  /\ pc' = [pc EXCEPT ![t] = "index"]
  /\ UNCHANGED <<cpu, countVars, bitsetVars, slotVars, copy, read, combineVars>>

(* ... and again under the lock, where one task allocates it.              *)
Allocate(t) ==
  /\ pc[t] = "allocate"
  /\ deviceStorage' = IF deviceStorage = NoStorage THEN t ELSE deviceStorage
  /\ storage' = [storage EXCEPT ![t] = deviceStorage']
  /\ pc' = [pc EXCEPT ![t] = "index"]
  /\ UNCHANGED <<cpu, countVars, bitsetVars, slotVars, copy, read, combineVars>>

(* getFreeSlotIndex: a slot the CPU has already, or the first free one.    *)
FindIndex(t) ==
  /\ pc[t] = "index"
  /\ \E c \in cpu[t] :
       LET assigned == current[storage[t]][c]
       IN  IF assigned # NoSlot
           THEN /\ slot' = [slot EXCEPT ![t] = assigned]
                /\ pc' = [pc EXCEPT ![t] = "initialize"]
                /\ UNCHANGED pos
           ELSE /\ pos' = [pos EXCEPT ![t] = 0]
                /\ pc' = [pc EXCEPT ![t] = "load"]
                /\ UNCHANGED slot
  /\ UNCHANGED <<cpu, countVars, storageVars, taken, value, current, copy, read, combineVars>>

(* AtomicBitset::setFirst.  The bits of the word at p, as they are set.    *)
Word(s, p) == {i \in taken[s] : i \in p .. p + WordBits - 1}
ZeroBits(word, p) == {i \in p .. p + WordBits - 1 : i < NumCpus} \ word
FirstZero(word, p) == {i \in ZeroBits(word, p) : \A j \in ZeroBits(word, p) : i <= j}

(* What follows when the word at pos[t] was seen: exchange it, or go on to *)
(* the next word, and after the last one start again.                      *)
Saw(t, word) ==
  /\ value' = [value EXCEPT ![t] = word]
  /\ IF ZeroBits(word, pos[t]) # {}
     THEN pc' = [pc EXCEPT ![t] = "exchange"] /\ UNCHANGED pos
     ELSE /\ pc' = [pc EXCEPT ![t] = "load"]
          /\ pos' = [pos EXCEPT ![t] = IF @ + WordBits < NumCpus THEN @ + WordBits ELSE 0]

LoadWord(t) ==
  /\ pc[t] = "load"
  /\ Saw(t, Word(storage[t], pos[t]))
  /\ UNCHANGED <<cpu, countVars, storageVars, taken, slotVars, copy, read, combineVars>>

(* Mutant: the bit is set whatever the word is by now.                     *)
SetBit(t) ==
  /\ pc[t] = "exchange"
  /\ \E free \in FirstZero(value[t], pos[t]) :
       LET s == storage[t]
       IN  /\ taken' = [taken EXCEPT ![s] = @ \cup {free}]
           /\ slot' = [slot EXCEPT ![t] = free]
           /\ current' = [current EXCEPT ![s] = [c \in Cpu |-> IF c \in cpu[t] THEN free ELSE @[c]]]
           /\ pc' = [pc EXCEPT ![t] = "initialize"]
           /\ pos' = [pos EXCEPT ![t] = 0] /\ value' = [value EXCEPT ![t] = {}]
  /\ UNCHANGED <<cpu, countVars, storageVars, copy, read, combineVars>>

(* The exchange fails when the word has changed, and shows what it is.     *)
Exchange(t) ==
  /\ pc[t] = "exchange"
  /\ \E free \in FirstZero(value[t], pos[t]) :
       LET s == storage[t]
       IN  IF Word(s, pos[t]) = value[t]
           THEN /\ taken' = [taken EXCEPT ![s] = @ \cup {free}]
                /\ slot' = [slot EXCEPT ![t] = free]
                /\ current' = [current EXCEPT ![s] = [c \in Cpu |-> IF c \in cpu[t] THEN free ELSE @[c]]]
                /\ pc' = [pc EXCEPT ![t] = "initialize"]
                /\ pos' = [pos EXCEPT ![t] = 0] /\ value' = [value EXCEPT ![t] = {}]
           ELSE Saw(t, Word(s, pos[t])) /\ UNCHANGED <<taken, slotVars>>
  /\ UNCHANGED <<cpu, countVars, storageVars, copy, read, combineVars>>

(* getFreeSlotStorage: a slot is initialized by the first task that has it.*)
InitializeSlot(t) ==
  /\ pc[t] = "initialize"
  /\ copy' = [copy EXCEPT ![storage[t]][slot[t]] = IF @ = {} THEN {Nothing} ELSE @]
  /\ pc' = [pc EXCEPT ![t] = "running"]
  /\ UNCHANGED <<cpu, countVars, storageVars, bitsetVars, slotVars, read, combineVars>>

-----------------------------------------------------------------------------
(* The body of the task updates its copy: it is read, and written.         *)
ReadCopy(t) ==
  /\ pc[t] = "running"
  /\ \E v \in copy[storage[t]][slot[t]] : read' = [read EXCEPT ![t] = v]
  /\ pc' = [pc EXCEPT ![t] = "updating"]
  /\ UNCHANGED <<cpu, countVars, storageVars, bitsetVars, slotVars, copy, combineVars>>

WriteCopy(t) ==
  /\ pc[t] = "updating"
  /\ copy' = [copy EXCEPT ![storage[t]][slot[t]] = {[read[t] EXCEPT ![t] = @ + 1]}]
  /\ read' = [read EXCEPT ![t] = Nothing]
  /\ pc' = [pc EXCEPT ![t] = "updated"]
  /\ UNCHANGED <<cpu, countVars, storageVars, bitsetVars, slotVars, combineVars>>

(* Mutant: the CPU forgets the slot, and the bit stays set.                *)
ReleaseCpuOnly(t) ==
  /\ pc[t] = "updated"
  /\ current' = [current EXCEPT ![storage[t]] = [c \in Cpu |-> IF c \in cpu[t] THEN NoSlot ELSE @[c]]]
  /\ slot' = [slot EXCEPT ![t] = NoSlot]
  /\ storage' = [storage EXCEPT ![t] = NoStorage]
  /\ pc' = [pc EXCEPT ![t] = "released"]
  /\ UNCHANGED <<cpu, countVars, deviceStorage, bitsetVars, copy, read, combineVars>>

(* releaseSlotsInUse, when the task ends or releases the access early.     *)
ReleaseSlotsInUse(t) ==
  /\ pc[t] = "updated"
  /\ LET s == storage[t]
     IN  /\ taken' = [taken EXCEPT ![s] = @ \ {slot[t]}]
         /\ current' = [current EXCEPT ![s] = [c \in Cpu |-> IF c \in cpu[t] THEN NoSlot ELSE @[c]]]
  /\ slot' = [slot EXCEPT ![t] = NoSlot]
  /\ storage' = [storage EXCEPT ![t] = NoStorage]
  /\ pc' = [pc EXCEPT ![t] = "released"]
  /\ UNCHANGED <<cpu, countVars, deviceStorage, pos, value, copy, read, combineVars>>

LeaveCpu(t) ==
  /\ pc[t] \in {"released", "unregistered"}
  /\ cpu[t] # {}
  /\ cpu' = [cpu EXCEPT ![t] = {}]
  /\ UNCHANGED <<pc, countVars, storageVars, bitsetVars, slotVars, copy, read, combineVars>>

-----------------------------------------------------------------------------
(* combineInStorage, slot by slot.                                         *)
Initialized(i) == IF deviceStorage = NoStorage THEN {} ELSE copy[deviceStorage][i]

CombineSlot ==
  /\ combining \in Slot
  /\ combining' = combining + 1
  /\ \/ /\ Initialized(combining) = {}
        /\ UNCHANGED <<copy, result>>
     \/ /\ \E v \in Initialized(combining) : result' = [t \in Task |-> result[t] + v[t]]
        /\ copy' = [copy EXCEPT ![deviceStorage][combining] = {}]
  /\ UNCHANGED <<pc, cpu, countVars, storageVars, bitsetVars, slotVars, read>>

-----------------------------------------------------------------------------
Step(t) ==
  \/ ReadPointer(t) \/ Allocate(t) \/ FindIndex(t) \/ LoadWord(t) \/ Exchange(t)
  \/ InitializeSlot(t) \/ ReadCopy(t) \/ WriteCopy(t) \/ ReleaseSlotsInUse(t)
  \/ Unregister(t)

Next ==
  \/ \E t \in Task : Register(t) \/ Step(t) \/ LeaveCpu(t) \/ \E c \in Cpu : Start(t, c)
  \/ Close \/ Satisfy \/ CombineSlot

Spec == Init /\ [][Next]_vars

(* Every CPU goes on and takes a task when it is free; the reduction is    *)
(* closed and satisfied in the end.  Nobody has to register.               *)
FairSpec ==
  /\ Spec
  /\ \A t \in Task : WF_vars(Step(t)) /\ WF_vars(LeaveCpu(t))
  /\ \A t \in Task : SF_vars(\E c \in Cpu : Start(t, c))
  /\ WF_vars(Close) /\ WF_vars(Satisfy) /\ WF_vars(CombineSlot)

-----------------------------------------------------------------------------
TypeOK ==
  /\ pc \in [Task -> {"none", "ready", "pointer", "allocate", "index", "load", "exchange",
                      "initialize", "running", "updating", "updated", "released", "unregistered"}]
  /\ cpu \in [Task -> SUBSET Cpu]
  /\ registered \in Nat /\ closed \in BOOLEAN /\ satisfied \in BOOLEAN
  /\ deviceStorage \in Task \cup {NoStorage}
  /\ taken \in [Task -> SUBSET Slot]
  /\ current \in [Task -> [Cpu -> Slot \cup {NoSlot}]]
  /\ copy \in [Task -> [Slot -> SUBSET [Task -> Nat]]]
  /\ storage \in [Task -> Task \cup {NoStorage}]
  /\ pos \in [Task -> Nat] /\ value \in [Task -> SUBSET Slot]
  /\ slot \in [Task -> Slot \cup {NoSlot}]
  /\ read \in [Task -> [Task -> Nat]]
  /\ combining \in Nat \cup {NoSlot} /\ result \in [Task -> Nat]

(* Two tasks that run at once never work on one copy, and they are never   *)
(* in two storages, of which one would be forgotten.                       *)
HasSlot == {t \in Task : pc[t] \in {"initialize", "running", "updating", "updated"}}

SlotIsPrivate ==
  \A t, u \in HasSlot : t # u => slot[t] # slot[u] /\ storage[t] = storage[u]

(* The combination starts when no task has a slot or will ask for one, and *)
(* when it is over the original address has every contribution, once.      *)
CombinedAlone == combining # NoSlot => \A t \in Task : pc[t] \in {"none", "unregistered"}
CombinedOnce == combining = NumCpus => \A t \in Task : result[t] = IF pc[t] = "none" THEN 0 ELSE 1
NothingIsLost == CombinedAlone /\ CombinedOnce

(* There are as many slots as CPUs: no task spins for ever in setFirst, and*)
(* a reduction in which a task takes part is combined.                     *)
EverythingIsCombined == (\E t \in Task : pc[t] # "none") ~> (combining = NumCpus)
=============================================================================
