----------------------- MODULE ReductionStorage_proofs -----------------------
(***************************************************************************)
(* For any set of tasks, of CPUs and any width of the words of the bitset: *)
(* two tasks never share a copy, and the combined value has the            *)
(* contribution of every task once.                                        *)
(***************************************************************************)
EXTENDS ReductionStorage, FiniteSetTheorems, TLAPS

Allocated == {t \in Task : pc[t] \in {"index", "load", "exchange"}} \cup HasSlot
OnCpu == {t \in Task : pc[t] \in {"pointer", "allocate"}} \cup Allocated

(* A task that translates its addresses or runs has one CPU to itself.     *)
Placement ==
  /\ \A t \in OnCpu : \E c \in Cpu : cpu[t] = {c}
  /\ \A t, u \in Task : t # u => cpu[t] \cap cpu[u] = {}

(* There is one storage; the slots in use are set in its bitset, and they  *)
(* are those of the CPUs whose task has one.                               *)
Slots ==
  /\ \A t \in Allocated : storage[t] = deviceStorage /\ deviceStorage \in Task
  /\ \A t \in HasSlot : slot[t] \in taken[deviceStorage]
  /\ \A t, u \in HasSlot : t # u => slot[t] # slot[u]
  /\ \A s \in Task, c \in Cpu : current[s][c] # NoSlot => \E u \in HasSlot : c \in cpu[u]
  /\ \A s \in Task, c \in Cpu : current[s][c] # NoSlot => s = deviceStorage

(* The count is that of the accesses that are registered, and of the close *)
(* and the satisfaction that are still to come.                            *)
Counted == {t \in Task : pc[t] \notin {"none", "unregistered"}}
Count ==
  /\ registered = Cardinality(Counted) + (IF closed THEN 0 ELSE 1) + (IF satisfied THEN 0 ELSE 1)
  /\ registered = 0 <=> combining # NoSlot

(* A contribution is in one place: in a copy that is not combined yet, or  *)
(* in the result.                                                          *)
Updated == {t \in Task : pc[t] \in {"updated", "released", "unregistered"}}
InCopy(t, i) == \E v \in copy[deviceStorage][i] : v[t] = 1
NotInCopy(t, i) == \A v \in copy[deviceStorage][i] : v[t] = 0
NotCombined(i) == combining = NoSlot \/ combining <= i

Copies ==
  /\ \A s \in Task, i \in Slot : \A v, w \in copy[s][i] : v = w
  /\ \A s \in Task, i \in Slot : copy[s][i] # {} => s = deviceStorage
  /\ \A t \in Task : pc[t] = "updating" => read[t] \in copy[deviceStorage][slot[t]]

Contribution(t) ==
  IF t \notin Updated
  THEN result[t] = 0 /\ (deviceStorage \in Task => \A i \in Slot : NotInCopy(t, i))
  ELSE /\ deviceStorage \in Task
       /\ \/ result[t] = 1 /\ \A i \in Slot : NotInCopy(t, i)
          \/ /\ result[t] = 0
             /\ \E i \in Slot :
                  /\ NotCombined(i) /\ InCopy(t, i)
                  /\ \A j \in Slot \ {i} : NotInCopy(t, j)

Contributions == \A t \in Task : Contribution(t)

IInv == TypeOK /\ Placement /\ Slots /\ Count /\ Copies /\ Contributions

-----------------------------------------------------------------------------
LEMMA CpuCount == NumCpus \in Nat \ {0}
  BY FS_CardinalityType, FS_EmptySet, StorageAssumption DEF NumCpus

LEMMA InitInvariant == Init => IInv
<1> SUFFICES ASSUME Init PROVE IInv
  OBVIOUS
<1>1. Counted = {} /\ Cardinality(Counted) = 0
  BY FS_EmptySet DEF Init, Counted
<1>2. TypeOK
  BY StorageAssumption DEF Init, TypeOK, Nothing
<1>3. QED
  BY <1>1, <1>2, StorageAssumption
  DEF Init, IInv, Placement, OnCpu, Allocated, HasSlot, Slots, Count, Copies,
      Contributions, Contribution, Updated, Nothing

(* A task keeps its CPU, alone, until it leaves it.                        *)
LEMMA PlacementStep ==
  ASSUME TypeOK, Placement, [Next]_vars
  PROVE  Placement'
<1> USE DEF TypeOK, Placement, OnCpu, Allocated, HasSlot, countVars, storageVars,
            bitsetVars, slotVars, combineVars
<1>1. ASSUME NEW t \in Task, Register(t) PROVE Placement'
  BY <1>1 DEF Register
<1>2. ASSUME NEW t \in Task, ReadPointer(t) PROVE Placement'
  BY <1>2 DEF ReadPointer
<1>3. ASSUME NEW t \in Task, Allocate(t) PROVE Placement'
  BY <1>3 DEF Allocate
<1>4. ASSUME NEW t \in Task, FindIndex(t) PROVE Placement'
  BY <1>4 DEF FindIndex
<1>5. ASSUME NEW t \in Task, LoadWord(t) PROVE Placement'
  BY <1>5 DEF LoadWord, Saw
<1>6. ASSUME NEW t \in Task, Exchange(t) PROVE Placement'
  BY <1>6 DEF Exchange, Saw
<1>7. ASSUME NEW t \in Task, InitializeSlot(t) PROVE Placement'
  BY <1>7 DEF InitializeSlot
<1>8. ASSUME NEW t \in Task, ReadCopy(t) PROVE Placement'
  BY <1>8 DEF ReadCopy
<1>9. ASSUME NEW t \in Task, WriteCopy(t) PROVE Placement'
  BY <1>9 DEF WriteCopy
<1>10. ASSUME NEW t \in Task, ReleaseSlotsInUse(t) PROVE Placement'
  BY <1>10 DEF ReleaseSlotsInUse
<1>11. ASSUME NEW t \in Task, Unregister(t) PROVE Placement'
  BY <1>11 DEF Unregister
<1>12. ASSUME NEW t \in Task, LeaveCpu(t) PROVE Placement'
  BY <1>12 DEF LeaveCpu
<1>13. ASSUME NEW t \in Task, NEW c \in Cpu, Start(t, c) PROVE Placement'
  <2>1. cpu' = [cpu EXCEPT ![t] = {c}] /\ pc' = [pc EXCEPT ![t] = "pointer"]
    BY <1>13 DEF Start
  <2>2. \A u \in OnCpu' : \E d \in Cpu : cpu'[u] = {d}
    BY <2>1
  <2>3. ASSUME NEW u \in Task, NEW v \in Task, u # v PROVE cpu'[u] \cap cpu'[v] = {}
    <3>1. \A w \in Task : c \notin cpu[w]
      BY <1>13 DEF Start
    <3>2. \A w \in Task : cpu'[w] = IF w = t THEN {c} ELSE cpu[w]
      BY <2>1
    <3>3. cpu[u] \cap cpu[v] = {}
      BY <2>3
    <3>4. CASE u = t
      BY <2>3, <3>1, <3>2, <3>4
    <3>5. CASE v = t
      BY <2>3, <3>1, <3>2, <3>5
    <3>6. CASE u # t /\ v # t
      BY <3>2, <3>3, <3>6
    <3>7. QED
      BY <3>4, <3>5, <3>6
  <2>4. QED
    BY <2>2, <2>3
<1>14. ASSUME Close PROVE Placement'
  BY <1>14 DEF Close
<1>15. ASSUME Satisfy PROVE Placement'
  BY <1>15 DEF Satisfy
<1>16. ASSUME CombineSlot PROVE Placement'
  BY <1>16 DEF CombineSlot
<1>17. CASE UNCHANGED vars
  BY <1>17 DEF vars
<1>18. QED
  BY <1>1, <1>2, <1>3, <1>4, <1>5, <1>6, <1>7, <1>8, <1>9, <1>10, <1>11, <1>12, <1>13,
     <1>14, <1>15, <1>16, <1>17
  DEF Next, Step

(* The compare and exchange succeeds only if the bit is still free; a task *)
(* that asks for a slot is alone on its CPU, which has none.               *)
LEMMA SlotsStep ==
  ASSUME TypeOK, Placement, Slots, [Next]_vars
  PROVE  Slots'
<1> USE DEF TypeOK, Placement, Slots, OnCpu, Allocated, HasSlot, countVars, storageVars,
            bitsetVars, slotVars, combineVars
<1>1. ASSUME NEW t \in Task, Register(t) PROVE Slots'
  <2>1. HasSlot' = HasSlot /\ Allocated' = Allocated
    BY <1>1 DEF Register
  <2>2. UNCHANGED <<deviceStorage, storage, slot, taken, current, cpu>>
    BY <1>1 DEF Register
  <2>3. QED
    BY <2>1, <2>2
<1>2. ASSUME NEW t \in Task, ReadPointer(t) PROVE Slots'
  BY <1>2 DEF ReadPointer
<1>3. ASSUME NEW t \in Task, Allocate(t) PROVE Slots'
  <2>1. HasSlot' = HasSlot /\ t \notin HasSlot /\ t \notin Allocated /\ Allocated' = Allocated \cup {t}
    BY <1>3 DEF Allocate
  <2>2. deviceStorage' \in Task /\ storage' = [storage EXCEPT ![t] = deviceStorage']
    BY <1>3 DEF Allocate
  <2>3. deviceStorage # NoStorage => deviceStorage' = deviceStorage
    BY <1>3 DEF Allocate
  <2>4. \A u \in Allocated' : storage'[u] = deviceStorage'
    BY <2>1, <2>2, <2>3, StorageAssumption
  <2>5. UNCHANGED <<slot, taken, current, cpu>>
    BY <1>3 DEF Allocate
  <2>6. deviceStorage = NoStorage => HasSlot = {} /\ \A z \in Task, c \in Cpu : current[z][c] = NoSlot
    BY StorageAssumption
  <2>7. QED
    BY <2>1, <2>2, <2>3, <2>4, <2>5, <2>6
<1>4. ASSUME NEW t \in Task, FindIndex(t) PROVE Slots'
  <2>1. \A c \in cpu[t] : current[storage[t]][c] = NoSlot
    <3> SUFFICES ASSUME NEW c \in cpu[t], current[storage[t]][c] # NoSlot PROVE FALSE
      OBVIOUS
    <3>1. t \in Allocated /\ t \notin HasSlot /\ storage[t] \in Task /\ c \in Cpu
      BY <1>4 DEF FindIndex
    <3>2. PICK u \in HasSlot : c \in cpu[u]
      BY <3>1
    <3>3. cpu[t] \cap cpu[u] = {}
      BY <3>1
    <3>4. QED
      BY <3>2, <3>3
  <2>2. PICK c \in cpu[t] : pc' = [pc EXCEPT ![t] = "load"] /\ UNCHANGED slot
    BY <1>4, <2>1 DEF FindIndex
  <2>3. HasSlot' = HasSlot /\ Allocated' = Allocated
    BY <1>4, <2>2 DEF FindIndex
  <2>4. UNCHANGED <<deviceStorage, storage, slot, taken, current, cpu>>
    BY <1>4, <2>2 DEF FindIndex
  <2>5. QED
    BY <2>3, <2>4
<1>5. ASSUME NEW t \in Task, LoadWord(t) PROVE Slots'
  <2>1. HasSlot' = HasSlot /\ Allocated' = Allocated
    BY <1>5 DEF LoadWord, Saw
  <2>2. UNCHANGED <<deviceStorage, storage, slot, taken, current, cpu>>
    BY <1>5 DEF LoadWord, Saw
  <2>3. QED
    BY <2>1, <2>2
<1>6. ASSUME NEW t \in Task, Exchange(t) PROVE Slots'
  <2>1. t \in Allocated /\ t \notin HasSlot /\ storage[t] = deviceStorage /\ deviceStorage \in Task
    BY <1>6 DEF Exchange
  <2>2. PICK free \in FirstZero(value[t], pos[t]) :
          IF Word(storage[t], pos[t]) = value[t]
          THEN /\ taken' = [taken EXCEPT ![storage[t]] = @ \cup {free}]
               /\ slot' = [slot EXCEPT ![t] = free]
               /\ current' = [current EXCEPT ![storage[t]] =
                                [c \in Cpu |-> IF c \in cpu[t] THEN free ELSE @[c]]]
               /\ pc' = [pc EXCEPT ![t] = "initialize"]
          ELSE Saw(t, Word(storage[t], pos[t])) /\ UNCHANGED <<taken, slotVars>>
    BY <1>6 DEF Exchange
  <2>3. UNCHANGED <<deviceStorage, storage, cpu>>
    BY <1>6 DEF Exchange
  <2>4. CASE Word(storage[t], pos[t]) = value[t]
    <3>1. free \in Slot /\ free \notin taken[deviceStorage]
      BY <2>1, <2>4, CpuCount DEF FirstZero, ZeroBits, Word, Slot
    <3>2. HasSlot' = HasSlot \cup {t} /\ Allocated' = Allocated
      BY <2>1, <2>2, <2>4
    <3>3. \A u \in HasSlot : slot[u] # free /\ slot'[u] = slot[u]
      BY <2>1, <2>2, <2>4, <3>1
    <3>4. slot'[t] = free
      BY <2>2, <2>4
    <3>5. taken'[deviceStorage] = taken[deviceStorage] \cup {free}
      BY <2>1, <2>2, <2>4
    <3>6. \A z \in Task, c \in Cpu :
            current'[z][c] = IF z = deviceStorage /\ c \in cpu[t] THEN free ELSE current[z][c]
      BY <2>1, <2>2, <2>4
    <3>7. \A u \in HasSlot' : slot'[u] \in taken'[deviceStorage]
      BY <3>2, <3>3, <3>4, <3>5
    <3>8. \A u, v \in HasSlot' : u # v => slot'[u] # slot'[v]
      BY <3>2, <3>3, <3>4
    <3>9. ASSUME NEW z \in Task, NEW c \in Cpu, current'[z][c] # NoSlot
          PROVE  z = deviceStorage /\ \E u \in HasSlot' : c \in cpu[u]
      <4>1. CASE z = deviceStorage /\ c \in cpu[t]
        BY <3>2, <4>1
      <4>2. CASE ~(z = deviceStorage /\ c \in cpu[t])
        BY <3>2, <3>6, <3>9, <4>2
      <4>3. QED
        BY <4>1, <4>2
    <3>10. QED
      BY <2>1, <2>3, <3>2, <3>7, <3>8, <3>9
  <2>5. CASE Word(storage[t], pos[t]) # value[t]
    <3>1. HasSlot' = HasSlot /\ Allocated' = Allocated
      BY <2>1, <2>2, <2>5, <1>6 DEF Saw, Exchange
    <3>2. QED
      BY <2>2, <2>3, <2>5, <3>1
  <2>6. QED
    BY <2>4, <2>5
<1>7. ASSUME NEW t \in Task, InitializeSlot(t) PROVE Slots'
  BY <1>7 DEF InitializeSlot
<1>8. ASSUME NEW t \in Task, ReadCopy(t) PROVE Slots'
  BY <1>8 DEF ReadCopy
<1>9. ASSUME NEW t \in Task, WriteCopy(t) PROVE Slots'
  BY <1>9 DEF WriteCopy
<1>10. ASSUME NEW t \in Task, ReleaseSlotsInUse(t) PROVE Slots'
  BY <1>10 DEF ReleaseSlotsInUse
<1>11. ASSUME NEW t \in Task, Unregister(t) PROVE Slots'
  <2>1. HasSlot' = HasSlot /\ Allocated' = Allocated
    BY <1>11 DEF Unregister
  <2>2. UNCHANGED <<deviceStorage, storage, slot, taken, current, cpu>>
    BY <1>11 DEF Unregister
  <2>3. QED
    BY <2>1, <2>2
<1>12. ASSUME NEW t \in Task, LeaveCpu(t) PROVE Slots'
  BY <1>12 DEF LeaveCpu
<1>13. ASSUME NEW t \in Task, NEW c \in Cpu, Start(t, c) PROVE Slots'
  BY <1>13 DEF Start
<1>14. ASSUME Close PROVE Slots'
  BY <1>14 DEF Close
<1>15. ASSUME Satisfy PROVE Slots'
  BY <1>15 DEF Satisfy
<1>16. ASSUME CombineSlot PROVE Slots'
  BY <1>16 DEF CombineSlot
<1>17. CASE UNCHANGED vars
  BY <1>17 DEF vars
<1>18. QED
  BY <1>1, <1>2, <1>3, <1>4, <1>5, <1>6, <1>7, <1>8, <1>9, <1>10, <1>11, <1>12, <1>13,
     <1>14, <1>15, <1>16, <1>17
  DEF Next, Step

-----------------------------------------------------------------------------
(* The type invariant, by groups of variables.                             *)
Phase == {"none", "ready", "pointer", "allocate", "index", "load", "exchange",
          "initialize", "running", "updating", "updated", "released", "unregistered"}
ControlTypes == pc \in [Task -> Phase] /\ cpu \in [Task -> SUBSET Cpu]
StorageTypes ==
  /\ deviceStorage \in Task \cup {NoStorage}
  /\ storage \in [Task -> Task \cup {NoStorage}]
BitsetTypes == taken \in [Task -> SUBSET Slot] /\ pos \in [Task -> Nat] /\ value \in [Task -> SUBSET Slot]
SlotTypes ==
  /\ current \in [Task -> [Cpu -> Slot \cup {NoSlot}]]
  /\ slot \in [Task -> Slot \cup {NoSlot}]
CopyTypes ==
  /\ copy \in [Task -> [Slot -> SUBSET [Task -> Nat]]]
  /\ read \in [Task -> [Task -> Nat]] /\ result \in [Task -> Nat]
CountTypes ==
  /\ registered \in Nat /\ closed \in BOOLEAN /\ satisfied \in BOOLEAN
  /\ combining \in Nat \cup {NoSlot}

LEMMA TypeParts ==
  TypeOK <=> ControlTypes /\ StorageTypes /\ BitsetTypes /\ SlotTypes /\ CopyTypes /\ CountTypes
  BY
  DEF TypeOK, Phase, ControlTypes, StorageTypes, BitsetTypes, SlotTypes, CopyTypes,
      CountTypes

(* Where a task may be, and on which CPUs.                                 *)
LEMMA ControlStep ==
  ASSUME ControlTypes, [Next]_vars
  PROVE  ControlTypes'
<1> USE DEF ControlTypes, Phase, countVars, storageVars, bitsetVars, slotVars, combineVars
<1>1. ASSUME NEW t \in Task, Register(t) PROVE ControlTypes'
  BY <1>1 DEF Register
<1>2. ASSUME NEW t \in Task, ReadPointer(t) PROVE ControlTypes'
  BY <1>2 DEF ReadPointer
<1>3. ASSUME NEW t \in Task, Allocate(t) PROVE ControlTypes'
  BY <1>3 DEF Allocate
<1>4. ASSUME NEW t \in Task, FindIndex(t) PROVE ControlTypes'
  BY <1>4 DEF FindIndex
<1>5. ASSUME NEW t \in Task, LoadWord(t) PROVE ControlTypes'
  BY <1>5 DEF LoadWord, Saw
<1>6. ASSUME NEW t \in Task, Exchange(t) PROVE ControlTypes'
  BY <1>6 DEF Exchange, Saw
<1>7. ASSUME NEW t \in Task, InitializeSlot(t) PROVE ControlTypes'
  BY <1>7 DEF InitializeSlot
<1>8. ASSUME NEW t \in Task, ReadCopy(t) PROVE ControlTypes'
  BY <1>8 DEF ReadCopy
<1>9. ASSUME NEW t \in Task, WriteCopy(t) PROVE ControlTypes'
  BY <1>9 DEF WriteCopy
<1>10. ASSUME NEW t \in Task, ReleaseSlotsInUse(t) PROVE ControlTypes'
  BY <1>10 DEF ReleaseSlotsInUse
<1>11. ASSUME NEW t \in Task, Unregister(t) PROVE ControlTypes'
  BY <1>11 DEF Unregister
<1>12. ASSUME NEW t \in Task, LeaveCpu(t) PROVE ControlTypes'
  BY <1>12 DEF LeaveCpu
<1>13. ASSUME NEW t \in Task, NEW c \in Cpu, Start(t, c) PROVE ControlTypes'
  BY <1>13 DEF Start
<1>14. ASSUME Close PROVE ControlTypes'
  BY <1>14 DEF Close
<1>15. ASSUME Satisfy PROVE ControlTypes'
  BY <1>15 DEF Satisfy
<1>16. ASSUME CombineSlot PROVE ControlTypes'
  BY <1>16 DEF CombineSlot
<1>17. CASE UNCHANGED vars
  BY <1>17 DEF vars
<1>18. QED
  BY <1>1, <1>2, <1>3, <1>4, <1>5, <1>6, <1>7, <1>8, <1>9, <1>10, <1>11, <1>12, <1>13,
     <1>14, <1>15, <1>16, <1>17
  DEF Next, Step

(* The storage, and the pointer to it.                                     *)
LEMMA StorageStep ==
  ASSUME StorageTypes, [Next]_vars
  PROVE  StorageTypes'
<1> USE DEF countVars, storageVars, bitsetVars, slotVars, combineVars
<1>1. ASSUME UNCHANGED storageVars PROVE StorageTypes'
  BY <1>1 DEF StorageTypes
<1>2. ASSUME NEW t \in Task,
             Register(t) \/ FindIndex(t) \/ LoadWord(t) \/ Exchange(t) \/
             InitializeSlot(t) \/ ReadCopy(t) \/ WriteCopy(t) \/
             Unregister(t) \/ LeaveCpu(t)
      PROVE  StorageTypes'
  BY <1>1, <1>2
  DEF Register, FindIndex, LoadWord, Exchange, InitializeSlot, ReadCopy, WriteCopy,
      Unregister, LeaveCpu, Saw
<1>3. ASSUME NEW t \in Task, NEW c \in Cpu, Start(t, c) PROVE StorageTypes'
  BY <1>1, <1>3 DEF Start
<1>4. ASSUME Close \/ Satisfy \/ CombineSlot \/ UNCHANGED vars PROVE StorageTypes'
  BY <1>1, <1>4 DEF Close, Satisfy, CombineSlot, vars
<1>5. ASSUME NEW t \in Task, ReadPointer(t) PROVE StorageTypes'
  BY <1>5 DEF ReadPointer, StorageTypes
<1>6. ASSUME NEW t \in Task, Allocate(t) PROVE StorageTypes'
  BY <1>6 DEF Allocate, StorageTypes
<1>7. ASSUME NEW t \in Task, ReleaseSlotsInUse(t) PROVE StorageTypes'
  BY <1>7 DEF ReleaseSlotsInUse, StorageTypes
<1>8. QED
  BY <1>2, <1>3, <1>4, <1>5, <1>6, <1>7 DEF Next, Step

(* The bits that are set, and what a task has seen of them.                *)
LEMMA BitsetStep ==
  ASSUME BitsetTypes, ControlTypes, Slots, [Next]_vars
  PROVE  BitsetTypes'
<1> USE DEF countVars, storageVars, bitsetVars, slotVars, combineVars
<1>1. ASSUME UNCHANGED bitsetVars PROVE BitsetTypes'
  BY <1>1 DEF BitsetTypes, ControlTypes
<1>2. ASSUME NEW t \in Task,
             Register(t) \/ ReadPointer(t) \/ Allocate(t) \/
             InitializeSlot(t) \/ ReadCopy(t) \/ WriteCopy(t) \/
             Unregister(t) \/ LeaveCpu(t)
      PROVE  BitsetTypes'
  BY <1>1, <1>2
  DEF Register, ReadPointer, Allocate, InitializeSlot, ReadCopy, WriteCopy,
      Unregister, LeaveCpu
<1>3. ASSUME NEW t \in Task, NEW c \in Cpu, Start(t, c) PROVE BitsetTypes'
  BY <1>1, <1>3 DEF Start
<1>4. ASSUME Close \/ Satisfy \/ CombineSlot \/ UNCHANGED vars PROVE BitsetTypes'
  BY <1>1, <1>4 DEF Close, Satisfy, CombineSlot, vars
<1>5. ASSUME NEW t \in Task, FindIndex(t) PROVE BitsetTypes'
  BY <1>5 DEF FindIndex, BitsetTypes, ControlTypes
<1>6. ASSUME NEW t \in Task, LoadWord(t) PROVE BitsetTypes'
  <2>1. storage[t] \in Task /\ taken[storage[t]] \in SUBSET Slot
    BY <1>6 DEF LoadWord, Slots, Allocated, BitsetTypes
  <2>2. Word(storage[t], pos[t]) \in SUBSET Slot
    BY <2>1 DEF Word
  <2>3. QED
    BY <1>6, <2>2, CpuCount, StorageAssumption DEF LoadWord, Saw, BitsetTypes
<1>7. ASSUME NEW t \in Task, Exchange(t) PROVE BitsetTypes'
  <2>1. storage[t] \in Task /\ taken[storage[t]] \in SUBSET Slot
    BY <1>7 DEF Exchange, Slots, Allocated, BitsetTypes
  <2>2. Word(storage[t], pos[t]) \in SUBSET Slot
    BY <2>1 DEF Word
  <2>3. FirstZero(value[t], pos[t]) \subseteq Slot
    BY CpuCount, StorageAssumption DEF FirstZero, ZeroBits, Slot, BitsetTypes
  <2>4. QED
    BY <1>7, <2>1, <2>2, <2>3, CpuCount, StorageAssumption DEF Exchange, Saw, BitsetTypes
<1>8. ASSUME NEW t \in Task, ReleaseSlotsInUse(t) PROVE BitsetTypes'
  BY <1>8 DEF ReleaseSlotsInUse, BitsetTypes, ControlTypes
<1>9. QED
  BY <1>2, <1>3, <1>4, <1>5, <1>6, <1>7, <1>8 DEF Next, Step

(* The slots of tasks and CPUs.                                            *)
LEMMA SlotStep ==
  ASSUME SlotTypes, BitsetTypes, ControlTypes, Slots, [Next]_vars
  PROVE  SlotTypes'
<1> USE DEF countVars, storageVars, bitsetVars, slotVars, combineVars
<1>1. ASSUME UNCHANGED slotVars PROVE SlotTypes'
  BY <1>1 DEF SlotTypes
<1>2. ASSUME NEW t \in Task,
             Register(t) \/ ReadPointer(t) \/ Allocate(t) \/ LoadWord(t)
             \/ InitializeSlot(t) \/ ReadCopy(t) \/ WriteCopy(t) \/
             Unregister(t) \/ LeaveCpu(t)
      PROVE  SlotTypes'
  BY <1>1, <1>2
  DEF Register, ReadPointer, Allocate, LoadWord, InitializeSlot, ReadCopy, WriteCopy,
      Unregister, LeaveCpu, Saw
<1>3. ASSUME NEW t \in Task, NEW c \in Cpu, Start(t, c) PROVE SlotTypes'
  BY <1>1, <1>3 DEF Start
<1>4. ASSUME Close \/ Satisfy \/ CombineSlot \/ UNCHANGED vars PROVE SlotTypes'
  BY <1>1, <1>4 DEF Close, Satisfy, CombineSlot, vars
<1>5. ASSUME NEW t \in Task, FindIndex(t) PROVE SlotTypes'
  <2>1. storage[t] \in Task
    BY <1>5 DEF FindIndex, Slots, Allocated
  <2>2. cpu[t] \subseteq Cpu
    BY DEF ControlTypes
  <2>3. \A c \in cpu[t] : current[storage[t]][c] \in Slot \cup {NoSlot}
    BY <2>1, <2>2 DEF SlotTypes
  <2>4. slot' \in [Task -> Slot \cup {NoSlot}]
    BY <1>5, <2>3 DEF FindIndex, SlotTypes
  <2>5. UNCHANGED current
    BY <1>5 DEF FindIndex
  <2>6. QED
    BY <2>4, <2>5 DEF SlotTypes
<1>6. ASSUME NEW t \in Task, Exchange(t) PROVE SlotTypes'
  <2>1. FirstZero(value[t], pos[t]) \subseteq Slot
    BY CpuCount, StorageAssumption DEF FirstZero, ZeroBits, Slot, BitsetTypes
  <2>2. UNCHANGED slotVars \/
        \E free \in Slot :
          /\ slot' = [slot EXCEPT ![t] = free]
          /\ current' = [current EXCEPT ![storage[t]] =
                            [c \in Cpu |-> IF c \in cpu[t] THEN free ELSE @[c]]]
    BY <1>6, <2>1 DEF Exchange
  <2>3. ASSUME NEW free \in Slot,
               slot' = [slot EXCEPT ![t] = free],
               current' = [current EXCEPT ![storage[t]] =
                            [c \in Cpu |-> IF c \in cpu[t] THEN free ELSE @[c]]]
        PROVE  SlotTypes'
    <3>1. storage[t] \in Task
      BY <1>6 DEF Exchange, Slots, Allocated
    <3>2. [c \in Cpu |-> IF c \in cpu[t] THEN free ELSE current[storage[t]][c]] \in [Cpu -> Slot \cup {NoSlot}]
      BY <3>1 DEF SlotTypes
    <3>3. current' \in [Task -> [Cpu -> Slot \cup {NoSlot}]]
      BY <2>3, <3>2 DEF SlotTypes
    <3>4. QED
      BY <2>3, <3>3 DEF SlotTypes
  <2>4. QED
    BY <2>2, <2>3 DEF SlotTypes
<1>7. ASSUME NEW t \in Task, ReleaseSlotsInUse(t) PROVE SlotTypes'
  BY <1>7 DEF ReleaseSlotsInUse, SlotTypes
<1>8. QED
  BY <1>2, <1>3, <1>4, <1>5, <1>6, <1>7 DEF Next, Step

(* A copy is replaced in the array of the slots of a storage.              *)
LEMMA UpdateCopy ==
  ASSUME NEW S, NEW f \in [Task -> [Slot -> S]], NEW z \in Task, NEW i \in Slot, NEW v \in S
  PROVE  /\ [f EXCEPT ![z][i] = v] \in [Task -> [Slot -> S]]
         /\ \A w \in Task, j \in Slot :
              [f EXCEPT ![z][i] = v][w][j] = IF w = z /\ j = i THEN v ELSE f[w][j]
  OBVIOUS

(* The copies and the result.                                              *)
LEMMA CopyStep ==
  ASSUME CopyTypes, StorageTypes, BitsetTypes, Slots, [Next]_vars
  PROVE  CopyTypes'
<1> USE DEF countVars, storageVars, bitsetVars, slotVars, combineVars
<1>1. ASSUME UNCHANGED <<copy, read, result>> PROVE CopyTypes'
  BY <1>1 DEF CopyTypes
<1>2. ASSUME NEW t \in Task,
             Register(t) \/ ReadPointer(t) \/ Allocate(t) \/ FindIndex(t)
             \/ LoadWord(t) \/ Exchange(t) \/ ReleaseSlotsInUse(t) \/
             Unregister(t) \/ LeaveCpu(t)
      PROVE  CopyTypes'
  BY <1>1, <1>2
  DEF Register, ReadPointer, Allocate, FindIndex, LoadWord, Exchange,
      ReleaseSlotsInUse, Unregister, LeaveCpu, Saw
<1>3. ASSUME NEW t \in Task, NEW c \in Cpu, Start(t, c) PROVE CopyTypes'
  BY <1>1, <1>3 DEF Start
<1>4. ASSUME Close \/ Satisfy \/ UNCHANGED vars PROVE CopyTypes'
  BY <1>1, <1>4 DEF Close, Satisfy, vars
<1>5. ASSUME NEW t \in Task, InitializeSlot(t) PROVE CopyTypes'
  <2>1. storage[t] = deviceStorage /\ deviceStorage \in Task /\ slot[t] \in Slot
    BY <1>5 DEF InitializeSlot, Slots, Allocated, HasSlot, BitsetTypes
  <2> DEFINE old == copy[deviceStorage][slot[t]]
             v == IF old = {} THEN {Nothing} ELSE old
  <2>2. v \in SUBSET [Task -> Nat] /\ copy' = [copy EXCEPT ![deviceStorage][slot[t]] = v]
    <3>1. old \in SUBSET [Task -> Nat] /\ {Nothing} \in SUBSET [Task -> Nat]
      BY <2>1 DEF CopyTypes, Nothing
    <3>2. QED
      BY <1>5, <2>1, <3>1 DEF InitializeSlot
  <2> HIDE DEF v
  <2>3. copy' \in [Task -> [Slot -> SUBSET [Task -> Nat]]]
    BY <2>1, <2>2, UpdateCopy DEF CopyTypes
  <2>4. QED
    BY <1>5, <2>3 DEF InitializeSlot, CopyTypes, combineVars
<1>6. ASSUME NEW t \in Task, ReadCopy(t) PROVE CopyTypes'
  <2>1. storage[t] = deviceStorage /\ deviceStorage \in Task /\ slot[t] \in Slot
    BY <1>6 DEF ReadCopy, Slots, Allocated, HasSlot, BitsetTypes
  <2>2. copy[storage[t]][slot[t]] \subseteq [Task -> Nat]
    BY <2>1 DEF CopyTypes
  <2>3. read' \in [Task -> [Task -> Nat]]
    BY <1>6, <2>2 DEF ReadCopy, CopyTypes
  <2>4. QED
    BY <1>6, <2>3 DEF ReadCopy, CopyTypes, combineVars
<1>7. ASSUME NEW t \in Task, WriteCopy(t) PROVE CopyTypes'
  <2>1. storage[t] = deviceStorage /\ deviceStorage \in Task /\ slot[t] \in Slot
    BY <1>7 DEF WriteCopy, Slots, Allocated, HasSlot, BitsetTypes
  <2>2. {[read[t] EXCEPT ![t] = @ + 1]} \in SUBSET [Task -> Nat] /\ Nothing \in [Task -> Nat]
    BY DEF CopyTypes, Nothing
  <2>3. copy' = [copy EXCEPT ![deviceStorage][slot[t]] = {[read[t] EXCEPT ![t] = @ + 1]}]
    BY <1>7, <2>1 DEF WriteCopy
  <2>4. copy' \in [Task -> [Slot -> SUBSET [Task -> Nat]]]
    BY <2>1, <2>2, <2>3, UpdateCopy DEF CopyTypes
  <2>5. read' \in [Task -> [Task -> Nat]]
    BY <1>7, <2>2 DEF WriteCopy, CopyTypes
  <2>6. QED
    BY <1>7, <2>4, <2>5 DEF WriteCopy, CopyTypes, combineVars
<1>8. ASSUME CombineSlot PROVE CopyTypes'
  <2>1. combining \in Slot /\ UNCHANGED read
    BY <1>8 DEF CombineSlot
  <2>2. CASE Initialized(combining) = {} /\ UNCHANGED <<copy, result>>
    BY <2>1, <2>2 DEF CopyTypes
  <2>3. ASSUME NEW v \in Initialized(combining), result' = [u \in Task |-> result[u] + v[u]],
               copy' = [copy EXCEPT ![deviceStorage][combining] = {}]
        PROVE  CopyTypes'
    <3>1. deviceStorage \in Task /\ v \in [Task -> Nat]
      BY <2>1, <2>3 DEF Initialized, CopyTypes, StorageTypes
    <3>2. copy' \in [Task -> [Slot -> SUBSET [Task -> Nat]]]
      BY <2>1, <2>3, <3>1, UpdateCopy DEF CopyTypes
    <3>3. result' \in [Task -> Nat]
      <4>1. \A u \in Task : result[u] + v[u] \in Nat
        BY <3>1 DEF CopyTypes
      <4>2. QED
        BY <2>3, <4>1
    <3>4. QED
      BY <2>1, <3>2, <3>3 DEF CopyTypes
  <2>4. QED
    BY <1>8, <2>2, <2>3 DEF CombineSlot
<1>9. QED
  BY <1>2, <1>3, <1>4, <1>5, <1>6, <1>7, <1>8 DEF Next, Step

-----------------------------------------------------------------------------
LEMMA FiniteCount == IsFiniteSet(Counted) /\ Cardinality(Counted) \in Nat
  BY StorageAssumption, FS_Subset, FS_CardinalityType DEF Counted

(* Somebody who gives a count back has one to give.                        *)
LEMMA GiveBackCount ==
  ASSUME CountTypes, Count, GiveBack, registered >= 1
  PROVE  /\ registered' = registered - 1 /\ registered' \in Nat
         /\ combining = NoSlot
         /\ registered' = 0 <=> combining' # NoSlot
         /\ combining' \in {NoSlot, 0}
  BY StorageAssumption DEF CountTypes, Count, GiveBack

(* The count is exact, and never negative.                                *)
LEMMA CountStep ==
  ASSUME ControlTypes, CountTypes, Count, [Next]_vars
  PROVE  (Count /\ CountTypes)'
<1> USE DEF countVars, storageVars, bitsetVars, slotVars, combineVars
<1>1. ASSUME UNCHANGED <<registered, closed, satisfied, combining, Counted>> PROVE (Count /\ CountTypes)'
  BY <1>1 DEF Count, CountTypes
<1>2. ASSUME NEW t \in Task,
             ReadPointer(t) \/ Allocate(t) \/ FindIndex(t) \/ LoadWord(t)
             \/ Exchange(t) \/ InitializeSlot(t) \/ ReadCopy(t) \/
             WriteCopy(t) \/ ReleaseSlotsInUse(t) \/ LeaveCpu(t)
      PROVE  (Count /\ CountTypes)'
  BY <1>1, <1>2
  DEF ReadPointer, Allocate, FindIndex, LoadWord, Exchange, InitializeSlot, ReadCopy,
      WriteCopy, ReleaseSlotsInUse, LeaveCpu, Counted, ControlTypes, Phase, Saw
<1>3. ASSUME NEW t \in Task, NEW c \in Cpu, Start(t, c) PROVE (Count /\ CountTypes)'
  BY <1>1, <1>3 DEF Start, Counted, ControlTypes, Phase
<1>4. ASSUME UNCHANGED vars PROVE (Count /\ CountTypes)'
  BY <1>1, <1>4 DEF vars, Counted, ControlTypes, Phase
<1>5. ASSUME NEW t \in Task, Register(t) PROVE (Count /\ CountTypes)'
  <2>1. t \notin Counted /\ Counted' = Counted \cup {t}
    BY <1>5 DEF Register, Counted, ControlTypes
  <2>2. Cardinality(Counted') = Cardinality(Counted) + 1
    BY <2>1, FiniteCount, FS_AddElement
  <2>3. QED
    BY <1>5, <2>2, FiniteCount DEF Register, Count, CountTypes
<1>6. ASSUME NEW t \in Task, Unregister(t) PROVE (Count /\ CountTypes)'
  <2>1. t \in Counted /\ Counted' = Counted \ {t}
    BY <1>6 DEF Unregister, Counted, ControlTypes
  <2>2. Cardinality(Counted') = Cardinality(Counted) - 1 /\ Cardinality(Counted') \in Nat
    BY <2>1, FiniteCount, FS_RemoveElement, FS_CardinalityType
  <2>3. registered >= 1
    BY <2>2, FiniteCount DEF Count
  <2>4. QED
    BY <1>6, <2>2, <2>3, FiniteCount, GiveBackCount DEF Unregister, Count, CountTypes
<1>7. ASSUME Close PROVE (Count /\ CountTypes)'
  <2>1. UNCHANGED Counted /\ registered >= 1
    BY <1>7, FiniteCount DEF Close, Counted, Count
  <2>2. QED
    BY <1>7, <2>1, FiniteCount, GiveBackCount DEF Close, Count, CountTypes
<1>8. ASSUME Satisfy PROVE (Count /\ CountTypes)'
  <2>1. UNCHANGED Counted /\ registered >= 1
    BY <1>8, FiniteCount DEF Satisfy, Counted, Count
  <2>2. QED
    BY <1>8, <2>1, FiniteCount, GiveBackCount DEF Satisfy, Count, CountTypes
<1>9. ASSUME CombineSlot PROVE (Count /\ CountTypes)'
  <2>1. combining \in Nat /\ combining' = combining + 1 /\ UNCHANGED <<Counted, countVars>>
    BY <1>9, CpuCount DEF CombineSlot, Slot, Counted
  <2>2. QED
    BY <2>1, StorageAssumption DEF Count, CountTypes
<1>10. QED
  BY <1>2, <1>3, <1>4, <1>5, <1>6, <1>7, <1>8, <1>9 DEF Next, Step

(* What is combined is not in use.                                         *)
LEMMA Quiet ==
  ASSUME CountTypes, Count, combining # NoSlot
  PROVE  closed /\ \A t \in Task : pc[t] \in {"none", "unregistered"}
<1>1. registered = 0
  BY DEF Count
<1>2. Cardinality(Counted) = 0 /\ closed
  BY <1>1, FiniteCount DEF Count
<1>3. Counted = {}
  BY <1>2, FiniteCount, FS_EmptySet
<1>4. QED
  BY <1>2, <1>3 DEF Counted

Updating == {t \in Task : pc[t] = "updating"}

(* A copy is written by the task that has its slot, from what it read.     *)
LEMMA CopiesStep ==
  ASSUME ControlTypes, StorageTypes, BitsetTypes, SlotTypes, CopyTypes, CountTypes, Slots, Count, Copies, [Next]_vars
  PROVE  Copies'
<1> USE DEF countVars, storageVars, bitsetVars, slotVars, combineVars
<1>1. ASSUME UNCHANGED <<copy, deviceStorage, slot, read, Updating>> PROVE Copies'
  BY <1>1 DEF Copies, Updating
<1>2. ASSUME NEW t \in Task,
             Register(t) \/ ReadPointer(t) \/ LoadWord(t) \/
             Unregister(t) \/ LeaveCpu(t)
      PROVE  Copies'
  BY <1>1, <1>2
  DEF Register, ReadPointer, LoadWord, Unregister, LeaveCpu, Updating, ControlTypes,
      Phase, Saw
<1>3. ASSUME NEW t \in Task, NEW c \in Cpu, Start(t, c) PROVE Copies'
  BY <1>1, <1>3 DEF Start, Updating, ControlTypes, Phase
<1>4. ASSUME Close \/ Satisfy \/ UNCHANGED vars PROVE Copies'
  BY <1>1, <1>4 DEF Close, Satisfy, vars, Updating, ControlTypes, Phase
<1>5. ASSUME NEW t \in Task, Allocate(t) PROVE Copies'
  <2>1. UNCHANGED <<copy, slot, read, Updating>> /\ (deviceStorage \in Task => UNCHANGED deviceStorage)
    BY <1>5, StorageAssumption DEF Allocate, Updating, ControlTypes
  <2>2. CASE deviceStorage \in Task
    BY <1>5, <2>1, <2>2, <1>1
  <2>3. CASE deviceStorage = NoStorage
    <3>1. \A u \in Task, i \in Slot : copy[u][i] = {}
      BY <2>3, StorageAssumption DEF Copies
    <3>2. Updating = {}
      BY <2>3, StorageAssumption DEF Updating, Slots, Allocated, HasSlot
    <3>3. QED
      BY <2>1, <3>1, <3>2 DEF Copies, Updating
  <2>4. QED
    BY <2>2, <2>3 DEF StorageTypes
<1>6. ASSUME NEW t \in Task, FindIndex(t) PROVE Copies'
  <2>1. UNCHANGED <<copy, deviceStorage, read, Updating>> /\ t \notin Updating
    BY <1>6 DEF FindIndex, Saw, Updating, ControlTypes
  <2>2. \A u \in Updating : slot'[u] = slot[u]
    BY <1>6, <2>1 DEF FindIndex, SlotTypes, Updating
  <2>3. QED
    BY <2>1, <2>2 DEF Copies, Updating
<1>7. ASSUME NEW t \in Task, Exchange(t) PROVE Copies'
  <2>1. UNCHANGED <<copy, deviceStorage, read, Updating>> /\ t \notin Updating
    BY <1>7 DEF Exchange, Saw, Updating, ControlTypes
  <2>2. \A u \in Updating : slot'[u] = slot[u]
    BY <1>7, <2>1 DEF Exchange, SlotTypes, Updating
  <2>3. QED
    BY <2>1, <2>2 DEF Copies, Updating
<1>8. ASSUME NEW t \in Task, InitializeSlot(t) PROVE Copies'
  <2>1. storage[t] = deviceStorage /\ deviceStorage \in Task /\ slot[t] \in Slot /\ t \in HasSlot
    BY <1>8 DEF InitializeSlot, Slots, Allocated, HasSlot, BitsetTypes
  <2>2. Updating' = Updating /\ t \notin Updating /\ Updating \subseteq HasSlot
    BY <1>8 DEF InitializeSlot, Updating, ControlTypes, HasSlot
  <2> DEFINE old == copy[deviceStorage][slot[t]]
             v == IF old = {} THEN {Nothing} ELSE old
  <2>3. v \in SUBSET [Task -> Nat] /\ copy' = [copy EXCEPT ![deviceStorage][slot[t]] = v]
    <3>1. old \in SUBSET [Task -> Nat] /\ {Nothing} \in SUBSET [Task -> Nat]
      BY <2>1 DEF CopyTypes, Nothing
    <3>2. QED
      BY <1>8, <2>1, <3>1 DEF InitializeSlot
  <2>4. \A x, y \in v : x = y
    BY <2>1 DEF Copies
  <2> HIDE DEF v
  <2>5. \A w \in Task, j \in Slot : copy'[w][j] = IF w = deviceStorage /\ j = slot[t] THEN v ELSE copy[w][j]
    BY <2>1, <2>3, UpdateCopy DEF CopyTypes
  <2>6. UNCHANGED <<deviceStorage, slot, read>>
    BY <1>8 DEF InitializeSlot
  <2>7. \A u \in Updating : copy'[deviceStorage][slot[u]] = copy[deviceStorage][slot[u]]
    BY <2>1, <2>2, <2>5 DEF Slots, BitsetTypes
  <2>8. QED
    BY <2>2, <2>4, <2>5, <2>6, <2>7 DEF Copies, Updating
<1>9. ASSUME NEW t \in Task, ReadCopy(t) PROVE Copies'
  <2>1. storage[t] = deviceStorage /\ deviceStorage \in Task /\ slot[t] \in Slot /\ t \in HasSlot
    BY <1>9 DEF ReadCopy, Slots, Allocated, HasSlot, BitsetTypes
  <2>2. Updating' = Updating \cup {t} /\ t \notin Updating
    BY <1>9 DEF ReadCopy, Updating, ControlTypes
  <2>3. UNCHANGED <<copy, deviceStorage, slot>>
    BY <1>9 DEF ReadCopy
  <2>4. \A u \in Updating' : read'[u] = IF u = t THEN read'[t] ELSE read[u]
    BY <1>9, <2>2 DEF ReadCopy, CopyTypes
  <2>5. read'[t] \in copy[deviceStorage][slot[t]]
    BY <1>9, <2>1 DEF ReadCopy, CopyTypes
  <2>6. QED
    BY <2>2, <2>3, <2>4, <2>5 DEF Copies, Updating
<1>10. ASSUME NEW t \in Task, WriteCopy(t) PROVE Copies'
  <2>1. storage[t] = deviceStorage /\ deviceStorage \in Task /\ slot[t] \in Slot /\ t \in HasSlot
    BY <1>10 DEF WriteCopy, Slots, Allocated, HasSlot, BitsetTypes
  <2>2. Updating' = Updating \ {t} /\ Updating \subseteq HasSlot
    BY <1>10 DEF WriteCopy, Updating, ControlTypes, HasSlot
  <2> DEFINE v == [read[t] EXCEPT ![t] = @ + 1]
  <2>3. {v} \in SUBSET [Task -> Nat] /\ copy' = [copy EXCEPT ![deviceStorage][slot[t]] = {v}]
    <3>1. {v} \in SUBSET [Task -> Nat]
      BY DEF CopyTypes
    <3>2. QED
      BY <1>10, <2>1, <3>1 DEF WriteCopy
  <2> HIDE DEF v
  <2>4. \A w \in Task, j \in Slot : copy'[w][j] = IF w = deviceStorage /\ j = slot[t] THEN {v} ELSE copy[w][j]
    BY <2>1, <2>3, UpdateCopy DEF CopyTypes
  <2>5. UNCHANGED <<deviceStorage, slot>> /\ \A u \in Updating' : read'[u] = read[u]
    BY <1>10, <2>2 DEF WriteCopy, CopyTypes
  <2>6. \A u \in Updating' : copy'[deviceStorage][slot[u]] = copy[deviceStorage][slot[u]]
    BY <2>1, <2>2, <2>4 DEF Slots, BitsetTypes
  <2>7. QED
    BY <2>2, <2>4, <2>5, <2>6 DEF Copies, Updating
<1>11. ASSUME NEW t \in Task, ReleaseSlotsInUse(t) PROVE Copies'
  <2>1. UNCHANGED <<copy, deviceStorage, read, Updating>> /\ t \notin Updating
    BY <1>11 DEF ReleaseSlotsInUse, Saw, Updating, ControlTypes
  <2>2. \A u \in Updating : slot'[u] = slot[u]
    BY <1>11, <2>1 DEF ReleaseSlotsInUse, SlotTypes, Updating
  <2>3. QED
    BY <2>1, <2>2 DEF Copies, Updating
<1>12. ASSUME CombineSlot PROVE Copies'
  <2>1. combining \in Slot /\ UNCHANGED <<deviceStorage, slot, read, Updating>>
    BY <1>12 DEF CombineSlot, Updating
  <2>2. Updating = {}
    BY <2>1, Quiet, CpuCount, StorageAssumption DEF Updating, Slot
  <2>3. CASE UNCHANGED copy
    BY <2>1, <2>2, <2>3 DEF Copies, Updating
  <2>4. CASE deviceStorage \in Task /\ copy' = [copy EXCEPT ![deviceStorage][combining] = {}]
    <3>1. \A w \in Task, j \in Slot : copy'[w][j] = IF w = deviceStorage /\ j = combining THEN {} ELSE copy[w][j]
      BY <2>1, <2>4, UpdateCopy DEF CopyTypes
    <3>2. QED
      BY <2>1, <2>2, <3>1 DEF Copies, Updating
  <2>5. QED
    BY <1>12, <2>3, <2>4 DEF CombineSlot, Initialized, StorageTypes
<1>13. QED
  BY <1>2, <1>3, <1>4, <1>5, <1>6, <1>7, <1>8, <1>9, <1>10, <1>11, <1>12 DEF Next, Step

(* The count goes on to the combination, which starts at the first slot.   *)
LEMMA GiveBackContributions ==
  ASSUME Contributions, UNCHANGED <<copy, deviceStorage, result, Updated>>,
         combining = NoSlot, combining' \in {NoSlot, 0}
  PROVE  Contributions'
<1>1. \A i \in Slot : NotCombined(i)'
  BY CpuCount DEF NotCombined, Slot
<1>2. \A t \in Task, i \in Slot : (InCopy(t, i)' <=> InCopy(t, i)) /\ (NotInCopy(t, i)' <=> NotInCopy(t, i))
  BY DEF InCopy, NotInCopy
<1>3. QED
  BY <1>1, <1>2 DEF Contributions, Contribution

(* A contribution moves from the copy to the result, and is in one of them.*)
LEMMA ContributionsStep ==
  ASSUME ControlTypes, StorageTypes, BitsetTypes, CopyTypes, CountTypes, Slots, Count, Copies, Contributions, [Next]_vars
  PROVE  Contributions'
<1> USE DEF countVars, storageVars, bitsetVars, slotVars, combineVars
<1>1. ASSUME UNCHANGED <<copy, deviceStorage, result, combining, Updated>> PROVE Contributions'
  BY <1>1 DEF Contributions, Contribution, InCopy, NotInCopy, NotCombined
<1>2. ASSUME NEW t \in Task,
             Register(t) \/ ReadPointer(t) \/ FindIndex(t) \/ LoadWord(t)
             \/ Exchange(t) \/ ReadCopy(t) \/ ReleaseSlotsInUse(t) \/
             LeaveCpu(t)
      PROVE  Contributions'
  BY <1>1, <1>2
  DEF Register, ReadPointer, FindIndex, LoadWord, Exchange, ReadCopy,
      ReleaseSlotsInUse, LeaveCpu, Updated, ControlTypes, Phase, Saw
<1>3. ASSUME NEW t \in Task, NEW c \in Cpu, Start(t, c) PROVE Contributions'
  BY <1>1, <1>3 DEF Start, Updated, ControlTypes, Phase
<1>4. ASSUME UNCHANGED vars PROVE Contributions'
  BY <1>1, <1>4 DEF vars, Updated, ControlTypes, Phase
<1>5. ASSUME NEW t \in Task, Allocate(t) PROVE Contributions'
  <2>1. UNCHANGED <<copy, result, combining, Updated>> /\ (deviceStorage \in Task => UNCHANGED deviceStorage)
    BY <1>5, StorageAssumption DEF Allocate, Updated, ControlTypes
  <2>2. CASE deviceStorage \in Task
    BY <2>1, <2>2, <1>1
  <2>3. CASE deviceStorage = NoStorage
    <3>1. \A u \in Task, i \in Slot : copy'[u][i] = {}
      BY <2>1, <2>3, StorageAssumption DEF Copies
    <3>2. Updated' = {}
      BY <2>1, <2>3, StorageAssumption DEF Updated, Contributions, Contribution
    <3>3. \A u \in Task : result'[u] = 0
      BY <2>1, <2>3, <3>2 DEF Contributions, Contribution
    <3>4. QED
      BY <3>1, <3>2, <3>3 DEF Contributions, Contribution, NotInCopy
  <2>4. QED
    BY <2>2, <2>3 DEF StorageTypes
<1>6. ASSUME NEW t \in Task, InitializeSlot(t) PROVE Contributions'
  <2>1. storage[t] = deviceStorage /\ deviceStorage \in Task /\ slot[t] \in Slot /\ t \in HasSlot
    BY <1>6 DEF InitializeSlot, Slots, Allocated, HasSlot, BitsetTypes
  <2> DEFINE old == copy[deviceStorage][slot[t]]
             v == IF old = {} THEN {Nothing} ELSE old
  <2>2. v \in SUBSET [Task -> Nat] /\ copy' = [copy EXCEPT ![deviceStorage][slot[t]] = v]
    <3>1. old \in SUBSET [Task -> Nat] /\ {Nothing} \in SUBSET [Task -> Nat]
      BY <2>1 DEF CopyTypes, Nothing
    <3>2. QED
      BY <1>6, <2>1, <3>1 DEF InitializeSlot
  <2>3. UNCHANGED <<deviceStorage, result, combining, Updated>>
    BY <1>6 DEF InitializeSlot, combineVars, Updated, ControlTypes
  <2>4. \A u \in Task : (\A x \in v : x[u] = 0) <=> (\A x \in old : x[u] = 0)
    BY DEF Nothing
  <2>5. \A u \in Task : (\E x \in old : x[u] = 1) => (\E x \in v : x[u] = 1)
    OBVIOUS
  <2> HIDE DEF v
  <2>6. \A j \in Slot : copy'[deviceStorage][j] = IF j = slot[t] THEN v ELSE copy[deviceStorage][j]
    BY <2>1, <2>2, UpdateCopy DEF CopyTypes
  <2>7. \A u \in Task, j \in Slot : (NotInCopy(u, j)' <=> NotInCopy(u, j)) /\ (InCopy(u, j) => InCopy(u, j)')
    BY <2>3, <2>4, <2>5, <2>6 DEF InCopy, NotInCopy
  <2>8. \A j \in Slot : NotCombined(j)' <=> NotCombined(j)
    BY <2>3 DEF NotCombined
  <2>9. QED
    BY <2>3, <2>7, <2>8 DEF Contributions, Contribution
<1>7. ASSUME NEW t \in Task, WriteCopy(t) PROVE Contributions'
  <2>1. storage[t] = deviceStorage /\ deviceStorage \in Task /\ slot[t] \in Slot /\ t \in HasSlot
    BY <1>7 DEF WriteCopy, Slots, Allocated, HasSlot, BitsetTypes
  <2> DEFINE v == [read[t] EXCEPT ![t] = @ + 1]
  <2>2. {v} \in SUBSET [Task -> Nat] /\ copy' = [copy EXCEPT ![deviceStorage][slot[t]] = {v}]
    <3>1. {v} \in SUBSET [Task -> Nat]
      BY DEF CopyTypes
    <3>2. QED
      BY <1>7, <2>1, <3>1 DEF WriteCopy
  <2>3. UNCHANGED <<deviceStorage, result, combining>>
    BY <1>7 DEF WriteCopy, combineVars
  <2>4. t \notin Updated /\ Updated' = Updated \cup {t}
    BY <1>7 DEF WriteCopy, Updated, ControlTypes
  <2>5. copy[deviceStorage][slot[t]] = {read[t]}
    BY <1>7, <2>1 DEF WriteCopy, Copies
  <2>6. result[t] = 0 /\ \A i \in Slot : NotInCopy(t, i)
    BY <2>1, <2>4 DEF Contributions, Contribution
  <2>7. v[t] = 1 /\ \A u \in Task \ {t} : v[u] = read[t][u]
    BY <2>1, <2>5, <2>6 DEF NotInCopy, CopyTypes
  <2> HIDE DEF v
  <2>8. \A j \in Slot : copy'[deviceStorage][j] = IF j = slot[t] THEN {v} ELSE copy[deviceStorage][j]
    BY <2>1, <2>2, UpdateCopy DEF CopyTypes
  <2>9. \A u \in Task \ {t}, j \in Slot :
          (NotInCopy(u, j)' <=> NotInCopy(u, j)) /\ (InCopy(u, j)' <=> InCopy(u, j))
    BY <2>3, <2>5, <2>7, <2>8 DEF InCopy, NotInCopy
  <2>10. InCopy(t, slot[t])' /\ \A j \in Slot \ {slot[t]} : NotInCopy(t, j)'
    <3>1. \E x \in copy'[deviceStorage'][slot[t]] : x[t] = 1
      BY <2>1, <2>3, <2>7, <2>8
    <3>2. UNCHANGED slot
      BY <1>7 DEF WriteCopy, slotVars
    <3>3. QED
      BY <2>3, <2>6, <2>8, <3>1, <3>2 DEF InCopy, NotInCopy
  <2>11. combining = NoSlot
    BY <1>7, Quiet DEF WriteCopy
  <2>12. \A j \in Slot : NotCombined(j) /\ NotCombined(j)'
    BY <2>3, <2>11 DEF NotCombined
  <2>13. Contribution(t)'
    <3>1. t \in Updated' /\ result'[t] = 0 /\ deviceStorage' \in Task
      BY <2>1, <2>3, <2>4, <2>6
    <3>2. UNCHANGED slot
      BY <1>7 DEF WriteCopy, slotVars
    <3>3. QED
      BY <2>1, <2>10, <2>12, <3>1, <3>2 DEF Contribution
  <2>14. \A u \in Task \ {t} : Contribution(u)'
    BY <2>3, <2>4, <2>9, <2>12 DEF Contributions, Contribution
  <2>15. QED
    BY <2>13, <2>14 DEF Contributions
<1>8. ASSUME NEW t \in Task, Unregister(t) PROVE Contributions'
  <2>1. UNCHANGED <<copy, deviceStorage, result, Updated>>
    BY <1>8 DEF Unregister, Updated, ControlTypes
  <2>2. t \in Counted
    BY <1>8 DEF Unregister, Counted
  <2>3. Cardinality(Counted) # 0
    BY <2>2, FiniteCount, FS_EmptySet
  <2>4. registered >= 1
    BY <2>3, FiniteCount DEF Count
  <2>5. combining = NoSlot /\ combining' \in {NoSlot, 0}
    BY <1>8, <2>4, GiveBackCount DEF Unregister
  <2>6. QED
    BY <2>1, <2>5, GiveBackContributions
<1>9. ASSUME Close PROVE Contributions'
  <2>1. UNCHANGED <<copy, deviceStorage, result, Updated>>
    BY <1>9 DEF Close, Updated, ControlTypes
  <2>2. registered >= 1
    BY <1>9, FiniteCount DEF Close, Count
  <2>3. combining = NoSlot /\ combining' \in {NoSlot, 0}
    BY <1>9, <2>2, GiveBackCount DEF Close
  <2>4. QED
    BY <2>1, <2>3, GiveBackContributions
<1>10. ASSUME Satisfy PROVE Contributions'
  <2>1. UNCHANGED <<copy, deviceStorage, result, Updated>>
    BY <1>10 DEF Satisfy, Updated, ControlTypes
  <2>2. registered >= 1
    BY <1>10, FiniteCount DEF Satisfy, Count
  <2>3. combining = NoSlot /\ combining' \in {NoSlot, 0}
    BY <1>10, <2>2, GiveBackCount DEF Satisfy
  <2>4. QED
    BY <2>1, <2>3, GiveBackContributions
<1>11. ASSUME CombineSlot PROVE Contributions'
  <2>1. combining \in Slot /\ combining' = combining + 1 /\ UNCHANGED <<deviceStorage, Updated>>
    BY <1>11 DEF CombineSlot, Updated
  <2>2. \A i \in Slot : NotCombined(i) /\ i # combining => NotCombined(i)'
    BY <2>1, CpuCount, StorageAssumption DEF NotCombined, Slot
  <2>3. CASE Initialized(combining) = {} /\ UNCHANGED <<copy, result>>
    <3>1. deviceStorage \in Task => \A u \in Task : ~InCopy(u, combining)
      BY <2>3, StorageAssumption DEF Initialized, InCopy
    <3>2. \A u \in Task, i \in Slot : (NotInCopy(u, i)' <=> NotInCopy(u, i)) /\ (InCopy(u, i)' <=> InCopy(u, i))
      BY <2>1, <2>3 DEF NotInCopy, InCopy
    <3>3. QED
      BY <2>1, <2>2, <2>3, <3>1, <3>2 DEF Contributions, Contribution
  <2>4. ASSUME NEW v \in Initialized(combining),
               result' = [u \in Task |-> result[u] + v[u]],
               copy' = [copy EXCEPT ![deviceStorage][combining] = {}]
        PROVE  Contributions'
    <3>1. deviceStorage \in Task /\ v \in [Task -> Nat] /\ copy[deviceStorage][combining] = {v}
      BY <2>1, <2>4 DEF Initialized, CopyTypes, StorageTypes, Copies
    <3>2. \A j \in Slot : copy'[deviceStorage][j] = IF j = combining THEN {} ELSE copy[deviceStorage][j]
      BY <2>1, <2>4, <3>1, UpdateCopy DEF CopyTypes
    <3>3. \A u \in Task, j \in Slot :
            /\ NotInCopy(u, j) => NotInCopy(u, j)'
            /\ j = combining => NotInCopy(u, j)'
            /\ j # combining => (InCopy(u, j)' <=> InCopy(u, j))
      <4>1. \A u \in Task, j \in Slot : NotInCopy(u, j) => NotInCopy(u, j)'
        BY <2>1, <3>2 DEF NotInCopy
      <4>2. \A u \in Task : \A x \in copy'[deviceStorage'][combining] : x[u] = 0
        BY <2>1, <3>2
      <4>3. \A u \in Task, j \in Slot : j # combining => (InCopy(u, j)' <=> InCopy(u, j))
        BY <2>1, <3>2 DEF InCopy
      <4>4. \A u \in Task, j \in Slot : j = combining => NotInCopy(u, j)'
        BY <2>1, <4>2 DEF NotInCopy
      <4>5. QED
        BY <4>1, <4>3, <4>4
    <3>4. \A u \in Task : (NotInCopy(u, combining) => v[u] = 0) /\ (InCopy(u, combining) => v[u] = 1)
      BY <3>1 DEF NotInCopy, InCopy
    <3>5. \A u \in Task : result'[u] = result[u] + v[u]
      BY <2>4
    <3>6. SUFFICES ASSUME NEW u \in Task PROVE Contribution(u)'
      BY DEF Contributions
    <3>7. CASE u \notin Updated
      BY <2>1, <3>1, <3>3, <3>4, <3>5, <3>7 DEF Contributions, Contribution
    <3>8. CASE u \in Updated /\ result[u] = 1 /\ \A i \in Slot : NotInCopy(u, i)
      BY <2>1, <3>1, <3>3, <3>4, <3>5, <3>8 DEF Contribution
    <3>9. ASSUME NEW i \in Slot, u \in Updated, result[u] = 0, NotCombined(i), InCopy(u, i),
                 \A j \in Slot \ {i} : NotInCopy(u, j)
          PROVE  Contribution(u)'
      <4>1. CASE i = combining
        BY <2>1, <3>1, <3>3, <3>4, <3>5, <3>9, <4>1 DEF Contribution
      <4>2. CASE i # combining
        BY <2>1, <2>2, <3>1, <3>3, <3>4, <3>5, <3>9, <4>2 DEF Contribution
      <4>3. QED
        BY <4>1, <4>2
    <3>10. QED
      BY <3>7, <3>8, <3>9 DEF Contributions, Contribution
  <2>5. QED
    BY <1>11, <2>3, <2>4 DEF CombineSlot
<1>12. QED
  BY <1>2, <1>3, <1>4, <1>5, <1>6, <1>7, <1>8, <1>9, <1>10, <1>11 DEF Next, Step

-----------------------------------------------------------------------------
LEMMA StepInvariant == IInv /\ [Next]_vars => IInv'
<1> SUFFICES ASSUME IInv, [Next]_vars PROVE IInv'
  OBVIOUS
<1>1. TypeOK /\ Placement /\ Slots /\ Count /\ Copies /\ Contributions
  BY DEF IInv
<1>2. ControlTypes /\ StorageTypes /\ BitsetTypes /\ SlotTypes /\ CopyTypes /\ CountTypes
  BY <1>1, TypeParts
<1>3. Placement' /\ Slots'
  BY <1>1, PlacementStep, SlotsStep
<1>4. ControlTypes' /\ StorageTypes' /\ BitsetTypes' /\ SlotTypes' /\ CopyTypes'
  BY <1>1, <1>2, ControlStep, StorageStep, BitsetStep, SlotStep, CopyStep
<1>5. Count' /\ CountTypes'
  BY <1>1, <1>2, CountStep
<1>6. Copies' /\ Contributions'
  BY <1>1, <1>2, CopiesStep, ContributionsStep
<1>7. TypeOK'
  BY <1>4, <1>5
  DEF TypeOK, Phase, ControlTypes, StorageTypes, BitsetTypes, SlotTypes, CopyTypes,
      CountTypes
<1>8. QED
  BY <1>3, <1>5, <1>6, <1>7 DEF IInv

(* The invariant holds in every state.                                     *)
THEOREM Inductive == Spec => []IInv
  BY InitInvariant, StepInvariant, PTL DEF Spec

(* TypeOK: the count never underflows, and a slot of the storage is one of *)
(* its NumCpus slots, however many bits the last word of the bitset has.   *)
THEOREM TypeCorrect == Spec => []TypeOK
<1>1. IInv => TypeOK
  BY DEF IInv
<1>2. QED
  BY <1>1, Inductive, PTL

(* SlotIsPrivate: two tasks that run at once have different slots of one   *)
(* storage, whatever the order of their exchanges and allocations.         *)
THEOREM SlotsArePrivate == Spec => []SlotIsPrivate
<1>1. IInv => SlotIsPrivate
  BY DEF IInv, Slots, SlotIsPrivate, Allocated
<1>2. QED
  BY <1>1, Inductive, PTL

(* NothingIsLost: the combination is alone, and when it has passed the last*)
(* slot the original address has every contribution once.                  *)
THEOREM NothingGetsLost == Spec => []NothingIsLost
<1>1. IInv => NothingIsLost
  <2> SUFFICES ASSUME IInv, combining # NoSlot PROVE CombinedAlone /\ CombinedOnce
    <3>1. NumCpus # NoSlot
      BY CpuCount, StorageAssumption
    <3>2. QED
      BY <3>1 DEF NothingIsLost, CombinedAlone, CombinedOnce
  <2>1. TypeOK /\ Count /\ Contributions /\ CountTypes
    BY TypeParts DEF IInv
  <2>2. \A t \in Task : pc[t] \in {"none", "unregistered"}
    BY <2>1, Quiet
  <2>3. ASSUME combining = NumCpus, NEW t \in Task
        PROVE  result[t] = IF pc[t] = "none" THEN 0 ELSE 1
    <3>1. \A i \in Slot : ~NotCombined(i)
      BY <2>3, CpuCount, StorageAssumption DEF NotCombined, Slot
    <3>2. Contribution(t)
      BY <2>1 DEF Contributions
    <3>3. QED
      BY <2>2, <3>1, <3>2 DEF Contribution, Updated
  <2>4. QED
    BY <2>2, <2>3 DEF CombinedAlone, CombinedOnce
<1>2. QED
  BY <1>1, Inductive, PTL
=============================================================================
