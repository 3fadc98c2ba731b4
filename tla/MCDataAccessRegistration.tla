---------------------- MODULE MCDataAccessRegistration ----------------------
(* Small programs for DataAccessRegistration.                              *)
EXTENDS DataAccessRegistration, TLC

CONSTANTS main, t1, t2, t3, t4, x1, x2, b1, b2

MCTask == {main, t1, t2, t3, t4}
TwoAddresses == {x1, x2}
OneAddress == {x1}
TwoBits == {b1, b2}
TwoHashes == x1 :> b1 @@ x2 :> b2
Collision == x1 :> b1 @@ x2 :> b1
OneHash == x1 :> b1

Use(type) == [type |-> type, weak |-> FALSE, operator |-> "+"]
WeakUse(type) == [type |-> type, weak |-> TRUE, operator |-> "+"]

(* A task that f does not mention does nothing.                            *)
BodyOf(f) == [t \in MCTask |-> IF t \in DOMAIN f THEN f[t] ELSE <<>>]
UsesOf(f) == [t \in MCTask |-> IF t \in DOMAIN f THEN f[t] ELSE [x \in {} |-> {}]]
create(t) == <<"create", t>>

(* The automata treat WRITE and READWRITE alike: one stands for both.      *)
Types == AccessType \ {"READWRITE"}

(* The types of the accesses of the children of a task with access u.      *)
Covered(u) == IF u.type \in {"WRITE", "READWRITE"} THEN AccessType ELSE {u.type}

-----------------------------------------------------------------------------
(* Three sibling tasks on one address, every combination of types.         *)
Siblings == BodyOf(main :> <<create(t1), create(t2), create(t3)>>)

Chain(a, b, c) == UsesOf(t1 :> (x1 :> a) @@ t2 :> (x1 :> b) @@ t3 :> (x1 :> c))

(* Reductions with different operators are two reductions.  (A third one   *)
(* may be combined before the second, see CombinedBeforeUse.)              *)
Multiply == [Use("REDUCTION") EXCEPT !.operator = "*"]

ChainProgram ==
  [body |-> Siblings,
   declarations |->
     {Chain(Use(a), Use(b), Use(c)) : a \in Types, b \in Types, c \in Types}
       \cup {Chain(Use("REDUCTION"), Multiply, Use(c)) : c \in Types \ {"REDUCTION"}}]

(* Commutative tasks on two addresses.                                     *)
CommutativeProgram ==
  [body |-> Siblings,
   declarations |->
     {UsesOf(t1 :> (x1 :> Use("COMMUTATIVE") @@ x2 :> Use("COMMUTATIVE")) @@
             t2 :> (x1 :> Use("COMMUTATIVE")) @@ t3 :> (x2 :> Use(c))) :
        c \in {"COMMUTATIVE", "READ"}}]

-----------------------------------------------------------------------------
(* A task with one nested task, and a task after it; weak and strong       *)
(* accesses of every type.  A strong reduction works on its private copy:  *)
(* only weak ones nest.  The chains have every type of successor; here     *)
(* three stand for them below a weak access, and one below a strong one.   *)
OuterUses == {WeakUse(type) : type \in Types} \cup {Use(type) : type \in Types \ {"REDUCTION"}}

NestProgram ==
  [body |-> BodyOf(main :> <<create(t1), create(t2)>> @@ t1 :> <<create(t3)>>),
   declarations |->
     {UsesOf(t1 :> (x1 :> u) @@ t3 :> (x1 :> Use(d)) @@ t2 :> (x1 :> Use(c))) :
        <<u, d, c>> \in {v \in OuterUses \X Types \X {"READ", "WRITE", "REDUCTION"} :
                           /\ v[2] \in Covered(v[1])
                           /\ v[1].weak \/ v[3] = "WRITE"}}]

(* Two nested tasks below a weak access, and a task after it.              *)
Subtree(u, d, e, c) ==
  UsesOf(t1 :> (x1 :> WeakUse(u)) @@ t3 :> (x1 :> Use(d)) @@ t4 :> (x1 :> Use(e)) @@
         t2 :> (x1 :> Use(c)))

SubtreeProgram ==
  [body |-> BodyOf(main :> <<create(t1), create(t2)>> @@ t1 :> <<create(t3), create(t4)>>),
   declarations |->
     {Subtree("READWRITE", d, "READWRITE", "READ") : d \in {"READ", "REDUCTION"}}
       \cup {Subtree("REDUCTION", "REDUCTION", "REDUCTION", "READWRITE")}]

(* Early release and taskwait.  t1 releases x1 before it ends; main waits  *)
(* for t1 and t2 before it creates t3.                                     *)
ReleaseProgram ==
  [body |-> BodyOf(main :> <<create(t1), create(t2), <<"taskwait", main>>, create(t3)>> @@
                   t1 :> <<<<"release", x1>>>>),
   declarations |->
     {UsesOf(t1 :> (x1 :> Use(a) @@ x2 :> Use("READWRITE")) @@ t2 :> (x1 :> Use(b)) @@
             t3 :> (x1 :> Use("READ") @@ x2 :> Use("READ"))) : a \in Types, b \in Types}]

-----------------------------------------------------------------------------
(* A reduction between two readers, and between a writer and a reader.     *)
ReadAheadProgram ==
  [body |-> Siblings, declarations |-> {Chain(Use("READ"), Use("REDUCTION"), Use("READ"))}]

PendingCombineProgram ==
  [body |-> Siblings, declarations |-> {Chain(Use("WRITE"), Use("REDUCTION"), Use("READ"))}]

SiblingPrograms == "chain" :> ChainProgram @@ "commutative" :> CommutativeProgram
NestedPrograms ==
  "nest" :> NestProgram @@ "subtree" :> SubtreeProgram @@ "release" :> ReleaseProgram @@
  "commutative" :> CommutativeProgram
ReadAheadPrograms == "read ahead" :> ReadAheadProgram
PendingCombinePrograms == "pending combine" :> PendingCombineProgram
=============================================================================
