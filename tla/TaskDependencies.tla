-------------------------- MODULE TaskDependencies --------------------------
(***************************************************************************)
(* What the dependency system promises to the program, without accesses,   *)
(* flags or messages: a task may start only when every task that comes     *)
(* before it in the sequential execution of the program, and whose access  *)
(* to one of its addresses conflicts with its own, is over (or has         *)
(* released the address), and commutative tasks on one address do not      *)
(* overlap.                                                                *)
(***************************************************************************)
CONSTANTS
  Task, Main

VARIABLES
  before,           (* the pairs <<u, t>> such that the sequential program *)
                    (* runs u before t and u does not contain t            *)
  declared,         (* declared[t][x]: type of the access of t on x, and   *)
                    (* whether it is weak                                  *)
  status,           (* none, created, running, finished                    *)
  released          (* the addresses a task released before it finished    *)

vars == <<before, declared, status, released>>

(* Readers do not wait for readers, concurrents for concurrents, nor       *)
(* commutatives for commutatives.  A reduction works on private storage    *)
(* and waits for nobody.                                                   *)
MustWait(first, second) ==
  /\ second # "REDUCTION"
  /\ ~(first = second /\ first \in {"READ", "CONCURRENT", "COMMUTATIVE"})

Strong(t) == {x \in DOMAIN declared[t] : ~declared[t][x].weak}

IsOver(u, x) == status[u] = "finished" \/ x \in released[u]

(* A weak access of u counts: a task nested in u may still use the address.*)
MayStart(t) ==
  /\ \A u \in Task : <<u, t>> \in before =>
       \A x \in Strong(t) \cap DOMAIN declared[u] :
         MustWait(declared[u][x].type, declared[t][x].type) => IsOver(u, x)
  /\ \A u \in Task : status[u] = "running" =>
       \A x \in Strong(t) \cap Strong(u) :
         ~(declared[u][x].type = "COMMUTATIVE" /\ declared[t][x].type = "COMMUTATIVE")

Init ==
  /\ status = [t \in Task |-> IF t = Main THEN "running" ELSE "none"]
  /\ released = [t \in Task |-> {}]

(* Tasks are created, several at once when they are run as a group.        *)
Create ==
  /\ status' \in [Task -> {"none", "created", "running", "finished"}]
  /\ \A t \in Task : status'[t] = status[t] \/ (status[t] = "none" /\ status'[t] = "created")
  /\ UNCHANGED <<before, declared, released>>

Start(t) ==
  /\ status[t] = "created"
  /\ MayStart(t)
  /\ status' = [status EXCEPT ![t] = "running"]
  /\ UNCHANGED <<before, declared, released>>

Release(t, x) ==
  /\ status[t] = "running"
  /\ released' = [released EXCEPT ![t] = @ \cup {x}]
  /\ UNCHANGED <<before, declared, status>>

Finish(t) ==
  /\ status[t] = "running"
  /\ status' = [status EXCEPT ![t] = "finished"]
  /\ UNCHANGED <<before, declared, released>>

Next ==
  \/ Create
  \/ \E t \in Task :
       \/ Start(t) \/ Finish(t)
       \/ \E x \in DOMAIN declared[t] : Release(t, x)

Spec == Init /\ [][Next]_vars
=============================================================================
