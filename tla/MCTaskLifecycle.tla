--------------------------- MODULE MCTaskLifecycle ---------------------------
(* Programs for TaskLifecycle.                                             *)
EXTENDS TaskLifecycle, TLC

CONSTANTS main, a, b, d, s

MCTask == {main, a, b, d, s}
BodyOf(f) == [t \in MCTask |-> IF t \in DOMAIN f THEN f[t] ELSE <<>>]
create(t) == <<"create", t>>
spawn(t) == <<"spawn", t>>
taskwait == <<"taskwait", main>>
event == <<"event", main>>
context == <<"context", main>>
block == <<"block", main>>
unblock(t) == <<"unblock", t>>

(* main waits for two subtrees: a task with a wait clause that ends before *)
(* its child, and a task without one.                                      *)
WaitProgram ==
  [body |-> BodyOf(main :> <<create(a), create(b), taskwait, spawn(s)>> @@
                   a :> <<create(d)>> @@ b :> <<event>>),
   delayed |-> {main, a, s}, withAccesses |-> {a, d}, if0 |-> {}, coroutines |-> {}]

(* Nested wait clauses, nothing waits in a taskwait but the innermost.     *)
DelayProgram ==
  [body |-> BodyOf(main :> <<create(a)>> @@ a :> <<create(b), event>> @@
                   b :> <<create(d), create(s), taskwait, event>>),
   delayed |-> {main, a, b}, withAccesses |-> {b, d}, if0 |-> {}, coroutines |-> {}]

(* An if0 task that may have to wait for its dependencies, then one that   *)
(* may be run inline, with a child of its own.                             *)
If0Program ==
  [body |-> BodyOf(main :> <<create(a), create(b), taskwait>> @@ b :> <<create(d)>>),
   delayed |-> {main}, withAccesses |-> {a, b}, if0 |-> {a, b}, coroutines |-> {}]

(* Coroutines that wait for a child, one with a wait clause; a task that   *)
(* blocks until another one unblocks it, before or after that.             *)
SuspendProgram ==
  [body |-> BodyOf(main :> <<create(a), create(b), taskwait>> @@
                   a :> <<create(d), taskwait, context, block>> @@
                   b :> <<create(s), unblock(a), taskwait>>),
   delayed |-> {main, a}, withAccesses |-> {d}, if0 |-> {}, coroutines |-> {a, b}]

(* An if0 task that is a coroutine and waits for a child.                  *)
CoroutineIf0Program ==
  [body |-> BodyOf(main :> <<create(a)>> @@ a :> <<create(b), taskwait>>),
   delayed |-> {main}, withAccesses |-> {a}, if0 |-> {a}, coroutines |-> {a}]

(* A task that waits for its child with a blocking context at hand.        *)
ContextInTaskwaitProgram ==
  [body |-> BodyOf(main :> <<create(a), create(b)>> @@
                   a :> <<create(d), context, taskwait, block>> @@ b :> <<unblock(a)>>),
   delayed |-> {main}, withAccesses |-> {}, if0 |-> {}, coroutines |-> {}]

MCPrograms == "wait" :> WaitProgram @@ "delay" :> DelayProgram @@ "if0" :> If0Program
                @@ "suspend" :> SuspendProgram
If0Programs == "if0" :> If0Program
CoroutinePrograms == "coroutine" :> CoroutineIf0Program
ContextPrograms == "context" :> ContextInTaskwaitProgram

(* The theorems of TaskLifecycle_proofs are about such programs.           *)
ASSUME PairedPrograms == Programs \in {MCPrograms, If0Programs} => PairedWakeUps
=============================================================================
