----------------------------- MODULE DataAccess -----------------------------
(***************************************************************************)
(* The automata of one data access (dependencies/discrete/DataAccess.cpp). *)
(*                                                                         *)
(* An access is a word of atomic flags.  A message sets new flags with one *)
(* fetch_add; from the flags it adds and the ones that were there before,  *)
(* the automata of the access decides which satisfiability goes on to its  *)
(* successor, to its child or to its parent, whether its task may be       *)
(* scheduled, and whether nothing can reach the access any more.           *)
(*                                                                         *)
(* A word of flags is a set.  The four satisfiability kinds are treated    *)
(* alike by the code, so a flag that exists once per kind is a pair of its *)
(* name and the kind.                                                      *)
(***************************************************************************)
EXTENDS Sequences

CONSTANT NoAccess          (* the null DataAccess pointer                  *)

Kind == {"READ", "WRITE", "CONCURRENT", "COMMUTATIVE"}

(* Readers run together, concurrents run together, and commutatives are    *)
(* ordered by the commutative semaphore only.                              *)
SharedType == {"READ", "CONCURRENT", "COMMUTATIVE"}
AccessType == SharedType \cup {"WRITE", "READWRITE", "REDUCTION"}

Satisfied(K)      == {<<"SATISFIED", k>> : k \in K}
ChildDone(K)      == {<<"CHILD_DONE", k>> : k \in K}
NextSatisfied(K)  == {<<"NEXT_SATISFIED", k>> : k \in K}
ChildSatisfied(K) == {<<"CHILD_SATISFIED", k>> : k \in K}

UNREGISTERED       == <<"UNREGISTERED", "">>
HASNEXT            == <<"HASNEXT", "">>
HASCHILD           == <<"HASCHILD", "">>
PARENT_DONE        == <<"PARENT_DONE", "">>
NEXTISPARENT       == <<"NEXTISPARENT", "">>
REDUCTION_COMBINED == <<"REDUCTION_COMBINED", "">>

Flag == Satisfied(Kind) \cup ChildDone(Kind) \cup NextSatisfied(Kind)
          \cup ChildSatisfied(Kind)
          \cup {UNREGISTERED, HASNEXT, HASCHILD, PARENT_DONE, NEXTISPARENT,
                REDUCTION_COMBINED}

(* DataAccessMessage: "flagsForNext" is delivered to "to"; when that is    *)
(* done, "flagsAfterPropagation" is set in "from".                         *)
NoMessage == [flagsForNext |-> {}, flagsAfterPropagation |-> {},
              from |-> NoAccess, to |-> NoAccess,
              schedule |-> FALSE, combine |-> FALSE]

(* Mutant: the condition need not become complete now.                     *)
PropagatesAgain(new, all, condition) == condition \subseteq all

(* PROPAGATE(condition): complete now, and not complete before.            *)
Propagates(new, all, condition) ==
  new \cap condition # {} /\ condition \subseteq all

(* The kinds the automata hands to the child access.                       *)
KindsForChild(new, all) ==
  {k \in Kind : Propagates(new, all, Satisfied({k}) \cup {HASCHILD})}

(* Mutants: a shared access passes every shared kind at once; nobody waits *)
(* for the nested tasks of an access.                                      *)
ReleaseConditionAnyShared(type, k) ==
  IF {type, k} \subseteq SharedType
  THEN Satisfied({k}) \cup {HASNEXT}
  ELSE Satisfied({k}) \cup ChildDone({k}) \cup {UNREGISTERED, HASNEXT}

ReleaseConditionNoChildren(type, k) ==
  IF type = k /\ type \in SharedType
  THEN Satisfied({k}) \cup {HASNEXT}
  ELSE Satisfied({k} \cup (SharedType \cap {type})) \cup {UNREGISTERED, HASNEXT}

(* What kind k waits for before the successor gets it.  A shared access    *)
(* passes its own kind at once and holds the others until its own kind has *)
(* arrived; every other access passes nothing before it is unregistered.   *)
ReleaseCondition(type, k) ==
  IF type = k /\ type \in SharedType
  THEN Satisfied({k}) \cup {HASNEXT}
  ELSE Satisfied({k} \cup (SharedType \cap {type})) \cup ChildDone({k})
         \cup {UNREGISTERED, HASNEXT}

KindsForNext(type, new, all) ==
  {k \in Kind : Propagates(new, all, ReleaseCondition(type, k))}

(* Mutant: both the own kind and the write kind schedule the task.         *)
SchedulesTwice(type, weak, new) ==
  ~weak /\ type # "REDUCTION" /\ Satisfied({type, "WRITE"}) \cap new # {}

(* The kind that lets the task of a strong access run.  Reductions are     *)
(* never scheduled by a message: their tasks always start.                 *)
Schedules(type, weak, new) ==
  /\ ~weak
  /\ type # "REDUCTION"
  /\ Satisfied(IF type \in SharedType THEN {type} ELSE {"WRITE"}) \subseteq new


Combines(type, new) == type = "REDUCTION" /\ Satisfied({"WRITE"}) \subseteq new

MessageToChild(a, K, child, schedule) ==
  [NoMessage EXCEPT !.flagsForNext = Satisfied(K),
                    !.flagsAfterPropagation = ChildSatisfied(K),
                    !.from = a, !.to = child, !.schedule = schedule]

(* When the successor is the access of the parent task, what it gets is    *)
(* that its child is done with the kinds.                                  *)
MessageToNext(a, K, next, all, schedule) ==
  [NoMessage EXCEPT
     !.flagsForNext = IF NEXTISPARENT \in all THEN ChildDone(K) ELSE Satisfied(K),
     !.flagsAfterPropagation = NextSatisfied(K),
     !.from = a, !.to = IF K = {} THEN NoAccess ELSE next,
     !.schedule = schedule]

(* The messages that adding the flags "new" to access a sends, last pushed *)
(* (the top of the mailbox) first.                                         *)
Messages(a, acc, new, next, child) ==
  LET all  == acc.flags \cup new
      toC  == KindsForChild(new, all)
      toN  == KindsForNext(acc.type, new, all)
      run  == Schedules(acc.type, acc.weak, new)
      comb == Combines(acc.type, new)
      ForChild == <<MessageToChild(a, toC, child, run)>>
      ForNext  == <<MessageToNext(a, toN, next, all, run /\ toC = {})>>
      Single   == IF toC # {} /\ toN = {} THEN ForChild[1]
                  ELSE MessageToNext(a, toN, next, all, run)
  IN  IF acc.type \in SharedType
      THEN (IF toN # {} \/ (run /\ toC = {}) THEN ForNext ELSE <<>>)
             \o (IF toC # {} THEN ForChild ELSE <<>>)
      ELSE IF toC \cup toN = {} /\ ~run /\ ~comb THEN <<>>
      ELSE <<[Single EXCEPT
                !.combine = comb,
                !.flagsAfterPropagation =
                   @ \cup (IF comb THEN {REDUCTION_COMBINED} ELSE {})]>>

(* Mutant: the access still at the bottom of its parent's map may go.      *)
DisposeFlagsNoParent(all, type) == Satisfied(Kind) \cup {UNREGISTERED}

(* calculateDisposing: nothing can reach an access with these flags.       *)
DisposeFlags(all, type) ==
  Satisfied(Kind) \cup {UNREGISTERED}
    \cup (IF HASCHILD \in all THEN ChildSatisfied(Kind) \cup ChildDone(Kind) ELSE {})
    \cup (IF {NEXTISPARENT, HASNEXT} \cap all # {} THEN NextSatisfied(Kind) ELSE {})
    \cup (IF NEXTISPARENT \in all \/ HASNEXT \notin all THEN {PARENT_DONE} ELSE {})
    \cup (IF type = "REDUCTION" THEN {REDUCTION_COMBINED} ELSE {})

Disposable(all, type) == DisposeFlags(all, type) \subseteq all

(* A fetch_add that adds no flag is not executed, and disposes nothing.    *)
Disposes(acc, new) == new # {} /\ Disposable(acc.flags \cup new, acc.type)

(* The assertions of apply, applyPropagated and the automata: no flag is   *)
(* added twice (an addition would carry into another flag), and the        *)
(* automata that answer with one message have one destination.             *)
AddsOnce(acc, new) == acc.flags \cap new = {}

OneDestination(acc, new) ==
  LET all == acc.flags \cup new
  IN  \/ acc.type \in SharedType
      \/ KindsForChild(new, all) = {}
      \/ KindsForNext(acc.type, new, all) = {}
=============================================================================
