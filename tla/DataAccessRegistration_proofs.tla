-------------------- MODULE DataAccessRegistration_proofs --------------------
(***************************************************************************)
(* For any tree of tasks and any accesses: no flag of an access is added   *)
(* twice, whatever the order in which threads link accesses, give them     *)
(* their satisfiability, unregister them and deliver messages.             *)
(*                                                                         *)
(* The invariant follows a flag from its cause to its arrival.  A message  *)
(* is sent when a condition of its sender becomes complete, which flags    *)
(* that are only added do once; so a message under way means a condition   *)
(* that is complete, and a note of its arrival (flagsAfterPropagation)     *)
(* that is still missing and in no other message.  Each access is reached  *)
(* from one other access only, its predecessor or its parent, and an       *)
(* access of a parent from the last access below it: so no two messages    *)
(* bring the same flag, and none brings one that is there.                 *)
(*                                                                         *)
(* This module states the invariant (IInv) and proves it for the steps     *)
(* that link no access and send nothing new: those that change no access   *)
(* (QuietStep), and those that add flags to accesses that are linked       *)
(* already (AddingStep).  FlagAdditions_proofs does the others and draws   *)
(* the conclusions.                                                        *)
(***************************************************************************)
EXTENDS DataAccessRegistration, SequenceTheorems, TLAPS

At(A, a) == A[a[1]][a[2]]
Of(A) == {a \in AccessId : a[2] \in DOMAIN A[a[1]]}
Access == Of(access)

AccessRecord ==
  [type : AccessType, weak : BOOLEAN, operator : {"+", "*"}, flags : SUBSET Flag,
   successor : AccessId \cup {NoAccess}, child : AccessId \cup {NoAccess},
   reductionInfo : AccessId \cup {NoReduction}]

IsAccessMap(A) ==
  /\ A = [t \in Task |-> [x \in DOMAIN A[t] |-> A[t][x]]]
  /\ \A t \in Task : DOMAIN A[t] \subseteq Address
  /\ \A a \in AccessId : a[2] \in DOMAIN A[a[1]] => A[a[1]][a[2]] \in AccessRecord

Place ==
  {"none", "registering", "submitted", "body", "insert", "give", "linked", "taskwait",
   "joinGive", "joined", "unregister", "propagate", "delivered",
   "finalize", "children", "releasing", "completing", "done"}

Creating == {"insert", "give", "linked"}
Joining == {"joinGive", "joined", "unregister"}

TypesOK ==
  /\ program \in DOMAIN Programs
  /\ pc \in [Task -> Place]
  /\ \E D \in Programs[program].declarations : \A t \in Task : Declared(t) = DOMAIN D[t]
  /\ IsAccessMap(access)
  /\ bottomMap \in [Task -> [Address -> [access : AccessId \cup {NoAccess},
                                         reductionInfo : AccessId \cup {NoReduction}]]]
  /\ frame \in [Task -> [ip : Nat \ {0}, todo : SUBSET Address,
                         addr : AccessId \cup {NoAccess}, message : Message,
                         own : Message, mailBox : Seq(Message),
                         reductionInfo : AccessId \cup {NoReduction}]]

-----------------------------------------------------------------------------
(* Where the threads are.                                                  *)

(* Task p is past operation i of its body, or at it.                       *)
Past(p, i) == Finished(p) \/ i < frame[p].ip

CreatedAt(c) ==
  /\ Parent[c] \in Task /\ Parent[c] # c
  /\ pc[Parent[c]] \notin {"none", "registering", "submitted"}
  /\ \E i \in DOMAIN Body[Parent[c]] :
       /\ Body[Parent[c]][i] = <<"create", c>>
       /\ Past(Parent[c], i) \/ (i = frame[Parent[c]].ip /\ pc[Parent[c]] \in Creating)

CreatesAt(p, c) ==
  /\ frame[p].ip \in DOMAIN Body[p]
  /\ Body[p][frame[p].ip] = <<"create", c>>
  /\ pc[c] = "registering"
  /\ frame[p].todo \subseteq Declared(c)

(* The access a thread is linking: nothing is linked to it yet.            *)
LinksAt(p, new) ==
  /\ frame[p].addr = new
  /\ Op(p) = <<"create", new[1]>> /\ new[2] \notin frame[p].todo
  /\ At(access, new).successor = NoAccess /\ At(access, new).child = NoAccess

Control ==
  /\ pc[Main] \notin {"none", "registering", "submitted"}
  /\ \A c \in Task \ {Main} : pc[c] # "none" => CreatedAt(c)
  /\ \A c \in Task : pc[c] = "registering" =>
       pc[Parent[c]] \in Creating /\ Op(Parent[c]) = <<"create", c>>
  /\ \A p \in Task : pc[p] \in Creating => \E c \in Task : CreatesAt(p, c)
  /\ \A p \in Task : pc[p] \in {"give", "linked"} => \E a \in Access : LinksAt(p, a)

(* insertAccesses has reached the access.                                  *)
Inserted(a) ==
  /\ a \in Access
  /\ pc[a[1]] # "none"
  /\ pc[a[1]] = "registering" => a[2] \notin frame[Parent[a[1]]].todo

-----------------------------------------------------------------------------
(* The links between accesses.                                             *)

Above(a) == <<Parent[a[1]], a[2]>>
LastBelow(b) == bottomMap[b[1]][b[2]].access

LinkFlags ==
  \A a \in Access :
    /\ HASNEXT \in At(access, a).flags <=> At(access, a).successor # NoAccess
    /\ HASCHILD \in At(access, a).flags <=> At(access, a).child # NoAccess
    /\ NEXTISPARENT \in At(access, a).flags => HASNEXT \in At(access, a).flags

NotYetLinked ==
  \A a \in Access : ~Inserted(a) =>
    /\ At(access, a).flags = {}
    /\ \A b \in Access : At(access, b).successor # a /\ At(access, b).child # a

ChildLinks ==
  \A a \in Access :
    /\ At(access, a).child \in Access \cup {NoAccess}
    /\ \A c \in Access : At(access, a).child = c => Inserted(c) /\ Above(c) = a

SuccessorLinks ==
  \A a \in Access :
    /\ At(access, a).successor \in Access \cup {NoAccess}
    /\ \A c \in Access : At(access, a).successor = c =>
         IF NEXTISPARENT \in At(access, a).flags THEN c = Above(a)
         ELSE Inserted(c) /\ Above(c) = Above(a) /\ c # a

(* An access has one predecessor, or is the first below its parent.        *)
OnePredecessor ==
  \A a, b, c \in Access :
    At(access, a).successor = c /\ NEXTISPARENT \notin At(access, a).flags =>
      /\ At(access, b).child # c
      /\ (At(access, b).successor = c /\ NEXTISPARENT \notin At(access, b).flags) => a = b

BottomLinks ==
  /\ \A b \in AccessId :
       /\ LastBelow(b) \in Access \cup {NoAccess}
       /\ \A c \in Access : LastBelow(b) = c =>
            /\ Inserted(c) /\ Above(c) = b
            /\ At(access, c).successor # NoAccess => NEXTISPARENT \in At(access, c).flags
       /\ b \in Access => (LastBelow(b) = NoAccess <=> At(access, b).child = NoAccess)
  /\ \A a \in Access : \A b \in AccessId :
       NEXTISPARENT \in At(access, a).flags /\ Above(a) = b => LastBelow(b) = a

-----------------------------------------------------------------------------
(* The end of an access.                                                   *)

ReleasedBy(p, x) ==
  \/ Finished(p)
  \/ \E j \in DOMAIN Body[p] :
       /\ Body[p][j] = <<"release", x>>
       /\ j < frame[p].ip \/ (j = frame[p].ip /\ pc[p] \in {"propagate", "delivered"})

(* The last access below an access was chained to it, which its thread is  *)
(* about to unregister.                                                    *)
JoinsAt(p, a) ==
  /\ frame[p].addr = a /\ a[1] = p
  /\ UNREGISTERED \notin At(access, a).flags
  /\ At(access, a).child # NoAccess
  /\ \A c \in Access : LastBelow(a) = c => NEXTISPARENT \in At(access, c).flags
  /\ IF Finished(p) THEN a[2] \notin frame[p].todo
     ELSE frame[p].ip \in DOMAIN Body[p] /\ Op(p) = <<"release", a[2]>>

Endings ==
  /\ \A a \in Access :
       /\ UNREGISTERED \in At(access, a).flags => ReleasedBy(a[1], a[2])
       /\ \A c \in Access : NEXTISPARENT \in At(access, a).flags /\ Above(a) = c =>
            \/ UNREGISTERED \in At(access, c).flags
            \/ pc[c[1]] \in Joining /\ frame[c[1]].addr = c
       /\ At(access, a).flags \cap ChildDone(Kind) # {} =>
            /\ At(access, a).child = NoAccess => UNREGISTERED \in At(access, a).flags
            /\ \A c \in Access : LastBelow(a) = c => NEXTISPARENT \in At(access, c).flags
  /\ \A p \in Task :
       /\ pc[p] \in Joining => \E a \in Access : JoinsAt(p, a)
       /\ Finished(p) /\ pc[p] \in Joining \cup {"propagate", "delivered", "finalize"} =>
            \A x \in frame[p].todo : x \in Declared(p) /\ UNREGISTERED \notin access[p][x].flags
       /\ pc[p] = "finalize" => frame[p].ip > Len(Body[p])
       /\ pc[p] = "children" => \A x \in frame[p].todo : LastBelow(<<p, x>>) # NoAccess

-----------------------------------------------------------------------------
(* The messages.  Slot 0 of a thread is the message in its hands, the      *)
(* others are its mailbox.                                                 *)

Slots == UNION {{p} \X (0..Len(frame[p].mailBox)) : p \in Task}
Msg(s) == IF s[2] = 0 THEN frame[s[1]].message ELSE frame[s[1]].mailBox[s[2]]

(* The message has not been delivered yet.                                 *)
Bears(s) == s[2] # 0 \/ pc[s[1]] \in {"give", "joinGive"}

(* An access with these flags has passed kind k on.                        *)
ToChild(flags, k) == Satisfied({k}) \cup {HASCHILD} \subseteq flags
ToNext(type, flags, k) == ReleaseCondition(type, k) \subseteq flags

(* The flag says that what the access passed on has arrived.               *)
Justified(type, flags, f) ==
  \/ \E k \in Kind : f = <<"CHILD_SATISFIED", k>> /\ ToChild(flags, k)
  \/ \E k \in Kind : f = <<"NEXT_SATISFIED", k>> /\ ToNext(type, flags, k)
  \/ f = REDUCTION_COMBINED /\ <<"SATISFIED", "WRITE">> \in flags

Note == NextSatisfied(Kind) \cup ChildSatisfied(Kind) \cup {REDUCTION_COMBINED}

Sent(A, m) ==
  /\ m.from \in Of(A)
  /\ \A f \in m.flagsAfterPropagation : Justified(At(A, m.from).type, At(A, m.from).flags, f)
  /\ m.flagsAfterPropagation \cap At(A, m.from).flags = {}

(* The ways a message takes, with the kinds K it brings.                   *)
GoesToChild(A, m, K) ==
  /\ At(A, m.from).child = m.to
  /\ m.flagsForNext = Satisfied(K) /\ ChildSatisfied(K) \subseteq m.flagsAfterPropagation

GoesToNext(A, m, K) ==
  /\ At(A, m.from).successor = m.to
  /\ m.flagsForNext = (IF NEXTISPARENT \in At(A, m.from).flags THEN ChildDone(K) ELSE Satisfied(K))
  /\ NextSatisfied(K) \subseteq m.flagsAfterPropagation

Carried(A, m) ==
  m.flagsForNext # {} =>
    /\ m.to \in Of(A)
    /\ m.flagsForNext \cap At(A, m.to).flags = {}
    /\ \E K \in SUBSET Kind : GoesToChild(A, m, K) \/ GoesToNext(A, m, K)

SlotsOK ==
  /\ \A s \in Slots : Msg(s) = NoMessage \/ Sent(access, Msg(s))
  /\ \A s \in Slots : Bears(s) => Carried(access, Msg(s))

(* Two messages of one sender are about different flags.                   *)
NoDuplicates ==
  \A r, s \in Slots : r # s /\ Msg(r).from = Msg(s).from =>
    Msg(r).flagsAfterPropagation \cap Msg(s).flagsAfterPropagation = {}

(* Which slots of a thread hold a message.                                 *)
Holds(p) ==
  /\ pc[p] \notin {"give", "linked", "joinGive", "joined", "delivered"} =>
       frame[p].message = NoMessage
  /\ pc[p] \in {"give", "joinGive", "joined", "delivered"} => Sent(access, frame[p].message)
  /\ pc[p] \in {"give", "joinGive"} =>
       frame[p].message.flagsForNext # {} /\ frame[p].message.to = frame[p].addr
  /\ pc[p] \notin {"propagate", "delivered"} => frame[p].mailBox = <<>>
  /\ \A i \in DOMAIN frame[p].mailBox : Sent(access, frame[p].mailBox[i])

(* A combination found by the registration is noted by the registration.   *)
CombinesOwn(p) ==
  pc[p] = "linked" /\ frame[p].own.combine =>
    /\ frame[p].own.flagsAfterPropagation = {REDUCTION_COMBINED}
    /\ \A new \in Access : frame[p].addr = new =>
         /\ <<"SATISFIED", "WRITE">> \in At(access, new).flags
         /\ REDUCTION_COMBINED \notin At(access, new).flags
         /\ \A s \in Slots : Msg(s).from = new => REDUCTION_COMBINED \notin Msg(s).flagsAfterPropagation

Messaging ==
  SlotsOK /\ NoDuplicates /\ \A p \in Task : Holds(p) /\ CombinesOwn(p)

-----------------------------------------------------------------------------
(* What has arrived was sent.                                              *)
PassedOn(A, a, c, k) ==
  LET acc == At(A, a)
  IN  /\ acc.child = c /\ <<"SATISFIED", k>> \in At(A, c).flags => ToChild(acc.flags, k)
      /\ (acc.successor = c /\ NEXTISPARENT \notin acc.flags /\ <<"SATISFIED", k>> \in At(A, c).flags) =>
           ToNext(acc.type, acc.flags, k)
      /\ (acc.successor = c /\ NEXTISPARENT \in acc.flags /\ <<"CHILD_DONE", k>> \in At(A, c).flags) =>
           ToNext(acc.type, acc.flags, k)

Causes ==
  /\ \A a \in Access : \A f \in At(access, a).flags \cap Note :
       Justified(At(access, a).type, At(access, a).flags, f)
  /\ \A a, c \in Access : \A k \in Kind :
       /\ PassedOn(access, a, c, k)
       /\ Above(a) = c /\ <<"SATISFIED", k>> \in At(access, a).flags =>
            <<"SATISFIED", k>> \in At(access, c).flags

IInv ==
  /\ TypesOK /\ Control
  /\ LinkFlags /\ NotYetLinked /\ ChildLinks /\ SuccessorLinks /\ OnePredecessor /\ BottomLinks
  /\ Endings /\ Messaging /\ Causes

-----------------------------------------------------------------------------
(* The automata of one access.                                             *)

(* The condition of a propagation completes once.                          *)
LEMMA PropagatesOnce ==
  ASSUME NEW flags, NEW new, new \cap flags = {}, NEW condition,
         Propagates(new, flags \cup new, condition)
  PROVE  condition \subseteq flags \cup new /\ ~(condition \subseteq flags)
  BY DEF Propagates

(* The kinds an access passes to its child now were not passed before.     *)
LEMMA KindsForChildOnce ==
  ASSUME NEW flags, NEW new, new \cap flags = {},
         NEW k \in KindsForChild(new, flags \cup new)
  PROVE  k \in Kind /\ ToChild(flags \cup new, k) /\ ~ToChild(flags, k)
  BY PropagatesOnce DEF KindsForChild, ToChild

(* The kinds an access passes to its successor now were not passed before. *)
LEMMA KindsForNextOnce ==
  ASSUME NEW type, NEW flags, NEW new, new \cap flags = {},
         NEW k \in KindsForNext(type, new, flags \cup new)
  PROVE  k \in Kind /\ ToNext(type, flags \cup new, k) /\ ~ToNext(type, flags, k)
  BY PropagatesOnce DEF KindsForNext, ToNext

(* A message takes one of two ways.                                        *)
AnswersChild(m, child, K) ==
  /\ m.flagsForNext = Satisfied(K) /\ m.to = child /\ K # {}
  /\ ChildSatisfied(K) \subseteq m.flagsAfterPropagation
  /\ m.flagsAfterPropagation \subseteq ChildSatisfied(K) \cup {REDUCTION_COMBINED}

AnswersNext(m, next, all, K) ==
  /\ m.flagsForNext = (IF NEXTISPARENT \in all THEN ChildDone(K) ELSE Satisfied(K))
  /\ K # {} => m.to = next
  /\ NextSatisfied(K) \subseteq m.flagsAfterPropagation
  /\ m.flagsAfterPropagation \subseteq NextSatisfied(K) \cup {REDUCTION_COMBINED}

(* Sequences of at most one message put together.                          *)
LEMMA ConcatOfOne ==
  \A x, y : /\ <<x>> \o <<y>> = <<x, y>> /\ <<x>> \o <<>> = <<x>>
            /\ <<>> \o <<y>> = <<y>> /\ <<>> \o <<>> = <<>>
<1>1. ASSUME NEW x, NEW y PROVE <<x>> \o <<y>> = <<x, y>>
  <2> <<x>> \in Seq({x, y}) /\ <<y>> \in Seq({x, y})
    OBVIOUS
  <2> DEFINE s == <<x>> \o <<y>>
  <2>1. s \in Seq({x, y}) /\ Len(s) = 2 /\ s[1] = x /\ s[2] = y
    BY ConcatProperties
  <2>2. <<x, y>> \in Seq({x, y}) /\ Len(<<x, y>>) = 2 /\ <<x, y>>[1] = x /\ <<x, y>>[2] = y
    OBVIOUS
  <2> HIDE DEF s
  <2>3. \A i \in 1..2 : s[i] = <<x, y>>[i]
    BY <2>1, <2>2
  <2>4. s = <<x, y>>
    BY <2>1, <2>2, <2>3, SeqEqual
  <2> QED
    BY <2>4 DEF s
<1>2. ASSUME NEW x PROVE <<x>> \o <<>> = <<x>> /\ <<>> \o <<x>> = <<x>>
  OBVIOUS
<1>3. <<>> \o <<>> = <<>>
  OBVIOUS
<1>4. QED
  BY <1>1, <1>2, <1>3

(* The sequences of at most two messages.                                  *)
LEMMA ShortSequences ==
  \A S : <<>> \in Seq(S) /\ \A x, y \in S : <<x>> \in Seq(S) /\ <<x, y>> \in Seq(S)
  OBVIOUS

(* A shared access answers with up to two messages, the others with one.   *)
LEMMA SharedAnswers ==
  ASSUME NEW a, NEW acc, acc.type \in SharedType, NEW new, NEW next, NEW child
  PROVE  LET M    == Messages(a, acc, new, next, child)
             toC  == KindsForChild(new, acc.flags \cup new)
             toN  == KindsForNext(acc.type, new, acc.flags \cup new)
             run  == Schedules(acc.type, acc.weak, new)
             mN   == MessageToNext(a, toN, next, acc.flags \cup new, run /\ toC = {})
             mC   == MessageToChild(a, toC, child, run)
         IN  IF toC = {} THEN M = <<>> \/ M = <<mN>> ELSE M = <<mN, mC>> \/ M = <<mC>>
<1> DEFINE M   == Messages(a, acc, new, next, child)
           toC == KindsForChild(new, acc.flags \cup new)
           toN == KindsForNext(acc.type, new, acc.flags \cup new)
           run == Schedules(acc.type, acc.weak, new)
           mN  == MessageToNext(a, toN, next, acc.flags \cup new, run /\ toC = {})
           mC  == MessageToChild(a, toC, child, run)
<1> HIDE DEF toC, toN, run, mN, mC
<1>1. M = (IF toN # {} \/ (run /\ toC = {}) THEN <<mN>> ELSE <<>>)
            \o (IF toC # {} THEN <<mC>> ELSE <<>>)
  BY DEF Messages, toC, toN, run, mN, mC
<1>2. CASE toC = {}
  <2>1. M = <<mN>> \o <<>> \/ M = <<>> \o <<>>
    BY <1>1, <1>2
  <2>2. QED
    BY <2>1, <1>2, ConcatOfOne DEF M, toC, toN, run, mN, mC
<1>3. CASE toC # {}
  <2>1. M = <<mN>> \o <<mC>> \/ M = <<>> \o <<mC>>
    BY <1>1, <1>3
  <2>2. QED
    BY <2>1, <1>3, ConcatOfOne DEF M, toC, toN, run, mN, mC
<1>4. QED
  BY <1>2, <1>3

(* An access of another type answers with one message, or with none.       *)
LEMMA OtherAnswers ==
  ASSUME NEW a, NEW acc, acc.type \notin SharedType, NEW new, NEW next, NEW child
  PROVE  LET M    == Messages(a, acc, new, next, child)
             toC  == KindsForChild(new, acc.flags \cup new)
             toN  == KindsForNext(acc.type, new, acc.flags \cup new)
             run  == Schedules(acc.type, acc.weak, new)
             comb == Combines(acc.type, new)
             m    == IF toC # {} /\ toN = {} THEN MessageToChild(a, toC, child, run)
                     ELSE MessageToNext(a, toN, next, acc.flags \cup new, run)
         IN  \/ M = <<>>
             \/ M = <<[m EXCEPT !.combine = comb,
                       !.flagsAfterPropagation = @ \cup (IF comb THEN {REDUCTION_COMBINED} ELSE {})]>>
<1> DEFINE M    == Messages(a, acc, new, next, child)
           toC  == KindsForChild(new, acc.flags \cup new)
           toN  == KindsForNext(acc.type, new, acc.flags \cup new)
           run  == Schedules(acc.type, acc.weak, new)
           comb == Combines(acc.type, new)
           mN   == MessageToNext(a, toN, next, acc.flags \cup new, run)
           mC   == MessageToChild(a, toC, child, run)
           With(m) == [m EXCEPT !.combine = comb,
                       !.flagsAfterPropagation = @ \cup (IF comb THEN {REDUCTION_COMBINED} ELSE {})]
<1> HIDE DEF toC, toN, run, comb, mN, mC
<1>1. M = IF toC \cup toN = {} /\ ~run /\ ~comb THEN <<>>
          ELSE <<With(IF toC # {} /\ toN = {} THEN <<mC>>[1] ELSE mN)>>
  BY Zenon DEF Messages, toC, toN, run, comb, mN, mC
<1>2. <<mC>>[1] = mC
  OBVIOUS
<1>3. M = <<>> \/ M = <<With(IF toC # {} /\ toN = {} THEN mC ELSE mN)>>
  BY <1>1, <1>2, Zenon
<1>4. QED
  BY <1>3, Zenon DEF M, toC, toN, run, comb, mN, mC

(* What every answer brings and notes: it goes to the child or to the      *)
(* successor, and a combination is noted only with the write               *)
(* satisfiability.                                                         *)
LEMMA AnswerFields ==
  ASSUME NEW a, NEW acc, NEW new, NEW next, NEW child,
         NEW i \in DOMAIN Messages(a, acc, new, next, child)
  PROVE  LET m   == Messages(a, acc, new, next, child)[i]
             all == acc.flags \cup new
         IN  /\ m.from = a
             /\ \/ AnswersChild(m, child, KindsForChild(new, all))
                \/ AnswersNext(m, next, all, KindsForNext(acc.type, new, all))
             /\ REDUCTION_COMBINED \in m.flagsAfterPropagation => <<"SATISFIED", "WRITE">> \in new
<1> DEFINE all  == acc.flags \cup new
           toC  == KindsForChild(new, all)
           toN  == KindsForNext(acc.type, new, all)
           run  == Schedules(acc.type, acc.weak, new)
           comb == Combines(acc.type, new)
           C(b) == MessageToChild(a, toC, child, b)
           N(b) == MessageToNext(a, toN, next, all, b)
           M    == Messages(a, acc, new, next, child)
           m    == M[i]
<1>1. \A b : /\ C(b).from = a
             /\ C(b).flagsAfterPropagation = ChildSatisfied(toC)
             /\ toC # {} => AnswersChild(C(b), child, toC)
  BY DEF MessageToChild, NoMessage, AnswersChild
<1>2. \A b : /\ N(b).from = a
             /\ N(b).flagsAfterPropagation = NextSatisfied(toN)
             /\ AnswersNext(N(b), next, all, toN)
  BY DEF MessageToNext, NoMessage, AnswersNext
<1>3. REDUCTION_COMBINED \notin ChildSatisfied(toC) \cup NextSatisfied(toN)
  BY DEF REDUCTION_COMBINED, ChildSatisfied, NextSatisfied
<1>4. CASE acc.type \in SharedType
  <2>1. m = N(run /\ toC = {}) \/ (m = C(run) /\ toC # {})
    <3> HIDE DEF toC, toN, run, C, N, all, M
    <3>1. IF toC = {} THEN M = <<>> \/ M = <<N(run /\ toC = {})>>
          ELSE M = <<N(run /\ toC = {}), C(run)>> \/ M = <<C(run)>>
      BY <1>4, SharedAnswers, Zenon DEF toC, toN, run, C, N, all, M
    <3>2. i \in DOMAIN M
      BY DEF M
    <3>3. QED
      BY <3>1, <3>2
  <2>2. QED
    BY <2>1, <1>1, <1>2, <1>3
<1>5. CASE acc.type \notin SharedType
  <2> DEFINE S == IF toC # {} /\ toN = {} THEN C(run) ELSE N(run)
             T == [S EXCEPT !.combine = comb,
                            !.flagsAfterPropagation = @ \cup (IF comb THEN {REDUCTION_COMBINED} ELSE {})]
  <2>1. m = T
    <3> HIDE DEF toC, toN, run, comb, C, N, all, M
    <3>1. M = <<>> \/ M = <<T>>
      BY <1>5, OtherAnswers, Zenon DEF toC, toN, run, comb, C, N, all, M
    <3>2. i \in DOMAIN M
      BY DEF M
    <3> HIDE DEF T
    <3>3. QED
      BY <3>1, <3>2
  <2>2. /\ T.from = S.from /\ T.to = S.to /\ T.flagsForNext = S.flagsForNext
        /\ T.flagsAfterPropagation = S.flagsAfterPropagation \cup (IF comb THEN {REDUCTION_COMBINED} ELSE {})
    BY DEF MessageToChild, MessageToNext, NoMessage
  <2>3. /\ S.from = a
        /\ AnswersChild(S, child, toC) \/ AnswersNext(S, next, all, toN)
        /\ REDUCTION_COMBINED \notin S.flagsAfterPropagation
    BY <1>1, <1>2, <1>3
  <2>4. AnswersChild(T, child, toC) \/ AnswersNext(T, next, all, toN)
    BY <2>2, <2>3 DEF AnswersChild, AnswersNext
  <2>5. comb => <<"SATISFIED", "WRITE">> \in new
    BY DEF Combines, Satisfied
  <2>6. QED
    BY <2>1, <2>2, <2>3, <2>4, <2>5
<1>6. QED
  BY <1>4, <1>5

(* Two answers are about different flags.                                  *)
LEMMA AnswersDisjoint ==
  ASSUME NEW a, NEW acc, NEW new, NEW next, NEW child,
         NEW i \in DOMAIN Messages(a, acc, new, next, child),
         NEW j \in DOMAIN Messages(a, acc, new, next, child), i # j
  PROVE  LET M == Messages(a, acc, new, next, child)
         IN  M[i].flagsAfterPropagation \cap M[j].flagsAfterPropagation = {}
<1> DEFINE toC == KindsForChild(new, acc.flags \cup new)
           toN == KindsForNext(acc.type, new, acc.flags \cup new)
           M   == Messages(a, acc, new, next, child)
<1>1. CASE acc.type \in SharedType
  <2> DEFINE run == Schedules(acc.type, acc.weak, new)
             mN == MessageToNext(a, toN, next, acc.flags \cup new, run /\ toC = {})
             mC == MessageToChild(a, toC, child, run)
  <2>2. mN.flagsAfterPropagation = NextSatisfied(toN) /\ mC.flagsAfterPropagation = ChildSatisfied(toC)
    BY DEF MessageToChild, MessageToNext, NoMessage
  <2>3. NextSatisfied(toN) \cap ChildSatisfied(toC) = {}
    BY DEF NextSatisfied, ChildSatisfied
  <2> HIDE DEF M, mN, mC, toC, toN, run
  <2>4. i \in DOMAIN M /\ j \in DOMAIN M
    BY DEF M
  <2>5. M = <<>> \/ M = <<mN>> \/ M = <<mC>> \/ M = <<mN, mC>>
    <3>1. IF toC = {} THEN M = <<>> \/ M = <<mN>> ELSE M = <<mN, mC>> \/ M = <<mC>>
      BY <1>1, SharedAnswers, Zenon DEF M, mN, mC, toC, toN, run
    <3>2. QED
      BY <3>1
  <2>6. (M[i] = mN /\ M[j] = mC) \/ (M[i] = mC /\ M[j] = mN)
    BY <2>4, <2>5
  <2>7. QED
    BY <2>2, <2>3, <2>6 DEF M
<1>2. CASE acc.type \notin SharedType
  <2>1. \E m : M = <<>> \/ M = <<m>>
    <3> HIDE DEF M
    <3> QED BY <1>2, OtherAnswers, Zenon DEF M
  <2> HIDE DEF M
  <2>2. i \in DOMAIN M /\ j \in DOMAIN M
    BY DEF M
  <2>3. QED
    BY <2>1, <2>2
<1>3. QED
  BY <1>1, <1>2

(* Answers are messages.                                                   *)
LEMMA AnswersTyped ==
  ASSUME NEW a \in AccessId, NEW acc \in AccessRecord, NEW new \in SUBSET Flag,
         NEW next \in AccessId \cup {NoAccess}, NEW child \in AccessId \cup {NoAccess}
  PROVE  Messages(a, acc, new, next, child) \in Seq(Message)
<1> DEFINE toC == KindsForChild(new, acc.flags \cup new)
           toN == KindsForNext(acc.type, new, acc.flags \cup new)
           M   == Messages(a, acc, new, next, child)
<1>1. /\ Schedules(acc.type, acc.weak, new) \in BOOLEAN /\ Combines(acc.type, new) \in BOOLEAN
      /\ (Schedules(acc.type, acc.weak, new) /\ toC = {}) \in BOOLEAN
  BY DEF Schedules, Combines
<1>2. toC \subseteq Kind /\ toN \subseteq Kind
  BY DEF KindsForChild, KindsForNext
<1>3. \A b \in BOOLEAN : /\ MessageToChild(a, toC, child, b) \in Message
                         /\ MessageToNext(a, toN, next, acc.flags \cup new, b) \in Message
  <2>1. /\ Satisfied(toC) \subseteq Flag /\ Satisfied(toN) \subseteq Flag /\ ChildDone(toN) \subseteq Flag
        /\ ChildSatisfied(toC) \subseteq Flag /\ NextSatisfied(toN) \subseteq Flag
    BY <1>2 DEF Flag, Satisfied, ChildDone, ChildSatisfied, NextSatisfied
  <2> HIDE DEF toC, toN
  <2>2. QED
    BY <2>1 DEF MessageToChild, MessageToNext, NoMessage, Message
<1>4. CASE acc.type \in SharedType
  <2> DEFINE run == Schedules(acc.type, acc.weak, new)
             mN == MessageToNext(a, toN, next, acc.flags \cup new, run /\ toC = {})
             mC == MessageToChild(a, toC, child, run)
  <2>1. mN \in Message /\ mC \in Message
    <3> HIDE DEF toC, toN
    <3> QED BY <1>1, <1>3
  <2> HIDE DEF toC, toN, M, mN, mC, run
  <2>2. M \in Seq(Message)
    <3>1. IF toC = {} THEN M = <<>> \/ M = <<mN>> ELSE M = <<mN, mC>> \/ M = <<mC>>
      BY <1>4, SharedAnswers, Zenon DEF M, mN, mC, toC, toN, run
    <3>2. M = <<>> \/ M = <<mN>> \/ M = <<mC>> \/ M = <<mN, mC>>
      BY <3>1
    <3>3. QED
      BY <3>2, <2>1, ShortSequences, Zenon
  <2>3. QED
    BY <2>2 DEF M
<1>5. CASE acc.type \notin SharedType
  <2>1. \A m \in Message : \A b \in BOOLEAN :
          [m EXCEPT !.combine = b,
             !.flagsAfterPropagation = @ \cup (IF b THEN {REDUCTION_COMBINED} ELSE {})] \in Message
    BY DEF Message, Flag
  <2> DEFINE S == IF toC # {} /\ toN = {} THEN MessageToChild(a, toC, child, Schedules(acc.type, acc.weak, new))
                  ELSE MessageToNext(a, toN, next, acc.flags \cup new, Schedules(acc.type, acc.weak, new))
             comb == Combines(acc.type, new)
             T == [S EXCEPT !.combine = comb,
                            !.flagsAfterPropagation = @ \cup (IF comb THEN {REDUCTION_COMBINED} ELSE {})]
  <2>2. M = <<>> \/ M = <<T>>
    <3> HIDE DEF M
    <3> QED BY <1>5, OtherAnswers, Zenon DEF M
  <2>3. S \in Message
    <3> HIDE DEF toC, toN
    <3> QED BY <1>1, <1>3
  <2>4. T \in Message
    <3> HIDE DEF S, comb
    <3>1. comb \in BOOLEAN
      BY <1>1 DEF comb
    <3> QED BY <3>1, <2>1, <2>3
  <2> HIDE DEF M, T
  <2>5. M \in Seq(Message)
    BY <2>2, <2>4, ShortSequences, Zenon
  <2>6. QED
    BY <2>5 DEF M
<1>6. QED
  BY <1>4, <1>5

(* What a message will note was not so before its sender got the flags.    *)
LEMMA AnswerIsFirst ==
  ASSUME NEW a, NEW acc, NEW new, new \cap acc.flags = {}, NEW next, NEW child,
         NEW i \in DOMAIN Messages(a, acc, new, next, child),
         NEW f \in Messages(a, acc, new, next, child)[i].flagsAfterPropagation
  PROVE  Justified(acc.type, acc.flags \cup new, f) /\ ~Justified(acc.type, acc.flags, f)
<1> DEFINE all == acc.flags \cup new
           m   == Messages(a, acc, new, next, child)[i]
           toC == KindsForChild(new, all)
           toN == KindsForNext(acc.type, new, all)
<1>1. \/ \E k \in toC : f = <<"CHILD_SATISFIED", k>>
      \/ \E k \in toN : f = <<"NEXT_SATISFIED", k>>
      \/ f = REDUCTION_COMBINED /\ <<"SATISFIED", "WRITE">> \in new
  <2>1. /\ AnswersChild(m, child, toC) \/ AnswersNext(m, next, all, toN)
        /\ REDUCTION_COMBINED \in m.flagsAfterPropagation => <<"SATISFIED", "WRITE">> \in new
    BY AnswerFields
  <2> HIDE DEF toC, toN, m, all
  <2>2. f \in m.flagsAfterPropagation
    BY DEF m
  <2>3. f \in ChildSatisfied(toC) \cup NextSatisfied(toN) \cup {REDUCTION_COMBINED}
    BY <2>1, <2>2 DEF AnswersChild, AnswersNext
  <2>4. QED
    BY <2>1, <2>2, <2>3 DEF ChildSatisfied, NextSatisfied
<1>2. ASSUME NEW k \in toC, f = <<"CHILD_SATISFIED", k>>
      PROVE  Justified(acc.type, all, f) /\ ~Justified(acc.type, acc.flags, f)
  <2>1. k \in Kind /\ ToChild(all, k) /\ ~ToChild(acc.flags, k)
    BY KindsForChildOnce
  <2>2. \A j \in Kind : f = <<"CHILD_SATISFIED", j>> => j = k
    BY <1>2
  <2>3. (\A j : f # <<"NEXT_SATISFIED", j>>) /\ f # REDUCTION_COMBINED
    BY <1>2 DEF REDUCTION_COMBINED
  <2> HIDE DEF all
  <2>4. QED
    BY <1>2, <2>1, <2>2, <2>3, Zenon DEF Justified
<1>3. ASSUME NEW k \in toN, f = <<"NEXT_SATISFIED", k>>
      PROVE  Justified(acc.type, all, f) /\ ~Justified(acc.type, acc.flags, f)
  <2>1. k \in Kind /\ ToNext(acc.type, all, k) /\ ~ToNext(acc.type, acc.flags, k)
    BY KindsForNextOnce
  <2>2. \A j \in Kind : f = <<"NEXT_SATISFIED", j>> => j = k
    BY <1>3
  <2>3. (\A j : f # <<"CHILD_SATISFIED", j>>) /\ f # REDUCTION_COMBINED
    BY <1>3 DEF REDUCTION_COMBINED
  <2> HIDE DEF all
  <2>4. QED
    BY <1>3, <2>1, <2>2, <2>3, Zenon DEF Justified
<1>4. CASE f = REDUCTION_COMBINED /\ <<"SATISFIED", "WRITE">> \in new
  <2>1. \A j : f # <<"CHILD_SATISFIED", j>> /\ f # <<"NEXT_SATISFIED", j>>
    BY <1>4 DEF REDUCTION_COMBINED
  <2>2. <<"SATISFIED", "WRITE">> \in all /\ <<"SATISFIED", "WRITE">> \notin acc.flags
    BY <1>4
  <2> HIDE DEF all
  <2>3. QED
    BY <1>4, <2>1, <2>2, Zenon DEF Justified
<1> HIDE DEF toC, toN
<1>5. QED
  BY <1>1, <1>2, <1>3, <1>4

-----------------------------------------------------------------------------
(* Changes of the accesses.                                                *)

(* B is A with another record for access a.                                *)
IsPut(A, B, a, r) ==
  /\ IsAccessMap(B)
  /\ \A t \in Task : DOMAIN B[t] = DOMAIN A[t]
  /\ \A b \in AccessId : b[2] \in DOMAIN A[b[1]] =>
       B[b[1]][b[2]] = IF b = a THEN r ELSE A[b[1]][b[2]]

(* Assigning the record of one access changes nothing else.                *)
LEMMA Put ==
  ASSUME NEW A, IsAccessMap(A), NEW a \in AccessId, a[2] \in DOMAIN A[a[1]],
         NEW r \in AccessRecord
  PROVE  IsPut(A, [A EXCEPT ![a[1]][a[2]] = r], a, r)
<1> DEFINE B == [A EXCEPT ![a[1]][a[2]] = r]
<1>0. a[1] \in Task /\ a[2] \in Address /\ a = <<a[1], a[2]>>
  BY DEF AccessId
<1>1. DOMAIN A = Task /\ \A t \in Task : A[t] = [x \in DOMAIN A[t] |-> A[t][x]]
  BY DEF IsAccessMap
<1>2. /\ DOMAIN B = Task
      /\ \A t \in Task : t # a[1] => B[t] = A[t]
      /\ B[a[1]] = [A[a[1]] EXCEPT ![a[2]] = r]
  BY <1>0, <1>1
<1>3. \A t \in Task : DOMAIN B[t] = DOMAIN A[t] /\ B[t] = [x \in DOMAIN B[t] |-> B[t][x]]
  <2> TAKE t \in Task
  <2>1. CASE t = a[1]
    <3>1. [A[t] EXCEPT ![a[2]] = r] = [x \in DOMAIN A[t] |-> IF x = a[2] THEN r ELSE A[t][x]]
      BY <1>1
    <3>2. QED
      BY <2>1, <1>2, <3>1
  <2>2. CASE t # a[1]
    BY <2>2, <1>1, <1>2
  <2>3. QED
    BY <2>1, <2>2
<1>4. \A t \in Task : \A x \in DOMAIN A[t] : B[t][x] = IF <<t, x>> = a THEN r ELSE A[t][x]
  <2> TAKE t \in Task
  <2> TAKE x \in DOMAIN A[t]
  <2>1. CASE t = a[1]
    BY <2>1, <1>0, <1>1, <1>2
  <2>2. CASE t # a[1]
    BY <2>2, <1>0, <1>2
  <2>3. QED
    BY <2>1, <2>2
<1>5. B = [t \in Task |-> [x \in DOMAIN B[t] |-> B[t][x]]]
  <2>1. B = [t \in Task |-> B[t]]
    BY <1>0, <1>1
  <2> HIDE DEF B
  <2>2. QED
    BY <2>1, <1>3
<1> HIDE DEF B
<1>6. \A b \in AccessId : b[2] \in DOMAIN A[b[1]] =>
        B[b[1]][b[2]] = IF b = a THEN r ELSE A[b[1]][b[2]]
  <2> TAKE b \in AccessId
  <2>1. b[1] \in Task /\ b = <<b[1], b[2]>>
    BY DEF AccessId
  <2>2. QED
    BY <1>4, <2>1
<1>7. \A b \in AccessId : b[2] \in DOMAIN B[b[1]] => B[b[1]][b[2]] \in AccessRecord
  <2> TAKE b \in AccessId
  <2>1. b[1] \in Task
    BY DEF AccessId
  <2>2. QED
    BY <1>3, <1>6, <2>1 DEF IsAccessMap
<1>8. \A t \in Task : DOMAIN B[t] \subseteq Address
  BY <1>3 DEF IsAccessMap
<1>9. QED
  BY <1>3, <1>5, <1>6, <1>7, <1>8 DEF IsPut, IsAccessMap, B

(* Each field of an access can be assigned on its own.                     *)
LEMMA RecordUpdates ==
  ASSUME NEW r \in AccessRecord
  PROVE  /\ \A F \in SUBSET Flag :
              LET q == [r EXCEPT !.flags = @ \cup F]
              IN  /\ q \in AccessRecord /\ q.flags = r.flags \cup F /\ q.type = r.type /\ q.weak = r.weak
                  /\ q.successor = r.successor /\ q.child = r.child /\ q.reductionInfo = r.reductionInfo
         /\ \A b \in AccessId \cup {NoAccess} :
              /\ LET q == [r EXCEPT !.successor = b]
                 IN  /\ q \in AccessRecord /\ q.flags = r.flags /\ q.type = r.type /\ q.weak = r.weak
                     /\ q.successor = b /\ q.child = r.child /\ q.reductionInfo = r.reductionInfo
              /\ LET q == [r EXCEPT !.child = b]
                 IN  /\ q \in AccessRecord /\ q.flags = r.flags /\ q.type = r.type /\ q.weak = r.weak
                     /\ q.successor = r.successor /\ q.child = b /\ q.reductionInfo = r.reductionInfo
              /\ LET q == [r EXCEPT !.reductionInfo = b]
                 IN  /\ q \in AccessRecord /\ q.flags = r.flags /\ q.type = r.type /\ q.weak = r.weak
                     /\ q.successor = r.successor /\ q.child = r.child /\ q.reductionInfo = b
<1>1. /\ r.flags \in SUBSET Flag /\ r.type \in AccessType /\ r.weak \in BOOLEAN
      /\ r.operator \in {"+", "*"} /\ r.successor \in AccessId \cup {NoAccess}
      /\ r.child \in AccessId \cup {NoAccess} /\ r.reductionInfo \in AccessId \cup {NoReduction}
  BY DEF AccessRecord
<1>2. QED
  BY <1>1 DEF AccessRecord, NoReduction

(* A fetch_add changes the flags of one access.                            *)
LEMMA AddedIs ==
  ASSUME NEW A, IsAccessMap(A), NEW a \in AccessId, a[2] \in DOMAIN A[a[1]],
         NEW F \in SUBSET Flag
  PROVE  IsPut(A, Added(A, a, F), a, [A[a[1]][a[2]] EXCEPT !.flags = @ \cup F])
<1> DEFINE r == [A[a[1]][a[2]] EXCEPT !.flags = @ \cup F]
<1>1. A[a[1]][a[2]] \in AccessRecord
  BY DEF IsAccessMap
<1>2. r \in AccessRecord
  BY <1>1, RecordUpdates
<1>3. Added(A, a, F) = [A EXCEPT ![a[1]][a[2]] = r]
  BY DEF Added
<1> HIDE DEF r
<1>4. IsPut(A, [A EXCEPT ![a[1]][a[2]] = r], a, r)
  BY <1>2, Put, Zenon
<1>5. QED
  BY <1>3, <1>4, Zenon DEF r

-----------------------------------------------------------------------------
(* One step of the accesses: A becomes B, access b gets the flags F[b].    *)
(* A link is set once, and together with its flag.                         *)
Changes(A, B, F) ==
  /\ Of(B) = Of(A)
  /\ F \in [Of(A) -> SUBSET Flag]
  /\ \A b \in Of(A) :
       /\ At(B, b).type = At(A, b).type
       /\ At(B, b).flags = At(A, b).flags \cup F[b]
       /\ At(B, b).successor # At(A, b).successor => At(A, b).successor = NoAccess /\ HASNEXT \in F[b]
       /\ At(B, b).child # At(A, b).child => At(A, b).child = NoAccess /\ HASCHILD \in F[b]
       /\ NEXTISPARENT \in F[b] => At(A, b).successor = NoAccess

(* What an access has passed on stays passed on.                           *)
LEMMA JustifiedGrows ==
  ASSUME NEW type, NEW flags, NEW more, flags \subseteq more, NEW f, Justified(type, flags, f)
  PROVE  Justified(type, more, f)
  BY DEF Justified, ToChild, ToNext

(* The null pointer is no access.                                          *)
LEMMA NoAccessIsNone == \A A : NoAccess \notin Of(A)
  BY RegistrationAssumption DEF Of, AccessId

(* A message that is still under way stays what it was.                    *)
LEMMA KeptMessage ==
  ASSUME NEW A, NEW B, NEW F, Changes(A, B, F), NEW m, Sent(A, m),
         m.flagsAfterPropagation \cap F[m.from] = {}
  PROVE  /\ Sent(B, m)
         /\ (Carried(A, m) /\ (m.to \in Of(A) => m.flagsForNext \cap F[m.to] = {})) => Carried(B, m)
<1>1. /\ m.from \in Of(A) /\ m.from \in Of(B) /\ At(B, m.from).type = At(A, m.from).type
      /\ At(B, m.from).flags = At(A, m.from).flags \cup F[m.from]
  BY DEF Changes, Sent
<1>2. Sent(B, m)
  BY <1>1, JustifiedGrows DEF Sent
<1>3. ASSUME Carried(A, m), m.flagsForNext # {}, m.flagsForNext \cap F[m.to] = {}
      PROVE  Carried(B, m)
  <2>1. m.to \in Of(A) /\ m.to # NoAccess
    BY <1>3, NoAccessIsNone DEF Carried
  <2>2. m.to \in Of(B) /\ m.flagsForNext \cap At(B, m.to).flags = {}
    BY <1>3, <2>1 DEF Carried, Changes
  <2>3. PICK K \in SUBSET Kind : GoesToChild(A, m, K) \/ GoesToNext(A, m, K)
    BY <1>3 DEF Carried
  <2>4. CASE GoesToChild(A, m, K)
    <3>1. GoesToChild(B, m, K)
      BY <1>1, <2>1, <2>4 DEF GoesToChild, Changes
    <3>2. QED
      BY <3>1, <2>2 DEF Carried
  <2>5. CASE GoesToNext(A, m, K)
    <3>1. At(A, m.from).successor # NoAccess
      BY <2>1, <2>5 DEF GoesToNext
    <3>2. At(B, m.from).successor = m.to /\ NEXTISPARENT \notin F[m.from]
      BY <1>1, <3>1, <2>5 DEF GoesToNext, Changes
    <3>3. GoesToNext(B, m, K)
      BY <1>1, <3>2, <2>5 DEF GoesToNext
    <3>4. QED
      BY <3>3, <2>2 DEF Carried
  <2>6. QED
    BY <2>3, <2>4, <2>5
<1>4. QED
  BY <1>2, <1>3 DEF Carried

(* Access a gets the flags F[a], and answers: its links are in order, and  *)
(* what they lead to has nothing yet that the access did not pass on.      *)
Answering(A, B, F, a) ==
  /\ a \in Of(A)
  /\ F[a] \cap At(A, a).flags = {} /\ F[a] \cap Note = {}
  /\ \A f \in At(A, a).flags \cap Note : Justified(At(A, a).type, At(A, a).flags, f)
  /\ HASCHILD \in At(B, a).flags =>
       LET c == At(B, a).child
       IN  /\ c \in Of(A) /\ c # a /\ F[c] = {}
           /\ \A k \in Kind : <<"SATISFIED", k>> \in At(A, c).flags => ToChild(At(A, a).flags, k)
  /\ HASNEXT \in At(B, a).flags =>
       LET c == At(B, a).successor
       IN  /\ c \in Of(A) /\ c # a /\ F[c] = {}
           /\ \A k \in Kind :
                (IF NEXTISPARENT \in At(B, a).flags THEN <<"CHILD_DONE", k>> ELSE <<"SATISFIED", k>>)
                  \in At(A, c).flags => ToNext(At(A, a).type, At(A, a).flags, k)

(* An answer is sent and can be carried, and is about none of the flags    *)
(* that the messages of its sender under way are about.                    *)
LEMMA NewMessage ==
  ASSUME NEW A, NEW B, NEW F, Changes(A, B, F), NEW a, Answering(A, B, F, a),
         NEW acc, acc.flags = At(A, a).flags, acc.type = At(A, a).type,
         NEW i \in DOMAIN Messages(a, acc, F[a], At(B, a).successor, At(B, a).child)
  PROVE  LET m == Messages(a, acc, F[a], At(B, a).successor, At(B, a).child)[i]
         IN  /\ Sent(B, m) /\ Carried(B, m) /\ m.from = a
             /\ \A n : Sent(A, n) /\ n.from = a =>
                  m.flagsAfterPropagation \cap n.flagsAfterPropagation = {}
<1> DEFINE next  == At(B, a).successor
           child == At(B, a).child
           old   == At(A, a).flags
           all   == old \cup F[a]
           m     == Messages(a, acc, F[a], next, child)[i]
           toC   == KindsForChild(F[a], all)
           toN   == KindsForNext(acc.type, F[a], all)
<1>1. /\ a \in Of(A) /\ a \in Of(B) /\ At(B, a).flags = all /\ At(B, a).type = acc.type
      /\ F[a] \cap old = {} /\ F[a] \cap Note = {}
  BY DEF Changes, Answering
<1>2. \A f \in m.flagsAfterPropagation :
        Justified(acc.type, all, f) /\ ~Justified(acc.type, old, f)
  BY <1>1, AnswerIsFirst
<1>3. /\ m.from = a
      /\ AnswersChild(m, child, toC) \/ AnswersNext(m, next, all, toN)
  BY AnswerFields
<1>4. m.flagsAfterPropagation \subseteq Note
  <2>1. toC \subseteq Kind /\ toN \subseteq Kind
    BY DEF KindsForChild, KindsForNext
  <2> HIDE DEF m, toC, toN
  <2>2. QED
    BY <1>3, <2>1 DEF AnswersChild, AnswersNext, Note, ChildSatisfied, NextSatisfied
<1> HIDE DEF m
<1>5. Sent(B, m)
  <2>1. \A f \in old \cap Note : Justified(acc.type, old, f)
    BY DEF Answering
  <2>2. m.flagsAfterPropagation \cap all = {}
    BY <1>1, <1>2, <1>4, <2>1
  <2>3. QED
    BY <1>1, <1>2, <1>3, <2>2 DEF Sent
<1>6. Carried(B, m)
  <2>1. CASE AnswersChild(m, child, toC)
    <3>1. \A k \in toC : k \in Kind /\ ToChild(all, k) /\ ~ToChild(old, k)
      BY <1>1, KindsForChildOnce
    <3> HIDE DEF toC
    <3>2. toC \in SUBSET Kind /\ HASCHILD \in all
      BY <2>1, <3>1 DEF AnswersChild, ToChild
    <3>3. /\ child \in Of(A) /\ child # a /\ F[child] = {}
          /\ \A k \in Kind : <<"SATISFIED", k>> \in At(A, child).flags => ToChild(old, k)
      BY <1>1, <3>2 DEF Answering
    <3>4. Satisfied(toC) \cap At(A, child).flags = {}
      BY <3>1, <3>3 DEF Satisfied
    <3>5. child \in Of(B) /\ At(B, child).flags = At(A, child).flags
      BY <3>3 DEF Changes
    <3>6. GoesToChild(B, m, toC)
      BY <1>3, <2>1 DEF AnswersChild, GoesToChild
    <3>7. QED
      BY <2>1, <3>2, <3>4, <3>5, <3>6 DEF AnswersChild, Carried
  <2>2. CASE AnswersNext(m, next, all, toN)
    <3> DEFINE name == IF NEXTISPARENT \in all THEN "CHILD_DONE" ELSE "SATISFIED"
    <3>1. \A k \in toN : k \in Kind /\ ToNext(acc.type, all, k) /\ ~ToNext(acc.type, old, k)
      BY <1>1, KindsForNextOnce
    <3> HIDE DEF toN
    <3>2. SUFFICES ASSUME toN # {}
                   PROVE  Carried(B, m)
      BY <2>2 DEF AnswersNext, Carried, Satisfied, ChildDone
    <3>3. toN \in SUBSET Kind /\ HASNEXT \in all
      BY <3>1, <3>2 DEF ToNext, ReleaseCondition
    <3>4. /\ next \in Of(A) /\ next # a /\ F[next] = {}
          /\ \A k \in Kind : <<name, k>> \in At(A, next).flags => ToNext(acc.type, old, k)
      BY <1>1, <3>3 DEF Answering
    <3>5. m.flagsForNext = {<<name, k>> : k \in toN}
      BY <2>2 DEF AnswersNext, Satisfied, ChildDone
    <3>6. m.flagsForNext \cap At(A, next).flags = {}
      BY <3>1, <3>4, <3>5
    <3>7. next \in Of(B) /\ At(B, next).flags = At(A, next).flags
      BY <3>4 DEF Changes
    <3>8. GoesToNext(B, m, toN) /\ m.to = next
      BY <1>1, <1>3, <2>2, <3>2 DEF AnswersNext, GoesToNext
    <3>9. QED
      BY <3>3, <3>6, <3>7, <3>8 DEF Carried
  <2>3. QED
    BY <1>3, <2>1, <2>2
<1>7. \A n : Sent(A, n) /\ n.from = a => m.flagsAfterPropagation \cap n.flagsAfterPropagation = {}
  BY <1>2 DEF Sent
<1>8. QED
  BY <1>3, <1>5, <1>6, <1>7 DEF m

-----------------------------------------------------------------------------
(* One step of the messages.                                               *)

(* A slot is a task and a position.                                        *)
LEMMA SlotsAre ==
  ASSUME TypesOK
  PROVE  /\ \A s \in Slots : s[1] \in Task /\ s[2] \in 0..Len(frame[s[1]].mailBox) /\ s = <<s[1], s[2]>>
         /\ \A q \in Task : \A i \in 0..Len(frame[q].mailBox) : <<q, i>> \in Slots
  BY DEF Slots

(* The message is not about the flags F, on either side.                   *)
Unaffected(m, bears, F) ==
  m # NoMessage =>
    /\ m.flagsAfterPropagation \cap F[m.from] = {}
    /\ bears /\ m.to \in Access => m.flagsForNext \cap F[m.to] = {}

(* Thread p has kept some messages, and has the new ones of "answer".      *)
None == <<"none", 0>>

Moves(p, origin, answer, F) ==
  /\ \A i \in 0..Len(frame'[p].mailBox) :
       \/ origin[i] = None /\ Msg(<<p, i>>)' = NoMessage
       \/ \E j \in 0..Len(frame[p].mailBox) :
            /\ origin[i] = <<"old", j>> /\ Msg(<<p, i>>)' = Msg(<<p, j>>)
            /\ Bears(<<p, i>>)' => Bears(<<p, j>>)
            /\ Unaffected(Msg(<<p, j>>), Bears(<<p, i>>)', F)
       \/ \E j \in DOMAIN answer : origin[i] = <<"new", j>> /\ Msg(<<p, i>>)' = answer[j]
  /\ \A i, j \in 0..Len(frame'[p].mailBox) : i # j /\ origin[i] = origin[j] => origin[i] = None

OthersKeep(p, F) ==
  \A s \in Slots : s[1] # p =>
    /\ Msg(s)' = Msg(s)
    /\ Bears(s)' => Bears(s)
    /\ Unaffected(Msg(s), Bears(s), F)

Answers(F, answer) ==
  answer # <<>> =>
    \E a, acc : /\ Answering(access, access', F, a)
                /\ acc.flags = At(access, a).flags /\ acc.type = At(access, a).type
                /\ answer = Messages(a, acc, F[a], At(access', a).successor, At(access', a).child)

(* A message that notes a combination is not new, or comes from an access  *)
(* that gets its write satisfiability now.                                 *)
Combinations(F) ==
  \A s \in Slots' : REDUCTION_COMBINED \in Msg(s)'.flagsAfterPropagation =>
    \/ \E r \in Slots : /\ REDUCTION_COMBINED \in Msg(r).flagsAfterPropagation
                       /\ Msg(r).from = Msg(s)'.from
    \/ <<"SATISFIED", "WRITE">> \in F[Msg(s)'.from] \ At(access, Msg(s)'.from).flags

(* One step of the messages: no flag is in two of them, and each can still *)
(* be delivered, when one thread answers and the others keep what they     *)
(* have.                                                                   *)
LEMMA MessagesStep ==
  ASSUME TypesOK, TypesOK', SlotsOK, NoDuplicates,
         NEW F, Changes(access, access', F), NEW p \in Task, NEW origin, NEW answer,
         \A q \in Task \ {p} : Len(frame'[q].mailBox) = Len(frame[q].mailBox),
         OthersKeep(p, F), Moves(p, origin, answer, F), Answers(F, answer)
  PROVE  SlotsOK' /\ NoDuplicates' /\ Combinations(F)
<1> DEFINE Old(s, r) == /\ r \in Slots /\ Msg(s)' = Msg(r) /\ (Bears(s)' => Bears(r))
                        /\ Unaffected(Msg(r), Bears(s)', F)
                        /\ IF s[1] = p THEN r[1] = p /\ origin[s[2]] = <<"old", r[2]>> ELSE r = s
           New(s, j) == j \in DOMAIN answer /\ Msg(s)' = answer[j] /\ s[1] = p /\ origin[s[2]] = <<"new", j>>
<1>1. \A s \in Slots' : Msg(s)' = NoMessage \/ (\E r : Old(s, r)) \/ (\E j : New(s, j))
  <2> TAKE s \in Slots'
  <2>1. s[1] \in Task /\ s[2] \in 0..Len(frame'[s[1]].mailBox) /\ s = <<s[1], s[2]>>
    BY DEF Slots, TypesOK
  <2>2. CASE s[1] # p
    <3>1. s \in Slots
      BY <2>1, <2>2, SlotsAre
    <3>2. Old(s, s)
      BY <2>2, <3>1 DEF OthersKeep, Unaffected
    <3>3. QED
      BY <3>2
  <2>3. CASE s[1] = p
    <3>1. CASE origin[s[2]] = None /\ Msg(<<p, s[2]>>)' = NoMessage
      BY <2>1, <2>3, <3>1
    <3>2. ASSUME NEW j \in 0..Len(frame[p].mailBox),
                 origin[s[2]] = <<"old", j>>, Msg(<<p, s[2]>>)' = Msg(<<p, j>>),
                 Bears(<<p, s[2]>>)' => Bears(<<p, j>>), Unaffected(Msg(<<p, j>>), Bears(<<p, s[2]>>)', F)
          PROVE  Old(s, <<p, j>>)
      <4>1. <<p, j>> \in Slots
        BY SlotsAre
      <4>2. s = <<p, s[2]>>
        BY <2>1, <2>3
      <4>3. QED
        BY <2>3, <3>2, <4>1, <4>2
    <3>3. ASSUME NEW j \in DOMAIN answer, origin[s[2]] = <<"new", j>>, Msg(<<p, s[2]>>)' = answer[j]
          PROVE  New(s, j)
      BY <2>1, <2>3, <3>3
    <3>4. \/ origin[s[2]] = None /\ Msg(<<p, s[2]>>)' = NoMessage
          \/ \E j \in 0..Len(frame[p].mailBox) :
               /\ origin[s[2]] = <<"old", j>> /\ Msg(<<p, s[2]>>)' = Msg(<<p, j>>)
               /\ Bears(<<p, s[2]>>)' => Bears(<<p, j>>)
               /\ Unaffected(Msg(<<p, j>>), Bears(<<p, s[2]>>)', F)
          \/ \E j \in DOMAIN answer : origin[s[2]] = <<"new", j>> /\ Msg(<<p, s[2]>>)' = answer[j]
      BY <2>1, <2>3, Zenon DEF Moves
    <3> HIDE DEF Old, New
    <3>5. QED
      BY <3>1, <3>2, <3>3, <3>4, Zenon
  <2>4. QED
    BY <2>2, <2>3
<1>2. \A s \in Slots' : \A j : New(s, j) =>
        /\ Sent(access', Msg(s)') /\ Carried(access', Msg(s)')
        /\ \A n : Sent(access, n) /\ n.from = Msg(s)'.from =>
             Msg(s)'.flagsAfterPropagation \cap n.flagsAfterPropagation = {}
        /\ REDUCTION_COMBINED \in Msg(s)'.flagsAfterPropagation =>
             <<"SATISFIED", "WRITE">> \in F[Msg(s)'.from] \ At(access, Msg(s)'.from).flags
  <2> TAKE s \in Slots'
  <2> SUFFICES ASSUME NEW j, New(s, j)
               PROVE  /\ Sent(access', answer[j]) /\ Carried(access', answer[j])
                      /\ REDUCTION_COMBINED \in answer[j].flagsAfterPropagation =>
                           <<"SATISFIED", "WRITE">> \in F[answer[j].from] \ At(access, answer[j].from).flags
                      /\ \A n : Sent(access, n) /\ n.from = answer[j].from =>
                           answer[j].flagsAfterPropagation \cap n.flagsAfterPropagation = {}
    BY Zenon
  <2>1. answer # <<>> /\ j \in DOMAIN answer
    OBVIOUS
  <2>2. PICK a, acc : /\ Answering(access, access', F, a)
                      /\ acc.flags = At(access, a).flags /\ acc.type = At(access, a).type
                      /\ answer = Messages(a, acc, F[a], At(access', a).successor, At(access', a).child)
    BY <2>1 DEF Answers
  <2> DEFINE M == Messages(a, acc, F[a], At(access', a).successor, At(access', a).child)
  <2>3. \A i \in DOMAIN M :
          /\ Sent(access', M[i]) /\ Carried(access', M[i]) /\ M[i].from = a
          /\ \A n : Sent(access, n) /\ n.from = a =>
               M[i].flagsAfterPropagation \cap n.flagsAfterPropagation = {}
    BY <2>2, NewMessage
  <2>6. \A i \in DOMAIN M : REDUCTION_COMBINED \in M[i].flagsAfterPropagation =>
          <<"SATISFIED", "WRITE">> \in F[a] \ At(access, a).flags
    <3>1. \A i \in DOMAIN M : REDUCTION_COMBINED \in M[i].flagsAfterPropagation =>
            <<"SATISFIED", "WRITE">> \in F[a]
      BY AnswerFields
    <3>2. F[a] \cap At(access, a).flags = {}
      BY <2>2 DEF Answering
    <3>3. QED
      BY <3>1, <3>2
  <2> HIDE DEF New, M
  <2>4. answer = M
    BY <2>2 DEF M
  <2>5. QED
    BY <2>1, <2>3, <2>4, <2>6
<1>3. \A s \in Slots' : \A r : Old(s, r) /\ Msg(r) # NoMessage =>
        /\ Sent(access, Msg(r)) /\ Sent(access', Msg(s)')
        /\ Bears(s)' => Carried(access', Msg(s)')
  <2> SUFFICES ASSUME NEW s \in Slots', NEW r, Old(s, r), Msg(r) # NoMessage
               PROVE  /\ Sent(access, Msg(r)) /\ Sent(access', Msg(s)')
                      /\ Bears(s)' => Carried(access', Msg(s)')
    BY Zenon
  <2>1. /\ r \in Slots /\ Sent(access, Msg(r)) /\ Msg(s)' = Msg(r)
        /\ Bears(s)' => Carried(access, Msg(r))
    BY DEF SlotsOK
  <2>2. Unaffected(Msg(r), Bears(s)', F)
    OBVIOUS
  <2>3. /\ Sent(access', Msg(r))
        /\ Bears(s)' => Carried(access', Msg(r))
    BY <2>1, <2>2, KeptMessage DEF Unaffected, Access
  <2>4. QED
    BY <2>1, <2>3
<1>4. SlotsOK'
  <2>1. Carried(access', NoMessage)
    BY DEF Carried, NoMessage
  <2>2. \A s \in Slots' : (Msg(s)' = NoMessage \/ Sent(access', Msg(s)')) /\ (Bears(s)' => Carried(access', Msg(s)'))
    <3> TAKE s \in Slots'
    <3>1. CASE Msg(s)' = NoMessage
      BY <2>1, <3>1
    <3>2. ASSUME NEW r, Old(s, r), Msg(s)' # NoMessage
          PROVE  Sent(access', Msg(s)') /\ (Bears(s)' => Carried(access', Msg(s)'))
      BY <1>3, <3>2
    <3> HIDE DEF Old, New
    <3>3. QED
      BY <1>1, <1>2, <3>1, <3>2
  <2>3. QED
    BY <2>2 DEF SlotsOK
<1>5. NoDuplicates'
  <2> SUFFICES ASSUME NEW r \in Slots', NEW s \in Slots', r # s, Msg(r)'.from = Msg(s)'.from
               PROVE  Msg(r)'.flagsAfterPropagation \cap Msg(s)'.flagsAfterPropagation = {}
    BY DEF NoDuplicates
  <2>1. CASE Msg(r)' = NoMessage \/ Msg(s)' = NoMessage
    BY <2>1 DEF NoMessage
  <2>2. ASSUME NEW q, NEW t, Old(r, q), Old(s, t), Msg(r)' # NoMessage, Msg(s)' # NoMessage
        PROVE  Msg(r)'.flagsAfterPropagation \cap Msg(s)'.flagsAfterPropagation = {}
    <3>1. q # t
      <4>1. /\ r[1] \in Task /\ r[2] \in 0..Len(frame'[r[1]].mailBox) /\ r = <<r[1], r[2]>>
            /\ s[1] \in Task /\ s[2] \in 0..Len(frame'[s[1]].mailBox) /\ s = <<s[1], s[2]>>
        BY DEF Slots, TypesOK
      <4>2. CASE r[1] = p /\ s[1] = p
        <5>1. r[2] # s[2]
          BY <4>1, <4>2
        <5>2. origin[r[2]] # origin[s[2]] \/ origin[r[2]] = None
          BY <4>1, <4>2, <5>1 DEF Moves
        <5>3. QED
          BY <2>2, <4>2, <5>2 DEF None
      <4>3. CASE r[1] # p \/ s[1] # p
        BY <2>2, <4>3
      <4>4. QED
        BY <4>2, <4>3
    <3>2. QED
      BY <2>2, <3>1 DEF NoDuplicates
  <2>3. ASSUME NEW x \in Slots', NEW y \in Slots', NEW q, NEW j, Old(x, q), New(y, j),
               Msg(x)' # NoMessage, Msg(x)'.from = Msg(y)'.from
        PROVE  Msg(x)'.flagsAfterPropagation \cap Msg(y)'.flagsAfterPropagation = {}
    <3>1. Msg(x)' = Msg(q) /\ Sent(access, Msg(q))
      BY <1>3, <2>3
    <3>2. QED
      BY <1>2, <2>3, <3>1
  <2>4. ASSUME NEW i, NEW j, New(r, i), New(s, j)
        PROVE  Msg(r)'.flagsAfterPropagation \cap Msg(s)'.flagsAfterPropagation = {}
    <3>1. i # j
      <4>1. /\ r[2] \in 0..Len(frame'[r[1]].mailBox) /\ r = <<r[1], r[2]>>
            /\ s[2] \in 0..Len(frame'[s[1]].mailBox) /\ s = <<s[1], s[2]>>
        BY DEF Slots, TypesOK
      <4>2. r[1] = p /\ s[1] = p /\ r[2] # s[2]
        BY <2>4, <4>1
      <4>3. origin[r[2]] # origin[s[2]] \/ origin[r[2]] = None
        BY <4>1, <4>2 DEF Moves
      <4>4. QED
        BY <2>4, <4>3 DEF None
    <3>2. answer # <<>>
      BY <2>4
    <3>3. PICK a, acc : answer = Messages(a, acc, F[a], At(access', a).successor, At(access', a).child)
      BY <3>2 DEF Answers
    <3>4. answer[i].flagsAfterPropagation \cap answer[j].flagsAfterPropagation = {}
      BY <2>4, <3>1, <3>3, AnswersDisjoint
    <3>5. QED
      BY <2>4, <3>4
  <2> HIDE DEF Old, New
  <2>5. QED
    BY <1>1, <2>1, <2>2, <2>3, <2>4
<1>6. Combinations(F)
  <2> SUFFICES ASSUME NEW s \in Slots', REDUCTION_COMBINED \in Msg(s)'.flagsAfterPropagation
               PROVE  \/ \E r \in Slots : /\ REDUCTION_COMBINED \in Msg(r).flagsAfterPropagation
                                        /\ Msg(r).from = Msg(s)'.from
                      \/ <<"SATISFIED", "WRITE">> \in F[Msg(s)'.from] \ At(access, Msg(s)'.from).flags
    BY DEF Combinations
  <2>1. Msg(s)' # NoMessage
    BY DEF NoMessage
  <2>2. ASSUME NEW r, Old(s, r)
        PROVE  r \in Slots /\ Msg(r) = Msg(s)'
    BY <2>2
  <2> HIDE DEF Old, New
  <2>3. QED
    BY <1>1, <1>2, <2>1, <2>2
<1>7. QED
  BY <1>4, <1>5, <1>6

-----------------------------------------------------------------------------
(* One step of the links.                                                  *)

(* The tree of tasks does not change.                                      *)
LEMMA SameProgram ==
  ASSUME program' = program
  PROVE  Parent' = Parent /\ Body' = Body /\ \A a : Above(a)' = Above(a)
  BY DEF Parent, Body, Above

(* A step that adds no flag of a link links nothing.                       *)
LEMMA NoNewLinks ==
  ASSUME NEW A, NEW B, NEW F, Changes(A, B, F),
         \A b \in Of(A) : F[b] \cap {HASNEXT, HASCHILD, NEXTISPARENT} = {}
  PROVE  \A b \in Of(A) :
           /\ At(B, b).successor = At(A, b).successor /\ At(B, b).child = At(A, b).child
           /\ \A f \in {HASNEXT, HASCHILD, NEXTISPARENT} : f \in At(B, b).flags <=> f \in At(A, b).flags
  BY DEF Changes

Links == LinkFlags /\ NotYetLinked /\ ChildLinks /\ SuccessorLinks /\ OnePredecessor /\ BottomLinks

(* A step that links nothing keeps the links in order.                     *)
LEMMA LinksKept ==
  ASSUME TypesOK, Links, program' = program, NEW F, Changes(access, access', F),
         \A b \in Access : F[b] \cap {HASNEXT, HASCHILD, NEXTISPARENT} = {},
         \A b \in Access : F[b] # {} => Inserted(b),
         \A b \in Access : Inserted(b)' <=> Inserted(b),
         \A p \in Task : \A x \in Address : LastBelow(<<p, x>>)' = LastBelow(<<p, x>>)
  PROVE  Links'
<1>1. /\ Access' = Access /\ Of(access') = Of(access) /\ Access = Of(access)
      /\ \A a : Above(a)' = Above(a)
  BY SameProgram DEF Changes, Access
<1>2. \A b \in Access :
        /\ At(access', b).successor = At(access, b).successor /\ At(access', b).child = At(access, b).child
        /\ \A f \in {HASNEXT, HASCHILD, NEXTISPARENT} : f \in At(access', b).flags <=> f \in At(access, b).flags
  BY <1>1, NoNewLinks
<1>3. LinkFlags'
  BY <1>1, <1>2 DEF LinkFlags, Links
<1>4. NotYetLinked'
  <2>1. ASSUME NEW a \in Access, ~Inserted(a) PROVE At(access', a).flags = {}
    BY <1>1, <2>1 DEF Links, NotYetLinked, Changes
  <2>2. QED
    BY <1>1, <1>2, <2>1 DEF NotYetLinked, Links
<1>5. ChildLinks'
  BY <1>1, <1>2 DEF ChildLinks, Links
<1>6. SuccessorLinks'
  BY <1>1, <1>2 DEF SuccessorLinks, Links
<1>7. OnePredecessor'
  BY <1>1, <1>2 DEF OnePredecessor, Links
<1>8. BottomLinks'
  <2>1. \A b \in AccessId : LastBelow(b)' = LastBelow(b)
    BY DEF LastBelow, AccessId
  <2>2. QED
    BY <1>1, <1>2, <2>1 DEF BottomLinks, Links
<1>9. QED
  BY <1>3, <1>4, <1>5, <1>6, <1>7, <1>8 DEF Links

(* What arrives was passed on, and new links lead to where nothing of that *)
(* kind has arrived.                                                       *)
LEMMA CausesKept ==
  ASSUME TypesOK, Causes, LinkFlags', program' = program, NEW F, Changes(access, access', F),
         \A b \in Access : \A f \in F[b] \cap Note : Justified(At(access, b).type, At(access, b).flags, f),
         \A a, b \in Access : \A k \in Kind :
           /\ <<"SATISFIED", k>> \in F[b] =>
                /\ At(access', a).child = b => ToChild(At(access', a).flags, k)
                /\ (At(access', a).successor = b /\ NEXTISPARENT \notin At(access', a).flags) =>
                     ToNext(At(access', a).type, At(access', a).flags, k)
                /\ Above(b) = a => <<"SATISFIED", k>> \in At(access', a).flags
           /\ (/\ <<"CHILD_DONE", k>> \in F[b]
               /\ At(access', a).successor = b /\ NEXTISPARENT \in At(access', a).flags) =>
                ToNext(At(access', a).type, At(access', a).flags, k)
           /\ At(access', a).child = b /\ At(access, a).child # b => <<"SATISFIED", k>> \notin At(access', b).flags
           /\ At(access', a).successor = b /\ At(access, a).successor # b =>
                (IF NEXTISPARENT \in At(access', a).flags THEN <<"CHILD_DONE", k>> ELSE <<"SATISFIED", k>>)
                  \notin At(access', b).flags
  PROVE  Causes'
<1>1. /\ Access' = Access /\ Of(access') = Of(access) /\ Access = Of(access)
      /\ \A a : Above(a)' = Above(a)
  BY SameProgram DEF Changes, Access
<1>2. \A b \in Access : /\ At(access', b).type = At(access, b).type
                        /\ At(access', b).flags = At(access, b).flags \cup F[b]
  BY <1>1 DEF Changes
<1>3. ASSUME NEW a \in Access, NEW f \in At(access', a).flags \cap Note
      PROVE  Justified(At(access', a).type, At(access', a).flags, f)
  <2>1. Justified(At(access, a).type, At(access, a).flags, f)
    BY <1>2 DEF Causes
  <2>2. At(access, a).flags \subseteq At(access', a).flags
    BY <1>2
  <2>3. QED
    BY <1>2, <2>1, <2>2, JustifiedGrows
<1>4. ASSUME NEW a \in Access, NEW c \in Access, NEW k \in Kind
      PROVE  /\ PassedOn(access', a, c, k)
             /\ Above(a) = c /\ <<"SATISFIED", k>> \in At(access', a).flags =>
                  <<"SATISFIED", k>> \in At(access', c).flags
  <2>1. /\ At(access, a).flags \subseteq At(access', a).flags
        /\ PassedOn(access, a, c, k)
        /\ Above(a) = c /\ <<"SATISFIED", k>> \in At(access, a).flags =>
             <<"SATISFIED", k>> \in At(access, c).flags
    <3>1. At(access, a).flags \subseteq At(access', a).flags
      BY <1>2
    <3>2. /\ PassedOn(access, a, c, k)
          /\ Above(a) = c /\ <<"SATISFIED", k>> \in At(access, a).flags =>
               <<"SATISFIED", k>> \in At(access, c).flags
      BY Zenon DEF Causes
    <3>3. QED
      BY <3>1, <3>2
  <2>2. /\ ToChild(At(access, a).flags, k) => ToChild(At(access', a).flags, k)
        /\ ToNext(At(access, a).type, At(access, a).flags, k) =>
             ToNext(At(access', a).type, At(access', a).flags, k)
    BY <1>2, <2>1 DEF ToChild, ToNext
  <2>3. NEXTISPARENT \in At(access', a).flags /\ NEXTISPARENT \notin At(access, a).flags =>
          At(access, a).successor = NoAccess /\ At(access', a).successor # NoAccess
    BY <1>1, <1>2 DEF Changes, LinkFlags
  <2>4. c # NoAccess
    BY <1>1, NoAccessIsNone
  <2>5. PassedOn(access', a, c, k)
    BY <1>2, <2>1, <2>2, <2>3, <2>4 DEF PassedOn
  <2>6. Above(a) = c /\ <<"SATISFIED", k>> \in At(access', a).flags =>
                  <<"SATISFIED", k>> \in At(access', c).flags
    <3> SUFFICES ASSUME Above(a) = c, <<"SATISFIED", k>> \in At(access', a).flags
                 PROVE  <<"SATISFIED", k>> \in At(access', c).flags
      OBVIOUS
    <3>1. CASE <<"SATISFIED", k>> \in F[a]
      BY <3>1, Zenon
    <3>2. CASE <<"SATISFIED", k>> \in At(access, a).flags
      BY <1>2, <2>1, <3>2
    <3>3. QED
      BY <1>2, <3>1, <3>2
  <2>7. QED
    BY <2>5, <2>6
<1>5. QED
  BY <1>1, <1>3, <1>4 DEF Causes

-----------------------------------------------------------------------------
(* The tree of tasks.                                                      *)

(* The positions of a body.                                                *)
LEMMA Positions ==
  ASSUME program \in DOMAIN Programs
  PROVE  \A t \in Task : DOMAIN Body[t] = 1..Len(Body[t]) /\ Len(Body[t]) \in Nat
  BY RegistrationAssumption DEF Body

(* A task is created by its parent, at one operation.                      *)
LEMMA ParentIs ==
  ASSUME program \in DOMAIN Programs, NEW t \in Task, NEW i \in DOMAIN Body[t], NEW c,
         Body[t][i] = <<"create", c>>
  PROVE  /\ c \in Task \ {Main} /\ Parent[c] = t
         /\ \A u \in Task : \A j \in DOMAIN Body[u] : Body[u][j] = <<"create", c>> => u = t /\ j = i
<1>1. /\ Body[t][i][1] = "create" /\ Body[t][i][2] = c
  OBVIOUS
<1>2. c \in Task \ {Main}
  BY <1>1, OneCreationEach DEF Body
<1>3. \A u \in Task : \A j \in DOMAIN Body[u] : Body[u][j] = <<"create", c>> => u = t /\ j = i
  <2> TAKE u \in Task
  <2> TAKE j \in DOMAIN Body[u]
  <2>1. Body[u][j] = Body[t][i] => t = u /\ i = j
    BY <1>1, OneCreationEach DEF Body
  <2>2. QED
    BY <2>1
<1>4. Creates(Body, t, c) /\ \A u \in Task : Creates(Body, u, c) => u = t
  BY <1>3 DEF Creates
<1>5. Parent[c] = t
  <2>1. Parent[c] = Creator(Body, c)
    BY <1>2 DEF Parent, ParentIn, Body
  <2>2. QED
    BY <1>4, <2>1 DEF Creator
<1>6. QED
  BY <1>2, <1>3, <1>5

(* The task a thread is creating is its child, and no other child of it is *)
(* being registered.                                                       *)
LEMMA Registers ==
  ASSUME TypesOK, Control, NEW p \in Task, pc[p] \in Creating
  PROVE  \E c \in Task \ {Main} :
           /\ frame[p].ip \in DOMAIN Body[p] /\ Op(p) = <<"create", c>> /\ Op(p)[2] = c
           /\ Parent[c] = p /\ c # p /\ pc[c] = "registering" /\ frame[p].todo \subseteq Declared(c)
           /\ \A d \in Task : pc[d] = "registering" /\ Parent[d] = p => d = c
<1>1. PICK c \in Task : CreatesAt(p, c)
  BY DEF Control
<1>2. /\ frame[p].ip \in DOMAIN Body[p] /\ Op(p) = <<"create", c>>
      /\ pc[c] = "registering" /\ frame[p].todo \subseteq Declared(c)
  BY <1>1 DEF CreatesAt, Op
<1>3. c \in Task \ {Main} /\ Parent[c] = p
  <2>1. program \in DOMAIN Programs /\ Body[p][frame[p].ip] = <<"create", c>>
    BY <1>1 DEF CreatesAt, TypesOK
  <2>2. ASSUME NEW i \in DOMAIN Body[p], Body[p][i] = <<"create", c>>
        PROVE  c \in Task \ {Main} /\ Parent[c] = p
    BY <2>1, <2>2, ParentIs
  <2>3. QED
    BY <1>2, <2>1, <2>2
<1>4. c # p
  BY <1>2 DEF Creating
<1>5. ASSUME NEW d \in Task, pc[d] = "registering", Parent[d] = p
      PROVE  d = c
  <2>1. Op(p) = <<"create", d>>
    BY <1>5 DEF Control
  <2>2. QED
    BY <1>2, <2>1
<1>6. Op(p)[2] = c
  BY <1>2
<1>7. QED
  BY <1>2, <1>3, <1>4, <1>5, <1>6

(* The access a thread is linking belongs to the child it is creating.     *)
LEMMA Links1 ==
  ASSUME TypesOK, Control, NEW p \in Task, pc[p] \in {"give", "linked"}
  PROVE  \E a \in Access :
           /\ LinksAt(p, a) /\ frame[p].addr = a /\ a = <<a[1], a[2]>> /\ a[1] \in Task
           /\ Parent[a[1]] = p /\ a[1] # p /\ pc[a[1]] = "registering" /\ Op(p)[2] = a[1]
           /\ Inserted(a) /\ Above(a) = <<p, a[2]>>
<1>1. PICK a \in Access : LinksAt(p, a)
  BY DEF Control
<1>2. PICK c \in Task \ {Main} : /\ Op(p) = <<"create", c>> /\ Op(p)[2] = c
                          /\ Parent[c] = p /\ c # p /\ pc[c] = "registering"
  BY Registers DEF Creating
<1>3. a[1] = c /\ a[2] \notin frame[p].todo /\ frame[p].addr = a
  BY <1>1, <1>2 DEF LinksAt
<1>4. a = <<a[1], a[2]>>
  BY DEF Access, Of, AccessId
<1>5. QED
  BY <1>1, <1>2, <1>3, <1>4 DEF Inserted, Above

-----------------------------------------------------------------------------
(* One step of a thread that creates no task.                              *)
Advances(p) ==
  /\ program' = program
  /\ \A q \in Task \ {p} : pc'[q] = pc[q] /\ frame'[q] = frame[q]
  /\ pc[p] \notin {"none", "registering"} /\ pc'[p] \notin {"none", "registering", "submitted"}
  /\ Finished(p) => Finished(p)'
  /\ Finished(p)' \/ frame[p].ip <= frame'[p].ip
  /\ pc[p] \in Creating =>
       pc'[p] \in Creating /\ frame'[p].ip = frame[p].ip /\ frame'[p].todo \subseteq frame[p].todo
  /\ pc'[p] \in Creating => pc[p] \in Creating
  /\ pc[p] \in {"propagate", "delivered"} =>
       Finished(p)' \/ frame[p].ip < frame'[p].ip \/ pc'[p] \in {"propagate", "delivered"}

(* What is past stays so.                                                  *)
LEMMA ProgressKept ==
  ASSUME TypesOK, TypesOK', NEW p \in Task, Advances(p)
  PROVE  \A q \in Task : /\ Finished(q) => Finished(q)'
                         /\ \A i \in Nat : Past(q, i) => Past(q, i)'
                         /\ \A x : ReleasedBy(q, x) => ReleasedBy(q, x)'
<1> TAKE q \in Task
<1>0. Body' = Body
  BY SameProgram DEF Advances
<1>1. CASE q # p
  <2>1. pc'[q] = pc[q] /\ frame'[q] = frame[q]
    BY <1>1 DEF Advances
  <2>2. Finished(q) <=> Finished(q)'
    BY <1>0, <2>1 DEF Finished
  <2>3. QED
    BY <1>0, <2>1, <2>2 DEF Past, ReleasedBy
<1>2. CASE q = p
  <2>1. /\ Finished(p) => Finished(p)'
        /\ Finished(p)' \/ frame[p].ip <= frame'[p].ip
        /\ frame[p].ip \in Nat /\ frame'[p].ip \in Nat
    BY DEF Advances, TypesOK
  <2>2. ASSUME NEW i \in Nat, Past(p, i) PROVE Past(p, i)'
    BY <2>1, <2>2 DEF Past
  <2>3. ASSUME NEW x, ReleasedBy(p, x) PROVE ReleasedBy(p, x)'
    <3>1. CASE Finished(p)
      BY <2>1, <3>1 DEF ReleasedBy
    <3>2. ASSUME NEW j \in DOMAIN Body[p], Body[p][j] = <<"release", x>>,
                 j < frame[p].ip \/ (j = frame[p].ip /\ pc[p] \in {"propagate", "delivered"})
          PROVE  ReleasedBy(p, x)'
      <4>1. j \in Nat
        BY Positions DEF TypesOK
      <4>2. Finished(p)' \/ j < frame'[p].ip \/ (j = frame'[p].ip /\ pc'[p] \in {"propagate", "delivered"})
        BY <2>1, <3>2, <4>1 DEF Advances
      <4>3. QED
        BY <1>0, <3>2, <4>2 DEF ReleasedBy
    <3>3. QED
      BY <2>3, <3>1, <3>2 DEF ReleasedBy
  <2>4. QED
    BY <1>2, <2>1, <2>2, <2>3
<1>3. QED
  BY <1>1, <1>2

(* A task has the same accesses as before.                                 *)
LEMMA SameDeclared ==
  ASSUME TypesOK, TypesOK', Access' = Access
  PROVE  \A t \in Task : Declared(t)' = Declared(t)
<1> TAKE t \in Task
<1>1. Declared(t) \subseteq Address /\ Declared(t)' \subseteq Address
  BY DEF TypesOK, IsAccessMap, Declared
<1>2. \A x \in Address : /\ <<t, x>> \in Access <=> x \in Declared(t)
                         /\ <<t, x>> \in Access' <=> x \in Declared(t)'
  BY DEF Access, Of, AccessId, Declared
<1>3. QED
  BY <1>1, <1>2

(* A step that takes no address off a registration inserts nothing.        *)
LEMMA InsertedKept ==
  ASSUME TypesOK, TypesOK', Control, Access' = Access, NEW p \in Task, Advances(p),
         pc[p] \in Creating => frame'[p].todo = frame[p].todo
  PROVE  \A b \in Access : Inserted(b)' <=> Inserted(b)
<1> TAKE b \in Access
<1>0. b[1] \in Task /\ Parent' = Parent
  BY SameProgram DEF Access, Of, AccessId, Advances
<1>1. CASE b[1] = p
  BY <1>0, <1>1 DEF Inserted, Advances
<1>2. CASE b[1] # p
  <2>1. pc'[b[1]] = pc[b[1]]
    BY <1>0, <1>2 DEF Advances
  <2>2. ASSUME pc[b[1]] = "registering" PROVE frame'[Parent[b[1]]].todo = frame[Parent[b[1]]].todo
    <3>1. Parent[b[1]] \in Task /\ pc[Parent[b[1]]] \in Creating
      <4>1. b[1] # Main
        BY <2>2 DEF Control
      <4>2. QED
        BY <1>0, <2>2, <4>1 DEF Control, CreatedAt
    <3>2. QED
      BY <3>1 DEF Advances
  <2>3. QED
    BY <1>0, <2>1, <2>2 DEF Inserted
<1>3. QED
  BY <1>1, <1>2

(* A thread that creates no task keeps the tree as it is.                  *)
LEMMA ControlKept ==
  ASSUME TypesOK, TypesOK', Control, Access' = Access, NEW p \in Task, Advances(p),
         pc'[p] \in {"give", "linked"} => (\E a \in Access : LinksAt(p, a))',
         \A q \in Task \ {p} : \A a \in Access : LinksAt(q, a) /\ pc[q] \in {"give", "linked"} =>
           At(access', a).successor = NoAccess /\ At(access', a).child = NoAccess
  PROVE  Control'
<1>1. /\ Parent' = Parent /\ Body' = Body /\ \A t \in Task : Declared(t)' = Declared(t)
  BY SameProgram, SameDeclared DEF Advances
<1>2. pc'[Main] \notin {"none", "registering", "submitted"}
  BY RegistrationAssumption DEF Control, Advances
<1>3. ASSUME NEW c \in Task \ {Main}, pc'[c] # "none"
      PROVE  CreatedAt(c)'
  <2>1. pc[c] # "none"
    BY <1>3 DEF Advances
  <2>2. CreatedAt(c)
    BY <2>1 DEF Control
  <2>u. PICK u \in Task : u = Parent[c]
    BY <2>2 DEF CreatedAt
  <2>3. PICK i \in DOMAIN Body[u] :
          /\ Body[u][i] = <<"create", c>>
          /\ Past(u, i) \/ (i = frame[u].ip /\ pc[u] \in Creating)
    BY <2>2, <2>u DEF CreatedAt
  <2>4. u \in Task /\ u # c /\ pc[u] \notin {"none", "registering", "submitted"} /\ i \in Nat
    <3>1. i \in Nat
      BY Positions DEF TypesOK
    <3>2. QED
      BY <2>2, <2>u, <3>1 DEF CreatedAt
  <2>5. pc'[u] \notin {"none", "registering", "submitted"}
    BY <2>4 DEF Advances
  <2>6. Past(u, i) => Past(u, i)'
    BY <2>4, ProgressKept
  <2>7. i = frame[u].ip /\ pc[u] \in Creating => i = frame'[u].ip /\ pc'[u] \in Creating
    BY <2>4 DEF Advances
  <2>8. Past(u, i)' \/ (i = frame'[u].ip /\ pc'[u] \in Creating)
    BY <2>3, <2>6, <2>7
  <2>9. QED
    BY <1>1, <2>u, <2>3, <2>4, <2>5, <2>8 DEF CreatedAt
<1>4. ASSUME NEW c \in Task, pc'[c] = "registering"
      PROVE  pc'[Parent[c]] \in Creating /\ Op(Parent[c])' = <<"create", c>>
  <2>1. pc[c] = "registering"
    BY <1>4 DEF Advances
  <2>2. pc[Parent[c]] \in Creating /\ Op(Parent[c]) = <<"create", c>> /\ Parent[c] \in Task
    BY <2>1 DEF Control, CreatedAt
  <2>3. QED
    BY <1>1, <2>2 DEF Op, Advances
<1>5. ASSUME NEW q \in Task, pc'[q] \in Creating
      PROVE  \E c \in Task : CreatesAt(q, c)'
  <2>1. pc[q] \in Creating /\ frame'[q].ip = frame[q].ip /\ frame'[q].todo \subseteq frame[q].todo
    BY <1>5 DEF Advances
  <2>2. PICK c \in Task : CreatesAt(q, c)
    BY <2>1 DEF Control
  <2>3. pc'[c] = "registering"
    BY <2>2 DEF CreatesAt, Advances
  <2>4. CreatesAt(q, c)'
    BY <1>1, <2>1, <2>2, <2>3 DEF CreatesAt
  <2>5. QED
    BY <2>4
<1>6. ASSUME NEW q \in Task, pc'[q] \in {"give", "linked"}
      PROVE  \E a \in Access' : LinksAt(q, a)'
  <2>1. CASE q = p
    BY <1>6, <2>1
  <2>2. CASE q # p
    <3>1. pc'[q] = pc[q] /\ frame'[q] = frame[q]
      BY <2>2 DEF Advances
    <3>2. PICK a \in Access : LinksAt(q, a)
      BY <1>6, <3>1 DEF Control
    <3>3. At(access', a).successor = NoAccess /\ At(access', a).child = NoAccess
      BY <1>6, <2>2, <3>1, <3>2
    <3>4. LinksAt(q, a)'
      BY <1>1, <3>1, <3>2, <3>3 DEF LinksAt, Op
    <3>5. QED
      BY <3>4
  <2>3. QED
    BY <2>1, <2>2
<1>7. QED
  BY <1>1, <1>2, <1>3, <1>4, <1>5, <1>6 DEF Control

(* The end of an access, while thread p takes a step: what it has to show. *)
LEMMA EndingsKept ==
  ASSUME TypesOK, TypesOK', Endings, NEW F, Changes(access, access', F), NEW p \in Task, Advances(p),
         \A b \in Access : UNREGISTERED \in F[b] => b[1] = p /\ ReleasedBy(p, b[2])',
         \A a, c \in Access : NEXTISPARENT \in F[a] /\ Above(a) = c =>
           pc'[c[1]] \in Joining /\ frame'[c[1]].addr = c,
         pc[p] \in Joining => \/ pc'[p] \in Joining /\ frame'[p].addr = frame[p].addr
                              \/ UNREGISTERED \in At(access', frame[p].addr).flags,
         \A b \in Access : F[b] \cap ChildDone(Kind) # {} =>
           /\ At(access', b).child = NoAccess => UNREGISTERED \in At(access', b).flags
           /\ \A c \in Access : LastBelow(b)' = c => NEXTISPARENT \in At(access', c).flags,
         \A b \in Access : LastBelow(b)' = LastBelow(b) \/ At(access', b).flags \cap ChildDone(Kind) = {},
         \A b \in AccessId : /\ b[1] # p => LastBelow(b)' = LastBelow(b)
                             /\ LastBelow(b) # NoAccess => LastBelow(b)' # NoAccess,
         pc'[p] \in Joining => (\E a \in Access : JoinsAt(p, a))',
         Finished(p)' /\ pc'[p] \in Joining \cup {"propagate", "delivered", "finalize"} =>
           \A x \in frame'[p].todo : x \in Declared(p) /\ UNREGISTERED \notin At(access', <<p, x>>).flags,
         pc'[p] = "children" => \A x \in frame'[p].todo : LastBelow(<<p, x>>)' # NoAccess,
         pc'[p] = "finalize" => frame'[p].ip > Len(Body[p])
  PROVE  Endings'
<1>1. /\ Access' = Access /\ Of(access') = Of(access) /\ Access = Of(access)
      /\ Body' = Body /\ \A a : Above(a)' = Above(a)
  BY SameProgram DEF Changes, Access, Advances
<1>2. \A t \in Task : Declared(t)' = Declared(t)
  BY <1>1, SameDeclared
<1>3. \A b \in Access :
        /\ At(access', b).flags = At(access, b).flags \cup F[b]
        /\ At(access', b).child = NoAccess => At(access, b).child = NoAccess
        /\ b \in AccessId /\ b[1] \in Task
  BY <1>1 DEF Changes, Of, AccessId
<1>4. ASSUME NEW a \in Access, UNREGISTERED \in At(access', a).flags
      PROVE  ReleasedBy(a[1], a[2])'
  <2>1. CASE UNREGISTERED \in F[a]
    BY <2>1
  <2>2. CASE UNREGISTERED \in At(access, a).flags
    BY <1>3, <2>2, ProgressKept DEF Endings
  <2>3. QED
    BY <1>3, <1>4, <2>1, <2>2
<1>5. ASSUME NEW a \in Access, NEW c \in Access, NEXTISPARENT \in At(access', a).flags, Above(a) = c
      PROVE  \/ UNREGISTERED \in At(access', c).flags
             \/ pc'[c[1]] \in Joining /\ frame'[c[1]].addr = c
  <2>1. CASE NEXTISPARENT \in F[a]
    BY <1>5, <2>1
  <2>2. CASE NEXTISPARENT \in At(access, a).flags
    <3>1. \/ UNREGISTERED \in At(access, c).flags
          \/ pc[c[1]] \in Joining /\ frame[c[1]].addr = c
      BY <1>5, <2>2 DEF Endings
    <3>2. CASE UNREGISTERED \in At(access, c).flags
      BY <1>3, <3>2
    <3>3. CASE pc[c[1]] \in Joining /\ frame[c[1]].addr = c
      <4>1. CASE c[1] = p
        BY <3>3, <4>1
      <4>2. CASE c[1] # p
        BY <1>3, <3>3, <4>2 DEF Advances
      <4>3. QED
        BY <4>1, <4>2
    <3>4. QED
      BY <3>1, <3>2, <3>3
  <2>3. QED
    BY <1>3, <1>5, <2>1, <2>2
<1>6. ASSUME NEW a \in Access, At(access', a).flags \cap ChildDone(Kind) # {}
      PROVE  /\ At(access', a).child = NoAccess => UNREGISTERED \in At(access', a).flags
             /\ \A c \in Access : LastBelow(a)' = c => NEXTISPARENT \in At(access', c).flags
  <2>1. CASE F[a] \cap ChildDone(Kind) # {}
    BY <2>1
  <2>2. CASE At(access, a).flags \cap ChildDone(Kind) # {}
    <3>1. LastBelow(a)' = LastBelow(a)
      BY <1>6
    <3>2. /\ At(access, a).child = NoAccess => UNREGISTERED \in At(access, a).flags
          /\ \A c \in Access : LastBelow(a) = c => NEXTISPARENT \in At(access, c).flags
      BY <2>2 DEF Endings
    <3>3. QED
      BY <1>3, <3>1, <3>2
  <2>3. QED
    BY <1>3, <1>6, <2>1, <2>2
<1>7. ASSUME NEW q \in Task, pc'[q] \in Joining
      PROVE  \E a \in Access' : JoinsAt(q, a)'
  <2>1. CASE q = p
    BY <1>7, <2>1
  <2>2. CASE q # p
    <3>1. pc'[q] = pc[q] /\ frame'[q] = frame[q]
      BY <2>2 DEF Advances
    <3>2. PICK a \in Access : JoinsAt(q, a)
      BY <1>7, <3>1 DEF Endings
    <3>3. UNREGISTERED \notin F[a] /\ a[1] = q
      BY <2>2, <3>2 DEF JoinsAt
    <3>4. /\ UNREGISTERED \notin At(access', a).flags /\ At(access', a).child # NoAccess
          /\ \A c \in Access : LastBelow(a)' = c => NEXTISPARENT \in At(access', c).flags
      BY <1>3, <2>2, <3>2, <3>3 DEF JoinsAt
    <3>5. Finished(q)' <=> Finished(q)
      BY <1>1, <3>1 DEF Finished
    <3>6. /\ frame'[q].addr = a /\ a[1] = q
          /\ IF Finished(q)' THEN a[2] \notin frame'[q].todo
             ELSE frame'[q].ip \in DOMAIN Body[q] /\ Op(q)' = <<"release", a[2]>>
      BY <1>1, <3>1, <3>2, <3>5 DEF JoinsAt, Op
    <3>7. JoinsAt(q, a)'
      BY <1>1, <3>4, <3>6 DEF JoinsAt
    <3>8. QED
      BY <1>1, <3>7
  <2>3. QED
    BY <2>1, <2>2
<1>8. ASSUME NEW q \in Task
      PROVE  /\ Finished(q)' /\ pc'[q] \in Joining \cup {"propagate", "delivered", "finalize"} =>
                  \A x \in frame'[q].todo : x \in Declared(q)' /\ UNREGISTERED \notin access'[q][x].flags
             /\ pc'[q] = "finalize" => frame'[q].ip > Len(Body'[q])
             /\ pc'[q] = "children" => \A x \in frame'[q].todo : LastBelow(<<q, x>>)' # NoAccess
  <2>1. CASE q = p
    <3>1. \A x : At(access', <<p, x>>) = access'[p][x]
      BY DEF At
    <3>2. QED
      BY <1>1, <1>2, <2>1, <3>1
  <2>2. CASE q # p
    <3>1. pc'[q] = pc[q] /\ frame'[q] = frame[q]
      BY <2>2 DEF Advances
    <3>2. Finished(q)' <=> Finished(q)
      BY <1>1, <3>1 DEF Finished
    <3>3. /\ pc'[q] = "finalize" => frame'[q].ip > Len(Body'[q])
          /\ pc'[q] = "children" => \A x \in frame'[q].todo : LastBelow(<<q, x>>)' # NoAccess
      <4>1. \A x \in frame[q].todo : <<q, x>> \in AccessId
        BY DEF TypesOK, AccessId
      <4>2. QED
        BY <1>1, <3>1, <4>1 DEF Endings
    <3>4. ASSUME Finished(q)', pc'[q] \in Joining \cup {"propagate", "delivered", "finalize"},
                 NEW x \in frame'[q].todo
          PROVE  x \in Declared(q)' /\ UNREGISTERED \notin access'[q][x].flags
      <4>1. x \in Declared(q) /\ UNREGISTERED \notin access[q][x].flags
        BY <3>1, <3>2, <3>4 DEF Endings
      <4>2. <<q, x>> \in Access /\ UNREGISTERED \notin F[<<q, x>>]
        <5>1. <<q, x>> \in Access
          BY <4>1 DEF Access, Of, AccessId, Declared, TypesOK, IsAccessMap
        <5>2. QED
          BY <2>2, <5>1
      <4>3. At(access', <<q, x>>) = access'[q][x] /\ At(access, <<q, x>>) = access[q][x]
        BY DEF At
      <4>4. QED
        BY <1>2, <1>3, <4>1, <4>2, <4>3
    <3>5. QED
      BY <3>3, <3>4
  <2>3. QED
    BY <2>1, <2>2
<1>9. QED
  BY <1>1, <1>4, <1>5, <1>6, <1>7, <1>8 DEF Endings

-----------------------------------------------------------------------------
(* The messages under way.                                                 *)

(* The kinds of flags are different flags.                                 *)
LEMMA FlagsDiffer ==
  /\ (Satisfied(Kind) \cup ChildDone(Kind)) \cap Note = {} /\ Satisfied(Kind) \cap ChildDone(Kind) = {}
  /\ {UNREGISTERED, HASNEXT, HASCHILD, PARENT_DONE, NEXTISPARENT}
       \cap (Satisfied(Kind) \cup ChildDone(Kind) \cup Note) = {}
  /\ Note \subseteq Flag
<1>1. /\ \A f \in Satisfied(Kind) : f[1] = "SATISFIED"
      /\ \A f \in ChildDone(Kind) : f[1] = "CHILD_DONE"
      /\ \A f \in NextSatisfied(Kind) : f[1] = "NEXT_SATISFIED"
      /\ \A f \in ChildSatisfied(Kind) : f[1] = "CHILD_SATISFIED"
  <2> HIDE DEF Kind
  <2>1. \A f \in Satisfied(Kind) : f[1] = "SATISFIED"
    BY DEF Satisfied
  <2>2. \A f \in ChildDone(Kind) : f[1] = "CHILD_DONE"
    BY DEF ChildDone
  <2>3. \A f \in NextSatisfied(Kind) : f[1] = "NEXT_SATISFIED"
    BY DEF NextSatisfied
  <2>4. \A f \in ChildSatisfied(Kind) : f[1] = "CHILD_SATISFIED"
    BY DEF ChildSatisfied
  <2>5. QED
    BY <2>1, <2>2, <2>3, <2>4
<1>2. /\ UNREGISTERED[1] = "UNREGISTERED" /\ HASNEXT[1] = "HASNEXT" /\ HASCHILD[1] = "HASCHILD"
      /\ PARENT_DONE[1] = "PARENT_DONE" /\ NEXTISPARENT[1] = "NEXTISPARENT"
      /\ REDUCTION_COMBINED[1] = "REDUCTION_COMBINED"
  BY DEF UNREGISTERED, HASNEXT, HASCHILD, PARENT_DONE, NEXTISPARENT, REDUCTION_COMBINED
<1>3. Note \subseteq Flag
  BY DEF Note, Flag
<1>4. /\ (Satisfied(Kind) \cup ChildDone(Kind)) \cap Note = {}
      /\ Satisfied(Kind) \cap ChildDone(Kind) = {}
  BY <1>1, <1>2 DEF Note
<1>5. ASSUME NEW f \in {UNREGISTERED, HASNEXT, HASCHILD, PARENT_DONE, NEXTISPARENT}
      PROVE  f \notin Satisfied(Kind) \cup ChildDone(Kind) \cup Note
  BY <1>1, <1>2, <1>5 DEF Note
<1>6. QED
  BY <1>3, <1>4, <1>5

(* What a message brings, and what it notes.                               *)
LEMMA MessageFlags ==
  ASSUME NEW A, NEW m
  PROVE  /\ Sent(A, m) => m # NoMessage /\ m.flagsAfterPropagation \subseteq Note
         /\ Carried(A, m) => m.flagsForNext \subseteq Satisfied(Kind) \cup ChildDone(Kind)
<1>1. Sent(A, m) => m # NoMessage
  BY NoAccessIsNone DEF Sent, NoMessage
<1>2. Sent(A, m) => m.flagsAfterPropagation \subseteq Note
  BY DEF Sent, Justified, Note, NextSatisfied, ChildSatisfied
<1>3. Carried(A, m) => m.flagsForNext \subseteq Satisfied(Kind) \cup ChildDone(Kind)
  BY DEF Carried, GoesToChild, GoesToNext, Satisfied, ChildDone
<1>4. QED
  BY <1>1, <1>2, <1>3

(* The way one flag of a message takes.                                    *)
BringsDown(A, m, k) ==
  /\ At(A, m.from).child = m.to /\ <<"CHILD_SATISFIED", k>> \in m.flagsAfterPropagation

BringsAcross(A, m, k) ==
  /\ At(A, m.from).successor = m.to /\ NEXTISPARENT \notin At(A, m.from).flags
  /\ <<"NEXT_SATISFIED", k>> \in m.flagsAfterPropagation

BringsUp(A, m, k) ==
  /\ At(A, m.from).successor = m.to /\ NEXTISPARENT \in At(A, m.from).flags
  /\ <<"NEXT_SATISFIED", k>> \in m.flagsAfterPropagation

(* A satisfiability comes down or across, a CHILD_DONE comes up.           *)
LEMMA FlagBrought ==
  ASSUME NEW A, NEW m, Carried(A, m), NEW k
  PROVE  /\ <<"SATISFIED", k>> \in m.flagsForNext =>
              k \in Kind /\ m.to \in Of(A) /\ (BringsDown(A, m, k) \/ BringsAcross(A, m, k))
         /\ <<"CHILD_DONE", k>> \in m.flagsForNext => k \in Kind /\ m.to \in Of(A) /\ BringsUp(A, m, k)
<1>1. ASSUME m.flagsForNext # {}
      PROVE  /\ m.to \in Of(A)
             /\ \E K \in SUBSET Kind : GoesToChild(A, m, K) \/ GoesToNext(A, m, K)
  BY <1>1 DEF Carried
<1>2. ASSUME NEW K \in SUBSET Kind, GoesToChild(A, m, K)
      PROVE  /\ <<"SATISFIED", k>> \in m.flagsForNext => k \in Kind /\ BringsDown(A, m, k)
             /\ <<"CHILD_DONE", k>> \notin m.flagsForNext
  BY <1>2 DEF GoesToChild, Satisfied, ChildSatisfied, BringsDown
<1>3. ASSUME NEW K \in SUBSET Kind, GoesToNext(A, m, K)
      PROVE  /\ <<"SATISFIED", k>> \in m.flagsForNext => k \in Kind /\ BringsAcross(A, m, k)
             /\ <<"CHILD_DONE", k>> \in m.flagsForNext => k \in Kind /\ BringsUp(A, m, k)
  <2>1. CASE NEXTISPARENT \in At(A, m.from).flags
    BY <1>3, <2>1 DEF GoesToNext, ChildDone, NextSatisfied, BringsUp
  <2>2. CASE NEXTISPARENT \notin At(A, m.from).flags
    BY <1>3, <2>2 DEF GoesToNext, Satisfied, NextSatisfied, BringsAcross
  <2>3. QED
    BY <2>1, <2>2
<1>4. QED
  BY <1>1, <1>2, <1>3

(* No flag is brought to an access by two messages.                        *)
LEMMA OneDelivery ==
  ASSUME Links, SlotsOK, NoDuplicates, NEW r \in Slots, NEW s \in Slots, r # s, Bears(r), Bears(s),
         Msg(r).to = Msg(s).to
  PROVE  Msg(r).flagsForNext \cap Msg(s).flagsForNext = {}
<1> DEFINE m == Msg(r)
           n == Msg(s)
<1>1. Carried(access, m) /\ Carried(access, n)
  BY DEF SlotsOK
<1>2. SUFFICES ASSUME NEW f \in m.flagsForNext \cap n.flagsForNext
               PROVE  FALSE
  OBVIOUS
<1>3. (m = NoMessage \/ Sent(access, m)) /\ (n = NoMessage \/ Sent(access, n))
  BY DEF SlotsOK
<1>4. m.from \in Access /\ n.from \in Access
  BY <1>2, <1>3 DEF NoMessage, Sent, Access
<1>5. m.from = n.from => m.flagsAfterPropagation \cap n.flagsAfterPropagation = {}
  BY DEF NoDuplicates
<1> HIDE DEF m, n
<1>6. m.to = n.to
  BY DEF m, n
<1>7. \E k \in Kind : f = <<"SATISFIED", k>> \/ f = <<"CHILD_DONE", k>>
  BY <1>1, <1>2, MessageFlags DEF Satisfied, ChildDone
<1>8. ASSUME NEW k \in Kind, f = <<"SATISFIED", k>> PROVE FALSE
  <2>1. /\ m.to \in Access
        /\ BringsDown(access, m, k) \/ BringsAcross(access, m, k)
        /\ BringsDown(access, n, k) \/ BringsAcross(access, n, k)
    BY <1>1, <1>2, <1>8, FlagBrought DEF Access
  <2>2. CASE BringsDown(access, m, k) /\ BringsDown(access, n, k)
    <3>1. m.from = n.from
      BY <1>4, <1>6, <2>1, <2>2 DEF BringsDown, Links, ChildLinks
    <3>2. QED
      BY <1>5, <2>2, <3>1 DEF BringsDown
  <2>3. CASE BringsAcross(access, m, k) /\ BringsAcross(access, n, k)
    <3>1. m.from = n.from
      BY <1>4, <1>6, <2>1, <2>3 DEF BringsAcross, Links, OnePredecessor
    <3>2. QED
      BY <1>5, <2>3, <3>1 DEF BringsAcross
  <2>4. CASE BringsDown(access, m, k) /\ BringsAcross(access, n, k)
    BY <1>4, <1>6, <2>1, <2>4 DEF BringsDown, BringsAcross, Links, OnePredecessor
  <2>5. CASE BringsAcross(access, m, k) /\ BringsDown(access, n, k)
    BY <1>4, <1>6, <2>1, <2>5 DEF BringsDown, BringsAcross, Links, OnePredecessor
  <2>6. QED
    BY <2>1, <2>2, <2>3, <2>4, <2>5
<1>9. ASSUME NEW k \in Kind, f = <<"CHILD_DONE", k>> PROVE FALSE
  <2>1. m.to \in Access /\ BringsUp(access, m, k) /\ BringsUp(access, n, k)
    BY <1>1, <1>2, <1>9, FlagBrought DEF Access
  <2>2. Above(m.from) = m.to /\ Above(n.from) = m.to
    BY <1>4, <1>6, <2>1 DEF BringsUp, Links, SuccessorLinks
  <2>3. m.to \in AccessId
    BY <2>1 DEF Access, Of
  <2>4. LastBelow(m.to) = m.from /\ LastBelow(m.to) = n.from
    BY <1>4, <2>1, <2>2, <2>3 DEF BringsUp, Links, BottomLinks
  <2>5. QED
    BY <1>5, <2>1, <2>4 DEF BringsUp
<1>10. QED
  BY <1>7, <1>8, <1>9

(* The message in the hands of a thread is in a slot.                      *)
LEMMA SlotZero ==
  ASSUME TypesOK, NEW q \in Task
  PROVE  <<q, 0>> \in Slots /\ Msg(<<q, 0>>) = frame[q].message
<1>1. 0 \in 0..Len(frame[q].mailBox)
  BY DEF TypesOK
<1>2. QED
  BY <1>1, SlotsAre DEF Msg

(* A step that answers nothing keeps the messages, except the one in the   *)
(* hands of its thread that it may drop.                                   *)
LEMMA MessagesKept ==
  ASSUME TypesOK, TypesOK', SlotsOK, NoDuplicates, NEW F, Changes(access, access', F), NEW p \in Task,
         \A q \in Task : /\ frame'[q].mailBox = frame[q].mailBox
                         /\ pc'[q] \in {"give", "joinGive"} => pc[q] \in {"give", "joinGive"}
                         /\ q # p => frame'[q].message = frame[q].message,
         frame'[p].message \in {frame[p].message, NoMessage},
         \A s \in Slots : s # <<p, 0>> => Unaffected(Msg(s), Bears(s), F),
         frame'[p].message # NoMessage => Unaffected(frame[p].message, Bears(<<p, 0>>)', F)
  PROVE  SlotsOK' /\ NoDuplicates' /\ Combinations(F)
<1> DEFINE origin == [i \in 0..Len(frame[p].mailBox) |->
                        IF i = 0 /\ frame'[p].message = NoMessage THEN None ELSE <<"old", i>>]
<1>1. \A s \in Slots : Bears(s)' => Bears(s)
  BY SlotsAre DEF Bears
<1>2. \A q \in Task : Len(frame'[q].mailBox) = Len(frame[q].mailBox) /\ Len(frame[q].mailBox) \in Nat
  BY DEF TypesOK
<1>3. OthersKeep(p, F)
  <2> SUFFICES ASSUME NEW s \in Slots, s[1] # p
               PROVE  Msg(s)' = Msg(s) /\ (Bears(s)' => Bears(s)) /\ Unaffected(Msg(s), Bears(s), F)
    BY DEF OthersKeep
  <2>1. s # <<p, 0>> /\ s[1] \in Task
    BY SlotsAre
  <2>2. Msg(s)' = Msg(s)
    BY <2>1 DEF Msg
  <2>3. QED
    BY <1>1, <2>1, <2>2
<1>4. Moves(p, origin, <<>>, F)
  <2>1. ASSUME NEW i \in 0..Len(frame'[p].mailBox)
        PROVE  \/ origin[i] = None /\ Msg(<<p, i>>)' = NoMessage
               \/ \E j \in 0..Len(frame[p].mailBox) :
                    /\ origin[i] = <<"old", j>> /\ Msg(<<p, i>>)' = Msg(<<p, j>>)
                    /\ Bears(<<p, i>>)' => Bears(<<p, j>>)
                    /\ Unaffected(Msg(<<p, j>>), Bears(<<p, i>>)', F)
    <3>0. i \in 0..Len(frame[p].mailBox) /\ <<p, i>> \in Slots
      BY <1>2, <2>1, SlotsAre
    <3>1. CASE i = 0 /\ frame'[p].message = NoMessage
      BY <3>0, <3>1 DEF Msg
    <3>2. CASE i = 0 /\ frame'[p].message # NoMessage
      <4>1. origin[i] = <<"old", i>> /\ Msg(<<p, i>>)' = Msg(<<p, i>>) /\ Msg(<<p, i>>) = frame[p].message
        BY <3>0, <3>2 DEF Msg
      <4>2. QED
        BY <1>1, <3>0, <3>2, <4>1
    <3>3. CASE i # 0
      <4>1. origin[i] = <<"old", i>> /\ Msg(<<p, i>>)' = Msg(<<p, i>>) /\ <<p, i>> # <<p, 0>>
        BY <3>0, <3>3 DEF Msg
      <4>2. Bears(<<p, i>>)
        BY <3>3 DEF Bears
      <4>3. Unaffected(Msg(<<p, i>>), Bears(<<p, i>>), F) => Unaffected(Msg(<<p, i>>), Bears(<<p, i>>)', F)
        BY <4>2 DEF Unaffected
      <4>4. QED
        BY <1>1, <3>0, <4>1, <4>3
    <3>4. QED
      BY <3>1, <3>2, <3>3
  <2>2. \A i, j \in 0..Len(frame'[p].mailBox) : i # j /\ origin[i] = origin[j] => origin[i] = None
    BY <1>2 DEF None
  <2> HIDE DEF origin
  <2>3. QED
    BY <2>1, <2>2 DEF Moves
<1>5. Answers(F, <<>>)
  BY DEF Answers
<1> HIDE DEF origin
<1>6. QED
  BY <1>2, <1>3, <1>4, <1>5, MessagesStep

(* What a thread holds is not disturbed by the others.                     *)
LEMMA HoldsKept ==
  ASSUME TypesOK, TypesOK', SlotsOK', NEW q \in Task, Holds(q), frame'[q] = frame[q],
         \/ pc'[q] = pc[q]
         \/ {pc[q], pc'[q]} \cap {"give", "linked", "joinGive", "joined", "propagate", "delivered"} = {}
  PROVE  Holds(q)'
<1>1. \A i \in 0..Len(frame'[q].mailBox) : <<q, i>> \in Slots'
  BY DEF Slots
<1>2. Sent(access, frame[q].message) => Sent(access', frame[q].message)
  <2>1. <<q, 0>> \in Slots' /\ Msg(<<q, 0>>)' = frame[q].message
    BY <1>1 DEF Msg, TypesOK
  <2>2. QED
    BY <2>1, MessageFlags DEF SlotsOK
<1>3. ASSUME NEW i \in DOMAIN frame[q].mailBox, Sent(access, frame[q].mailBox[i])
      PROVE  Sent(access', frame[q].mailBox[i])
  <2>1. i \in 1..Len(frame[q].mailBox) /\ Len(frame[q].mailBox) \in Nat
    BY DEF TypesOK
  <2>2. <<q, i>> \in Slots' /\ Msg(<<q, i>>)' = frame[q].mailBox[i]
    BY <1>1, <2>1 DEF Msg
  <2>3. QED
    BY <1>3, <2>2, MessageFlags DEF SlotsOK
<1>4. QED
  BY <1>2, <1>3 DEF Holds

(* Nor is the combination it has found.                                    *)
LEMMA CombinesKept ==
  ASSUME TypesOK, TypesOK', NEW q \in Task, CombinesOwn(q), frame'[q] = frame[q],
         pc'[q] = "linked" => pc[q] = "linked",
         NEW F, Changes(access, access', F), Combinations(F),
         \A b \in Access : REDUCTION_COMBINED \in F[b] /\ pc[q] = "linked" /\ frame[q].own.combine =>
           frame[q].addr # b
  PROVE  CombinesOwn(q)'
<1> SUFFICES ASSUME pc'[q] = "linked", frame'[q].own.combine
             PROVE  /\ frame'[q].own.flagsAfterPropagation = {REDUCTION_COMBINED}
                    /\ \A new \in Access' : frame'[q].addr = new =>
                         /\ <<"SATISFIED", "WRITE">> \in At(access', new).flags
                         /\ REDUCTION_COMBINED \notin At(access', new).flags
                         /\ \A s \in Slots' : Msg(s)'.from = new => REDUCTION_COMBINED \notin Msg(s)'.flagsAfterPropagation
  BY DEF CombinesOwn
<1>1. frame[q].own.flagsAfterPropagation = {REDUCTION_COMBINED}
  BY DEF CombinesOwn
<1>2. ASSUME NEW new \in Access', frame'[q].addr = new
      PROVE  /\ <<"SATISFIED", "WRITE">> \in At(access', new).flags
             /\ REDUCTION_COMBINED \notin At(access', new).flags
             /\ \A s \in Slots' : Msg(s)'.from = new => REDUCTION_COMBINED \notin Msg(s)'.flagsAfterPropagation
  <2>1. new \in Access /\ At(access', new).flags = At(access, new).flags \cup F[new]
    BY DEF Changes, Access
  <2>2. /\ <<"SATISFIED", "WRITE">> \in At(access, new).flags
        /\ REDUCTION_COMBINED \notin At(access, new).flags
        /\ \A s \in Slots : Msg(s).from = new => REDUCTION_COMBINED \notin Msg(s).flagsAfterPropagation
    BY <1>2, <2>1 DEF CombinesOwn
  <2>3. REDUCTION_COMBINED \notin F[new]
    BY <1>2, <2>1
  <2>4. ASSUME NEW s \in Slots', Msg(s)'.from = new, REDUCTION_COMBINED \in Msg(s)'.flagsAfterPropagation
        PROVE  FALSE
    BY <2>2, <2>4 DEF Combinations
  <2>5. QED
    BY <2>1, <2>2, <2>3, <2>4
<1>3. QED
  BY <1>1, <1>2

(* An access without links answers only for itself.                        *)
LEMMA AnswerOfUnlinked ==
  ASSUME NEW a, NEW acc, NEW new, HASNEXT \notin acc.flags \cup new, HASCHILD \notin acc.flags \cup new,
         NEW next, NEW child, NEW i \in DOMAIN Messages(a, acc, new, next, child),
         Messages(a, acc, new, next, child)[i].combine
  PROVE  /\ Messages(a, acc, new, next, child)[i].flagsAfterPropagation = {REDUCTION_COMBINED}
         /\ <<"SATISFIED", "WRITE">> \in new
<1> DEFINE all  == acc.flags \cup new
           toC  == KindsForChild(new, all)
           toN  == KindsForNext(acc.type, new, all)
           run  == Schedules(acc.type, acc.weak, new)
           comb == Combines(acc.type, new)
           M    == Messages(a, acc, new, next, child)
           C    == MessageToChild(a, toC, child, run)
           N(b) == MessageToNext(a, toN, next, all, b)
<1>1. toC = {} /\ toN = {}
  BY DEF KindsForChild, KindsForNext, Propagates, ReleaseCondition
<1>2. \A b : N(b).flagsAfterPropagation = NextSatisfied({}) /\ ~N(b).combine
  BY <1>1 DEF MessageToNext, NoMessage
<1>3. NextSatisfied({}) = {}
  BY DEF NextSatisfied
<1> HIDE DEF toC, toN, run, comb, C, N, all
<1>4. CASE acc.type \in SharedType
  <2>1. M = <<>> \/ M = <<N(run /\ toC = {})>>
    <3> HIDE DEF M
    <3> QED BY <1>1, <1>4, SharedAnswers, ZenonT(40) DEF toC, toN, run, C, N, all, M
  <2> HIDE DEF M
  <2>2. M[i] = N(run /\ toC = {})
    <3>1. i \in DOMAIN M
      BY DEF M
    <3>2. QED
      BY <2>1, <3>1
  <2>3. ~M[i].combine
    BY <1>2, <2>2
  <2>4. QED
    BY <2>3 DEF M
<1>5. CASE acc.type \notin SharedType
  <2> DEFINE With(m) == [m EXCEPT !.combine = comb,
                     !.flagsAfterPropagation = @ \cup (IF comb THEN {REDUCTION_COMBINED} ELSE {})]
             T == With(N(run))
  <2>1. M = <<>> \/ M = <<T>>
    <3> DEFINE S == IF toC # {} /\ toN = {} THEN C ELSE N(run)
    <3> HIDE DEF M
    <3>1. M = <<>> \/ M = <<With(S)>>
      BY <1>5, OtherAnswers, Zenon DEF toC, toN, run, comb, C, N, all, M
    <3>2. S = N(run)
      BY <1>1
    <3> HIDE DEF S
    <3>3. QED
      BY <3>1, <3>2
  <2>2. /\ T.combine = comb
        /\ T.flagsAfterPropagation = N(run).flagsAfterPropagation \cup (IF comb THEN {REDUCTION_COMBINED} ELSE {})
    BY DEF N, MessageToNext, NoMessage
  <2> HIDE DEF T, M
  <2>3. M[i] = T
    <3>1. i \in DOMAIN M
      BY DEF M
    <3>2. QED
      BY <2>1, <3>1
  <2>4. comb => <<"SATISFIED", "WRITE">> \in new
    BY DEF Combines, comb, Satisfied
  <2>5. comb
    BY <2>2, <2>3 DEF M
  <2>6. QED
    BY <1>2, <1>3, <2>2, <2>3, <2>4, <2>5 DEF M
<1>6. QED
  BY <1>4, <1>5

(* What a message brings was passed on by its sender, and by the access    *)
(* above.                                                                  *)
LEMMA DeliveryCauses ==
  ASSUME Links, Causes, NEW m, Sent(access, m), Carried(access, m), NEW k \in Kind, NEW a \in Access
  PROVE  /\ <<"SATISFIED", k>> \in m.flagsForNext =>
              /\ At(access, a).child = m.to => ToChild(At(access, a).flags, k)
              /\ (At(access, a).successor = m.to /\ NEXTISPARENT \notin At(access, a).flags) =>
                   ToNext(At(access, a).type, At(access, a).flags, k)
              /\ Above(m.to) = a => <<"SATISFIED", k>> \in At(access, a).flags
         /\ (/\ <<"CHILD_DONE", k>> \in m.flagsForNext
             /\ At(access, a).successor = m.to /\ NEXTISPARENT \in At(access, a).flags) =>
              ToNext(At(access, a).type, At(access, a).flags, k)
<1> DEFINE b == m.from
<1>1. /\ b \in Access
      /\ <<"CHILD_SATISFIED", k>> \in m.flagsAfterPropagation => ToChild(At(access, b).flags, k)
      /\ <<"NEXT_SATISFIED", k>> \in m.flagsAfterPropagation =>
           ToNext(At(access, b).type, At(access, b).flags, k)
  <2>1. b \in Access /\ \A f \in m.flagsAfterPropagation : Justified(At(access, b).type, At(access, b).flags, f)
    BY DEF Sent, Access
  <2>2. Justified(At(access, b).type, At(access, b).flags, <<"CHILD_SATISFIED", k>>) =>
          ToChild(At(access, b).flags, k)
    <3> HIDE DEF b
    <3> QED BY DEF Justified, REDUCTION_COMBINED
  <2>3. Justified(At(access, b).type, At(access, b).flags, <<"NEXT_SATISFIED", k>>) =>
          ToNext(At(access, b).type, At(access, b).flags, k)
    <3> HIDE DEF b
    <3> QED BY DEF Justified, REDUCTION_COMBINED
  <2>4. QED
    BY <2>1, <2>2, <2>3
<1>2. ASSUME <<"SATISFIED", k>> \in m.flagsForNext
      PROVE  /\ At(access, a).child = m.to => ToChild(At(access, a).flags, k)
             /\ (At(access, a).successor = m.to /\ NEXTISPARENT \notin At(access, a).flags) =>
                  ToNext(At(access, a).type, At(access, a).flags, k)
             /\ Above(m.to) = a => <<"SATISFIED", k>> \in At(access, a).flags
  <2>1. m.to \in Access /\ (BringsDown(access, m, k) \/ BringsAcross(access, m, k))
    BY <1>2, FlagBrought DEF Access
  <2>2. CASE BringsDown(access, m, k)
    <3>1. Above(m.to) = b /\ ToChild(At(access, b).flags, k)
      BY <1>1, <2>1, <2>2 DEF BringsDown, Links, ChildLinks
    <3>2. At(access, a).child = m.to => a = b
      BY <2>1, <3>1 DEF Links, ChildLinks
    <3>3. At(access, a).successor = m.to => NEXTISPARENT \in At(access, a).flags
      BY <1>1, <2>1, <2>2 DEF BringsDown, Links, OnePredecessor
    <3>4. QED
      BY <3>1, <3>2, <3>3 DEF ToChild, Satisfied
  <2>3. CASE BringsAcross(access, m, k)
    <3>1. ToNext(At(access, b).type, At(access, b).flags, k) /\ Above(b) = Above(m.to)
      BY <1>1, <2>1, <2>3 DEF BringsAcross, Links, SuccessorLinks
    <3>2. /\ At(access, a).child # m.to
          /\ At(access, a).successor = m.to /\ NEXTISPARENT \notin At(access, a).flags => a = b
      BY <1>1, <2>1, <2>3 DEF BringsAcross, Links, OnePredecessor
    <3>3. <<"SATISFIED", k>> \in At(access, b).flags
      BY <3>1 DEF ToNext, ReleaseCondition, Satisfied
    <3>4. Above(m.to) = a => <<"SATISFIED", k>> \in At(access, a).flags
      BY <1>1, <3>1, <3>3, Zenon DEF Causes
    <3>5. QED
      BY <3>1, <3>2, <3>4
  <2>4. QED
    BY <2>1, <2>2, <2>3
<1>3. ASSUME <<"CHILD_DONE", k>> \in m.flagsForNext, At(access, a).successor = m.to,
             NEXTISPARENT \in At(access, a).flags
      PROVE  ToNext(At(access, a).type, At(access, a).flags, k)
  <2>1. m.to \in Access /\ BringsUp(access, m, k)
    BY <1>3, FlagBrought DEF Access
  <2>2. Above(a) = m.to /\ Above(b) = m.to
    BY <1>1, <1>3, <2>1 DEF BringsUp, Links, SuccessorLinks
  <2>3. a = b
    <3>1. m.to \in AccessId
      BY <2>1 DEF Access, Of
    <3>2. QED
      BY <1>1, <1>3, <2>1, <2>2, <3>1 DEF BringsUp, Links, BottomLinks
  <2>4. QED
    BY <1>1, <2>1, <2>3 DEF BringsUp
<1>4. QED
  BY <1>2, <1>3

-----------------------------------------------------------------------------
(* The flags that steps add.                                               *)
Gains(a, X) == [b \in Access |-> IF b = a THEN X ELSE {}]
Nothing == [b \in Access |-> {}]

(* A step that changes no access adds nothing.                             *)
LEMMA SameAccesses ==
  ASSUME TypesOK, access' = access
  PROVE  Changes(access, access', Nothing) /\ Access' = Access
  BY DEF Changes, Nothing, Access

(* Access a of A has got the flags X, and nothing else has changed.        *)
OnlyGains(A, B, a, X) ==
  /\ IsAccessMap(B) /\ Of(B) = Of(A) /\ \A t \in Task : DOMAIN B[t] = DOMAIN A[t]
  /\ \A b \in Of(A) :
       /\ At(B, b).flags = IF b = a THEN At(A, b).flags \cup X ELSE At(A, b).flags
       /\ At(B, b).type = At(A, b).type /\ At(B, b).weak = At(A, b).weak
       /\ At(B, b).successor = At(A, b).successor /\ At(B, b).child = At(A, b).child

(* A fetch_add, field by field.                                            *)
LEMMA Gained ==
  ASSUME NEW A, IsAccessMap(A), NEW a \in Of(A), NEW X \in SUBSET Flag
  PROVE  OnlyGains(A, Added(A, a, X), a, X)
<1> DEFINE B == Added(A, a, X)
           r == [A[a[1]][a[2]] EXCEPT !.flags = @ \cup X]
<1>1. a \in AccessId /\ a[2] \in DOMAIN A[a[1]]
  BY DEF Of
<1>2. IsPut(A, B, a, r)
  BY <1>1, AddedIs
<1>3. A[a[1]][a[2]] \in AccessRecord
  BY <1>1 DEF IsAccessMap
<1>4. /\ r.flags = At(A, a).flags \cup X /\ r.type = At(A, a).type /\ r.weak = At(A, a).weak
      /\ r.successor = At(A, a).successor /\ r.child = At(A, a).child
  BY <1>3, RecordUpdates DEF At
<1> HIDE DEF B, r
<1>5. /\ IsAccessMap(B) /\ \A t \in Task : DOMAIN B[t] = DOMAIN A[t]
      /\ \A b \in Of(A) : At(B, b) = IF b = a THEN r ELSE At(A, b)
  BY <1>2 DEF IsPut, Of, At
<1>6. Of(B) = Of(A)
  BY <1>5 DEF Of, AccessId
<1>7. OnlyGains(A, B, a, X)
  BY <1>4, <1>5, <1>6 DEF OnlyGains
<1>8. QED
  BY <1>7 DEF B

(* A step that adds flags to one access, and links nothing.                *)
LEMMA GainedOne ==
  ASSUME TypesOK, NEW a \in Access, NEW X \in SUBSET Flag, NEXTISPARENT \notin X,
         access' = Added(access, a, X)
  PROVE  /\ Changes(access, access', Gains(a, X)) /\ OnlyGains(access, access', a, X)
         /\ IsAccessMap(access') /\ Access' = Access
         /\ \A t \in Task : Declared(t)' = Declared(t)
<1>1. OnlyGains(access, access', a, X)
  BY Gained DEF Access, TypesOK
<1>2. Changes(access, access', Gains(a, X))
  BY <1>1 DEF OnlyGains, Changes, Gains, Access
<1>3. QED
  BY <1>1, <1>2 DEF OnlyGains, Access, Declared

(* Two such additions in one step.                                         *)
LEMMA GainedTwice ==
  ASSUME TypesOK, NEW a \in Access, NEW X \in SUBSET Flag, NEXTISPARENT \notin X,
         NEW b \in Access, NEW Y \in SUBSET Flag, NEXTISPARENT \notin Y,
         access' = Added(Added(access, a, X), b, Y)
  PROVE  /\ Changes(access, access', [c \in Access |-> Gains(a, X)[c] \cup Gains(b, Y)[c]])
         /\ IsAccessMap(access') /\ Access' = Access
         /\ \A t \in Task : Declared(t)' = Declared(t)
<1> DEFINE B == Added(access, a, X)
<1>1. OnlyGains(access, B, a, X)
  BY Gained DEF Access, TypesOK
<1>2. IsAccessMap(B) /\ b \in Of(B)
  BY <1>1 DEF OnlyGains, Access
<1> HIDE DEF B
<1>3. OnlyGains(B, Added(B, b, Y), b, Y)
  BY <1>2, Gained
<1>4. access' = Added(B, b, Y)
  BY DEF B
<1>5. OnlyGains(B, access', b, Y)
  BY <1>3, <1>4
<1>6. Changes(access, access', [c \in Access |-> Gains(a, X)[c] \cup Gains(b, Y)[c]])
  <2> DEFINE F == [c \in Access |-> Gains(a, X)[c] \cup Gains(b, Y)[c]]
  <2>1. /\ F \in [Access -> SUBSET Flag]
        /\ \A c \in Access : /\ F[c] = (IF c = a THEN X ELSE {}) \cup (IF c = b THEN Y ELSE {})
                            /\ NEXTISPARENT \notin F[c]
    BY DEF Gains
  <2> HIDE DEF F
  <2>2. /\ Of(access') = Of(access)
        /\ \A c \in Of(access) :
             /\ At(access', c).flags = At(access, c).flags
                  \cup (IF c = a THEN X ELSE {}) \cup (IF c = b THEN Y ELSE {})
             /\ At(access', c).type = At(access, c).type
             /\ At(access', c).successor = At(access, c).successor
             /\ At(access', c).child = At(access, c).child
    BY <1>1, <1>5, ZenonT(30) DEF OnlyGains
  <2>3. \A c \in Of(access) : At(access', c).flags = At(access, c).flags \cup F[c]
    BY <2>1, <2>2 DEF Access
  <2>4. Changes(access, access', F)
    BY <2>1, <2>2, <2>3 DEF Changes, Access
  <2>5. QED
    BY <2>4 DEF F
<1>7. QED
  BY <1>1, <1>5, <1>6 DEF OnlyGains, Access, Declared

-----------------------------------------------------------------------------
(* Steps that change no access.                                            *)
LEMMA QuietStep ==
  ASSUME IInv, TypesOK', NEW p \in Task, Advances(p), access' = access,
         \A b \in AccessId : LastBelow(b)' = LastBelow(b),
         pc[p] \notin Creating \cup Joining \cup {"delivered"}, frame[p].mailBox = <<>>,
         pc'[p] \notin Creating \cup Joining \cup {"propagate", "delivered"},
         frame'[p].message = NoMessage, frame'[p].mailBox = <<>>,
         pc'[p] = "finalize" =>
           /\ frame'[p].ip > Len(Body[p])
           /\ \A x \in frame'[p].todo : x \in Declared(p) /\ UNREGISTERED \notin access[p][x].flags,
         pc'[p] = "children" => \A x \in frame'[p].todo : LastBelow(<<p, x>>) # NoAccess
  PROVE  IInv'
<1>1. Changes(access, access', Nothing) /\ Access' = Access /\ \A b \in Access : Nothing[b] = {}
  BY SameAccesses DEF IInv, Nothing
<1>2. /\ TypesOK /\ Control /\ Links /\ Endings /\ SlotsOK /\ NoDuplicates /\ Causes
      /\ \A q \in Task : Holds(q) /\ CombinesOwn(q)
  BY DEF IInv, Links, Messaging
<1>3. frame[p].message = NoMessage
  BY <1>2 DEF Holds, Creating, Joining
<1>4. Control'
  <2>1. pc'[p] \notin {"give", "linked"}
    BY DEF Creating
  <2>2. QED
    BY <1>1, <1>2, <2>1, ControlKept DEF LinksAt
<1>5. \A b \in Access : Inserted(b)' <=> Inserted(b)
  BY <1>1, <1>2, InsertedKept
<1>6. Links'
  <2>1. \A q \in Task : \A x \in Address : LastBelow(<<q, x>>)' = LastBelow(<<q, x>>)
    BY DEF AccessId
  <2>2. program' = program
    BY DEF Advances
  <2>3. QED
    BY <1>1, <1>2, <1>5, <2>1, <2>2, LinksKept
<1>7. Endings'
  <2>1. /\ pc[p] \notin Joining /\ pc'[p] \notin Joining
        /\ \A b \in Access : b \in AccessId
        /\ \A x : At(access', <<p, x>>) = access[p][x]
    BY DEF Access, Of, At
  <2>2. \A x \in frame'[p].todo : <<p, x>> \in AccessId
    BY DEF TypesOK, AccessId
  <2>3. Finished(p)' /\ pc'[p] \in Joining \cup {"propagate", "delivered", "finalize"} => pc'[p] = "finalize"
    BY <2>1
  <2>4. QED
    BY <1>1, <1>2, <2>1, <2>2, <2>3, EndingsKept
<1>8. SlotsOK' /\ NoDuplicates' /\ Combinations(Nothing)
  <2>1. \A s \in Slots : Unaffected(Msg(s), Bears(s), Nothing)
    <3>1. \A s \in Slots : Msg(s) # NoMessage => Msg(s).from \in Access
      BY <1>2 DEF SlotsOK, Sent, Access
    <3>2. QED
      BY <1>1, <3>1 DEF Unaffected
  <2>2. \A q \in Task : /\ frame'[q].mailBox = frame[q].mailBox
                        /\ pc'[q] \in {"give", "joinGive"} => pc[q] \in {"give", "joinGive"}
                        /\ q # p => frame'[q].message = frame[q].message
    BY DEF Advances, Creating, Joining
  <2>3. QED
    BY <1>1, <1>2, <2>1, <2>2, MessagesKept
<1>9. ASSUME NEW q \in Task PROVE Holds(q)' /\ CombinesOwn(q)'
  <2>1. CASE q = p
    BY <2>1 DEF Holds, CombinesOwn, Creating, Joining
  <2>2. CASE q # p
    <3>1. frame'[q] = frame[q] /\ pc'[q] = pc[q]
      BY <2>2 DEF Advances
    <3>2. Holds(q)'
      BY <1>2, <1>8, <3>1, HoldsKept
    <3>3. CombinesOwn(q)'
      BY <1>1, <1>2, <1>8, <3>1, CombinesKept
    <3>4. QED
      BY <3>2, <3>3
  <2>3. QED
    BY <2>1, <2>2
<1>10. Causes'
  <2>1. \A b \in Access : At(access', b) = At(access, b) /\ \A a : Above(a)' = Above(a)
    BY SameProgram DEF Advances
  <2>2. QED
    BY <1>1, <1>2, <2>1 DEF Causes, PassedOn
<1>11. QED
  BY <1>4, <1>6, <1>7, <1>8, <1>9, <1>10 DEF IInv, Links, Messaging

FrameRecord ==
  [ip : Nat \ {0}, todo : SUBSET Address, addr : AccessId \cup {NoAccess}, message : Message,
   own : Message, mailBox : Seq(Message), reductionInfo : AccessId \cup {NoReduction}]

BottomMaps ==
  [Task -> [Address -> [access : AccessId \cup {NoAccess}, reductionInfo : AccessId \cup {NoReduction}]]]

(* The empty message and the empty frame.                                  *)
LEMMA NothingTyped == NoMessage \in Message /\ NoFrame \in FrameRecord
<1>1. NoMessage \in Message
  BY DEF NoMessage, Message
<1>2. QED
  BY <1>1 DEF NoFrame, FrameRecord, NoReduction

(* Thread p goes to another place, with another frame.                     *)
GoesTo(p, x, f) ==
  /\ program' = program
  /\ pc' = [pc EXCEPT ![p] = x] /\ x \in Place
  /\ frame' = [frame EXCEPT ![p] = f] /\ f \in FrameRecord

(* The types after a thread has gone to another place.                     *)
LEMMA ThreadTypes ==
  ASSUME TypesOK, NEW p \in Task, NEW x, NEW f, GoesTo(p, x, f),
         IsAccessMap(access'), \A t \in Task : Declared(t)' = Declared(t), bottomMap' \in BottomMaps
  PROVE  /\ TypesOK' /\ pc'[p] = x /\ frame'[p] = f
         /\ \A q \in Task \ {p} : pc'[q] = pc[q] /\ frame'[q] = frame[q]
<1>1. pc' \in [Task -> Place] /\ frame' \in [Task -> FrameRecord]
  BY DEF TypesOK, GoesTo, FrameRecord
<1>2. /\ pc'[p] = x /\ frame'[p] = f
      /\ \A q \in Task \ {p} : pc'[q] = pc[q] /\ frame'[q] = frame[q]
  BY DEF TypesOK, GoesTo
<1>3. program' \in DOMAIN Programs /\ \E D \in Programs[program'].declarations : \A t \in Task : Declared(t)' = DOMAIN D[t]
  BY DEF TypesOK, GoesTo
<1>4. TypesOK'
  BY <1>1, <1>3 DEF TypesOK, FrameRecord, BottomMaps
<1>5. QED
  BY <1>2, <1>4

(* The frame of a thread, and its next one.                                *)
LEMMA FrameIs ==
  ASSUME TypesOK, NEW p \in Task
  PROVE  /\ frame[p] \in FrameRecord /\ bottomMap \in BottomMaps
         /\ \A n \in Nat \ {0} : [frame[p] EXCEPT !.ip = n] \in FrameRecord
         /\ \A X \in SUBSET Address : [frame[p] EXCEPT !.todo = X] \in FrameRecord
<1>1. frame[p] \in FrameRecord /\ bottomMap \in BottomMaps
  BY DEF TypesOK, FrameRecord, BottomMaps
<1>2. QED
  BY <1>1 DEF FrameRecord

(* A thread that holds no message.                                         *)
LEMMA EmptyHands ==
  ASSUME IInv, NEW p \in Task, pc[p] \notin {"give", "linked", "joinGive", "joined", "delivered"}
  PROVE  /\ frame[p].message = NoMessage
         /\ pc[p] # "propagate" => frame[p].mailBox = <<>>
  BY DEF IInv, Messaging, Holds

(* A thread that goes from one quiet place to another.                     *)
QuietPlace == Place \ (Creating \cup Joining \cup {"none", "registering", "submitted", "delivered", "propagate"})

(* Such a step keeps the invariant.                                        *)
LEMMA QuietGoesTo ==
  ASSUME IInv, NEW p \in Task, NEW x, NEW f, GoesTo(p, x, f), access' = access, bottomMap' \in BottomMaps,
         \A b \in AccessId : LastBelow(b)' = LastBelow(b),
         pc[p] \in QuietPlace \cup {"submitted", "propagate"}, x \in QuietPlace,
         frame[p].mailBox = <<>>,
         f.message = NoMessage, f.mailBox = <<>>,
         pc[p] \in {"finalize", "children", "releasing", "completing", "done"} =>
           x \in {"finalize", "children", "releasing", "completing", "done"},
         x \in {"finalize", "children", "releasing", "completing", "done"} \/ frame[p].ip <= f.ip,
         pc[p] = "propagate" => x = "finalize" \/ (frame[p].ip <= Len(Body[p]) /\ frame[p].ip < f.ip),
         x = "finalize" =>
           f.ip > Len(Body[p]) /\ \A y \in f.todo : y \in Declared(p) /\ UNREGISTERED \notin access[p][y].flags,
         x = "children" => \A y \in f.todo : LastBelow(<<p, y>>) # NoAccess
  PROVE  IInv'
<1>1. TypesOK
  BY DEF IInv
<1>2. IsAccessMap(access') /\ \A t \in Task : Declared(t)' = Declared(t)
  BY <1>1 DEF TypesOK, Declared
<1>3. /\ TypesOK' /\ pc'[p] = x /\ frame'[p] = f
      /\ \A q \in Task \ {p} : pc'[q] = pc[q] /\ frame'[q] = frame[q]
  BY <1>1, <1>2, ThreadTypes
<1>4. program' = program /\ Body' = Body
  BY SameProgram DEF GoesTo
<1>5. Finished(p) <=> \/ pc[p] \in {"finalize", "children", "releasing", "completing", "done"}
                      \/ pc[p] = "propagate" /\ frame[p].ip > Len(Body[p])
  BY DEF Finished, QuietPlace, Joining
<1>6. x \in {"finalize", "children", "releasing", "completing", "done"} => Finished(p)'
  BY <1>3 DEF Finished
<1>7. Advances(p)
  <2>1. Finished(p) => Finished(p)'
    <3>1. CASE pc[p] \in {"finalize", "children", "releasing", "completing", "done"}
      BY <1>6, <3>1
    <3>2. CASE pc[p] = "propagate" /\ frame[p].ip > Len(Body[p])
      <4>1. frame[p].ip \in Nat /\ Len(Body[p]) \in Nat
        BY <1>1, Positions DEF TypesOK
      <4>2. x = "finalize"
        BY <3>2, <4>1
      <4>3. QED
        BY <1>6, <4>2
    <3>3. QED
      BY <1>5, <3>1, <3>2
  <2>2. Finished(p)' \/ frame[p].ip <= frame'[p].ip
    BY <1>3, <1>6
  <2>3. pc[p] \in {"propagate", "delivered"} =>
          Finished(p)' \/ frame[p].ip < frame'[p].ip \/ pc'[p] \in {"propagate", "delivered"}
    BY <1>3, <1>6 DEF QuietPlace
  <2>4. pc[p] \notin Creating /\ pc'[p] \notin Creating
    BY <1>3 DEF QuietPlace, Creating
  <2>5. pc[p] \notin {"none", "registering"} /\ pc'[p] \notin {"none", "registering", "submitted"}
    BY <1>3 DEF QuietPlace
  <2>6. QED
    BY <1>3, <1>4, <2>1, <2>2, <2>3, <2>4, <2>5 DEF Advances
<1>8. /\ pc[p] \notin Creating \cup Joining \cup {"delivered"}
      /\ pc'[p] \notin Creating \cup Joining \cup {"propagate", "delivered"}
  BY <1>3 DEF QuietPlace, Creating, Joining
<1>9. QED
  BY <1>3, <1>7, <1>8, QuietStep

(* Closing reductions does not touch the last accesses.                    *)
LEMMA WithoutReductionsKeeps ==
  ASSUME TypesOK, NEW p \in Task, NEW X, bottomMap' = WithoutReductions(p, X)
  PROVE  bottomMap' \in BottomMaps /\ \A b \in AccessId : LastBelow(b)' = LastBelow(b)
<1> DEFINE E(x) == IF bottomMap[p][x].reductionInfo \in ClosedReductions(p, X)
                   THEN [bottomMap[p][x] EXCEPT !.reductionInfo = NoReduction] ELSE bottomMap[p][x]
<1>1. bottomMap \in BottomMaps
  BY FrameIs
<1>2. \A x \in Address : /\ bottomMap[p][x] \in [access : AccessId \cup {NoAccess}, reductionInfo : AccessId \cup {NoReduction}]
                        /\ E(x) \in [access : AccessId \cup {NoAccess}, reductionInfo : AccessId \cup {NoReduction}]
                        /\ E(x).access = bottomMap[p][x].access
  BY <1>1 DEF BottomMaps, NoReduction
<1>3. bottomMap' = [bottomMap EXCEPT ![p] = [x \in Address |-> E(x)]]
  BY DEF WithoutReductions
<1> HIDE DEF E
<1>4. [x \in Address |-> E(x)] \in [Address -> [access : AccessId \cup {NoAccess}, reductionInfo : AccessId \cup {NoReduction}]]
  BY <1>2
<1>5. bottomMap' \in BottomMaps
  BY <1>1, <1>3, <1>4 DEF BottomMaps
<1>6. \A t \in Task : \A x \in Address : bottomMap'[t][x].access = bottomMap[t][x].access
  BY <1>1, <1>2, <1>3 DEF BottomMaps
<1>7. \A b \in AccessId : b[1] \in Task /\ b[2] \in Address
  BY DEF AccessId
<1>8. QED
  BY <1>5, <1>6, <1>7 DEF LastBelow

(* nOS-V starts a task.                                                    *)
LEMMA StartTaskQuiet ==
  ASSUME IInv, NEW p \in Task, StartTask(p), program' = program
  PROVE  IInv'
<1>1. TypesOK
  BY DEF IInv
<1>2. GoesTo(p, "body", frame[p])
  BY <1>1, FrameIs DEF StartTask, GoesTo, Place, TypesOK
<1>3. access' = access /\ bottomMap' = bottomMap /\ bottomMap' \in BottomMaps
  BY <1>1, FrameIs DEF StartTask, accessVars
<1>4. frame[p].message = NoMessage /\ frame[p].mailBox = <<>>
  BY EmptyHands DEF StartTask
<1>5. pc[p] = "submitted" /\ frame[p].ip <= frame[p].ip
  BY <1>1 DEF StartTask, TypesOK
<1>6. QED
  BY <1>2, <1>3, <1>4, <1>5, QuietGoesTo DEF QuietPlace, Place, Creating, Joining, LastBelow

(* A taskwait begins, or is over at once.                                  *)
LEMMA EnterTaskwaitQuiet ==
  ASSUME IInv, NEW p \in Task, EnterTaskwait(p), program' = program
  PROVE  IInv'
<1>1. TypesOK /\ pc[p] = "body"
  BY DEF IInv, EnterTaskwait, InBody
<1>2. frame[p].message = NoMessage /\ frame[p].mailBox = <<>>
  BY <1>1, EmptyHands
<1>3. frame[p] \in FrameRecord /\ frame[p].ip \in Nat
  BY <1>1, FrameIs DEF FrameRecord
<1>4. access' = access /\ program' = program
  BY DEF EnterTaskwait
<1>5. CASE removal[p] = 1
  <2> DEFINE f == [frame[p] EXCEPT !.ip = @ + 1]
  <2>1. f \in FrameRecord /\ f.ip = frame[p].ip + 1 /\ f.message = NoMessage /\ f.mailBox = <<>>
    BY <1>2, <1>3 DEF FrameRecord
  <2>2. GoesTo(p, "body", f)
    BY <1>1, <1>5, <2>1 DEF GoesTo, EnterTaskwait, TypesOK, Place
  <2>3. bottomMap' = bottomMap /\ bottomMap' \in BottomMaps
    BY <1>1, <1>5, FrameIs DEF EnterTaskwait
  <2> HIDE DEF f
  <2>4. QED
    BY <1>1, <1>2, <1>3, <1>4, <2>1, <2>2, <2>3, QuietGoesTo DEF QuietPlace, Place, Creating, Joining, LastBelow
<1>6. CASE removal[p] # 1
  <2>1. GoesTo(p, "taskwait", frame[p])
    BY <1>1, <1>3, <1>6 DEF GoesTo, EnterTaskwait, TypesOK, Place
  <2>2. bottomMap' = WithoutReductions(p, Address)
    BY <1>6 DEF EnterTaskwait
  <2>3. bottomMap' \in BottomMaps /\ \A b \in AccessId : LastBelow(b)' = LastBelow(b)
    BY <1>1, <2>2, WithoutReductionsKeeps
  <2>4. QED
    BY <1>1, <1>2, <1>3, <1>4, <2>1, <2>3, QuietGoesTo DEF QuietPlace, Place, Creating, Joining
<1>7. QED
  BY <1>5, <1>6

(* A taskwait ends.                                                        *)
LEMMA ExitTaskwaitQuiet ==
  ASSUME IInv, NEW p \in Task, ExitTaskwait(p), program' = program
  PROVE  IInv'
<1>1. TypesOK /\ pc[p] = "taskwait"
  BY DEF IInv, ExitTaskwait
<1>2. frame[p].message = NoMessage /\ frame[p].mailBox = <<>>
  BY <1>1, EmptyHands
<1>3. frame[p] \in FrameRecord /\ frame[p].ip \in Nat
  BY <1>1, FrameIs DEF FrameRecord
<1>4. access' = access /\ bottomMap' = bottomMap /\ bottomMap' \in BottomMaps
  BY <1>1, FrameIs DEF ExitTaskwait, accessVars
<1> DEFINE f == [frame[p] EXCEPT !.ip = @ + 1]
<1>5. f \in FrameRecord /\ f.ip = frame[p].ip + 1 /\ f.message = NoMessage /\ f.mailBox = <<>>
  BY <1>2, <1>3 DEF FrameRecord
<1>6. GoesTo(p, "body", f)
  BY <1>1, <1>5 DEF GoesTo, ExitTaskwait, TypesOK, Place
<1> HIDE DEF f
<1>7. QED
  BY <1>1, <1>2, <1>3, <1>4, <1>5, <1>6, QuietGoesTo DEF QuietPlace, Place, Creating, Joining, LastBelow

(* The end of a body.                                                      *)
LEMMA EndBodyQuiet ==
  ASSUME IInv, NEW p \in Task, EndBody(p), program' = program
  PROVE  IInv'
<1>1. TypesOK /\ pc[p] = "body"
  BY DEF IInv, EndBody
<1>2. frame[p].message = NoMessage /\ frame[p].mailBox = <<>>
  BY <1>1, EmptyHands
<1>3. frame[p] \in FrameRecord /\ frame[p].ip \in Nat
  BY <1>1, FrameIs DEF FrameRecord
<1>4. access' = access /\ bottomMap' = bottomMap /\ bottomMap' \in BottomMaps
  BY <1>1, FrameIs DEF EndBody, accessVars
<1> DEFINE X == {x \in Declared(p) : UNREGISTERED \notin access[p][x].flags}
           f == [frame[p] EXCEPT !.todo = X]
<1>5. X \in SUBSET Address
  BY <1>1 DEF TypesOK, IsAccessMap, Declared
<1>6. f \in FrameRecord /\ f.ip = frame[p].ip /\ f.todo = X /\ f.message = NoMessage /\ f.mailBox = <<>>
  BY <1>2, <1>3, <1>5 DEF FrameRecord
<1>7. GoesTo(p, "finalize", f)
  BY <1>1, <1>6 DEF GoesTo, EndBody, TypesOK, Place
<1>8. f.ip > Len(Body[p])
  BY <1>6 DEF EndBody
<1>9. \A y \in f.todo : y \in Declared(p) /\ UNREGISTERED \notin access[p][y].flags
  BY <1>6
<1> HIDE DEF f, X
<1>10. QED
  BY <1>1, <1>2, <1>3, <1>4, <1>6, <1>7, <1>8, <1>9, QuietGoesTo DEF QuietPlace, Place, Creating, Joining, LastBelow

(* The mailbox is empty.                                                   *)
LEMMA EndPropagationQuiet ==
  ASSUME IInv, NEW p \in Task, EndPropagation(p), program' = program
  PROVE  IInv'
<1>1. TypesOK /\ pc[p] = "propagate" /\ frame[p].mailBox = <<>>
  BY DEF IInv, EndPropagation
<1>2. frame[p].message = NoMessage
  BY <1>1, EmptyHands
<1>3. frame[p] \in FrameRecord /\ frame[p].ip \in Nat \ {0} /\ Len(Body[p]) \in Nat
  BY <1>1, FrameIs, Positions DEF FrameRecord, TypesOK
<1>4. access' = access /\ bottomMap' = bottomMap /\ bottomMap' \in BottomMaps
  BY <1>1, FrameIs DEF EndPropagation, accessVars
<1> DEFINE released == frame[p].ip <= Len(Body[p])
           n == IF released THEN frame[p].ip + 1 ELSE frame[p].ip
           f == [frame[p] EXCEPT !.reductionInfo = NoReduction, !.ip = n]
           x == IF released THEN "body" ELSE "finalize"
<1>5. /\ f \in FrameRecord /\ f.ip = (IF released THEN frame[p].ip + 1 ELSE frame[p].ip) /\ f.todo = frame[p].todo
      /\ f.message = NoMessage /\ f.mailBox = <<>>
  <2>1. n \in Nat \ {0}
    BY <1>3
  <2> HIDE DEF n
  <2>2. f \in FrameRecord /\ f.ip = n /\ f.todo = frame[p].todo /\ f.message = NoMessage /\ f.mailBox = <<>>
    BY <1>1, <1>2, <1>3, <2>1 DEF FrameRecord, NoReduction
  <2>3. QED
    BY <2>2 DEF n
<1>6. GoesTo(p, x, f)
  <2>1. frame' = [frame EXCEPT ![p] = f] /\ pc' = [pc EXCEPT ![p] = x]
    BY <1>1 DEF EndPropagation, TypesOK
  <2>2. QED
    BY <1>5, <2>1 DEF GoesTo, Place
<1>7. x = "finalize" =>
        f.ip > Len(Body[p]) /\ \A y \in f.todo : y \in Declared(p) /\ UNREGISTERED \notin access[p][y].flags
  <2>1. ASSUME x = "finalize"
        PROVE  f.ip > Len(Body[p]) /\ Finished(p)
    BY <1>1, <1>3, <1>5, <2>1 DEF Finished
  <2>2. Endings
    BY DEF IInv
  <2> HIDE DEF f, x
  <2>3. QED
    BY <1>1, <1>5, <2>1, <2>2 DEF Endings
<1>8. x \in QuietPlace /\ x # "children" /\ (x = "finalize" \/ released) /\ frame[p].ip <= f.ip
      /\ (x # "finalize" => frame[p].ip < f.ip)
  BY <1>3, <1>5 DEF QuietPlace, Place, Creating, Joining
<1> HIDE DEF f, x
<1>9. QED
  BY <1>1, <1>2, <1>3, <1>4, <1>5, <1>6, <1>7, <1>8, QuietGoesTo DEF LastBelow

(* The accesses of the task are all unregistered.                          *)
LEMMA EndFinalizeQuiet ==
  ASSUME IInv, NEW p \in Task, EndFinalize(p), program' = program
  PROVE  IInv'
<1>1. TypesOK /\ pc[p] = "finalize"
  BY DEF IInv, EndFinalize
<1>2. frame[p].message = NoMessage /\ frame[p].mailBox = <<>>
  BY <1>1, EmptyHands
<1>3. frame[p] \in FrameRecord /\ frame[p].ip \in Nat
  BY <1>1, FrameIs DEF FrameRecord
<1>4. access' = access /\ bottomMap' = bottomMap /\ bottomMap' \in BottomMaps
  BY <1>1, FrameIs DEF EndFinalize, accessVars
<1> DEFINE X == {x \in Address : bottomMap[p][x].access # NoAccess}
           f == [frame[p] EXCEPT !.todo = X]
<1>6. f \in FrameRecord /\ f.ip = frame[p].ip /\ f.todo = X /\ f.message = NoMessage /\ f.mailBox = <<>>
  BY <1>2, <1>3 DEF FrameRecord
<1>7. GoesTo(p, "children", f)
  BY <1>1, <1>6 DEF GoesTo, EndFinalize, TypesOK, Place
<1>8. \A y \in f.todo : LastBelow(<<p, y>>) # NoAccess
  BY <1>6 DEF LastBelow
<1> HIDE DEF f, X
<1>9. QED
  BY <1>1, <1>2, <1>3, <1>4, <1>6, <1>7, <1>8, QuietGoesTo DEF QuietPlace, Place, Creating, Joining, LastBelow

(* The commutative bits of the task are given back.                        *)
LEMMA ReleaseCommutativeQuiet ==
  ASSUME IInv, NEW p \in Task, ReleaseCommutative(p), program' = program
  PROVE  IInv'
<1>1. TypesOK /\ pc[p] = "children"
  BY DEF IInv, ReleaseCommutative
<1>2. frame[p].message = NoMessage /\ frame[p].mailBox = <<>>
  BY <1>1, EmptyHands
<1>3. access' = access /\ bottomMap' = bottomMap /\ bottomMap' \in BottomMaps
  BY <1>1, FrameIs DEF ReleaseCommutative, accessVars
<1>4. GoesTo(p, "releasing", frame[p])
  BY <1>1, FrameIs DEF GoesTo, ReleaseCommutative, TypesOK, Place
<1>5. QED
  BY <1>1, <1>2, <1>3, <1>4, QuietGoesTo DEF QuietPlace, Place, Creating, Joining, LastBelow

(* The task's own share of the deletable count.                            *)
LEMMA DropOwnShareQuiet ==
  ASSUME IInv, NEW p \in Task, DropOwnShare(p), program' = program
  PROVE  IInv'
<1>1. TypesOK /\ pc[p] \in {"children", "releasing"}
  BY DEF IInv, DropOwnShare
<1>2. frame[p].message = NoMessage /\ frame[p].mailBox = <<>>
  BY <1>1, EmptyHands
<1>3. access' = access /\ bottomMap' = bottomMap /\ bottomMap' \in BottomMaps
  BY <1>1, FrameIs DEF DropOwnShare, accessVars
<1>4. GoesTo(p, "completing", frame[p])
  BY <1>1, FrameIs DEF GoesTo, DropOwnShare, TypesOK, Place
<1>5. QED
  BY <1>1, <1>2, <1>3, <1>4, QuietGoesTo DEF QuietPlace, Place, Creating, Joining, LastBelow

(* The rest of taskCompletedCallback.                                      *)
LEMMA CompleteTaskQuiet ==
  ASSUME IInv, NEW p \in Task, CompleteTask(p), program' = program
  PROVE  IInv'
<1>1. TypesOK /\ pc[p] = "completing"
  BY DEF IInv, CompleteTask
<1>2. frame[p].message = NoMessage /\ frame[p].mailBox = <<>>
  BY <1>1, EmptyHands
<1>3. access' = access /\ bottomMap' = bottomMap /\ bottomMap' \in BottomMaps
  BY <1>1, FrameIs DEF CompleteTask, accessVars
<1>4. GoesTo(p, "done", NoFrame)
  BY <1>1, NothingTyped DEF GoesTo, CompleteTask, TypesOK, Place
<1>5. NoFrame.message = NoMessage /\ NoFrame.mailBox = <<>>
  BY DEF NoFrame
<1>6. QED
  BY <1>1, <1>2, <1>3, <1>4, <1>5, QuietGoesTo DEF QuietPlace, Place, Creating, Joining, LastBelow

(* Steps of the scheduler and of the semaphore.                            *)
LEMMA OtherVariables ==
  ASSUME IInv, UNCHANGED <<program, access, bottomMap, pc, frame>>
  PROVE  IInv'
<1>1. /\ Slots' = Slots /\ Access' = Access /\ \A a : Above(a)' = Above(a)
      /\ \A b : LastBelow(b)' = LastBelow(b)
      /\ Body' = Body /\ Parent' = Parent
  BY SameProgram DEF Slots, Access, LastBelow
<1>2. /\ \A s : Msg(s)' = Msg(s) /\ Bears(s)' = Bears(s)
      /\ \A t : Finished(t)' = Finished(t) /\ Declared(t)' = Declared(t)
      /\ \A t : Op(t)' = Op(t)
  BY <1>1 DEF Msg, Bears, Finished, Declared, Op
<1>3. TypesOK'
  BY DEF IInv, TypesOK, Declared
<1>4. Control'
  BY <1>1, <1>2 DEF IInv, Control, CreatedAt, Past, CreatesAt, LinksAt
<1>5. \A a : Inserted(a)' <=> Inserted(a)
  BY <1>1 DEF Inserted
<1>6. /\ LinkFlags' /\ NotYetLinked' /\ ChildLinks' /\ SuccessorLinks' /\ OnePredecessor'
  BY <1>1, <1>5 DEF IInv, LinkFlags, NotYetLinked, ChildLinks, SuccessorLinks, OnePredecessor
<1>7. BottomLinks'
  BY <1>1, <1>5 DEF IInv, BottomLinks
<1>8. Endings'
  <2>1. /\ \A t, x : ReleasedBy(t, x)' <=> ReleasedBy(t, x)
        /\ \A t, a : JoinsAt(t, a)' <=> JoinsAt(t, a)
    BY <1>1, <1>2 DEF ReleasedBy, JoinsAt
  <2>2. QED
    BY <1>1, <1>2, <2>1 DEF IInv, Endings
<1>9. Messaging'
  BY <1>1, <1>2 DEF IInv, Messaging, SlotsOK, NoDuplicates, Holds, CombinesOwn
<1>10. Causes'
  BY <1>1 DEF IInv, Causes, PassedOn
<1>11. QED
  BY <1>3, <1>4, <1>6, <1>7, <1>8, <1>9, <1>10 DEF IInv

-----------------------------------------------------------------------------
(* A thread begins or ends the registration of a task.                     *)
LEMMA RegistrationStep ==
  ASSUME IInv, TypesOK', Control', \A b \in Access : Inserted(b)' <=> Inserted(b),
         NEW p \in Task, NEW c \in Task, c # p, program' = program, access' = access, bottomMap' = bottomMap,
         \A q \in Task \ {p, c} : pc'[q] = pc[q] /\ frame'[q] = frame[q],
         {pc[p], pc'[p]} \subseteq {"body", "insert"},
         {pc[c], pc'[c]} \subseteq {"none", "registering", "submitted"},
         frame'[c] = frame[c], frame[p].ip <= frame'[p].ip,
         frame'[p].message = frame[p].message, frame'[p].mailBox = frame[p].mailBox
  PROVE  IInv'
<1>1. Changes(access, access', Nothing) /\ Access' = Access /\ \A b \in Access : Nothing[b] = {}
  BY SameAccesses DEF IInv, Nothing
<1>2. /\ TypesOK /\ Control /\ Links /\ Endings /\ SlotsOK /\ NoDuplicates /\ Causes
      /\ \A q \in Task : Holds(q) /\ CombinesOwn(q)
  BY DEF IInv, Links, Messaging
<1>3. Parent' = Parent /\ Body' = Body /\ \A a : Above(a)' = Above(a)
  BY SameProgram
<1>4. \A b : LastBelow(b)' = LastBelow(b)
  BY DEF LastBelow
<1>5. Links'
  BY <1>1, <1>2, <1>4, LinksKept
<1>6. \A q \in Task : Finished(q)' <=> Finished(q)
  <2> TAKE q \in Task
  <2>1. CASE q \in {p, c}
    BY <2>1 DEF Finished
  <2>2. CASE q \notin {p, c}
    BY <1>3, <2>2 DEF Finished
  <2>3. QED
    BY <2>1, <2>2
<1>7. Endings'
  <2>1. ASSUME NEW q \in Task, NEW x, ReleasedBy(q, x) PROVE ReleasedBy(q, x)'
    <3>1. CASE q = p
      <4>1. \A j \in DOMAIN Body[p] : j \in Nat
        BY <1>2, Positions DEF TypesOK
      <4>2. ~Finished(p) /\ frame[p].ip \in Nat /\ frame'[p].ip \in Nat
        <5>1. pc[p] \in {"body", "insert"}
          OBVIOUS
        <5>2. ~Finished(p)
          BY <5>1 DEF Finished
        <5>3. frame[p].ip \in Nat /\ frame'[p].ip \in Nat
          BY <1>2 DEF TypesOK
        <5>4. QED
          BY <5>2, <5>3
      <4>3. PICK j \in DOMAIN Body[p] :
              /\ Body[p][j] = <<"release", x>>
              /\ j < frame[p].ip \/ (j = frame[p].ip /\ pc[p] \in {"propagate", "delivered"})
        BY <2>1, <3>1, <4>2 DEF ReleasedBy
      <4>4. j < frame'[p].ip
        BY <4>1, <4>2, <4>3
      <4>5. QED
        BY <1>3, <3>1, <4>3, <4>4 DEF ReleasedBy
    <3>2. CASE q = c
      BY <1>3, <1>6, <2>1, <3>2 DEF ReleasedBy
    <3>3. CASE q \notin {p, c}
      BY <1>3, <1>6, <2>1, <3>3 DEF ReleasedBy
    <3>4. QED
      BY <3>1, <3>2, <3>3
  <2>2. \A q \in {p, c} : /\ pc[q] \notin Joining \cup {"propagate", "delivered", "finalize", "children"}
                          /\ pc'[q] \notin Joining \cup {"propagate", "delivered", "finalize", "children"}
    BY DEF Joining
  <2>3. ASSUME NEW a \in Access
        PROVE  /\ UNREGISTERED \in At(access, a).flags => ReleasedBy(a[1], a[2])'
               /\ \A d \in Access : NEXTISPARENT \in At(access, a).flags /\ Above(a) = d =>
                    \/ UNREGISTERED \in At(access, d).flags
                    \/ pc'[d[1]] \in Joining /\ frame'[d[1]].addr = d
    <3>1. \A d \in Access : d[1] \in Task
      BY DEF Access, Of, AccessId
    <3>2. \A d \in Access : pc[d[1]] \in Joining => d[1] \notin {p, c}
      BY <2>2
    <3>3. QED
      BY <1>2, <2>1, <3>1, <3>2 DEF Endings
  <2>4. ASSUME NEW q \in Task, pc'[q] \in Joining PROVE \E a \in Access : JoinsAt(q, a)'
    <3>1. q \notin {p, c} /\ pc'[q] = pc[q] /\ frame'[q] = frame[q]
      BY <2>2, <2>4
    <3>2. PICK a \in Access : JoinsAt(q, a)
      BY <1>2, <2>4, <3>1 DEF Endings
    <3>3. JoinsAt(q, a)'
      BY <1>1, <1>3, <1>4, <1>6, <3>1, <3>2 DEF JoinsAt, Op
    <3>4. QED
      BY <3>3
  <2>5. ASSUME NEW q \in Task
        PROVE  /\ Finished(q)' /\ pc'[q] \in Joining \cup {"propagate", "delivered", "finalize"} =>
                    \A x \in frame'[q].todo : x \in Declared(q)' /\ UNREGISTERED \notin access'[q][x].flags
               /\ pc'[q] = "finalize" => frame'[q].ip > Len(Body'[q])
               /\ pc'[q] = "children" => \A x \in frame'[q].todo : LastBelow(<<q, x>>)' # NoAccess
    <3>1. CASE q \in {p, c}
      BY <2>2, <3>1
    <3>2. CASE q \notin {p, c}
      BY <1>2, <1>3, <1>4, <1>6, <3>2 DEF Endings, Declared
    <3>3. QED
      BY <3>1, <3>2
  <2>6. ASSUME NEW a \in Access, At(access, a).flags \cap ChildDone(Kind) # {}
        PROVE  /\ At(access, a).child = NoAccess => UNREGISTERED \in At(access, a).flags
               /\ \A d \in Access : LastBelow(a) = d => NEXTISPARENT \in At(access, d).flags
    BY <1>2, <2>6 DEF Endings
  <2>7. QED
    BY <1>1, <1>3, <1>4, <2>3, <2>4, <2>5, <2>6 DEF Endings
<1>8. SlotsOK' /\ NoDuplicates' /\ Combinations(Nothing)
  <2>1. \A s \in Slots : Unaffected(Msg(s), Bears(s), Nothing)
    <3>1. \A s \in Slots : Msg(s) # NoMessage => Msg(s).from \in Access
      BY <1>2 DEF SlotsOK, Sent, Access
    <3>2. QED
      BY <1>1, <3>1 DEF Unaffected
  <2>2. \A q \in Task : /\ frame'[q].mailBox = frame[q].mailBox
                        /\ pc'[q] \in {"give", "joinGive"} => pc[q] \in {"give", "joinGive"}
                        /\ q # p => frame'[q].message = frame[q].message
    <3> TAKE q \in Task
    <3>1. CASE q \in {p, c}
      BY <3>1
    <3>2. CASE q \notin {p, c}
      BY <3>2
    <3>3. QED
      BY <3>1, <3>2
  <2>3. frame'[p].message # NoMessage => Unaffected(frame[p].message, Bears(<<p, 0>>)', Nothing)
    <3>1. <<p, 0>> \in Slots /\ Msg(<<p, 0>>) = frame[p].message
      BY <1>2, SlotZero
    <3>2. ~Bears(<<p, 0>>)'
      BY DEF Bears
    <3>3. QED
      BY <2>1, <3>1, <3>2 DEF Unaffected
  <2>4. QED
    BY <1>1, <1>2, <2>1, <2>2, <2>3, MessagesKept
<1>9. ASSUME NEW q \in Task PROVE Holds(q)' /\ CombinesOwn(q)'
  <2>1. CASE q = p
    <3>1. pc[p] \notin {"give", "linked", "joinGive", "joined", "propagate", "delivered"}
      OBVIOUS
    <3>2. pc'[p] \notin {"give", "linked", "joinGive", "joined", "propagate", "delivered"}
      OBVIOUS
    <3>3. frame[p].message = NoMessage /\ frame[p].mailBox = <<>>
      BY <1>2, <3>1 DEF Holds
    <3>4. QED
      BY <2>1, <3>2, <3>3 DEF Holds, CombinesOwn
  <2>2. CASE q # p
    <3>1. /\ frame'[q] = frame[q]
          /\ \/ pc'[q] = pc[q]
             \/ {pc[q], pc'[q]} \cap {"give", "linked", "joinGive", "joined", "propagate", "delivered"} = {}
          /\ pc'[q] = "linked" => pc[q] = "linked"
      BY <2>2
    <3>2. Holds(q)'
      BY <1>2, <1>8, <3>1, HoldsKept
    <3>3. CombinesOwn(q)'
      BY <1>1, <1>2, <1>8, <3>1, CombinesKept
    <3>4. QED
      BY <3>2, <3>3
  <2>3. QED
    BY <2>1, <2>2
<1>10. Causes'
  BY <1>1, <1>2, <1>3 DEF Causes, PassedOn
<1>11. QED
  BY <1>5, <1>7, <1>8, <1>9, <1>10 DEF IInv, Links, Messaging

(* The start of registerTaskDataAccesses.                                  *)
LEMMA SubmitTaskKeeps ==
  ASSUME IInv, NEW p \in Task, SubmitTask(p), program' = program
  PROVE  IInv'
<1> DEFINE e == Op(p)[2]
<1>1. /\ TypesOK /\ Control
      /\ pc[p] = "body" /\ frame[p].ip \in DOMAIN Body[p] /\ Op(p)[1] = "create"
      /\ pc' = [pc EXCEPT ![p] = "insert", ![e] = "registering"]
      /\ frame' = [frame EXCEPT ![p].todo = Declared(e)]
      /\ access' = access /\ bottomMap' = bottomMap
  BY DEF IInv, SubmitTask, InBody, accessVars
<1>2. Parent' = Parent /\ Body' = Body
  BY SameProgram
<1>3. Op(p) = <<"create", e>>
  <2>1. Body[p] \in Seq({"create", "release", "taskwait"} \X (Task \cup Address))
    BY <1>1, RegistrationAssumption DEF Body, TypesOK
  <2>2. Op(p) \in {"create", "release", "taskwait"} \X (Task \cup Address)
    BY <1>1, <2>1 DEF Op
  <2>3. QED
    BY <1>1, <2>2
<1> HIDE DEF e
<1>c. PICK c : c = e
  OBVIOUS
<1>4. /\ c \in Task \ {Main} /\ Parent[c] = p
      /\ \A u \in Task : \A j \in DOMAIN Body[u] : Body[u][j] = <<"create", c>> => u = p /\ j = frame[p].ip
  <2> DEFINE i == frame[p].ip
  <2>1. i \in DOMAIN Body[p] /\ Body[p][i] = <<"create", c>>
    BY <1>1, <1>3, <1>c DEF Op
  <2> HIDE DEF i
  <2>2. /\ c \in Task \ {Main} /\ Parent[c] = p
        /\ \A u \in Task : \A j \in DOMAIN Body[u] : Body[u][j] = <<"create", c>> => u = p /\ j = i
    BY <1>1, <2>1, ParentIs DEF TypesOK
  <2>3. QED
    BY <2>2 DEF i
<1>5. pc[c] = "none" /\ c # p
  <2>1. ~Past(p, frame[p].ip) /\ pc[p] \notin Creating
    <3>1. frame[p].ip \in Nat
      BY <1>1 DEF TypesOK
    <3>2. ~Finished(p)
      BY <1>1 DEF Finished
    <3>3. QED
      BY <1>1, <3>1, <3>2 DEF Past, Creating
  <2>2. ~CreatedAt(c)
    BY <1>4, <2>1 DEF CreatedAt
  <2>3. QED
    BY <1>1, <1>4, <2>2 DEF Control
<1>6. /\ pc'[p] = "insert" /\ pc'[c] = "registering"
      /\ \A q \in Task \ {p, c} : pc'[q] = pc[q]
      /\ \A q \in Task \ {p} : frame'[q] = frame[q]
      /\ frame'[p] = [frame[p] EXCEPT !.todo = Declared(c)]
  BY <1>1, <1>4, <1>5, <1>c DEF TypesOK
<1>7. /\ Declared(c) \subseteq Address /\ frame'[p] \in FrameRecord /\ frame'[p].ip = frame[p].ip
      /\ frame'[p].todo = Declared(c)
      /\ frame'[p].message = frame[p].message /\ frame'[p].mailBox = frame[p].mailBox
  <2>1. Declared(c) \subseteq Address
    BY <1>1, <1>4 DEF TypesOK, IsAccessMap, Declared
  <2>2. frame[p] \in FrameRecord
    BY <1>1, FrameIs
  <2>3. QED
    BY <1>6, <2>1, <2>2 DEF FrameRecord
<1>8. TypesOK'
  <2>1. frame' \in [Task -> FrameRecord] /\ pc' \in [Task -> Place]
    BY <1>1, <1>4, <1>6, <1>7 DEF TypesOK, FrameRecord, Place
  <2>2. QED
    BY <1>1, <2>1 DEF TypesOK, FrameRecord, Declared
<1>9. \A q \in Task : \A i : Past(q, i) => Past(q, i)'
  <2> TAKE q \in Task
  <2>1. frame'[q].ip = frame[q].ip
    BY <1>6, <1>7
  <2>2. Finished(q) => Finished(q)'
    <3>1. CASE q \in {p, c}
      BY <1>1, <1>5, <3>1 DEF Finished
    <3>2. CASE q \notin {p, c}
      BY <1>2, <1>6, <3>2 DEF Finished
    <3>3. QED
      BY <3>1, <3>2
  <2>3. QED
    BY <2>1, <2>2 DEF Past
<1>10. Control'
  <2>1. pc'[Main] \notin {"none", "registering", "submitted"}
    BY <1>1, <1>4, <1>6, RegistrationAssumption DEF Control
  <2>2. ASSUME NEW d \in Task \ {Main}, pc'[d] # "none" PROVE CreatedAt(d)'
    <3>1. CASE d = c
      <4>1. Body[p][frame[p].ip] = <<"create", c>> /\ frame[p].ip \in DOMAIN Body[p]
        BY <1>1, <1>3, <1>c DEF Op
      <4>2. pc'[p] = "insert" /\ frame'[p].ip = frame[p].ip /\ Parent'[c] = p /\ Body' = Body
        BY <1>2, <1>4, <1>6, <1>7
      <4>3. \E i \in DOMAIN Body'[p] :
              /\ Body'[p][i] = <<"create", c>>
              /\ i = frame'[p].ip /\ pc'[p] \in Creating
        BY <4>1, <4>2 DEF Creating
      <4>4. CreatedAt(c)'
        BY <1>5, <4>2, <4>3 DEF CreatedAt
      <4>5. QED
        BY <3>1, <4>4
    <3>2. CASE d # c
      <4>1. CreatedAt(d)
        BY <1>1, <1>6, <2>2, <3>2 DEF Control
      <4>2. PICK u \in Task : u = Parent[d]
        BY <4>1 DEF CreatedAt
      <4>3. u # c /\ pc'[u] \notin {"none", "registering", "submitted"}
        BY <1>1, <1>5, <1>6, <4>1, <4>2 DEF CreatedAt
      <4>4. pc[u] \in Creating => pc'[u] \in Creating /\ frame'[u].ip = frame[u].ip
        BY <1>6, <1>7, <4>3 DEF Creating
      <4>5. QED
        BY <1>2, <1>9, <4>1, <4>2, <4>3, <4>4 DEF CreatedAt
    <3>3. QED
      BY <3>1, <3>2
  <2>3. ASSUME NEW d \in Task, pc'[d] = "registering"
        PROVE  pc'[Parent[d]] \in Creating /\ Op(Parent[d])' = <<"create", d>>
    <3>1. CASE d = c
      BY <1>2, <1>3, <1>4, <1>6, <1>7, <1>c, <3>1 DEF Creating, Op
    <3>2. CASE d # c
      <4>1. d \in Task \ {Main} /\ pc[d] = "registering"
        BY <1>1, <1>6, <2>1, <2>3, <3>2
      <4>2. pc[Parent[d]] \in Creating /\ Op(Parent[d]) = <<"create", d>> /\ Parent[d] \in Task
        BY <1>1, <4>1 DEF Control, CreatedAt
      <4>3. Parent[d] \notin {p, c}
        BY <1>1, <1>5, <4>2 DEF Creating
      <4>4. QED
        BY <1>2, <1>6, <4>2, <4>3 DEF Op
    <3>3. QED
      BY <3>1, <3>2
  <2>4. ASSUME NEW q \in Task, pc'[q] \in Creating
        PROVE  \E d \in Task : CreatesAt(q, d)'
    <3>1. CASE q = p
      <4>1. Body[p][frame[p].ip] = <<"create", c>> /\ frame[p].ip \in DOMAIN Body[p]
        BY <1>1, <1>3, <1>c DEF Op
      <4>2. Declared(c)' = Declared(c)
        BY <1>1 DEF Declared
      <4>3. /\ frame'[p].ip = frame[p].ip /\ frame'[p].todo = Declared(c) /\ pc'[c] = "registering"
            /\ Body' = Body
        BY <1>2, <1>6, <1>7
      <4>4. CreatesAt(p, c)'
        BY <4>1, <4>2, <4>3 DEF CreatesAt
      <4>5. c \in Task
        BY <1>4
      <4>6. QED
        BY <3>1, <4>4, <4>5
    <3>2. CASE q # p
      <4>1. q # c /\ pc[q] \in Creating
        BY <1>6, <2>4, <3>2 DEF Creating
      <4>2. PICK d \in Task : CreatesAt(q, d)
        BY <1>1, <4>1 DEF Control
      <4>3. d \notin {p, c}
        BY <1>1, <1>5, <4>2 DEF CreatesAt
      <4>4. CreatesAt(q, d)'
        BY <1>1, <1>2, <1>6, <3>2, <4>2, <4>3 DEF CreatesAt, Declared
      <4>5. QED
        BY <4>4
    <3>3. QED
      BY <3>1, <3>2
  <2>5. ASSUME NEW q \in Task, pc'[q] \in {"give", "linked"}
        PROVE  \E a \in Access' : LinksAt(q, a)'
    <3>1. q \notin {p, c}
      BY <1>6, <2>5
    <3>2. PICK a \in Access : LinksAt(q, a)
      BY <1>1, <1>6, <2>5, <3>1 DEF Control
    <3>3. LinksAt(q, a)'
      BY <1>1, <1>2, <1>6, <3>1, <3>2 DEF LinksAt, Op
    <3>4. QED
      BY <1>1, <3>3 DEF Access
  <2>6. QED
    BY <1>2, <2>1, <2>2, <2>3, <2>4, <2>5 DEF Control
<1>11. \A b \in Access : Inserted(b)' <=> Inserted(b)
  <2> TAKE b \in Access
  <2>1. b[1] \in Task /\ b[2] \in Declared(b[1])
    BY DEF Access, Of, AccessId, Declared
  <2>2. Access' = Access
    BY <1>1 DEF Access
  <2>3. CASE b[1] = c
    BY <1>2, <1>4, <1>5, <1>6, <1>7, <2>1, <2>3 DEF Inserted
  <2>4. CASE b[1] = p
    BY <1>1, <1>6, <2>2, <2>4 DEF Inserted
  <2>5. CASE b[1] \notin {p, c}
    <3>1. pc'[b[1]] = pc[b[1]]
      BY <1>6, <2>1, <2>5
    <3>2. CASE pc[b[1]] = "registering"
      <4>1. Parent[b[1]] \in Task /\ pc[Parent[b[1]]] \in Creating
        BY <1>1, <2>1, <3>2, RegistrationAssumption DEF Control, CreatedAt
      <4>2. frame'[Parent[b[1]]] = frame[Parent[b[1]]]
        BY <1>1, <1>6, <4>1 DEF Creating
      <4>3. QED
        BY <1>2, <2>2, <3>1, <4>2 DEF Inserted
    <3>3. CASE pc[b[1]] # "registering"
      BY <2>2, <3>1, <3>3 DEF Inserted
    <3>4. QED
      BY <3>2, <3>3
  <2>6. QED
    BY <2>3, <2>4, <2>5
<1>12. frame[p].ip <= frame'[p].ip
  BY <1>1, <1>7 DEF TypesOK
<1>13. /\ c \in Task /\ c # p /\ frame'[c] = frame[c]
       /\ {pc[p], pc'[p]} \subseteq {"body", "insert"}
       /\ {pc[c], pc'[c]} \subseteq {"none", "registering", "submitted"}
       /\ \A q \in Task \ {p, c} : pc'[q] = pc[q] /\ frame'[q] = frame[q]
  BY <1>1, <1>4, <1>5, <1>6
<1>14. /\ frame'[p].message = frame[p].message /\ frame'[p].mailBox = frame[p].mailBox
       /\ access' = access /\ bottomMap' = bottomMap
  BY <1>1, <1>7
<1>15. QED
  BY <1>8, <1>10, <1>11, <1>12, <1>13, <1>14, RegistrationStep

(* The end of registerTaskDataAccesses.                                    *)
LEMMA EndRegistrationKeeps ==
  ASSUME IInv, NEW p \in Task, EndRegistration(p), program' = program
  PROVE  IInv'
<1> DEFINE e == Op(p)[2]
<1>1. /\ TypesOK /\ Control
      /\ pc[p] = "insert" /\ frame[p].todo = {}
      /\ pc' = [pc EXCEPT ![p] = "body", ![e] = "submitted"]
      /\ frame' = [frame EXCEPT ![p].ip = @ + 1]
      /\ access' = access /\ bottomMap' = bottomMap
  BY DEF IInv, EndRegistration, accessVars
<1>2. Parent' = Parent /\ Body' = Body
  BY SameProgram
<1>3. PICK c \in Task \ {Main} :
        /\ frame[p].ip \in DOMAIN Body[p] /\ Op(p) = <<"create", c>> /\ e = c
        /\ Parent[c] = p /\ c # p /\ pc[c] = "registering"
        /\ \A d \in Task : pc[d] = "registering" /\ Parent[d] = p => d = c
  BY <1>1, Registers DEF Creating
<1> HIDE DEF e
<1>4. /\ pc'[p] = "body" /\ pc'[c] = "submitted"
      /\ \A q \in Task \ {p, c} : pc'[q] = pc[q]
      /\ \A q \in Task \ {p} : frame'[q] = frame[q]
      /\ frame'[p] = [frame[p] EXCEPT !.ip = @ + 1]
  BY <1>1, <1>3 DEF TypesOK
<1>5. /\ frame'[p] \in FrameRecord /\ frame'[p].ip = frame[p].ip + 1 /\ frame[p].ip \in Nat
      /\ frame'[p].message = frame[p].message /\ frame'[p].mailBox = frame[p].mailBox
  <2>1. frame[p] \in FrameRecord
    BY <1>1, FrameIs
  <2>2. QED
    BY <1>4, <2>1 DEF FrameRecord
<1>6. TypesOK'
  <2>1. frame' \in [Task -> FrameRecord] /\ pc' \in [Task -> Place]
    BY <1>1, <1>3, <1>4, <1>5 DEF TypesOK, FrameRecord, Place
  <2>2. QED
    BY <1>1, <2>1 DEF TypesOK, FrameRecord, Declared
<1>7. \A q \in Task : \A i \in Nat : Past(q, i) => Past(q, i)'
  <2> TAKE q \in Task
  <2> TAKE i \in Nat
  <2>1. q # p => frame'[q].ip = frame[q].ip
    BY <1>4
  <2>2. Finished(q) => Finished(q)'
    <3>1. CASE q \in {p, c}
      BY <1>1, <1>3, <3>1 DEF Finished
    <3>2. CASE q \notin {p, c}
      BY <1>2, <1>4, <3>2 DEF Finished
    <3>3. QED
      BY <3>1, <3>2
  <2>3. i < frame[q].ip => i < frame'[q].ip
    BY <1>5, <2>1
  <2>4. QED
    BY <2>2, <2>3 DEF Past
<1>8. Control'
  <2>1. pc'[Main] \notin {"none", "registering", "submitted"}
    BY <1>1, <1>3, <1>4, RegistrationAssumption DEF Control
  <2>2. ASSUME NEW d \in Task \ {Main}, pc'[d] # "none" PROVE CreatedAt(d)'
    <3>1. CreatedAt(d)
      BY <1>1, <1>3, <1>4, <2>2 DEF Control
    <3>2. PICK u \in Task : u = Parent[d]
      BY <3>1 DEF CreatedAt
    <3>3. u # c /\ pc'[u] \notin {"none", "registering", "submitted"}
      <4>1. pc[u] \notin {"none", "registering", "submitted"}
        BY <3>1, <3>2, Zenon DEF CreatedAt
      <4>2. u # c
        BY <1>3, <4>1
      <4>3. u = p => pc'[u] = "body"
        BY <1>4
      <4>4. u # p => pc'[u] = pc[u]
        BY <1>4, <4>2
      <4>5. QED
        BY <4>1, <4>2, <4>3, <4>4
    <3>4. PICK i \in DOMAIN Body[u] :
            /\ Body[u][i] = <<"create", d>>
            /\ Past(u, i) \/ (i = frame[u].ip /\ pc[u] \in Creating)
      BY <3>1, <3>2 DEF CreatedAt
    <3>5. i \in Nat
      BY <1>1, Positions DEF TypesOK
    <3>6. i = frame[u].ip /\ pc[u] \in Creating =>
            Past(u, i)' \/ (i = frame'[u].ip /\ pc'[u] \in Creating)
      <4>1. CASE u = p
        BY <1>5, <4>1 DEF Past
      <4>2. CASE u # p
        BY <1>4, <3>3, <4>2
      <4>3. QED
        BY <4>1, <4>2
    <3>7. Past(u, i) => Past(u, i)'
      BY <1>7, <3>5
    <3>8. Past(u, i)' \/ (i = frame'[u].ip /\ pc'[u] \in Creating)
      BY <3>4, <3>6, <3>7
    <3>9. QED
      BY <1>2, <3>1, <3>2, <3>3, <3>4, <3>8 DEF CreatedAt
  <2>3. ASSUME NEW d \in Task, pc'[d] = "registering"
        PROVE  pc'[Parent[d]] \in Creating /\ Op(Parent[d])' = <<"create", d>>
    <3>1. d # c /\ pc[d] = "registering" /\ d # Main
      BY <1>1, <1>4, <2>1, <2>3
    <3>2. pc[Parent[d]] \in Creating /\ Op(Parent[d]) = <<"create", d>> /\ Parent[d] \in Task
      BY <1>1, <3>1 DEF Control, CreatedAt
    <3>3. Parent[d] \notin {p, c}
      BY <1>3, <3>1, <3>2 DEF Creating
    <3>4. QED
      BY <1>2, <1>4, <3>2, <3>3 DEF Op
  <2>4. ASSUME NEW q \in Task, pc'[q] \in Creating
        PROVE  \E d \in Task : CreatesAt(q, d)'
    <3>1. q \notin {p, c} /\ pc[q] \in Creating
      BY <1>4, <2>4 DEF Creating
    <3>2. PICK d \in Task : CreatesAt(q, d)
      BY <1>1, <3>1 DEF Control
    <3>3. d \notin {p, c}
      <4>1. PICK g \in Task : Op(q) = <<"create", g>> /\ Parent[g] = q
        BY <1>1, <3>1, Registers
      <4>2. d = g
        BY <3>2, <4>1 DEF CreatesAt, Op
      <4>3. QED
        BY <1>1, <1>3, <3>1, <3>2, <4>1, <4>2 DEF CreatesAt
    <3>4. CreatesAt(q, d)'
      BY <1>1, <1>2, <1>4, <3>1, <3>2, <3>3 DEF CreatesAt, Declared
    <3>5. QED
      BY <3>4
  <2>5. ASSUME NEW q \in Task, pc'[q] \in {"give", "linked"}
        PROVE  \E a \in Access' : LinksAt(q, a)'
    <3>1. q \notin {p, c}
      BY <1>4, <2>5
    <3>2. PICK a \in Access : LinksAt(q, a)
      BY <1>1, <1>4, <2>5, <3>1 DEF Control
    <3>3. LinksAt(q, a)'
      BY <1>1, <1>2, <1>4, <3>1, <3>2 DEF LinksAt, Op
    <3>4. QED
      BY <1>1, <3>3 DEF Access
  <2>6. QED
    BY <1>2, <2>1, <2>2, <2>3, <2>4, <2>5 DEF Control
<1>9. \A b \in Access : Inserted(b)' <=> Inserted(b)
  <2> TAKE b \in Access
  <2>1. b[1] \in Task /\ Access' = Access
    BY <1>1 DEF Access, Of, AccessId
  <2>2. CASE b[1] = c
    BY <1>1, <1>3, <1>4, <2>1, <2>2 DEF Inserted
  <2>3. CASE b[1] = p
    BY <1>1, <1>4, <2>1, <2>3 DEF Inserted
  <2>4. CASE b[1] \notin {p, c}
    <3>1. pc'[b[1]] = pc[b[1]]
      BY <1>4, <2>1, <2>4
    <3>2. CASE pc[b[1]] = "registering"
      <4>1. Parent[b[1]] \in Task /\ Parent[b[1]] # p
        BY <1>1, <1>3, <2>1, <2>4, <3>2, RegistrationAssumption DEF Control, CreatedAt
      <4>2. frame'[Parent[b[1]]] = frame[Parent[b[1]]]
        BY <1>4, <4>1
      <4>3. QED
        BY <1>2, <2>1, <3>1, <4>2 DEF Inserted
    <3>3. CASE pc[b[1]] # "registering"
      BY <2>1, <3>1, <3>3 DEF Inserted
    <3>4. QED
      BY <3>2, <3>3
  <2>5. QED
    BY <2>2, <2>3, <2>4
<1>10. frame[p].ip <= frame'[p].ip
  BY <1>5
<1>11. /\ c \in Task /\ c # p /\ frame'[c] = frame[c]
       /\ {pc[p], pc'[p]} \subseteq {"body", "insert"}
       /\ {pc[c], pc'[c]} \subseteq {"none", "registering", "submitted"}
       /\ \A q \in Task \ {p, c} : pc'[q] = pc[q] /\ frame'[q] = frame[q]
  BY <1>1, <1>3, <1>4
<1>12. /\ frame'[p].message = frame[p].message /\ frame'[p].mailBox = frame[p].mailBox
       /\ access' = access /\ bottomMap' = bottomMap
  BY <1>1, <1>5
<1>13. QED
  BY <1>6, <1>8, <1>9, <1>10, <1>11, <1>12, RegistrationStep

-----------------------------------------------------------------------------
(* A step that adds flags and links nothing.                               *)

(* Access b may get the flags X: whatever leads to it has passed them on.  *)
Supported(b, X) ==
  \A a \in Access : \A k \in Kind :
    /\ <<"SATISFIED", k>> \in X =>
         /\ At(access, a).child = b => ToChild(At(access, a).flags, k)
         /\ (At(access, a).successor = b /\ NEXTISPARENT \notin At(access, a).flags) =>
              ToNext(At(access, a).type, At(access, a).flags, k)
         /\ Above(b) = a => <<"SATISFIED", k>> \in At(access, a).flags
    /\ (/\ <<"CHILD_DONE", k>> \in X
        /\ At(access, a).successor = b /\ NEXTISPARENT \in At(access, a).flags) =>
         ToNext(At(access, a).type, At(access, a).flags, k)

(* Every flag that is added is one that access may get.                    *)
Adds(F) ==
  \A b \in Access :
    /\ F[b] \cap {HASNEXT, HASCHILD, NEXTISPARENT} = {}
    /\ F[b] # {} => Inserted(b)
    /\ \A f \in F[b] \cap Note : Justified(At(access, b).type, At(access, b).flags, f)
    /\ Supported(b, F[b])

(* Where thread p is now, if it links, joins or unregisters accesses.      *)
StaysInPlace(p) ==
  /\ pc[p] \in Creating => frame'[p].todo = frame[p].todo
  /\ pc'[p] \in {"give", "linked"} =>
       pc[p] \in {"give", "linked"} /\ frame'[p].addr = frame[p].addr
  /\ pc'[p] \in Joining =>
       /\ pc[p] \in Joining /\ frame'[p].addr = frame[p].addr
       /\ frame'[p].todo = frame[p].todo /\ frame'[p].ip = frame[p].ip
  /\ pc'[p] = "children" => pc[p] = "children" /\ frame'[p].todo \subseteq frame[p].todo
  /\ pc'[p] = "finalize" => frame'[p].ip > Len(Body[p])

(* What the step means for the ends of accesses.                           *)
Ends(p, F) ==
  /\ \A b \in Access : UNREGISTERED \in F[b] =>
       /\ b[1] = p /\ ReleasedBy(p, b[2])'
       /\ pc'[p] \notin Joining
  /\ pc[p] \in Joining /\ pc'[p] \notin Joining => UNREGISTERED \in F[frame[p].addr]
  /\ \A b \in Access : F[b] \cap ChildDone(Kind) # {} =>
       /\ At(access, b).child = NoAccess => UNREGISTERED \in At(access, b).flags \cup F[b]
       /\ \A c \in Access : LastBelow(b) = c => NEXTISPARENT \in At(access, c).flags
  /\ Finished(p)' /\ pc'[p] \in {"propagate", "delivered", "finalize"} =>
       \A x \in frame'[p].todo : x \in Declared(p) /\ UNREGISTERED \notin At(access', <<p, x>>).flags

(* What a step that adds flags, and links and answers nothing, has to      *)
(* show.                                                                   *)
LEMMA AddingStep ==
  ASSUME IInv, TypesOK', NEW p \in Task, Advances(p), NEW F, Changes(access, access', F), Adds(F),
         \A b \in AccessId : LastBelow(b)' = LastBelow(b),
         StaysInPlace(p), Ends(p, F),
         SlotsOK', NoDuplicates', Combinations(F), Holds(p)', CombinesOwn(p)',
         \A q \in Task \ {p} : \A b \in Access :
           REDUCTION_COMBINED \in F[b] /\ pc[q] = "linked" /\ frame[q].own.combine => frame[q].addr # b
  PROVE  IInv'
<1>1. /\ Access' = Access /\ Of(access') = Of(access) /\ Access = Of(access)
      /\ Parent' = Parent /\ Body' = Body /\ \A a : Above(a)' = Above(a)
      /\ program' = program
  BY SameProgram DEF Changes, Access, Advances
<1>2. /\ TypesOK /\ Control /\ Links /\ Endings /\ SlotsOK /\ NoDuplicates /\ Causes
      /\ \A q \in Task : Holds(q) /\ CombinesOwn(q)
  BY DEF IInv, Links, Messaging
<1>3. \A b \in Access :
        /\ F[b] \cap {HASNEXT, HASCHILD, NEXTISPARENT} = {}
        /\ At(access', b).flags = At(access, b).flags \cup F[b]
        /\ At(access', b).type = At(access, b).type
        /\ At(access', b).successor = At(access, b).successor
        /\ At(access', b).child = At(access, b).child
        /\ NEXTISPARENT \in At(access', b).flags <=> NEXTISPARENT \in At(access, b).flags
  <2> TAKE b \in Access
  <2>1. /\ F[b] \cap {HASNEXT, HASCHILD, NEXTISPARENT} = {}
        /\ At(access', b).flags = At(access, b).flags \cup F[b]
        /\ At(access', b).type = At(access, b).type
    BY <1>1 DEF Adds, Changes
  <2>2. /\ At(access', b).successor = At(access, b).successor
        /\ At(access', b).child = At(access, b).child
    BY <1>1, <2>1 DEF Changes
  <2>3. QED
    BY <2>1, <2>2
<1>4. \A t \in Task : Declared(t)' = Declared(t)
  BY <1>1, <1>2, SameDeclared
<1>5. Control'
  <2>1. \A q \in Task : \A a \in Access : LinksAt(q, a) /\ pc[q] \in {"give", "linked"} =>
          At(access', a).successor = NoAccess /\ At(access', a).child = NoAccess
    BY <1>3 DEF LinksAt
  <2>2. pc'[p] \in {"give", "linked"} => (\E a \in Access : LinksAt(p, a))'
    <3> SUFFICES ASSUME pc'[p] \in {"give", "linked"} PROVE \E a \in Access : LinksAt(p, a)'
      BY <1>1
    <3>1. pc[p] \in {"give", "linked"} /\ frame'[p].addr = frame[p].addr
      BY DEF StaysInPlace
    <3>2. frame'[p].todo = frame[p].todo /\ frame'[p].ip = frame[p].ip
      BY <3>1 DEF StaysInPlace, Advances, Creating
    <3>3. PICK a \in Access : LinksAt(p, a)
      BY <1>2, <3>1 DEF Control
    <3>4. LinksAt(p, a)'
      BY <1>1, <1>3, <3>1, <3>2, <3>3 DEF LinksAt, Op
    <3>5. QED
      BY <3>4
  <2>3. QED
    BY <1>1, <1>2, <2>1, <2>2, ControlKept
<1>6. \A b \in Access : Inserted(b)' <=> Inserted(b)
  BY <1>1, <1>2, InsertedKept DEF StaysInPlace
<1>7. Links'
  <2>1. \A q \in Task : \A x \in Address : LastBelow(<<q, x>>)' = LastBelow(<<q, x>>)
    BY DEF AccessId
  <2>2. \A b \in Access : /\ F[b] \cap {HASNEXT, HASCHILD, NEXTISPARENT} = {}
                          /\ F[b] # {} => Inserted(b)
    BY DEF Adds
  <2>3. QED
    BY <1>1, <1>2, <1>6, <2>1, <2>2, LinksKept
<1>8. Endings'
  <2>1. \A b \in Access : b \in AccessId /\ b = <<b[1], b[2]>>
    BY DEF Access, Of, AccessId
  <2>2. \A b \in Access : F[b] \cap ChildDone(Kind) # {} =>
          /\ At(access', b).child = NoAccess => UNREGISTERED \in At(access', b).flags
          /\ \A c \in Access : LastBelow(b)' = c => NEXTISPARENT \in At(access', c).flags
    BY <1>3, <2>1 DEF Ends
  <2>3. \A a, c \in Access : NEXTISPARENT \in F[a] /\ Above(a) = c =>
          pc'[c[1]] \in Joining /\ frame'[c[1]].addr = c
    BY <1>3
  <2>4. ASSUME pc[p] \in Joining
        PROVE  \/ pc'[p] \in Joining /\ frame'[p].addr = frame[p].addr
               \/ UNREGISTERED \in At(access', frame[p].addr).flags
    <3>1. PICK a \in Access : JoinsAt(p, a)
      BY <1>2, <2>4 DEF Endings
    <3>2. frame[p].addr \in Access
      BY <3>1 DEF JoinsAt
    <3>3. CASE pc'[p] \notin Joining
      BY <1>3, <2>4, <3>2, <3>3 DEF Ends
    <3>4. CASE pc'[p] \in Joining
      BY <3>4 DEF StaysInPlace
    <3>5. QED
      BY <3>3, <3>4
  <2>5. pc'[p] \in Joining => (\E a \in Access : JoinsAt(p, a))'
    <3> SUFFICES ASSUME pc'[p] \in Joining PROVE \E a \in Access : JoinsAt(p, a)'
      BY <1>1
    <3>1. /\ pc[p] \in Joining /\ frame'[p].addr = frame[p].addr
          /\ frame'[p].todo = frame[p].todo /\ frame'[p].ip = frame[p].ip
      BY DEF StaysInPlace
    <3>2. PICK a \in Access : JoinsAt(p, a)
      BY <1>2, <3>1 DEF Endings
    <3>3. UNREGISTERED \notin At(access', a).flags
      BY <1>3, <3>2 DEF Ends, JoinsAt
    <3>4. \A c \in Access : LastBelow(a)' = c => NEXTISPARENT \in At(access', c).flags
      BY <1>3, <2>1, <3>2 DEF JoinsAt
    <3>5. Finished(p)' <=> Finished(p)
      BY <1>1, <3>1 DEF Finished, Joining
    <3>6. JoinsAt(p, a)'
      BY <1>1, <1>3, <3>1, <3>2, <3>3, <3>4, <3>5 DEF JoinsAt, Op
    <3>7. QED
      BY <3>6
  <2>6. Finished(p)' /\ pc'[p] \in Joining \cup {"propagate", "delivered", "finalize"} =>
          \A x \in frame'[p].todo : x \in Declared(p) /\ UNREGISTERED \notin At(access', <<p, x>>).flags
    <3>1. CASE pc'[p] \in Joining
      <4> SUFFICES ASSUME Finished(p)', NEW x \in frame'[p].todo
                   PROVE  x \in Declared(p) /\ UNREGISTERED \notin At(access', <<p, x>>).flags
        BY <3>1
      <4>1. /\ pc[p] \in Joining /\ frame'[p].todo = frame[p].todo /\ frame'[p].ip = frame[p].ip
        BY <3>1 DEF StaysInPlace
      <4>2. Finished(p)
        BY <1>1, <3>1, <4>1 DEF Finished, Joining
      <4>3. x \in Declared(p) /\ UNREGISTERED \notin access[p][x].flags
        BY <1>2, <4>1, <4>2 DEF Endings
      <4>4. <<p, x>> \in Access
        BY <1>2, <4>3 DEF Access, Of, AccessId, Declared, TypesOK, IsAccessMap
      <4>5. UNREGISTERED \notin F[<<p, x>>]
        BY <3>1, <4>4 DEF Ends
      <4>6. At(access, <<p, x>>) = access[p][x]
        BY DEF At
      <4>7. QED
        BY <1>3, <4>3, <4>4, <4>5, <4>6
    <3>2. CASE pc'[p] \notin Joining
      BY <3>2 DEF Ends
    <3>3. QED
      BY <3>1, <3>2
  <2>7. pc'[p] = "children" => \A x \in frame'[p].todo : LastBelow(<<p, x>>)' # NoAccess
    <3> SUFFICES ASSUME pc'[p] = "children", NEW x \in frame'[p].todo
                 PROVE  LastBelow(<<p, x>>)' # NoAccess
      OBVIOUS
    <3>1. pc[p] = "children" /\ x \in frame[p].todo
      BY DEF StaysInPlace
    <3>2. LastBelow(<<p, x>>) # NoAccess
      BY <1>2, <3>1 DEF Endings
    <3>3. <<p, x>> \in AccessId
      BY <1>2, <3>1 DEF TypesOK, AccessId
    <3>4. QED
      BY <3>2, <3>3
  <2>8. /\ pc'[p] = "finalize" => frame'[p].ip > Len(Body[p])
        /\ \A b \in Access : UNREGISTERED \in F[b] => b[1] = p /\ ReleasedBy(p, b[2])'
    BY DEF StaysInPlace, Ends
  <2>9. /\ \A b \in Access : LastBelow(b)' = LastBelow(b) \/ At(access', b).flags \cap ChildDone(Kind) = {}
        /\ \A b \in AccessId : /\ b[1] # p => LastBelow(b)' = LastBelow(b)
                               /\ LastBelow(b) # NoAccess => LastBelow(b)' # NoAccess
    BY <2>1
  <2>10. QED
    BY <1>2, <2>2, <2>3, <2>4, <2>5, <2>6, <2>7, <2>8, <2>9, EndingsKept
<1>9. ASSUME NEW q \in Task PROVE Holds(q)' /\ CombinesOwn(q)'
  <2>1. CASE q = p
    BY <2>1
  <2>2. CASE q # p
    <3>1. frame'[q] = frame[q] /\ pc'[q] = pc[q]
      BY <2>2 DEF Advances
    <3>2. Holds(q)'
      BY <1>2, <3>1, HoldsKept
    <3>3. CombinesOwn(q)'
      BY <1>2, <2>2, <3>1, CombinesKept
    <3>4. QED
      BY <3>2, <3>3
  <2>3. QED
    BY <2>1, <2>2
<1>10. Causes'
  <2>1. ASSUME NEW a \in Access, NEW b \in Access, NEW k \in Kind
        PROVE  /\ <<"SATISFIED", k>> \in F[b] =>
                    /\ At(access', a).child = b => ToChild(At(access', a).flags, k)
                    /\ (At(access', a).successor = b /\ NEXTISPARENT \notin At(access', a).flags) =>
                         ToNext(At(access', a).type, At(access', a).flags, k)
                    /\ Above(b) = a => <<"SATISFIED", k>> \in At(access', a).flags
               /\ (/\ <<"CHILD_DONE", k>> \in F[b]
                   /\ At(access', a).successor = b /\ NEXTISPARENT \in At(access', a).flags) =>
                    ToNext(At(access', a).type, At(access', a).flags, k)
    <3>1. /\ ToChild(At(access, a).flags, k) => ToChild(At(access', a).flags, k)
          /\ ToNext(At(access, a).type, At(access, a).flags, k) =>
               ToNext(At(access', a).type, At(access', a).flags, k)
          /\ <<"SATISFIED", k>> \in At(access, a).flags => <<"SATISFIED", k>> \in At(access', a).flags
      BY <1>3 DEF ToChild, ToNext
    <3>2. Supported(b, F[b])
      BY DEF Adds
    <3>3. QED
      BY <1>3, <3>1, <3>2, Zenon DEF Supported
  <2>2. \A a, b \in Access : \A k \in Kind :
          /\ At(access', a).child = b /\ At(access, a).child # b => <<"SATISFIED", k>> \notin At(access', b).flags
          /\ At(access', a).successor = b /\ At(access, a).successor # b =>
               (IF NEXTISPARENT \in At(access', a).flags THEN <<"CHILD_DONE", k>> ELSE <<"SATISFIED", k>>)
                 \notin At(access', b).flags
    BY <1>3
  <2>3. \A b \in Access : \A f \in F[b] \cap Note : Justified(At(access, b).type, At(access, b).flags, f)
    BY DEF Adds
  <2>4. LinkFlags'
    BY <1>7 DEF Links
  <2>5. QED
    BY <1>1, <1>2, <2>1, <2>2, <2>3, <2>4, CausesKept
<1>11. QED
  BY <1>5, <1>7, <1>8, <1>9, <1>10 DEF IInv, Links, Messaging

(* The note of a message that has arrived is in no other message.          *)
LEMMA NoteDisturbsNothing ==
  ASSUME TypesOK, SlotsOK, NoDuplicates, NEW r \in Slots, Msg(r) # NoMessage
  PROVE  LET m == Msg(r)
             F == Gains(m.from, m.flagsAfterPropagation)
         IN  /\ m.from \in Access /\ m.flagsAfterPropagation \in SUBSET Flag /\ m.flagsAfterPropagation \subseteq Note
             /\ m.flagsAfterPropagation \cap {HASNEXT, HASCHILD, NEXTISPARENT, UNREGISTERED} = {}
             /\ m.flagsAfterPropagation \cap ChildDone(Kind) = {}
             /\ \A s \in Slots : s # r => Unaffected(Msg(s), Bears(s), F)
<1> DEFINE m == Msg(r)
           F == Gains(m.from, m.flagsAfterPropagation)
<1>1. Sent(access, m) /\ m.from \in Access /\ m.flagsAfterPropagation \subseteq Note
  BY MessageFlags DEF SlotsOK, Sent, Access
<1>2. ASSUME NEW s \in Slots, s # r PROVE Unaffected(Msg(s), Bears(s), F)
  <2> SUFFICES ASSUME Msg(s) # NoMessage
               PROVE  /\ Msg(s).flagsAfterPropagation \cap F[Msg(s).from] = {}
                      /\ Bears(s) /\ Msg(s).to \in Access => Msg(s).flagsForNext \cap F[Msg(s).to] = {}
    BY DEF Unaffected
  <2>1. Sent(access, Msg(s)) /\ Msg(s).from \in Access
    BY DEF SlotsOK, Sent, Access
  <2>2. Msg(s).from = m.from => Msg(s).flagsAfterPropagation \cap m.flagsAfterPropagation = {}
    BY <1>2 DEF NoDuplicates
  <2>3. Bears(s) => Msg(s).flagsForNext \cap Note = {}
    BY MessageFlags, FlagsDiffer DEF SlotsOK
  <2> HIDE DEF m
  <2>4. /\ F[Msg(s).from] \in {{}, m.flagsAfterPropagation}
        /\ F[Msg(s).from] = m.flagsAfterPropagation => Msg(s).from = m.from \/ m.flagsAfterPropagation = {}
        /\ Msg(s).to \in Access => F[Msg(s).to] \subseteq Note
    BY <1>1, <2>1 DEF Gains
  <2>5. QED
    BY <2>2, <2>3, <2>4
<1>3. QED
  BY <1>1, <1>2, FlagsDiffer

(* What a message brings is brought by no other one.                       *)
LEMMA DeliveryDisturbsNothing ==
  ASSUME TypesOK, Links, SlotsOK, NoDuplicates, NEW r \in Slots, Msg(r) # NoMessage,
         Bears(r), Msg(r).flagsForNext # {}
  PROVE  LET m == Msg(r)
             F == Gains(m.to, m.flagsForNext)
         IN  /\ m.to \in Access /\ m.flagsForNext \in SUBSET Flag
             /\ m.flagsForNext \subseteq Satisfied(Kind) \cup ChildDone(Kind)
             /\ m.flagsForNext \cap (Note \cup {HASNEXT, HASCHILD, NEXTISPARENT, UNREGISTERED}) = {}
             /\ m.flagsForNext \cap At(access, m.to).flags = {}
             /\ \A s \in Slots : Unaffected(Msg(s), Bears(s) /\ s # r, F)
<1> DEFINE m == Msg(r)
           F == Gains(m.to, m.flagsForNext)
<1>1. /\ m.to \in Access /\ m.flagsForNext \subseteq Satisfied(Kind) \cup ChildDone(Kind)
      /\ m.flagsForNext \cap At(access, m.to).flags = {}
  BY MessageFlags DEF SlotsOK, Carried, Access
<1>2. ASSUME NEW s \in Slots PROVE Unaffected(Msg(s), Bears(s) /\ s # r, F)
  <2> SUFFICES ASSUME Msg(s) # NoMessage
               PROVE  /\ Msg(s).flagsAfterPropagation \cap F[Msg(s).from] = {}
                      /\ Bears(s) /\ s # r /\ Msg(s).to \in Access => Msg(s).flagsForNext \cap F[Msg(s).to] = {}
    BY DEF Unaffected
  <2>1. Sent(access, Msg(s)) /\ Msg(s).from \in Access /\ Msg(s).flagsAfterPropagation \subseteq Note
    BY MessageFlags DEF SlotsOK, Sent, Access
  <2>2. Bears(s) /\ s # r /\ Msg(s).to = m.to => Msg(s).flagsForNext \cap m.flagsForNext = {}
    BY OneDelivery
  <2> HIDE DEF m
  <2>3. /\ F[Msg(s).from] \subseteq Satisfied(Kind) \cup ChildDone(Kind)
        /\ Msg(s).to \in Access => F[Msg(s).to] = IF Msg(s).to = m.to THEN m.flagsForNext ELSE {}
    BY <1>1, <2>1 DEF Gains
  <2>4. QED
    BY <2>1, <2>2, <2>3, FlagsDiffer
<1>3. m.flagsForNext \cap (Note \cup {HASNEXT, HASCHILD, NEXTISPARENT, UNREGISTERED}) = {}
  BY <1>1, FlagsDiffer
<1>4. m.flagsForNext \in SUBSET Flag
  BY <1>1 DEF Flag
<1>5. QED
  BY <1>1, <1>2, <1>3, <1>4

(* No message reaches, and nothing but insertAccesses changes, an access   *)
(* that is not inserted.                                                   *)
LEMMA LinkedIsInserted ==
  ASSUME TypesOK, Links, SlotsOK, NEW s \in Slots, Msg(s) # NoMessage
  PROVE  /\ Msg(s).flagsAfterPropagation # {} => Inserted(Msg(s).from)
         /\ Bears(s) /\ Msg(s).flagsForNext # {} => Inserted(Msg(s).to)
<1> DEFINE m == Msg(s)
<1>1. Sent(access, m) /\ m.from \in Access /\ (Bears(s) => Carried(access, m))
  BY DEF SlotsOK, Sent, Access
<1>2. ASSUME m.flagsAfterPropagation # {} PROVE Inserted(m.from)
  <2>1. PICK f \in m.flagsAfterPropagation : Justified(At(access, m.from).type, At(access, m.from).flags, f)
    BY <1>1, <1>2 DEF Sent
  <2>2. At(access, m.from).flags # {}
    BY <2>1 DEF Justified, ToChild, ToNext, ReleaseCondition
  <2>3. QED
    BY <1>1, <2>2 DEF Links, NotYetLinked
<1>3. ASSUME Bears(s), m.flagsForNext # {} PROVE Inserted(m.to)
  <2>1. m.to \in Access /\ (At(access, m.from).child = m.to \/ At(access, m.from).successor = m.to)
    BY <1>1, <1>3 DEF Carried, GoesToChild, GoesToNext, Access
  <2>2. QED
    BY <1>1, <2>1 DEF Links, NotYetLinked
<1>4. QED
  BY <1>2, <1>3

(* The note of the message in a thread's hands may be taken.               *)
LEMMA NoteMayBeTaken ==
  ASSUME IInv, NEW p \in Task, frame[p].message # NoMessage
  PROVE  LET m == frame[p].message
             F == Gains(m.from, m.flagsAfterPropagation)
         IN  /\ <<p, 0>> \in Slots /\ Msg(<<p, 0>>) = m
             /\ m.from \in Access /\ m.flagsAfterPropagation \in SUBSET Flag
             /\ m.flagsAfterPropagation \subseteq Note
             /\ m.flagsAfterPropagation \cap At(access, m.from).flags = {}
             /\ NEXTISPARENT \notin m.flagsAfterPropagation
             /\ \A b \in Access : /\ F[b] \cap ({UNREGISTERED} \cup ChildDone(Kind) \cup Satisfied(Kind)) = {}
                                  /\ F[b] # {} => Inserted(b)
             /\ Adds(F)
             /\ \A s \in Slots : s # <<p, 0>> => Unaffected(Msg(s), Bears(s), F)
             /\ \A q \in Task : \A b \in Access :
                  REDUCTION_COMBINED \in F[b] /\ pc[q] = "linked" /\ frame[q].own.combine => frame[q].addr # b
<1> DEFINE m == frame[p].message
           F == Gains(m.from, m.flagsAfterPropagation)
<1>1. /\ TypesOK /\ Links /\ SlotsOK /\ NoDuplicates
      /\ \A q \in Task : CombinesOwn(q)
  BY DEF IInv, Links, Messaging
<1>2. <<p, 0>> \in Slots /\ Msg(<<p, 0>>) = m
  BY <1>1, SlotZero
<1>3. /\ m.from \in Access /\ m.flagsAfterPropagation \in SUBSET Flag /\ m.flagsAfterPropagation \subseteq Note
      /\ m.flagsAfterPropagation \cap {HASNEXT, HASCHILD, NEXTISPARENT, UNREGISTERED} = {}
      /\ m.flagsAfterPropagation \cap ChildDone(Kind) = {}
      /\ \A s \in Slots : s # <<p, 0>> => Unaffected(Msg(s), Bears(s), F)
  BY <1>1, <1>2, NoteDisturbsNothing
<1>4. Sent(access, m)
  BY <1>1, <1>2 DEF SlotsOK
<1>5. m.flagsAfterPropagation \cap Satisfied(Kind) = {}
  BY <1>3, FlagsDiffer
<1>6. m.flagsAfterPropagation # {} => Inserted(m.from)
  BY <1>1, <1>2, LinkedIsInserted
<1> HIDE DEF m
<1>7. \A b \in Access : /\ F[b] \subseteq m.flagsAfterPropagation
                        /\ F[b] # {} => b = m.from
  BY DEF Gains
<1>8. Adds(F)
  <2> SUFFICES ASSUME NEW b \in Access
               PROVE  /\ F[b] \cap {HASNEXT, HASCHILD, NEXTISPARENT} = {}
                      /\ F[b] # {} => Inserted(b)
                      /\ \A f \in F[b] \cap Note : Justified(At(access, b).type, At(access, b).flags, f)
                      /\ Supported(b, F[b])
    BY DEF Adds
  <2>1. F[b] \subseteq m.flagsAfterPropagation /\ (F[b] # {} => b = m.from)
    BY <1>7
  <2>2. /\ F[b] \cap {HASNEXT, HASCHILD, NEXTISPARENT} = {}
        /\ F[b] # {} => Inserted(b)
    BY <1>3, <1>6, <2>1
  <2>3. \A f \in F[b] \cap Note : Justified(At(access, b).type, At(access, b).flags, f)
    BY <1>4, <2>1 DEF Sent
  <2>4. \A k \in Kind : <<"SATISFIED", k>> \in Satisfied(Kind) /\ <<"CHILD_DONE", k>> \in ChildDone(Kind)
    BY DEF Satisfied, ChildDone
  <2>5. \A k \in Kind : <<"SATISFIED", k>> \notin F[b] /\ <<"CHILD_DONE", k>> \notin F[b]
    BY <1>3, <1>5, <2>1, <2>4
  <2>6. Supported(b, F[b])
    BY <2>5 DEF Supported
  <2>7. QED
    BY <2>2, <2>3, <2>6
<1>9. ASSUME NEW q \in Task, NEW b \in Access,
             REDUCTION_COMBINED \in F[b], pc[q] = "linked", frame[q].own.combine
      PROVE  frame[q].addr # b
  <2>1. b = m.from /\ REDUCTION_COMBINED \in m.flagsAfterPropagation
    BY <1>7, <1>9
  <2>2. CombinesOwn(q)
    BY <1>1
  <2>3. QED
    BY <1>2, <1>9, <2>1, <2>2 DEF CombinesOwn
<1>10. \A b \in Access : /\ F[b] \cap ({UNREGISTERED} \cup ChildDone(Kind) \cup Satisfied(Kind)) = {}
                         /\ F[b] # {} => Inserted(b)
  BY <1>3, <1>5, <1>6, <1>7
<1>11. m.flagsAfterPropagation \cap At(access, m.from).flags = {} /\ NEXTISPARENT \notin m.flagsAfterPropagation
  BY <1>3, <1>4 DEF Sent
<1>12. QED
  BY <1>2, <1>3, <1>8, <1>9, <1>10, <1>11 DEF m

(* The last subaccess notes that the access it was chained to got its      *)
(* message.                                                                *)
LEMMA JoinedKeeps ==
  ASSUME IInv, NEW p \in Task, Joined(p), program' = program
  PROVE  IInv'
<1> DEFINE m == frame[p].message
           F == Gains(m.from, m.flagsAfterPropagation)
           f == [frame[p] EXCEPT !.message = NoMessage]
<1>1. /\ pc[p] = "joined"
      /\ access' = Added(access, m.from, m.flagsAfterPropagation)
      /\ frame' = [frame EXCEPT ![p].message = NoMessage]
      /\ pc' = [pc EXCEPT ![p] = "unregister"]
      /\ bottomMap' = bottomMap
  BY DEF Joined
<1>2. /\ TypesOK /\ SlotsOK /\ NoDuplicates /\ Endings /\ Holds(p)
  BY DEF IInv, Messaging
<1>3. m # NoMessage /\ frame[p].mailBox = <<>>
  BY <1>1, <1>2, MessageFlags DEF Holds
<1>4. /\ <<p, 0>> \in Slots /\ Msg(<<p, 0>>) = m
      /\ m.from \in Access /\ m.flagsAfterPropagation \in SUBSET Flag
      /\ NEXTISPARENT \notin m.flagsAfterPropagation
      /\ \A b \in Access : F[b] \cap ({UNREGISTERED} \cup ChildDone(Kind) \cup Satisfied(Kind)) = {}
      /\ Adds(F)
      /\ \A s \in Slots : s # <<p, 0>> => Unaffected(Msg(s), Bears(s), F)
      /\ \A q \in Task : \A b \in Access :
           REDUCTION_COMBINED \in F[b] /\ pc[q] = "linked" /\ frame[q].own.combine => frame[q].addr # b
  BY <1>3, NoteMayBeTaken
<1>5. /\ Changes(access, access', F) /\ IsAccessMap(access') /\ Access' = Access
      /\ \A t \in Task : Declared(t)' = Declared(t)
  BY <1>1, <1>2, <1>4, GainedOne
<1>6. f \in FrameRecord /\ f.ip = frame[p].ip /\ f.todo = frame[p].todo /\ f.addr = frame[p].addr
      /\ f.message = NoMessage /\ f.mailBox = <<>>
  <2>1. frame[p] \in FrameRecord
    BY <1>2, FrameIs
  <2>2. QED
    BY <1>3, <2>1, NothingTyped DEF FrameRecord
<1>7. frame' = [frame EXCEPT ![p] = f]
  BY <1>1, <1>2 DEF TypesOK
<1> HIDE DEF f, m
<1>8. /\ TypesOK' /\ pc'[p] = "unregister" /\ frame'[p] = f
      /\ \A q \in Task \ {p} : pc'[q] = pc[q] /\ frame'[q] = frame[q]
  <2>1. GoesTo(p, "unregister", f)
    BY <1>1, <1>6, <1>7 DEF GoesTo, Place
  <2>2. bottomMap' \in BottomMaps
    BY <1>1, <1>2, FrameIs
  <2>3. QED
    BY <1>2, <1>5, <2>1, <2>2, ThreadTypes
<1>9. Finished(p)' <=> Finished(p)
  BY <1>1, <1>6, <1>8, SameProgram DEF Finished
<1>10. Advances(p)
  <2>1. frame[p].ip <= frame'[p].ip
    BY <1>2, <1>6, <1>8 DEF TypesOK
  <2>2. QED
    BY <1>1, <1>8, <1>9, <2>1 DEF Advances, Creating
<1>11. StaysInPlace(p)
  BY <1>1, <1>6, <1>8 DEF StaysInPlace, Creating, Joining
<1>12. Ends(p, F)
  <2>1. pc'[p] \in Joining /\ pc'[p] \notin {"propagate", "delivered", "finalize"}
    BY <1>8 DEF Joining
  <2>2. QED
    BY <1>4, <2>1 DEF Ends
<1>13. SlotsOK' /\ NoDuplicates' /\ Combinations(F)
  <2>1. \A q \in Task : /\ frame'[q].mailBox = frame[q].mailBox
                        /\ pc'[q] \in {"give", "joinGive"} => pc[q] \in {"give", "joinGive"}
                        /\ q # p => frame'[q].message = frame[q].message
    BY <1>3, <1>6, <1>8
  <2>2. frame'[p].message = NoMessage
    BY <1>6, <1>8
  <2>3. QED
    BY <1>2, <1>4, <1>5, <1>8, <2>1, <2>2, MessagesKept
<1>14. Holds(p)' /\ CombinesOwn(p)'
  BY <1>6, <1>8 DEF Holds, CombinesOwn
<1>15. \A b \in AccessId : LastBelow(b)' = LastBelow(b)
  BY <1>1 DEF LastBelow
<1>16. QED
  BY <1>4, <1>5, <1>8, <1>10, <1>11, <1>12, <1>13, <1>14, <1>15, AddingStep

(* An access whose end was not reached does not reach it by other flags.   *)
LEMMA UnfinishedKept ==
  ASSUME IInv, NEW p \in Task, NEW F, Changes(access, access', F),
         \A b \in Access : UNREGISTERED \notin F[b],
         Finished(p), pc[p] \in {"propagate", "delivered"},
         NEW x \in frame[p].todo
  PROVE  x \in Declared(p) /\ UNREGISTERED \notin At(access', <<p, x>>).flags
<1>1. TypesOK /\ Endings
  BY DEF IInv
<1>2. x \in Declared(p) /\ UNREGISTERED \notin access[p][x].flags
  BY <1>1 DEF Endings
<1>3. <<p, x>> \in Access
  BY <1>1, <1>2 DEF Access, Of, AccessId, Declared, TypesOK, IsAccessMap
<1>4. At(access, <<p, x>>) = access[p][x]
  BY DEF At
<1>5. At(access', <<p, x>>).flags = At(access, <<p, x>>).flags \cup F[<<p, x>>]
  BY <1>3 DEF Changes, Access
<1>6. QED
  BY <1>2, <1>3, <1>4, <1>5

(* The sender notes that its message was delivered.                        *)
LEMMA AfterDeliveryKeeps ==
  ASSUME IInv, NEW p \in Task, AfterDelivery(p), program' = program
  PROVE  IInv'
<1> DEFINE m == frame[p].message
           F == Gains(m.from, m.flagsAfterPropagation)
           info == IF m.combine THEN Acc(m.from).reductionInfo ELSE frame[p].reductionInfo
           f == [frame[p] EXCEPT !.message = NoMessage, !.reductionInfo = info]
<1>1. /\ pc[p] = "delivered"
      /\ access' = Added(access, m.from, m.flagsAfterPropagation)
      /\ frame' = [frame EXCEPT ![p].message = NoMessage,
                      ![p].reductionInfo = IF m.combine THEN Acc(m.from).reductionInfo ELSE @]
      /\ pc' = [pc EXCEPT ![p] = "propagate"]
      /\ bottomMap' = bottomMap
  BY DEF AfterDelivery
<1>2. /\ TypesOK /\ SlotsOK /\ NoDuplicates /\ Endings /\ Holds(p)
  BY DEF IInv, Messaging
<1>3. m # NoMessage
  BY <1>1, <1>2, MessageFlags DEF Holds
<1>4. /\ <<p, 0>> \in Slots /\ Msg(<<p, 0>>) = m
      /\ m.from \in Access /\ m.flagsAfterPropagation \in SUBSET Flag
      /\ NEXTISPARENT \notin m.flagsAfterPropagation
      /\ \A b \in Access : F[b] \cap ({UNREGISTERED} \cup ChildDone(Kind) \cup Satisfied(Kind)) = {}
      /\ Adds(F)
      /\ \A s \in Slots : s # <<p, 0>> => Unaffected(Msg(s), Bears(s), F)
      /\ \A q \in Task : \A b \in Access :
           REDUCTION_COMBINED \in F[b] /\ pc[q] = "linked" /\ frame[q].own.combine => frame[q].addr # b
  BY <1>3, NoteMayBeTaken
<1>5. /\ Changes(access, access', F) /\ IsAccessMap(access') /\ Access' = Access
      /\ \A t \in Task : Declared(t)' = Declared(t)
  BY <1>1, <1>2, <1>4, GainedOne
<1>6. f \in FrameRecord /\ f.ip = frame[p].ip /\ f.todo = frame[p].todo /\ f.addr = frame[p].addr
      /\ f.message = NoMessage /\ f.mailBox = frame[p].mailBox
  <2>1. frame[p] \in FrameRecord
    BY <1>2, FrameIs
  <2>2. info \in AccessId \cup {NoReduction}
    <3>1. At(access, m.from) \in AccessRecord
      BY <1>2, <1>4 DEF TypesOK, IsAccessMap, At, Access, Of
    <3>2. Acc(m.from).reductionInfo \in AccessId \cup {NoReduction}
      BY <3>1 DEF Acc, At, AccessRecord
    <3>3. QED
      BY <2>1, <3>2 DEF FrameRecord
  <2> HIDE DEF info
  <2>3. QED
    BY <2>1, <2>2, NothingTyped DEF FrameRecord
<1>7. frame' = [frame EXCEPT ![p] = f]
  BY <1>1, <1>2 DEF TypesOK
<1> HIDE DEF f, m
<1>8. /\ TypesOK' /\ pc'[p] = "propagate" /\ frame'[p] = f
      /\ \A q \in Task \ {p} : pc'[q] = pc[q] /\ frame'[q] = frame[q]
  <2>1. GoesTo(p, "propagate", f)
    BY <1>1, <1>6, <1>7 DEF GoesTo, Place
  <2>2. bottomMap' \in BottomMaps
    BY <1>1, <1>2, FrameIs
  <2>3. QED
    BY <1>2, <1>5, <2>1, <2>2, ThreadTypes
<1>9. Finished(p)' <=> Finished(p)
  BY <1>1, <1>6, <1>8, SameProgram DEF Finished
<1>10. Advances(p)
  <2>1. frame[p].ip <= frame'[p].ip
    BY <1>2, <1>6, <1>8 DEF TypesOK
  <2>2. QED
    BY <1>1, <1>8, <1>9, <2>1 DEF Advances, Creating
<1>11. StaysInPlace(p)
  BY <1>1, <1>6, <1>8 DEF StaysInPlace, Creating, Joining
<1>12. Ends(p, F)
  <2>1. Finished(p)' => \A x \in frame'[p].todo : x \in Declared(p) /\ UNREGISTERED \notin At(access', <<p, x>>).flags
    BY <1>1, <1>4, <1>5, <1>6, <1>8, <1>9, UnfinishedKept
  <2>2. QED
    BY <1>1, <1>4, <2>1 DEF Ends, Joining
<1>13. SlotsOK' /\ NoDuplicates' /\ Combinations(F)
  <2>1. \A q \in Task : /\ frame'[q].mailBox = frame[q].mailBox
                        /\ pc'[q] \in {"give", "joinGive"} => pc[q] \in {"give", "joinGive"}
                        /\ q # p => frame'[q].message = frame[q].message
    BY <1>3, <1>6, <1>8
  <2>2. frame'[p].message = NoMessage
    BY <1>6, <1>8
  <2>3. QED
    BY <1>2, <1>4, <1>5, <1>8, <2>1, <2>2, MessagesKept
<1>14. Holds(p)' /\ CombinesOwn(p)'
  <2>1. \A i \in DOMAIN frame'[p].mailBox : Sent(access', frame'[p].mailBox[i])
    <3> TAKE i \in DOMAIN frame'[p].mailBox
    <3>1. frame'[p].mailBox \in Seq(Message) /\ frame'[p].mailBox = frame[p].mailBox
      BY <1>6, <1>8 DEF FrameRecord
    <3>2. i \in 1..Len(frame'[p].mailBox)
      BY <3>1
    <3>3. <<p, i>> \in Slots' /\ Msg(<<p, i>>)' = frame'[p].mailBox[i]
      BY <3>2 DEF Slots, Msg
    <3>4. frame'[p].mailBox[i] # NoMessage
      BY <1>2, <3>1, MessageFlags DEF Holds
    <3>5. QED
      BY <1>13, <3>3, <3>4 DEF SlotsOK
  <2>2. QED
    BY <1>6, <1>8, <2>1 DEF Holds, CombinesOwn
<1>15. \A b \in AccessId : LastBelow(b)' = LastBelow(b)
  BY <1>1 DEF LastBelow
<1>16. QED
  BY <1>4, <1>5, <1>8, <1>10, <1>11, <1>12, <1>13, <1>14, <1>15, AddingStep

(* The last child access learns that no other one will come.               *)
LEMMA FinalizeChildAccessKeeps ==
  ASSUME IInv, NEW p \in Task, NEW x \in Address, FinalizeChildAccess(p, x), program' = program
  PROVE  IInv'
<1> DEFINE last == bottomMap[p][x].access
           F == Gains(last, {PARENT_DONE})
           f == [frame[p] EXCEPT !.todo = @ \ {x}]
<1>1. /\ pc[p] = "children" /\ x \in frame[p].todo
      /\ access' = Added(access, last, {PARENT_DONE})
      /\ frame' = [frame EXCEPT ![p].todo = @ \ {x}]
      /\ pc' = pc
      /\ bottomMap' = WithoutReductions(p, {x})
  BY DEF FinalizeChildAccess
<1>2. /\ TypesOK /\ SlotsOK /\ NoDuplicates /\ Endings /\ Holds(p) /\ Links
  BY DEF IInv, Links, Messaging
<1>3. last \in Access /\ Inserted(last)
  <2>1. <<p, x>> \in AccessId /\ LastBelow(<<p, x>>) = last
    BY DEF AccessId, LastBelow
  <2>2. last # NoAccess
    BY <1>1, <1>2, <2>1 DEF Endings
  <2>3. QED
    BY <1>2, <2>1, <2>2 DEF Links, BottomLinks
<1> HIDE DEF last
<1>4. {PARENT_DONE} \in SUBSET Flag /\ NEXTISPARENT \notin {PARENT_DONE}
  BY DEF Flag, PARENT_DONE, NEXTISPARENT
<1>5. /\ Changes(access, access', F) /\ IsAccessMap(access') /\ Access' = Access
      /\ \A t \in Task : Declared(t)' = Declared(t)
  BY <1>1, <1>2, <1>3, <1>4, GainedOne
<1>6. f \in FrameRecord /\ f.ip = frame[p].ip /\ f.todo = frame[p].todo \ {x} /\ f.message = NoMessage
      /\ f.mailBox = <<>>
  <2>1. frame[p] \in FrameRecord
    BY <1>2, FrameIs
  <2>2. frame[p].message = NoMessage /\ frame[p].mailBox = <<>>
    BY <1>1, EmptyHands
  <2>3. QED
    BY <2>1, <2>2 DEF FrameRecord
<1>7. frame' = [frame EXCEPT ![p] = f] /\ pc' = [pc EXCEPT ![p] = "children"]
  BY <1>1, <1>2 DEF TypesOK
<1> HIDE DEF f
<1>8. /\ TypesOK' /\ pc'[p] = "children" /\ frame'[p] = f
      /\ \A q \in Task \ {p} : pc'[q] = pc[q] /\ frame'[q] = frame[q]
      /\ \A b \in AccessId : LastBelow(b)' = LastBelow(b)
  <2>1. GoesTo(p, "children", f)
    BY <1>6, <1>7 DEF GoesTo, Place
  <2>2. bottomMap' \in BottomMaps /\ \A b \in AccessId : LastBelow(b)' = LastBelow(b)
    BY <1>1, <1>2, WithoutReductionsKeeps
  <2>3. QED
    BY <1>2, <1>5, <2>1, <2>2, ThreadTypes
<1>9. \A b \in Access : F[b] \subseteq {PARENT_DONE} /\ (F[b] # {} => b = last)
  BY DEF Gains
<1>10. \A b \in Access : F[b] \cap (Note \cup Satisfied(Kind) \cup ChildDone(Kind)
                          \cup {UNREGISTERED, HASNEXT, HASCHILD, NEXTISPARENT}) = {}
  <2>1. PARENT_DONE \notin Note \cup Satisfied(Kind) \cup ChildDone(Kind)
          \cup {UNREGISTERED, HASNEXT, HASCHILD, NEXTISPARENT}
    BY FlagsDiffer DEF PARENT_DONE, UNREGISTERED, HASNEXT, HASCHILD, NEXTISPARENT
  <2>2. QED
    BY <1>9, <2>1
<1>11. Adds(F)
  <2> SUFFICES ASSUME NEW b \in Access PROVE Supported(b, F[b])
    BY <1>3, <1>9, <1>10 DEF Adds
  <2>1. \A k \in Kind : <<"SATISFIED", k>> \in Satisfied(Kind) /\ <<"CHILD_DONE", k>> \in ChildDone(Kind)
    BY DEF Satisfied, ChildDone
  <2>2. \A k \in Kind : <<"SATISFIED", k>> \notin F[b] /\ <<"CHILD_DONE", k>> \notin F[b]
    BY <1>10, <2>1
  <2>3. QED
    BY <2>2 DEF Supported
<1>12. Advances(p)
  <2>1. frame[p].ip <= frame'[p].ip
    BY <1>2, <1>6, <1>8 DEF TypesOK
  <2>2. Finished(p)'
    BY <1>8 DEF Finished
  <2>3. QED
    BY <1>1, <1>8, <2>1, <2>2 DEF Advances, Creating
<1>13. StaysInPlace(p)
  BY <1>1, <1>6, <1>8 DEF StaysInPlace, Creating, Joining
<1>14. Ends(p, F)
  BY <1>1, <1>8, <1>10 DEF Ends, Joining
<1>15. SlotsOK' /\ NoDuplicates' /\ Combinations(F)
  <2>1. \A q \in Task : /\ frame'[q].mailBox = frame[q].mailBox
                        /\ pc'[q] \in {"give", "joinGive"} => pc[q] \in {"give", "joinGive"}
                        /\ q # p => frame'[q].message = frame[q].message
    <3>1. frame[p].mailBox = <<>>
      BY <1>1, EmptyHands
    <3>2. QED
      BY <1>6, <1>8, <3>1
  <2>2. frame'[p].message = NoMessage
    BY <1>6, <1>8
  <2>3. \A s \in Slots : Unaffected(Msg(s), Bears(s), F)
    <3> SUFFICES ASSUME NEW s \in Slots, Msg(s) # NoMessage
                 PROVE  /\ Msg(s).flagsAfterPropagation \cap F[Msg(s).from] = {}
                        /\ Bears(s) /\ Msg(s).to \in Access => Msg(s).flagsForNext \cap F[Msg(s).to] = {}
      BY DEF Unaffected
    <3>1. Sent(access, Msg(s)) /\ Msg(s).from \in Access /\ Msg(s).flagsAfterPropagation \subseteq Note
      BY <1>2, MessageFlags DEF SlotsOK, Sent, Access
    <3>2. Bears(s) => Msg(s).flagsForNext \subseteq Satisfied(Kind) \cup ChildDone(Kind)
      BY <1>2, MessageFlags DEF SlotsOK
    <3>3. QED
      BY <1>10, <3>1, <3>2
  <2>4. QED
    BY <1>2, <1>5, <1>8, <2>1, <2>2, <2>3, MessagesKept
<1>16. Holds(p)' /\ CombinesOwn(p)'
  BY <1>6, <1>8 DEF Holds, CombinesOwn
<1>17. \A b \in Access : REDUCTION_COMBINED \notin F[b]
  BY <1>10 DEF Note
<1>18. QED
  BY <1>5, <1>8, <1>11, <1>12, <1>13, <1>14, <1>15, <1>16, <1>17, AddingStep

(* What a message brings may be added where it leads to.                   *)
LEMMA DeliveryMayBeMade ==
  ASSUME IInv, NEW r \in Slots, Msg(r) # NoMessage, Bears(r), Msg(r).flagsForNext # {}
  PROVE  LET m == Msg(r)
             F == Gains(m.to, m.flagsForNext)
         IN  /\ m.to \in Access /\ m.flagsForNext \in SUBSET Flag
             /\ m.flagsForNext \cap At(access, m.to).flags = {}
             /\ NEXTISPARENT \notin m.flagsForNext
             /\ Adds(F)
             /\ \A s \in Slots : Unaffected(Msg(s), Bears(s) /\ s # r, F)
             /\ \A b \in Access : /\ F[b] \cap (Note \cup {UNREGISTERED, HASNEXT, HASCHILD, NEXTISPARENT}) = {}
                                  /\ F[b] \cap ChildDone(Kind) # {} =>
                                       /\ At(access, b).child # NoAccess
                                       /\ \A c \in Access : LastBelow(b) = c => NEXTISPARENT \in At(access, c).flags
<1> DEFINE m == Msg(r)
           F == Gains(m.to, m.flagsForNext)
<1>1. TypesOK /\ Links /\ SlotsOK /\ NoDuplicates /\ Causes
  BY DEF IInv, Links, Messaging
<1>2. /\ m.to \in Access /\ m.flagsForNext \in SUBSET Flag
      /\ m.flagsForNext \subseteq Satisfied(Kind) \cup ChildDone(Kind)
      /\ m.flagsForNext \cap (Note \cup {HASNEXT, HASCHILD, NEXTISPARENT, UNREGISTERED}) = {}
      /\ m.flagsForNext \cap At(access, m.to).flags = {}
      /\ \A s \in Slots : Unaffected(Msg(s), Bears(s) /\ s # r, F)
  BY <1>1, DeliveryDisturbsNothing
<1>3. Sent(access, m) /\ Carried(access, m) /\ Inserted(m.to) /\ m.from \in Access
  BY <1>1, LinkedIsInserted DEF SlotsOK, Sent, Access
<1>4. Supported(m.to, m.flagsForNext)
  BY <1>1, <1>3, DeliveryCauses DEF Supported
<1>5. m.flagsForNext \cap ChildDone(Kind) # {} =>
        /\ At(access, m.to).child # NoAccess
        /\ \A c \in Access : LastBelow(m.to) = c => NEXTISPARENT \in At(access, c).flags
  <2> SUFFICES ASSUME NEW k \in Kind, <<"CHILD_DONE", k>> \in m.flagsForNext
               PROVE  /\ At(access, m.to).child # NoAccess
                      /\ \A c \in Access : LastBelow(m.to) = c => NEXTISPARENT \in At(access, c).flags
    BY DEF ChildDone
  <2>1. At(access, m.from).successor = m.to /\ NEXTISPARENT \in At(access, m.from).flags
    BY <1>3, FlagBrought DEF BringsUp
  <2>2. Above(m.from) = m.to
    BY <1>1, <1>2, <1>3, <2>1 DEF Links, SuccessorLinks
  <2>3. LastBelow(m.to) = m.from
    BY <1>1, <1>2, <1>3, <2>1, <2>2 DEF Links, BottomLinks, Access, Of
  <2>4. m.from # NoAccess
    BY <1>3, NoAccessIsNone DEF Access
  <2>5. At(access, m.to).child # NoAccess
    BY <1>1, <1>2, <2>3, <2>4 DEF Links, BottomLinks, Access, Of
  <2>6. QED
    BY <2>1, <2>3, <2>5
<1> HIDE DEF m
<1>6. \A b \in Access : F[b] = IF b = m.to THEN m.flagsForNext ELSE {}
  BY DEF Gains
<1>7. \A b \in Access : F[b] \cap (Note \cup {UNREGISTERED, HASNEXT, HASCHILD, NEXTISPARENT}) = {}
  BY <1>2, <1>6
<1>8. Adds(F)
  <2> SUFFICES ASSUME NEW b \in Access
               PROVE  /\ F[b] \cap {HASNEXT, HASCHILD, NEXTISPARENT} = {}
                      /\ F[b] # {} => Inserted(b)
                      /\ \A f \in F[b] \cap Note : Justified(At(access, b).type, At(access, b).flags, f)
                      /\ Supported(b, F[b])
    BY DEF Adds
  <2>1. Supported(b, {})
    BY DEF Supported
  <2>2. Supported(b, F[b])
    BY <1>4, <1>6, <2>1
  <2>3. QED
    BY <1>3, <1>6, <1>7, <2>2
<1>9. \A b \in Access : F[b] \cap ChildDone(Kind) # {} =>
        /\ At(access, b).child # NoAccess
        /\ \A c \in Access : LastBelow(b) = c => NEXTISPARENT \in At(access, c).flags
  BY <1>5, <1>6
<1>10. NEXTISPARENT \notin m.flagsForNext
  BY <1>2
<1>11. QED
  BY <1>2, <1>7, <1>8, <1>9, <1>10 DEF m

(* The access gets what its last subaccess passes on when it is chained to *)
(* it.                                                                     *)
LEMMA JoinGiveKeeps ==
  ASSUME IInv, NEW p \in Task, JoinGive(p), program' = program
  PROVE  IInv'
<1> DEFINE m == frame[p].message
           F == Gains(m.to, m.flagsForNext)
<1>1. /\ pc[p] = "joinGive"
      /\ access' = Added(access, frame[p].addr, m.flagsForNext)
      /\ frame' = frame
      /\ pc' = [pc EXCEPT ![p] = "joined"]
      /\ bottomMap' = bottomMap
  BY DEF JoinGive
<1>2. /\ TypesOK /\ SlotsOK /\ NoDuplicates /\ Endings /\ Holds(p) /\ Links
  BY DEF IInv, Links, Messaging
<1>3. m # NoMessage /\ m.flagsForNext # {} /\ m.to = frame[p].addr
      /\ frame[p].mailBox = <<>> /\ Sent(access, m)
  BY <1>1, <1>2, MessageFlags DEF Holds
<1>4. <<p, 0>> \in Slots /\ Msg(<<p, 0>>) = m /\ Bears(<<p, 0>>)
  BY <1>1, <1>2, SlotZero DEF Bears
<1>5. /\ m.to \in Access /\ m.flagsForNext \in SUBSET Flag
      /\ NEXTISPARENT \notin m.flagsForNext
      /\ Adds(F)
      /\ \A s \in Slots : Unaffected(Msg(s), Bears(s) /\ s # <<p, 0>>, F)
      /\ \A b \in Access : /\ F[b] \cap (Note \cup {UNREGISTERED, HASNEXT, HASCHILD, NEXTISPARENT}) = {}
                           /\ F[b] \cap ChildDone(Kind) # {} =>
                                /\ At(access, b).child # NoAccess
                                /\ \A c \in Access : LastBelow(b) = c => NEXTISPARENT \in At(access, c).flags
  BY <1>3, <1>4, DeliveryMayBeMade
<1>6. /\ Changes(access, access', F) /\ IsAccessMap(access') /\ Access' = Access
      /\ \A t \in Task : Declared(t)' = Declared(t)
  BY <1>1, <1>2, <1>3, <1>5, GainedOne
<1> HIDE DEF m
<1>7. /\ TypesOK' /\ pc'[p] = "joined" /\ frame'[p] = frame[p]
      /\ \A q \in Task \ {p} : pc'[q] = pc[q] /\ frame'[q] = frame[q]
  <2>1. frame' = [frame EXCEPT ![p] = frame[p]] /\ frame[p] \in FrameRecord
    <3>1. frame' = [frame EXCEPT ![p] = frame[p]]
      BY <1>1, <1>2 DEF TypesOK
    <3>2. QED
      BY <1>2, <3>1, FrameIs
  <2>2. GoesTo(p, "joined", frame[p])
    BY <1>1, <2>1 DEF GoesTo, Place
  <2>3. bottomMap' \in BottomMaps
    BY <1>1, <1>2, FrameIs
  <2>4. QED
    BY <1>2, <1>6, <2>2, <2>3, ThreadTypes
<1>8. Finished(p)' <=> Finished(p)
  BY <1>1, <1>7, SameProgram DEF Finished
<1>9. Advances(p)
  <2>1. frame[p].ip <= frame'[p].ip
    BY <1>2, <1>7 DEF TypesOK
  <2>2. QED
    BY <1>1, <1>7, <1>8, <2>1 DEF Advances, Creating
<1>10. StaysInPlace(p)
  BY <1>1, <1>7 DEF StaysInPlace, Creating, Joining
<1>11. Ends(p, F)
  <2>1. pc'[p] \in Joining /\ pc'[p] \notin {"propagate", "delivered", "finalize"}
    BY <1>7 DEF Joining
  <2>2. QED
    BY <1>5, <2>1 DEF Ends
<1>12. SlotsOK' /\ NoDuplicates' /\ Combinations(F)
  <2>1. \A q \in Task : /\ frame'[q].mailBox = frame[q].mailBox
                        /\ pc'[q] \in {"give", "joinGive"} => pc[q] \in {"give", "joinGive"}
                        /\ q # p => frame'[q].message = frame[q].message
    BY <1>7
  <2>2. \A s \in Slots : s # <<p, 0>> => Unaffected(Msg(s), Bears(s), F)
    BY <1>5 DEF Unaffected
  <2>3. Unaffected(frame[p].message, Bears(<<p, 0>>)', F)
    <3>1. ~Bears(<<p, 0>>)'
      BY <1>7 DEF Bears
    <3>2. Unaffected(Msg(<<p, 0>>), Bears(<<p, 0>>) /\ <<p, 0>> # <<p, 0>>, F)
      BY <1>4, <1>5
    <3>3. QED
      BY <1>4, <3>1, <3>2 DEF Unaffected, m
  <2>4. QED
    BY <1>2, <1>6, <1>7, <2>1, <2>2, <2>3, MessagesKept
<1>13. Holds(p)' /\ CombinesOwn(p)'
  <2>1. Sent(access', m)
    <3>1. <<p, 0>> \in Slots' /\ Msg(<<p, 0>>)' = frame'[p].message
      BY <1>7 DEF Slots, Msg, TypesOK
    <3>2. QED
      BY <1>3, <1>7, <1>12, <3>1 DEF SlotsOK, m
  <2>2. QED
    BY <1>3, <1>7, <2>1 DEF Holds, CombinesOwn, m
<1>14. \A b \in AccessId : LastBelow(b)' = LastBelow(b)
  BY <1>1 DEF LastBelow
<1>15. \A b \in Access : REDUCTION_COMBINED \notin F[b]
  BY <1>5 DEF Note
<1>16. QED
  BY <1>5, <1>6, <1>7, <1>9, <1>10, <1>11, <1>12, <1>13, <1>14, <1>15, AddingStep

(* applySingle takes the first of the answers, if there is one.            *)
LEMMA SingleIs ==
  ASSUME NEW A, IsAccessMap(A), NEW a \in Of(A), NEW X \in SUBSET Flag
  PROVE  LET M == Messages(a, At(A, a), X, At(A, a).successor, At(A, a).child)
         IN  /\ M \in Seq(Message) /\ Answer(A, a, X) = M
             /\ Single(A, a, X) \in Message
             /\ \/ Single(A, a, X) = NoMessage
                \/ X # {} /\ M # <<>> /\ 1 \in DOMAIN M /\ Single(A, a, X) = M[1]
<1> DEFINE M == Messages(a, At(A, a), X, At(A, a).successor, At(A, a).child)
<1>1. At(A, a) \in AccessRecord /\ a \in AccessId
  BY DEF Of, At, IsAccessMap
<1>2. At(A, a).successor \in AccessId \cup {NoAccess} /\ At(A, a).child \in AccessId \cup {NoAccess}
  BY <1>1 DEF AccessRecord
<1>3. M \in Seq(Message)
  BY <1>1, <1>2, AnswersTyped
<1>4. Answer(A, a, X) = M
  BY DEF Answer, At
<1> HIDE DEF M
<1>5. M # <<>> => 1 \in DOMAIN M /\ Head(M) = M[1] /\ M[1] \in Message
  BY <1>3
<1>6. Single(A, a, X) = IF X = {} \/ M = <<>> THEN NoMessage ELSE Head(M)
  BY <1>4 DEF Single
<1>7. QED
  BY <1>3, <1>4, <1>5, <1>6, NothingTyped DEF M

(* The new access gets what the access before it passes on.                *)
LEMMA GiveToNewKeeps ==
  ASSUME IInv, NEW p \in Task, GiveToNew(p), program' = program
  PROVE  IInv'
<1> DEFINE m == frame[p].message
           F == Gains(m.to, m.flagsForNext)
           own == Single(access, frame[p].addr, m.flagsForNext)
           f == [frame[p] EXCEPT !.own = own]
<1>1. /\ pc[p] = "give"
      /\ access' = Added(access, frame[p].addr, m.flagsForNext)
      /\ frame' = [frame EXCEPT ![p].own = own]
      /\ pc' = [pc EXCEPT ![p] = "linked"]
      /\ bottomMap' = bottomMap
  BY DEF GiveToNew
<1>2. /\ TypesOK /\ Control /\ SlotsOK /\ NoDuplicates /\ Endings /\ Holds(p) /\ Links /\ Causes
  BY DEF IInv, Links, Messaging
<1>3. m # NoMessage /\ m.flagsForNext # {} /\ m.to = frame[p].addr
      /\ frame[p].mailBox = <<>> /\ Sent(access, m)
  BY <1>1, <1>2, MessageFlags DEF Holds
<1>4. <<p, 0>> \in Slots /\ Msg(<<p, 0>>) = m /\ Bears(<<p, 0>>)
  BY <1>1, <1>2, SlotZero DEF Bears
<1>5. /\ m.to \in Access /\ m.flagsForNext \in SUBSET Flag
      /\ m.flagsForNext \cap At(access, m.to).flags = {}
      /\ NEXTISPARENT \notin m.flagsForNext
      /\ Adds(F)
      /\ \A s \in Slots : Unaffected(Msg(s), Bears(s) /\ s # <<p, 0>>, F)
      /\ \A b \in Access : /\ F[b] \cap (Note \cup {UNREGISTERED, HASNEXT, HASCHILD, NEXTISPARENT}) = {}
                           /\ F[b] \cap ChildDone(Kind) # {} =>
                                /\ At(access, b).child # NoAccess
                                /\ \A c \in Access : LastBelow(b) = c => NEXTISPARENT \in At(access, c).flags
  BY <1>3, <1>4, DeliveryMayBeMade
<1>6. /\ Changes(access, access', F) /\ IsAccessMap(access') /\ Access' = Access
      /\ \A t \in Task : Declared(t)' = Declared(t)
  BY <1>1, <1>2, <1>3, <1>5, GainedOne
<1>7. /\ own \in Message
      /\ own.combine => /\ own.flagsAfterPropagation = {REDUCTION_COMBINED}
                        /\ <<"SATISFIED", "WRITE">> \in m.flagsForNext
  <2> DEFINE a == m.to
             M == Messages(a, At(access, a), m.flagsForNext, At(access, a).successor, At(access, a).child)
  <2>1. IsAccessMap(access) /\ a \in Of(access)
    BY <1>2, <1>5 DEF TypesOK, Access
  <2>2. own \in Message /\ (own = NoMessage \/ (1 \in DOMAIN M /\ own = M[1]))
    BY <1>3, <1>5, <2>1, SingleIs
  <2>3. HASNEXT \notin At(access, a).flags \cup m.flagsForNext /\ HASCHILD \notin At(access, a).flags \cup m.flagsForNext
    <3>1. PICK b \in Access : LinksAt(p, b)
      BY <1>1, <1>2 DEF Control
    <3>2. At(access, a).successor = NoAccess /\ At(access, a).child = NoAccess
      BY <1>3, <3>1 DEF LinksAt
    <3>3. HASNEXT \notin At(access, a).flags /\ HASCHILD \notin At(access, a).flags
      BY <1>2, <1>5, <3>2 DEF Links, LinkFlags
    <3>4. HASNEXT \notin m.flagsForNext /\ HASCHILD \notin m.flagsForNext
      <4>1. F[a] = m.flagsForNext
        BY <1>5 DEF Gains
      <4>2. QED
        BY <1>5, <4>1
    <3>5. QED
      BY <3>3, <3>4
  <2> HIDE DEF own
  <2>4. ASSUME own.combine
        PROVE  /\ own.flagsAfterPropagation = {REDUCTION_COMBINED}
               /\ <<"SATISFIED", "WRITE">> \in m.flagsForNext
    <3>1. 1 \in DOMAIN M /\ own = M[1]
      BY <2>2, <2>4 DEF NoMessage
    <3>2. QED
      BY <2>3, <2>4, <3>1, AnswerOfUnlinked
  <2>5. QED
    BY <2>2, <2>4
<1> HIDE DEF own
<1>8. f \in FrameRecord /\ f.ip = frame[p].ip /\ f.todo = frame[p].todo /\ f.addr = frame[p].addr
      /\ f.message = frame[p].message /\ f.mailBox = frame[p].mailBox /\ f.own = own
  <2>1. frame[p] \in FrameRecord
    BY <1>2, FrameIs
  <2>2. QED
    BY <1>7, <2>1 DEF FrameRecord
<1> HIDE DEF m
<1>9. /\ TypesOK' /\ pc'[p] = "linked" /\ frame'[p] = f
      /\ \A q \in Task \ {p} : pc'[q] = pc[q] /\ frame'[q] = frame[q]
  <2>1. frame' = [frame EXCEPT ![p] = f]
    BY <1>1, <1>2 DEF TypesOK
  <2> HIDE DEF f
  <2>2. GoesTo(p, "linked", f)
    BY <1>1, <1>8, <2>1 DEF GoesTo, Place
  <2>3. bottomMap' \in BottomMaps
    BY <1>1, <1>2, FrameIs
  <2>4. QED
    BY <1>2, <1>6, <2>2, <2>3, ThreadTypes
<1> HIDE DEF f
<1>10. Advances(p)
  <2>1. frame[p].ip <= frame'[p].ip /\ frame'[p].ip = frame[p].ip /\ frame'[p].todo = frame[p].todo
    BY <1>2, <1>8, <1>9 DEF TypesOK
  <2>2. ~Finished(p)
    BY <1>1 DEF Finished
  <2>3. QED
    BY <1>1, <1>9, <2>1, <2>2 DEF Advances, Creating
<1>11. StaysInPlace(p)
  BY <1>1, <1>8, <1>9 DEF StaysInPlace, Creating, Joining
<1>12. Ends(p, F)
  BY <1>1, <1>5, <1>9 DEF Ends, Joining
<1>13. SlotsOK' /\ NoDuplicates' /\ Combinations(F)
  <2>1. \A q \in Task : /\ frame'[q].mailBox = frame[q].mailBox
                        /\ pc'[q] \in {"give", "joinGive"} => pc[q] \in {"give", "joinGive"}
                        /\ q # p => frame'[q].message = frame[q].message
    BY <1>8, <1>9
  <2>2. \A s \in Slots : s # <<p, 0>> => Unaffected(Msg(s), Bears(s), F)
    BY <1>5 DEF Unaffected
  <2>3. Unaffected(frame[p].message, Bears(<<p, 0>>)', F)
    <3>1. ~Bears(<<p, 0>>)'
      BY <1>9 DEF Bears
    <3>2. Unaffected(Msg(<<p, 0>>), Bears(<<p, 0>>) /\ <<p, 0>> # <<p, 0>>, F)
      BY <1>4, <1>5
    <3>3. QED
      BY <1>4, <3>1, <3>2 DEF Unaffected, m
  <2>4. frame'[p].message = frame[p].message
    BY <1>8, <1>9
  <2>5. QED
    BY <1>2, <1>6, <1>9, <2>1, <2>2, <2>3, <2>4, MessagesKept
<1>14. Holds(p)'
  <2>1. Sent(access', m)
    <3>1. <<p, 0>> \in Slots' /\ Msg(<<p, 0>>)' = frame'[p].message
      BY <1>9, SlotZero DEF Slots, Msg, TypesOK
    <3>2. QED
      BY <1>3, <1>8, <1>9, <1>13, <3>1 DEF SlotsOK, m
  <2>2. QED
    BY <1>3, <1>8, <1>9, <2>1 DEF Holds, m
<1>15. CombinesOwn(p)'
  <2> SUFFICES ASSUME own.combine
               PROVE  /\ own.flagsAfterPropagation = {REDUCTION_COMBINED}
                      /\ \A new \in Access : m.to = new =>
                           /\ <<"SATISFIED", "WRITE">> \in At(access', new).flags
                           /\ REDUCTION_COMBINED \notin At(access', new).flags
                           /\ \A s \in Slots' : Msg(s)'.from = new =>
                                REDUCTION_COMBINED \notin Msg(s)'.flagsAfterPropagation
    <3>1. frame'[p].own = own /\ frame'[p].addr = m.to
      BY <1>3, <1>8, <1>9
    <3>2. QED
      BY <1>6, <3>1 DEF CombinesOwn
  <2>1. own.flagsAfterPropagation = {REDUCTION_COMBINED} /\ <<"SATISFIED", "WRITE">> \in m.flagsForNext
    BY <1>7 DEF m
  <2>2. At(access', m.to).flags = At(access, m.to).flags \cup m.flagsForNext
    BY <1>5, <1>6 DEF Changes, Gains, Access
  <2>3. <<"SATISFIED", "WRITE">> \notin At(access, m.to).flags
    BY <1>5, <2>1
  <2>4. ~Justified(At(access, m.to).type, At(access, m.to).flags, REDUCTION_COMBINED)
    BY <2>3 DEF Justified, REDUCTION_COMBINED
  <2>5. REDUCTION_COMBINED \notin At(access, m.to).flags /\ REDUCTION_COMBINED \notin m.flagsForNext
    <3>1. REDUCTION_COMBINED \in Note
      BY DEF Note
    <3>2. F[m.to] = m.flagsForNext
      BY <1>5 DEF Gains
    <3>3. QED
      BY <1>2, <1>5, <2>4, <3>1, <3>2 DEF Causes
  <2>6. ASSUME NEW s \in Slots', Msg(s)'.from = m.to
        PROVE  REDUCTION_COMBINED \notin Msg(s)'.flagsAfterPropagation
    <3>1. s \in Slots /\ Msg(s)' = Msg(s)
      <4>1. \A q \in Task : frame'[q].mailBox = frame[q].mailBox /\ frame'[q].message = frame[q].message
        BY <1>8, <1>9
      <4>2. s[1] \in Task /\ s[2] \in 0..Len(frame'[s[1]].mailBox) /\ s = <<s[1], s[2]>>
        BY <1>9 DEF Slots, TypesOK
      <4>3. QED
        BY <1>2, <4>1, <4>2, SlotsAre DEF Msg
    <3>2. Msg(s) = NoMessage \/ Sent(access, Msg(s))
      BY <1>2, <3>1 DEF SlotsOK
    <3>3. Msg(s) # NoMessage
      BY <1>5, <2>6, <3>1, NoAccessIsNone DEF NoMessage, Access
    <3>4. QED
      BY <2>4, <2>6, <3>1, <3>2, <3>3 DEF Sent
  <2>7. QED
    BY <2>1, <2>2, <2>5, <2>6
<1>16. \A b \in AccessId : LastBelow(b)' = LastBelow(b)
  BY <1>1 DEF LastBelow
<1>17. \A b \in Access : REDUCTION_COMBINED \notin F[b]
  BY <1>5 DEF Note
<1>18. QED
  BY <1>5, <1>6, <1>9, <1>10, <1>11, <1>12, <1>13, <1>14, <1>15, <1>16, <1>17, AddingStep

(* Changes that add the same flags are the same.                           *)
LEMMA SameChanges ==
  ASSUME NEW A, NEW B, NEW F, NEW G, Changes(A, B, G), F \in [Of(A) -> SUBSET Flag],
         \A b \in Of(A) : F[b] = G[b]
  PROVE  Changes(A, B, F)
  BY DEF Changes

(* The rest of insertAccesses for one address: the notes of the previous   *)
(* access and of a combination.                                            *)
LEMMA LinkAccessKeeps ==
  ASSUME IInv, NEW p \in Task, LinkAccess(p), program' = program
  PROVE  IInv'
<1> DEFINE m   == frame[p].message
           own == frame[p].own
           new == frame[p].addr
           X   == IF own.combine THEN {REDUCTION_COMBINED} ELSE {}
           Fm  == Gains(m.from, m.flagsAfterPropagation)
           F   == [c \in Access |-> Fm[c] \cup Gains(new, X)[c]]
           A1  == IF m.from = NoAccess THEN access ELSE Added(access, m.from, m.flagsAfterPropagation)
           f   == [NoFrame EXCEPT !.ip = frame[p].ip, !.todo = frame[p].todo]
<1>1. /\ pc[p] = "linked"
      /\ access' = IF own.combine THEN Added(A1, new, own.flagsAfterPropagation) ELSE A1
      /\ frame' = [frame EXCEPT ![p] = f]
      /\ pc' = [pc EXCEPT ![p] = "insert"]
      /\ bottomMap' = bottomMap
  BY DEF LinkAccess
<1>2. /\ TypesOK /\ Control /\ SlotsOK /\ NoDuplicates /\ Endings /\ Holds(p) /\ CombinesOwn(p) /\ Links
  BY DEF IInv, Links, Messaging
<1>3. /\ new \in Access /\ Inserted(new) /\ new[1] \in Task /\ Parent[new[1]] = p
  BY <1>1, <1>2, Links1
<1>4. <<p, 0>> \in Slots /\ Msg(<<p, 0>>) = m
  BY <1>2, SlotZero
<1>5. own.combine =>
        /\ own.flagsAfterPropagation = {REDUCTION_COMBINED}
        /\ <<"SATISFIED", "WRITE">> \in At(access, new).flags
        /\ REDUCTION_COMBINED \notin At(access, new).flags
        /\ \A s \in Slots : Msg(s).from = new => REDUCTION_COMBINED \notin Msg(s).flagsAfterPropagation
  BY <1>1, <1>2, <1>3 DEF CombinesOwn
<1>6. X \in SUBSET Flag /\ NEXTISPARENT \notin X /\ X \subseteq {REDUCTION_COMBINED} /\ (X # {} <=> own.combine)
  BY DEF Flag, NEXTISPARENT, REDUCTION_COMBINED
<1>7. m.from = NoAccess <=> m = NoMessage
  <2>1. m # NoMessage => m.from \in Access
    BY <1>2, <1>4 DEF SlotsOK, Sent, Access
  <2>2. QED
    BY <2>1, NoAccessIsNone DEF NoMessage, Access
<1>8. /\ m # NoMessage => m.from \in Access
      /\ m.flagsAfterPropagation \in SUBSET Flag /\ m.flagsAfterPropagation \subseteq Note
      /\ NEXTISPARENT \notin m.flagsAfterPropagation
      /\ \A b \in Access : Fm[b] \cap ({UNREGISTERED} \cup ChildDone(Kind) \cup Satisfied(Kind)) = {}
      /\ Adds(Fm)
      /\ \A s \in Slots : s # <<p, 0>> => Unaffected(Msg(s), Bears(s), Fm)
      /\ \A q \in Task : \A b \in Access :
           REDUCTION_COMBINED \in Fm[b] /\ pc[q] = "linked" /\ frame[q].own.combine => frame[q].addr # b
  <2>1. CASE m # NoMessage
    BY <2>1, NoteMayBeTaken
  <2>2. CASE m = NoMessage
    <3>1. m.flagsAfterPropagation = {}
      BY <2>2 DEF NoMessage
    <3>2. \A b \in Access : Fm[b] = {}
      BY <3>1 DEF Gains
    <3>3. Adds(Fm)
      BY <3>2 DEF Adds, Supported
    <3>4. \A s \in Slots : Msg(s) # NoMessage => Msg(s).from \in Access
      BY <1>2 DEF SlotsOK, Sent, Access
    <3>5. \A s \in Slots : Unaffected(Msg(s), Bears(s), Fm)
      BY <3>2, <3>4 DEF Unaffected
    <3>6. QED
      BY <2>2, <3>1, <3>2, <3>3, <3>5
  <2>3. QED
    BY <2>1, <2>2
<1>9. \A b \in Access : /\ F[b] = Fm[b] \cup Gains(new, X)[b]
                        /\ Gains(new, X)[b] = IF b = new THEN X ELSE {}
                        /\ Fm[b] = IF b = m.from THEN m.flagsAfterPropagation ELSE {}
  BY DEF Gains
<1>10. F \in [Of(access) -> SUBSET Flag]
  <2>1. \A b \in Access : Fm[b] \cup Gains(new, X)[b] \in SUBSET Flag
    <3> TAKE b \in Access
    <3> HIDE DEF Fm, X, m, new
    <3>1. Gains(new, X)[b] \in {{}, X} /\ Fm[b] \in {{}, m.flagsAfterPropagation}
      BY <1>9
    <3>2. QED
      BY <1>6, <1>8, <3>1
  <2>2. QED
    BY <2>1 DEF Access
<1> HIDE DEF m, own, X, new
<1>11. /\ Changes(access, access', F) /\ IsAccessMap(access') /\ Access' = Access
       /\ \A t \in Task : Declared(t)' = Declared(t)
  <2>1. CASE m = NoMessage /\ ~own.combine
    <3>1. access' = access
      BY <1>1, <1>7, <2>1
    <3>2. Changes(access, access', Nothing) /\ Access' = Access
      BY <1>2, <3>1, SameAccesses
    <3>3. X = {} /\ m.flagsAfterPropagation = {}
      BY <1>6, <2>1 DEF NoMessage
    <3>4. \A b \in Access : F[b] = Nothing[b]
      BY <1>9, <3>3 DEF Nothing
    <3>5. Changes(access, access', F)
      BY <1>10, <3>2, <3>4, SameChanges DEF Access
    <3>6. QED
      BY <1>2, <3>1, <3>2, <3>5 DEF TypesOK, Declared
  <2>2. CASE m = NoMessage /\ own.combine
    <3>1. access' = Added(access, new, X)
      BY <1>1, <1>5, <1>6, <1>7, <2>2 DEF X
    <3>2. /\ Changes(access, access', Gains(new, X)) /\ IsAccessMap(access') /\ Access' = Access
          /\ \A t \in Task : Declared(t)' = Declared(t)
      BY <1>2, <1>3, <1>6, <3>1, GainedOne
    <3>3. m.flagsAfterPropagation = {}
      BY <2>2 DEF NoMessage
    <3>4. \A b \in Access : F[b] = Gains(new, X)[b]
      BY <1>9, <3>3
    <3>5. Changes(access, access', F)
      BY <1>10, <3>2, <3>4, SameChanges DEF Access
    <3>6. QED
      BY <3>2, <3>5
  <2>3. CASE m # NoMessage /\ ~own.combine
    <3>1. access' = Added(access, m.from, m.flagsAfterPropagation)
      BY <1>1, <1>7, <2>3
    <3>2. /\ Changes(access, access', Fm) /\ IsAccessMap(access') /\ Access' = Access
          /\ \A t \in Task : Declared(t)' = Declared(t)
      BY <1>2, <1>8, <2>3, <3>1, GainedOne
    <3>3. X = {}
      BY <1>6, <2>3
    <3>4. \A b \in Access : F[b] = Fm[b]
      BY <1>9, <3>3
    <3>5. Changes(access, access', F)
      BY <1>10, <3>2, <3>4, SameChanges DEF Access
    <3>6. QED
      BY <3>2, <3>5
  <2>4. CASE m # NoMessage /\ own.combine
    <3>1. access' = Added(Added(access, m.from, m.flagsAfterPropagation), new, X)
      BY <1>1, <1>5, <1>7, <2>4 DEF X
    <3>2. /\ Changes(access, access', F) /\ IsAccessMap(access') /\ Access' = Access
          /\ \A t \in Task : Declared(t)' = Declared(t)
      BY <1>2, <1>3, <1>6, <1>8, <2>4, <3>1, GainedTwice
    <3>3. QED
      BY <3>2
  <2>5. QED
    BY <2>1, <2>2, <2>3, <2>4
<1>12. f \in FrameRecord /\ f.ip = frame[p].ip /\ f.todo = frame[p].todo
       /\ f.message = NoMessage /\ f.mailBox = <<>>
  <2>1. frame[p] \in FrameRecord /\ NoFrame \in FrameRecord
    BY <1>2, FrameIs, NothingTyped
  <2>2. NoFrame.message = NoMessage /\ NoFrame.mailBox = <<>>
    BY DEF NoFrame
  <2> HIDE DEF NoFrame
  <2>3. QED
    BY <2>1, <2>2 DEF FrameRecord
<1>13. /\ TypesOK' /\ pc'[p] = "insert" /\ frame'[p] = f
       /\ \A q \in Task \ {p} : pc'[q] = pc[q] /\ frame'[q] = frame[q]
  <2> HIDE DEF f
  <2>1. GoesTo(p, "insert", f)
    BY <1>1, <1>12 DEF GoesTo, Place
  <2>2. bottomMap' \in BottomMaps
    BY <1>1, <1>2, FrameIs
  <2>3. QED
    BY <1>2, <1>11, <2>1, <2>2, ThreadTypes
<1> HIDE DEF f
<1>14. Advances(p)
  <2>1. frame[p].ip <= frame'[p].ip /\ frame'[p].ip = frame[p].ip /\ frame'[p].todo = frame[p].todo
    BY <1>2, <1>12, <1>13 DEF TypesOK
  <2>2. ~Finished(p)
    BY <1>1 DEF Finished
  <2>3. QED
    BY <1>1, <1>13, <2>1, <2>2 DEF Advances, Creating
<1>15. StaysInPlace(p)
  BY <1>1, <1>12, <1>13 DEF StaysInPlace, Creating, Joining
<1>16. \A b \in Access : F[b] \cap ({UNREGISTERED} \cup ChildDone(Kind) \cup Satisfied(Kind)) = {}
  <2>1. REDUCTION_COMBINED \notin {UNREGISTERED} \cup ChildDone(Kind) \cup Satisfied(Kind)
    BY DEF REDUCTION_COMBINED, UNREGISTERED, ChildDone, Satisfied
  <2>2. QED
    BY <1>6, <1>8, <1>9, <2>1
<1>17. Ends(p, F)
  BY <1>1, <1>13, <1>16 DEF Ends, Joining
<1>18. Adds(F)
  <2> SUFFICES ASSUME NEW b \in Access
               PROVE  /\ F[b] \cap {HASNEXT, HASCHILD, NEXTISPARENT} = {}
                      /\ F[b] # {} => Inserted(b)
                      /\ \A g \in F[b] \cap Note : Justified(At(access, b).type, At(access, b).flags, g)
                      /\ Supported(b, F[b])
    BY DEF Adds
  <2>1. /\ Fm[b] \cap {HASNEXT, HASCHILD, NEXTISPARENT} = {}
        /\ Fm[b] # {} => Inserted(b)
        /\ \A g \in Fm[b] \cap Note : Justified(At(access, b).type, At(access, b).flags, g)
    BY <1>8 DEF Adds
  <2>2. X \cap {HASNEXT, HASCHILD, NEXTISPARENT} = {}
    <3>1. REDUCTION_COMBINED \notin {HASNEXT, HASCHILD, NEXTISPARENT}
      BY DEF HASNEXT, HASCHILD, NEXTISPARENT, REDUCTION_COMBINED
    <3>2. QED
      BY <1>6, <3>1
  <2>3. F[b] = Fm[b] \/ (b = new /\ own.combine /\ F[b] = Fm[b] \cup {REDUCTION_COMBINED})
    BY <1>6, <1>9
  <2>4. b = new /\ own.combine => Justified(At(access, b).type, At(access, b).flags, REDUCTION_COMBINED)
    BY <1>5 DEF Justified
  <2>5. \A k \in Kind : <<"SATISFIED", k>> \in Satisfied(Kind) /\ <<"CHILD_DONE", k>> \in ChildDone(Kind)
    BY DEF Satisfied, ChildDone
  <2>6. \A k \in Kind : <<"SATISFIED", k>> \notin F[b] /\ <<"CHILD_DONE", k>> \notin F[b]
    BY <1>16, <2>5
  <2>7. Supported(b, F[b])
    BY <2>6 DEF Supported
  <2>8. F[b] \cap {HASNEXT, HASCHILD, NEXTISPARENT} = {}
    BY <1>9, <2>1, <2>2
  <2>9. F[b] # {} => Inserted(b)
    BY <1>3, <2>1, <2>3
  <2>10. \A g \in F[b] \cap Note : Justified(At(access, b).type, At(access, b).flags, g)
    BY <2>1, <2>3, <2>4
  <2>11. QED
    BY <2>7, <2>8, <2>9, <2>10
<1>19. SlotsOK' /\ NoDuplicates' /\ Combinations(F)
  <2>1. \A q \in Task : /\ frame'[q].mailBox = frame[q].mailBox
                        /\ pc'[q] \in {"give", "joinGive"} => pc[q] \in {"give", "joinGive"}
                        /\ q # p => frame'[q].message = frame[q].message
    <3>1. frame[p].mailBox = <<>>
      BY <1>1, <1>2 DEF Holds
    <3>2. QED
      BY <1>12, <1>13, <3>1
  <2>2. ASSUME NEW s \in Slots, s # <<p, 0>> PROVE Unaffected(Msg(s), Bears(s), F)
    <3> SUFFICES ASSUME Msg(s) # NoMessage
                 PROVE  /\ Msg(s).flagsAfterPropagation \cap F[Msg(s).from] = {}
                        /\ Bears(s) /\ Msg(s).to \in Access => Msg(s).flagsForNext \cap F[Msg(s).to] = {}
      BY DEF Unaffected
    <3>1. /\ Msg(s).flagsAfterPropagation \cap Fm[Msg(s).from] = {}
          /\ Bears(s) /\ Msg(s).to \in Access => Msg(s).flagsForNext \cap Fm[Msg(s).to] = {}
      BY <1>8, <2>2 DEF Unaffected
    <3>2. Msg(s).from \in Access /\ (Bears(s) => Msg(s).flagsForNext \cap Note = {})
      <4>1. Sent(access, Msg(s)) /\ (Bears(s) => Carried(access, Msg(s)))
        BY <1>2 DEF SlotsOK
      <4>2. QED
        BY <4>1, MessageFlags, FlagsDiffer DEF Sent, Access
    <3>3. Msg(s).flagsAfterPropagation \cap Gains(new, X)[Msg(s).from] = {}
      <4>1. CASE Msg(s).from = new /\ own.combine
        BY <1>5, <1>6, <1>9, <3>2, <4>1
      <4>2. CASE ~(Msg(s).from = new /\ own.combine)
        BY <1>6, <1>9, <3>2, <4>2
      <4>3. QED
        BY <4>1, <4>2
    <3>4. Bears(s) /\ Msg(s).to \in Access => Msg(s).flagsForNext \cap Gains(new, X)[Msg(s).to] = {}
      <4>1. X \subseteq Note
        BY <1>6 DEF Note
      <4>2. QED
        BY <1>9, <3>2, <4>1
    <3>5. QED
      BY <1>9, <3>1, <3>2, <3>3, <3>4
  <2>3. frame'[p].message = NoMessage
    BY <1>12, <1>13
  <2>4. QED
    BY <1>2, <1>11, <1>13, <2>1, <2>2, <2>3, MessagesKept
<1>20. Holds(p)' /\ CombinesOwn(p)'
  BY <1>12, <1>13 DEF Holds, CombinesOwn
<1>21. \A b \in AccessId : LastBelow(b)' = LastBelow(b)
  BY <1>1 DEF LastBelow
<1>22. ASSUME NEW q \in Task \ {p}, NEW b \in Access,
              REDUCTION_COMBINED \in F[b], pc[q] = "linked", frame[q].own.combine
       PROVE  frame[q].addr # b
  <2>1. CASE REDUCTION_COMBINED \in Fm[b]
    BY <1>8, <1>22, <2>1
  <2>2. CASE b = new
    <3>1. PICK a \in Access : frame[q].addr = a /\ Parent[a[1]] = q
      BY <1>2, <1>22, Links1
    <3>2. QED
      BY <1>3, <2>2, <3>1
  <2>3. QED
    BY <1>9, <1>22, <2>1, <2>2
<1>23. QED
  BY <1>11, <1>13, <1>14, <1>15, <1>17, <1>18, <1>19, <1>20, <1>21, <1>22, AddingStep

====
