------------------------ MODULE FlagAdditions_proofs ------------------------
(***************************************************************************)
(* The steps that send messages and link accesses keep the invariant of    *)
(* DataAccessRegistration_proofs too, so that it holds in every state.     *)
(* What follows from it: a fetch_add never adds a flag that is there       *)
(* (FlagsAreAddedOnce), with a second invariant, Heed, no access becomes   *)
(* disposable where nobody looks (NoDisposalIsMissed), and accesses are    *)
(* satisfied in the order of their links (AccessesAreSatisfiedInOrder).    *)
(***************************************************************************)
EXTENDS DataAccessRegistration_proofs

-----------------------------------------------------------------------------
(* A step that adds flags to one access, which answers.                    *)

(* An access is linked to other ones.                                      *)
LEMMA NoSelfLinks ==
  ASSUME TypesOK, Control, Links, NEW a \in Access
  PROVE  /\ At(access, a).child # a /\ At(access, a).successor # a
         /\ At(access, a).child # NoAccess => At(access, a).child \in Access
         /\ At(access, a).successor # NoAccess => At(access, a).successor \in Access
<1>1. ASSUME NEW c \in Access, Inserted(c) PROVE c[1] \in Task /\ (c[1] # Main => Parent[c[1]] # c[1])
  BY <1>1 DEF Inserted, Access, Of, AccessId, Control, CreatedAt
<1>2. \A c \in Access : c[1] # Main
  <2>1. Declared(Main) = {}
    <3>1. program \in DOMAIN Programs
      BY DEF TypesOK
    <3>2. PICK D \in Programs[program].declarations : \A t \in Task : Declared(t) = DOMAIN D[t]
      BY DEF TypesOK
    <3>3. DOMAIN D[Main] = {}
      BY <3>1, ProperDeclarations
    <3>4. QED
      BY <3>2, <3>3, RegistrationAssumption
  <2>2. QED
    BY <2>1 DEF Access, Of, Declared
<1>3. a # NoAccess
  BY NoAccessIsNone DEF Access
<1>4. At(access, a).child = a => FALSE
  BY <1>1, <1>2 DEF Links, ChildLinks, Above
<1>5. At(access, a).successor = a => FALSE
  <2>1. At(access, a).successor = a => Inserted(a)
    BY <1>3 DEF Links, LinkFlags, NotYetLinked
  <2>2. At(access, a).successor = a => Above(a) = a
    BY DEF Links, SuccessorLinks
  <2>3. QED
    BY <1>1, <1>2, <2>1, <2>2 DEF Above
<1>6. QED
  BY <1>4, <1>5 DEF Links, ChildLinks, SuccessorLinks

(* A step that only adds flags to one access makes it answer in order.     *)
LEMMA AnswersOf ==
  ASSUME IInv, NEW a \in Access, NEW X \in SUBSET Flag, X \cap At(access, a).flags = {},
         X \cap (Note \cup {HASNEXT, HASCHILD, NEXTISPARENT}) = {},
         access' = Added(access, a, X)
  PROVE  Answering(access, access', Gains(a, X), a)
<1>1. TypesOK /\ Control /\ Links /\ Causes
  BY DEF IInv, Links
<1>2. /\ OnlyGains(access, access', a, X) /\ Access = Of(access)
  BY <1>1, GainedOne DEF Access
<1>3. /\ At(access', a).child = At(access, a).child /\ At(access', a).successor = At(access, a).successor
      /\ At(access', a).flags = At(access, a).flags \cup X
      /\ \A f \in {HASNEXT, HASCHILD, NEXTISPARENT} : f \in At(access', a).flags <=> f \in At(access, a).flags
  BY <1>2 DEF OnlyGains
<1>4. \A b \in Access : Gains(a, X)[b] = IF b = a THEN X ELSE {}
  BY DEF Gains
<1>5. HASCHILD \in At(access', a).flags =>
        LET c == At(access', a).child
        IN  /\ c \in Of(access) /\ c # a /\ Gains(a, X)[c] = {}
            /\ \A k \in Kind : <<"SATISFIED", k>> \in At(access, c).flags => ToChild(At(access, a).flags, k)
  <2> SUFFICES ASSUME HASCHILD \in At(access, a).flags
               PROVE  LET c == At(access, a).child
                      IN  /\ c \in Access /\ c # a /\ Gains(a, X)[c] = {}
                          /\ \A k \in Kind : <<"SATISFIED", k>> \in At(access, c).flags => ToChild(At(access, a).flags, k)
    BY <1>2, <1>3
  <2> DEFINE c == At(access, a).child
  <2>1. c # NoAccess
    BY <1>1 DEF Links, LinkFlags
  <2>2. c \in Access /\ c # a
    BY <1>1, <2>1, NoSelfLinks
  <2>3. \A k \in Kind : <<"SATISFIED", k>> \in At(access, c).flags => ToChild(At(access, a).flags, k)
    BY <1>1, <2>2, Zenon DEF Causes, PassedOn
  <2>4. QED
    BY <1>4, <2>2, <2>3
<1>6. HASNEXT \in At(access', a).flags =>
        LET c == At(access', a).successor
        IN  /\ c \in Of(access) /\ c # a /\ Gains(a, X)[c] = {}
            /\ \A k \in Kind :
                 (IF NEXTISPARENT \in At(access', a).flags THEN <<"CHILD_DONE", k>> ELSE <<"SATISFIED", k>>)
                   \in At(access, c).flags => ToNext(At(access, a).type, At(access, a).flags, k)
  <2> SUFFICES ASSUME HASNEXT \in At(access, a).flags
               PROVE  LET c == At(access, a).successor
                      IN  /\ c \in Access /\ c # a /\ Gains(a, X)[c] = {}
                          /\ \A k \in Kind :
                               (IF NEXTISPARENT \in At(access, a).flags THEN <<"CHILD_DONE", k>>
                                ELSE <<"SATISFIED", k>>)
                                 \in At(access, c).flags => ToNext(At(access, a).type, At(access, a).flags, k)
    BY <1>2, <1>3
  <2> DEFINE c == At(access, a).successor
  <2>1. c # NoAccess
    BY <1>1 DEF Links, LinkFlags
  <2>2. c \in Access /\ c # a
    BY <1>1, <2>1, NoSelfLinks
  <2>3. \A k \in Kind : PassedOn(access, a, c, k)
    BY <1>1, <2>2, Zenon DEF Causes
  <2>4. QED
    BY <1>4, <2>2, <2>3 DEF PassedOn
<1>7. \A f \in At(access, a).flags \cap Note : Justified(At(access, a).type, At(access, a).flags, f)
  BY <1>1 DEF Causes
<1>8. Gains(a, X)[a] = X
  BY <1>4
<1>9. QED
  BY <1>2, <1>5, <1>6, <1>7, <1>8 DEF Answering

(* What is in a mailbox was sent.                                          *)
LEMMA MailIsSent ==
  ASSUME TypesOK', SlotsOK', NEW p \in Task,
         \A i \in DOMAIN frame'[p].mailBox : frame'[p].mailBox[i] # NoMessage
  PROVE  \A i \in DOMAIN frame'[p].mailBox : Sent(access', frame'[p].mailBox[i])
<1> TAKE i \in DOMAIN frame'[p].mailBox
<1>1. frame'[p].mailBox \in Seq(Message)
  BY DEF TypesOK
<1>2. i \in 1..Len(frame'[p].mailBox)
  BY <1>1
<1>3. <<p, i>> \in Slots' /\ Msg(<<p, i>>)' = frame'[p].mailBox[i]
  BY <1>2 DEF Slots, Msg
<1>4. QED
  BY <1>3 DEF SlotsOK

(* Every answer names the access it comes from.                            *)
LEMMA AnswersFrom ==
  ASSUME NEW a, NEW acc, NEW new, NEW next, NEW child
  PROVE  LET M == Messages(a, acc, new, next, child)
         IN  \A i \in DOMAIN M : M[i].from = a
<1>1. ASSUME NEW i \in DOMAIN Messages(a, acc, new, next, child)
      PROVE  Messages(a, acc, new, next, child)[i].from = a
  <2>1. /\ Messages(a, acc, new, next, child)[i].from = a
        /\ \/ AnswersChild(Messages(a, acc, new, next, child)[i], child, KindsForChild(new, acc.flags \cup new))
           \/ AnswersNext(Messages(a, acc, new, next, child)[i], next, acc.flags \cup new,
                          KindsForNext(acc.type, new, acc.flags \cup new))
    BY AnswerFields
  <2>2. QED
    BY <2>1
<1>2. QED
  BY <1>1

(* Thread p may end its access to x.                                       *)
MayEnd(p, x) ==
  /\ <<p, x>> \in Access /\ UNREGISTERED \notin At(access, <<p, x>>).flags
  /\ pc[p] \in {"body", "finalize", "unregister"}
  /\ pc[p] = "unregister" => frame[p].addr = <<p, x>>
  /\ IF Finished(p) THEN frame[p].ip > Len(Body[p])
     ELSE frame[p].ip \in DOMAIN Body[p] /\ Op(p) = <<"release", x>>

(* The rest of finalizeDataAccess: an access is unregistered and answers.  *)
LEMMA UnregisterAccessKeeps ==
  ASSUME IInv, NEW p \in Task, NEW x, MayEnd(p, x), UnregisterAccess(p, x), program' = program
  PROVE  IInv'
<1> DEFINE a == <<p, x>>
           X == {UNREGISTERED} \cup (IF At(access, a).child = NoAccess THEN ChildDone(Kind) ELSE {})
           F == Gains(a, X)
           answer == Answer(access, a, X)
           f == [frame[p] EXCEPT !.addr = NoAccess, !.todo = @ \ {x}, !.mailBox = answer,
                                 !.reductionInfo = At(access, a).reductionInfo]
<1>1. /\ access' = Added(access, a, X)
      /\ frame' = [frame EXCEPT ![p].addr = NoAccess, ![p].todo = @ \ {x}, ![p].mailBox = answer,
                                ![p].reductionInfo = At(access, a).reductionInfo]
      /\ pc' = [pc EXCEPT ![p] = "propagate"]
      /\ bottomMap' = bottomMap
  BY DEF UnregisterAccess, At
<1>2. /\ TypesOK /\ Control /\ SlotsOK /\ NoDuplicates /\ Endings /\ Links /\ Causes
  BY DEF IInv, Links, Messaging
<1>3. /\ a \in Access /\ UNREGISTERED \notin At(access, a).flags
      /\ pc[p] \in {"body", "finalize", "unregister"}
  BY DEF MayEnd
<1>4. At(access, a).child = NoAccess =>
        /\ At(access, a).flags \cap ChildDone(Kind) = {}
        /\ LastBelow(a) = NoAccess
  BY <1>2, <1>3 DEF Endings, Links, BottomLinks, Access, Of
<1>5. /\ X \in SUBSET Flag /\ NEXTISPARENT \notin X /\ X \cap At(access, a).flags = {}
      /\ X \cap (Note \cup {HASNEXT, HASCHILD, NEXTISPARENT} \cup Satisfied(Kind)) = {}
      /\ X \subseteq {UNREGISTERED} \cup ChildDone(Kind)
      /\ UNREGISTERED \in X
  <2>1. UNREGISTERED \notin Note \cup {HASNEXT, HASCHILD, NEXTISPARENT} \cup Satisfied(Kind)
    BY FlagsDiffer DEF UNREGISTERED, HASNEXT, HASCHILD, NEXTISPARENT
  <2>2. ChildDone(Kind) \cap (Note \cup {HASNEXT, HASCHILD, NEXTISPARENT} \cup Satisfied(Kind)) = {}
    BY FlagsDiffer
  <2>3. UNREGISTERED \in Flag /\ ChildDone(Kind) \subseteq Flag
    BY DEF Flag
  <2>4. X = {UNREGISTERED} \/ (At(access, a).child = NoAccess /\ X = {UNREGISTERED} \cup ChildDone(Kind))
    OBVIOUS
  <2> HIDE DEF X
  <2>5. QED
    BY <1>3, <1>4, <2>1, <2>2, <2>3, <2>4
<1>6. X \cap ChildDone(Kind) # {} => At(access, a).child = NoAccess
  BY FlagsDiffer
<1> HIDE DEF X
<1>7. /\ Changes(access, access', F) /\ IsAccessMap(access') /\ Access' = Access
      /\ OnlyGains(access, access', a, X)
      /\ \A t \in Task : Declared(t)' = Declared(t)
  BY <1>1, <1>2, <1>3, <1>5, GainedOne
<1>8. Answering(access, access', F, a)
  BY <1>1, <1>3, <1>5, AnswersOf
<1>9. /\ answer \in Seq(Message)
      /\ answer = Messages(a, At(access, a), X, At(access, a).successor, At(access, a).child)
      /\ \A i \in DOMAIN answer : answer[i] # NoMessage
  <2>1. IsAccessMap(access) /\ a \in Of(access)
    BY <1>2, <1>3 DEF TypesOK, Access
  <2>2. /\ answer \in Seq(Message)
        /\ answer = Messages(a, At(access, a), X, At(access, a).successor, At(access, a).child)
    BY <1>5, <2>1, SingleIs
  <2>3. \A i \in DOMAIN answer : answer[i].from = a
    <3> DEFINE M == Messages(a, At(access, a), X, At(access, a).successor, At(access, a).child)
    <3>1. \A i \in DOMAIN M : M[i].from = a
      BY AnswersFrom
    <3> HIDE DEF M, answer
    <3>2. answer = M
      BY <2>2 DEF M
    <3>3. QED
      BY <3>1, <3>2
  <2>4. NoMessage.from = NoAccess /\ a # NoAccess
    BY <1>3, NoAccessIsNone DEF NoMessage, Access
  <2>5. QED
    BY <2>2, <2>3, <2>4
<1>10. f \in FrameRecord /\ f.ip = frame[p].ip /\ f.todo = frame[p].todo \ {x} /\ f.addr = NoAccess
       /\ f.message = NoMessage /\ f.mailBox = answer
  <2>1. frame[p] \in FrameRecord
    BY <1>2, FrameIs
  <2>2. At(access, a).reductionInfo \in AccessId \cup {NoReduction}
    BY <1>2, <1>3 DEF TypesOK, IsAccessMap, At, Access, Of, AccessRecord
  <2>3. frame[p].message = NoMessage
    BY <1>3, EmptyHands
  <2> HIDE DEF answer
  <2>4. QED
    BY <1>9, <2>1, <2>2, <2>3 DEF FrameRecord
<1>11. frame' = [frame EXCEPT ![p] = f]
  BY <1>1, <1>2 DEF TypesOK
<1> HIDE DEF answer, f
<1>12. /\ TypesOK' /\ pc'[p] = "propagate" /\ frame'[p] = f
       /\ \A q \in Task \ {p} : pc'[q] = pc[q] /\ frame'[q] = frame[q]
  <2>1. GoesTo(p, "propagate", f)
    BY <1>1, <1>10, <1>11 DEF GoesTo, Place
  <2>2. bottomMap' \in BottomMaps
    BY <1>1, <1>2, FrameIs
  <2>3. QED
    BY <1>2, <1>7, <2>1, <2>2, ThreadTypes
<1>13. Body' = Body /\ DOMAIN Body[p] = 1..Len(Body[p]) /\ Len(Body[p]) \in Nat /\ frame[p].ip \in Nat
  BY <1>2, SameProgram, Positions DEF TypesOK
<1>14. Finished(p)' <=> Finished(p)
  <2>1. Finished(p)' <=> frame[p].ip > Len(Body[p])
    BY <1>10, <1>12, <1>13 DEF Finished
  <2>2. QED
    BY <1>13, <2>1 DEF MayEnd
<1>15. Advances(p)
  <2>1. frame[p].ip <= frame'[p].ip
    BY <1>2, <1>10, <1>12 DEF TypesOK
  <2>2. QED
    BY <1>3, <1>12, <1>14, <2>1 DEF Advances, Creating
<1>16. StaysInPlace(p)
  BY <1>3, <1>12 DEF StaysInPlace, Creating, Joining
<1>17. \A b \in Access : F[b] = IF b = a THEN X ELSE {}
  BY DEF Gains
<1>18. Ends(p, F)
  <2>1. ReleasedBy(p, x)'
    <3>1. CASE Finished(p)
      BY <1>14, <3>1 DEF ReleasedBy
    <3>2. CASE ~Finished(p)
      BY <1>10, <1>12, <1>13, <3>2 DEF MayEnd, ReleasedBy, Op
    <3>3. QED
      BY <3>1, <3>2
  <2>2. \A b \in Access : UNREGISTERED \in F[b] => b[1] = p /\ ReleasedBy(p, b[2])' /\ pc'[p] \notin Joining
    BY <1>12, <1>17, <2>1 DEF Joining
  <2>3. pc[p] \in Joining /\ pc'[p] \notin Joining => UNREGISTERED \in F[frame[p].addr]
    BY <1>3, <1>5, <1>17 DEF MayEnd, Joining
  <2>4. \A b \in Access : F[b] \cap ChildDone(Kind) # {} =>
          /\ At(access, b).child = NoAccess => UNREGISTERED \in At(access, b).flags \cup F[b]
          /\ \A c \in Access : LastBelow(b) = c => NEXTISPARENT \in At(access, c).flags
    <3>1. NoAccess \notin Access
      BY NoAccessIsNone DEF Access
    <3>2. QED
      BY <1>4, <1>5, <1>6, <1>17, <3>1
  <2>5. ASSUME Finished(p)', NEW y \in frame'[p].todo
        PROVE  y \in Declared(p) /\ UNREGISTERED \notin At(access', <<p, y>>).flags
    <3>1. Finished(p) /\ y \in frame[p].todo /\ y # x
      BY <1>10, <1>12, <1>14, <2>5
    <3>2. pc[p] \in Joining \cup {"finalize"}
      <4>1. pc[p] # "body"
        BY <3>1 DEF Finished
      <4>2. QED
        BY <1>3, <4>1 DEF Joining
    <3>3. y \in Declared(p) /\ UNREGISTERED \notin access[p][y].flags
      BY <1>2, <3>1, <3>2 DEF Endings
    <3>4. <<p, y>> \in Access /\ At(access, <<p, y>>) = access[p][y]
      BY <1>2, <3>3 DEF Access, Of, AccessId, Declared, TypesOK, IsAccessMap, At
    <3>5. At(access', <<p, y>>).flags = At(access, <<p, y>>).flags
      BY <1>7, <3>1, <3>4 DEF OnlyGains, Access
    <3>6. QED
      BY <3>3, <3>4, <3>5
  <2>6. QED
    BY <2>2, <2>3, <2>4, <2>5 DEF Ends
<1>19. Adds(F)
  <2> SUFFICES ASSUME NEW b \in Access
               PROVE  /\ F[b] \cap {HASNEXT, HASCHILD, NEXTISPARENT} = {}
                      /\ F[b] # {} => Inserted(b)
                      /\ \A g \in F[b] \cap Note : Justified(At(access, b).type, At(access, b).flags, g)
                      /\ Supported(b, F[b])
    BY DEF Adds
  <2>1. Inserted(a)
    BY <1>3 DEF Inserted
  <2>2. F[b] \cap (Note \cup {HASNEXT, HASCHILD, NEXTISPARENT} \cup Satisfied(Kind)) = {}
    BY <1>5, <1>17
  <2>3. ASSUME NEW c \in Access, NEW k \in Kind,
               <<"CHILD_DONE", k>> \in F[b], At(access, c).successor = b, NEXTISPARENT \in At(access, c).flags
        PROVE  FALSE
    <3>1. b = a /\ At(access, a).child = NoAccess
      BY <1>6, <1>17, <2>3 DEF ChildDone
    <3>2. Above(c) = a
      BY <1>2, <1>3, <2>3, <3>1 DEF Links, SuccessorLinks
    <3>3. LastBelow(a) = c
      BY <1>2, <1>3, <2>3, <3>2 DEF Links, BottomLinks, Access, Of
    <3>4. QED
      BY <1>4, <3>1, <3>3, NoAccessIsNone DEF Access
  <2>4. \A k \in Kind : <<"SATISFIED", k>> \notin F[b]
    BY <2>2 DEF Satisfied
  <2>5. Supported(b, F[b])
    BY <2>3, <2>4 DEF Supported
  <2>6. QED
    BY <1>17, <2>1, <2>2, <2>5
<1>20. SlotsOK' /\ NoDuplicates' /\ Combinations(F)
  <2> DEFINE origin == [i \in 0..Len(answer) |-> IF i = 0 THEN None ELSE <<"new", i>>]
  <2>1. \A q \in Task \ {p} : Len(frame'[q].mailBox) = Len(frame[q].mailBox)
    BY <1>12
  <2>2. ASSUME NEW s \in Slots, s[1] # p
        PROVE  Msg(s)' = Msg(s) /\ (Bears(s)' => Bears(s)) /\ Unaffected(Msg(s), Bears(s), F)
    <3>1. s[1] \in Task
      BY <1>2, SlotsAre
    <3>2. Msg(s)' = Msg(s) /\ (Bears(s)' => Bears(s))
      BY <1>12, <2>2, <3>1 DEF Msg, Bears
    <3>3. Unaffected(Msg(s), Bears(s), F)
      <4> SUFFICES ASSUME Msg(s) # NoMessage
                   PROVE  /\ Msg(s).flagsAfterPropagation \cap F[Msg(s).from] = {}
                          /\ Bears(s) /\ Msg(s).to \in Access => Msg(s).flagsForNext \cap F[Msg(s).to] = {}
        BY DEF Unaffected
      <4>1. Msg(s).from \in Access /\ Msg(s).flagsAfterPropagation \subseteq Note
        BY <1>2, MessageFlags DEF SlotsOK, Sent, Access
      <4>2. Msg(s).flagsAfterPropagation \cap F[Msg(s).from] = {}
        BY <1>5, <1>17, <4>1
      <4>3. ASSUME Bears(s), Msg(s).to = a, Msg(s).flagsForNext # {} PROVE Msg(s).flagsForNext \cap X = {}
        <5>1. Msg(s).flagsForNext \subseteq Satisfied(Kind) \cup ChildDone(Kind)
          BY <1>2, <4>3, MessageFlags DEF SlotsOK
        <5>2. UNREGISTERED \notin Satisfied(Kind) \cup ChildDone(Kind)
          BY FlagsDiffer
        <5>3. Gains(a, Msg(s).flagsForNext)[a] \cap ChildDone(Kind) # {} => At(access, a).child # NoAccess
          BY <1>3, <4>3, DeliveryMayBeMade
        <5>4. Gains(a, Msg(s).flagsForNext)[a] = Msg(s).flagsForNext
          BY <1>3 DEF Gains
        <5>5. QED
          BY <1>5, <1>6, <5>1, <5>2, <5>3, <5>4
      <4>4. QED
        BY <1>17, <4>2, <4>3
    <3>4. QED
      BY <3>2, <3>3
  <2>3. OthersKeep(p, F)
    BY <2>2 DEF OthersKeep
  <2>4. Moves(p, origin, answer, F)
    <3>1. /\ frame'[p].mailBox = answer /\ Len(answer) \in Nat /\ DOMAIN answer = 1..Len(answer)
          /\ frame'[p].message = NoMessage
      BY <1>9, <1>10, <1>12
    <3>2. ASSUME NEW i \in 0..Len(answer)
          PROVE  \/ origin[i] = None /\ Msg(<<p, i>>)' = NoMessage
                 \/ \E j \in DOMAIN answer : origin[i] = <<"new", j>> /\ Msg(<<p, i>>)' = answer[j]
      <4>1. CASE i = 0
        BY <3>1, <4>1 DEF Msg
      <4>2. CASE i # 0
        BY <3>1, <4>2 DEF Msg
      <4>3. QED
        BY <4>1, <4>2
    <3>3. \A i, j \in 0..Len(answer) : i # j /\ origin[i] = origin[j] => origin[i] = None
      BY <3>1 DEF None
    <3> HIDE DEF origin
    <3>4. QED
      BY <3>1, <3>2, <3>3 DEF Moves
  <2>5. Answers(F, answer)
    <3>1. At(access', a).successor = At(access, a).successor /\ At(access', a).child = At(access, a).child
      BY <1>3, <1>7 DEF OnlyGains, Access
    <3>2. F[a] = X
      BY <1>3, <1>17
    <3>3. QED
      BY <1>8, <1>9, <3>1, <3>2 DEF Answers
  <2> HIDE DEF origin
  <2>6. QED
    BY <1>2, <1>7, <1>12, <2>1, <2>3, <2>4, <2>5, MessagesStep
<1>21. Holds(p)' /\ CombinesOwn(p)'
  <2>1. \A i \in DOMAIN frame'[p].mailBox : frame'[p].mailBox[i] # NoMessage
    BY <1>9, <1>10, <1>12
  <2>2. \A i \in DOMAIN frame'[p].mailBox : Sent(access', frame'[p].mailBox[i])
    BY <1>12, <1>20, <2>1, MailIsSent
  <2>3. QED
    BY <1>10, <1>12, <2>2 DEF Holds, CombinesOwn
<1>22. \A b \in AccessId : LastBelow(b)' = LastBelow(b)
  BY <1>1 DEF LastBelow
<1>23. \A b \in Access : REDUCTION_COMBINED \notin F[b]
  BY <1>5, <1>17 DEF Note
<1>24. QED
  BY <1>7, <1>12, <1>15, <1>16, <1>18, <1>19, <1>20, <1>21, <1>22, <1>23, AddingStep

(* A release, the end of a task and the end of a joining reach an access   *)
(* that was not unregistered before.                                       *)
LEMMA ReleaseMayEnd ==
  ASSUME IInv, NEW p \in Task, InBody(p, "release")
  PROVE  MayEnd(p, Op(p)[2])
<1> DEFINE x == Op(p)[2]
<1>1. /\ TypesOK /\ Endings /\ pc[p] = "body" /\ frame[p].ip \in DOMAIN Body[p] /\ Op(p)[1] = "release"
      /\ program \in DOMAIN Programs
  BY DEF IInv, InBody, TypesOK
<1>2. ~Finished(p) /\ frame[p].ip \in Nat
  BY <1>1 DEF Finished, TypesOK
<1>3. Op(p) = <<"release", x>>
  <2>1. Body[p] \in Seq({"create", "release", "taskwait"} \X (Task \cup Address))
    BY <1>1, RegistrationAssumption DEF Body
  <2>2. Op(p) \in {"create", "release", "taskwait"} \X (Task \cup Address)
    BY <1>1, <2>1 DEF Op
  <2>3. QED
    BY <1>1, <2>2
<1>4. PICK D \in Programs[program].declarations : \A t \in Task : Declared(t) = DOMAIN D[t]
  BY <1>1 DEF TypesOK
<1>5. \A i \in DOMAIN Body[p] : Body[p][i][1] = "release" =>
        /\ Body[p][i][2] \in DOMAIN D[p]
        /\ \A j \in DOMAIN Body[p] : Body[p][j] = Body[p][i] => i = j
  BY <1>1, <1>4, ProperDeclarations DEF Body
<1>6. /\ x \in Declared(p)
      /\ \A j \in DOMAIN Body[p] : Body[p][j] = <<"release", x>> => j = frame[p].ip
  BY <1>1, <1>3, <1>4, <1>5 DEF Op
<1>7. <<p, x>> \in Access
  BY <1>1, <1>6 DEF Access, Of, AccessId, Declared, TypesOK, IsAccessMap
<1>8. ~ReleasedBy(p, x)
  BY <1>1, <1>2, <1>6 DEF ReleasedBy
<1>9. UNREGISTERED \notin At(access, <<p, x>>).flags
  BY <1>1, <1>7, <1>8 DEF Endings
<1>10. QED
  BY <1>1, <1>2, <1>3, <1>7, <1>9 DEF MayEnd

(* So does the loop of unregisterTaskDataAccesses.                         *)
LEMMA FinalizeMayEnd ==
  ASSUME IInv, NEW p \in Task, pc[p] = "finalize", NEW x \in frame[p].todo
  PROVE  MayEnd(p, x)
<1>1. TypesOK /\ Endings
  BY DEF IInv
<1>2. Finished(p)
  BY DEF Finished
<1>3. x \in Declared(p) /\ UNREGISTERED \notin access[p][x].flags /\ frame[p].ip > Len(Body[p])
  BY <1>1, <1>2 DEF Endings
<1>4. <<p, x>> \in Access /\ At(access, <<p, x>>) = access[p][x]
  BY <1>1, <1>3 DEF Access, Of, AccessId, Declared, TypesOK, IsAccessMap, At
<1>5. QED
  BY <1>2, <1>3, <1>4 DEF MayEnd

(* So does the end of a joining.                                           *)
LEMMA JoinedMayEnd ==
  ASSUME IInv, NEW p \in Task, pc[p] = "unregister"
  PROVE  MayEnd(p, frame[p].addr[2])
<1>1. TypesOK /\ Endings
  BY DEF IInv
<1>2. PICK a \in Access : JoinsAt(p, a)
  BY <1>1 DEF Endings, Joining
<1>3. a = <<p, a[2]>> /\ frame[p].addr = a
  BY <1>2 DEF JoinsAt, Access, Of, AccessId
<1>4. Finished(p) => frame[p].ip > Len(Body[p])
  BY DEF Finished
<1>5. frame[p].addr[2] = a[2]
  BY <1>3
<1>6. QED
  BY <1>2, <1>3, <1>4, <1>5 DEF MayEnd, JoinsAt

(* The top of a mailbox is replaced by other messages.                     *)
LEMMA TopReplaced ==
  ASSUME NEW S, NEW s \in Seq(S), NEW t \in Seq(S), t # <<>>
  PROVE  LET u == s \o Tail(t)
         IN  /\ u \in Seq(S) /\ Len(u) = Len(s) + Len(t) - 1 /\ Len(s) \in Nat /\ Len(t) \in Nat \ {0}
             /\ \A i \in 1..Len(s) : u[i] = s[i]
             /\ \A i \in Len(s)+1..Len(u) : u[i] = t[i - Len(s) + 1]
             /\ Head(t) = t[1] /\ 1 \in DOMAIN t
<1>1. Tail(t) \in Seq(S) /\ Len(Tail(t)) = Len(t) - 1 /\ \A i \in 1..Len(Tail(t)) : Tail(t)[i] = t[i + 1]
  BY HeadTailProperties
<1>2. Len(s) \in Nat /\ Len(t) \in Nat \ {0} /\ Head(t) = t[1] /\ 1 \in DOMAIN t
  <2>1. Len(s) \in Nat /\ Len(t) \in Nat
    OBVIOUS
  <2>2. Len(t) # 0
    BY EmptySeq
  <2>3. QED
    BY <2>1, <2>2
<1> DEFINE w == Tail(t)
           u == s \o w
<1> HIDE DEF w
<1>3. u \in Seq(S) /\ Len(u) = Len(s) + Len(w) /\ \A i \in 1..Len(u) : u[i] = IF i <= Len(s) THEN s[i] ELSE w[i - Len(s)]
  BY <1>1, ConcatProperties DEF w
<1> HIDE DEF u
<1>4. \A i \in 1..Len(s) : u[i] = s[i]
  BY <1>1, <1>2, <1>3 DEF w
<1>5. ASSUME NEW i \in Len(s)+1..Len(u) PROVE u[i] = t[i - Len(s) + 1]
  <2>1. i \in 1..Len(u) /\ ~(i <= Len(s)) /\ i - Len(s) \in 1..Len(w)
    BY <1>1, <1>2, <1>3, <1>5 DEF w
  <2>2. u[i] = w[i - Len(s)]
    BY <1>3, <2>1
  <2>3. QED
    BY <1>1, <2>1, <2>2 DEF w
<1>6. QED
  BY <1>1, <1>2, <1>3, <1>4, <1>5 DEF u, w

(* The delivery of the top message, and what it makes its receiver send.   *)
LEMMA DeliverKeeps ==
  ASSUME IInv, NEW p \in Task, Deliver(p), program' = program
  PROVE  IInv'
<1> DEFINE mail == frame[p].mailBox
           m == Head(mail)
           X == m.flagsForNext
           F == Gains(m.to, X)
           answer == IF X = {} THEN <<>> ELSE Answer(access, m.to, X)
           box == answer \o Tail(mail)
           f == [frame[p] EXCEPT !.message = m, !.mailBox = box]
<1>1. /\ TypesOK /\ Control /\ SlotsOK /\ NoDuplicates /\ Endings /\ Holds(p) /\ Links /\ Causes
  BY DEF IInv, Links, Messaging
<1>2. mail \in Seq(Message) /\ mail # <<>> /\ pc[p] = "propagate"
  BY <1>1 DEF Deliver, TypesOK
<1>3. m = mail[1] /\ 1 \in DOMAIN mail /\ Len(mail) \in Nat \ {0} /\ m \in Message
  BY <1>2
<1>4. Sent(access, m) /\ m # NoMessage /\ frame[p].message = NoMessage
  <2>1. Sent(access, m)
    BY <1>1, <1>2, <1>3 DEF Holds
  <2>2. QED
    BY <1>2, <2>1, MessageFlags, EmptyHands
<1>5. <<p, 1>> \in Slots /\ Msg(<<p, 1>>) = m /\ Bears(<<p, 1>>)
  <2>1. 1 \in 0..Len(mail)
    BY <1>3
  <2>2. <<p, 1>> \in Slots
    BY <1>1, <2>1, SlotsAre
  <2>3. QED
    BY <1>3, <2>2 DEF Msg, Bears
<1>6. /\ bottomMap' = bottomMap /\ pc' = [pc EXCEPT ![p] = "delivered"]
      /\ frame' = [frame EXCEPT ![p].message = m, ![p].mailBox = box]
      /\ X = {} => access' = access
      /\ X # {} => access' = Added(access, m.to, X)
  <2>1. Tail(mail) \in Seq(Message)
    BY <1>2
  <2>2. <<>> \o Tail(mail) = Tail(mail)
    BY <2>1
  <2>3. CASE X = {}
    BY <2>2, <2>3 DEF Deliver
  <2>4. CASE X # {}
    BY <2>4 DEF Deliver
  <2>5. QED
    BY <2>3, <2>4
<1>7. /\ X # {} => m.to \in Access
      /\ X \in SUBSET Flag
      /\ NEXTISPARENT \notin X
      /\ Adds(F)
      /\ \A s \in Slots : Unaffected(Msg(s), Bears(s) /\ s # <<p, 1>>, F)
      /\ X \cap (Note \cup {UNREGISTERED, HASNEXT, HASCHILD, NEXTISPARENT}) = {}
      /\ X \cap ChildDone(Kind) # {} =>
           /\ At(access, m.to).child # NoAccess
           /\ \A c \in Access : LastBelow(m.to) = c => NEXTISPARENT \in At(access, c).flags
      /\ X # {} => X \cap At(access, m.to).flags = {}
  <2>1. CASE X = {}
    <3>1. \A b \in Access : F[b] = {}
      BY <2>1 DEF Gains
    <3>2. Adds(F)
      BY <3>1 DEF Adds, Supported
    <3>3. ASSUME NEW s \in Slots PROVE Unaffected(Msg(s), Bears(s) /\ s # <<p, 1>>, F)
      <4>1. Msg(s) # NoMessage => Msg(s).from \in Access
        BY <1>1 DEF SlotsOK, Sent, Access
      <4>2. QED
        BY <3>1, <4>1 DEF Unaffected
    <3>4. QED
      BY <2>1, <3>2, <3>3
  <2>2. CASE X # {}
    <3>1. /\ m.to \in Access /\ X \in SUBSET Flag
          /\ X \cap At(access, m.to).flags = {}
          /\ NEXTISPARENT \notin X
          /\ Adds(F)
          /\ \A s \in Slots : Unaffected(Msg(s), Bears(s) /\ s # <<p, 1>>, F)
          /\ \A b \in Access : /\ F[b] \cap (Note \cup {UNREGISTERED, HASNEXT, HASCHILD, NEXTISPARENT}) = {}
                               /\ F[b] \cap ChildDone(Kind) # {} =>
                                    /\ At(access, b).child # NoAccess
                                    /\ \A c \in Access : LastBelow(b) = c => NEXTISPARENT \in At(access, c).flags
      BY <1>4, <1>5, <2>2, DeliveryMayBeMade
    <3>2. F[m.to] = X
      BY <3>1 DEF Gains
    <3>3. QED
      BY <3>1, <3>2
  <2>3. QED
    BY <2>1, <2>2
<1>8. \A b \in Access : F[b] = IF b = m.to THEN X ELSE {}
  BY DEF Gains
<1>9. /\ Changes(access, access', F) /\ IsAccessMap(access') /\ Access' = Access
      /\ \A t \in Task : Declared(t)' = Declared(t)
  <2>1. CASE X = {}
    <3>1. Changes(access, access', Nothing) /\ Access' = Access
      BY <1>1, <1>6, <2>1, SameAccesses
    <3>2. F \in [Of(access) -> SUBSET Flag] /\ \A b \in Of(access) : F[b] = Nothing[b]
      BY <1>8, <2>1 DEF Gains, Nothing, Access
    <3>3. Changes(access, access', F)
      BY <3>1, <3>2, SameChanges
    <3>4. QED
      BY <1>1, <1>6, <2>1, <3>1, <3>3 DEF TypesOK, Declared
  <2>2. CASE X # {}
    BY <1>1, <1>6, <1>7, <2>2, GainedOne
  <2>3. QED
    BY <2>1, <2>2
<1>10. /\ answer \in Seq(Message) /\ Answers(F, answer)
       /\ \A i \in DOMAIN answer : answer[i] # NoMessage
  <2>1. CASE X = {}
    BY <2>1 DEF Answers
  <2>2. CASE X # {}
    <3> DEFINE a == m.to
               M == Messages(a, At(access, a), X, At(access, a).successor, At(access, a).child)
    <3>1. IsAccessMap(access) /\ a \in Of(access)
      BY <1>1, <1>7, <2>2 DEF TypesOK, Access
    <3>2. M \in Seq(Message) /\ answer = M
      BY <1>7, <2>2, <3>1, SingleIs
    <3>3. \A i \in DOMAIN M : M[i].from = a
      BY AnswersFrom
    <3>4. NoMessage.from = NoAccess /\ a # NoAccess
      BY <3>1, NoAccessIsNone DEF NoMessage
    <3>5. Answering(access, access', F, a)
      BY <1>6, <1>7, <2>2, AnswersOf
    <3>6. OnlyGains(access, access', a, X)
      BY <1>1, <1>6, <1>7, <2>2, GainedOne
    <3>7. At(access', a).successor = At(access, a).successor /\ At(access', a).child = At(access, a).child
      BY <3>1, <3>6 DEF OnlyGains
    <3>8. F[a] = X
      BY <1>7, <1>8, <2>2
    <3> HIDE DEF answer, F, X
    <3>9. Answers(F, answer)
      BY <3>2, <3>5, <3>7, <3>8 DEF Answers
    <3> HIDE DEF M
    <3>10. QED
      BY <3>2, <3>3, <3>4, <3>9
  <2>3. QED
    BY <2>1, <2>2
<1> HIDE DEF answer
<1>11. /\ box \in Seq(Message) /\ Len(box) = Len(answer) + Len(mail) - 1 /\ Len(answer) \in Nat
       /\ \A i \in 1..Len(answer) : box[i] = answer[i]
       /\ \A i \in Len(answer)+1..Len(box) : box[i] = mail[i - Len(answer) + 1]
  BY <1>2, <1>10, TopReplaced
<1> HIDE DEF box
<1>12. f \in FrameRecord /\ f.ip = frame[p].ip /\ f.todo = frame[p].todo
       /\ f.message = m /\ f.mailBox = box
  <2>1. frame[p] \in FrameRecord
    BY <1>1, FrameIs
  <2>2. QED
    BY <1>3, <1>11, <2>1 DEF FrameRecord
<1>13. frame' = [frame EXCEPT ![p] = f]
  BY <1>1, <1>6 DEF TypesOK
<1> HIDE DEF f
<1>14. /\ TypesOK' /\ pc'[p] = "delivered" /\ frame'[p] = f
       /\ \A q \in Task \ {p} : pc'[q] = pc[q] /\ frame'[q] = frame[q]
  <2>1. GoesTo(p, "delivered", f)
    BY <1>6, <1>12, <1>13 DEF GoesTo, Place
  <2>2. bottomMap' \in BottomMaps
    BY <1>1, <1>6, FrameIs
  <2>3. QED
    BY <1>1, <1>9, <2>1, <2>2, ThreadTypes
<1>15. Finished(p)' <=> Finished(p)
  BY <1>2, <1>12, <1>14, SameProgram DEF Finished
<1>16. Advances(p)
  <2>1. frame[p].ip <= frame'[p].ip
    BY <1>1, <1>12, <1>14 DEF TypesOK
  <2>2. QED
    BY <1>2, <1>14, <1>15, <2>1 DEF Advances, Creating
<1>17. StaysInPlace(p)
  BY <1>2, <1>14 DEF StaysInPlace, Creating, Joining
<1>18. \A b \in Access : UNREGISTERED \notin F[b]
  BY <1>7, <1>8
<1>19. Ends(p, F)
  <2>1. pc[p] \notin Joining
    BY <1>2 DEF Joining
  <2>2. \A b \in Access : F[b] \cap ChildDone(Kind) # {} =>
          /\ At(access, b).child = NoAccess => UNREGISTERED \in At(access, b).flags \cup F[b]
          /\ \A c \in Access : LastBelow(b) = c => NEXTISPARENT \in At(access, c).flags
    BY <1>7, <1>8
  <2>3. ASSUME Finished(p)', NEW x \in frame'[p].todo
        PROVE  x \in Declared(p) /\ UNREGISTERED \notin At(access', <<p, x>>).flags
    <3>1. Finished(p) /\ x \in frame[p].todo
      BY <1>12, <1>14, <1>15, <2>3
    <3>2. QED
      BY <1>2, <1>9, <1>18, <3>1, UnfinishedKept
  <2>4. QED
    BY <1>18, <2>1, <2>2, <2>3 DEF Ends
<1>20. SlotsOK' /\ NoDuplicates' /\ Combinations(F)
  <2> DEFINE n == Len(answer)
             origin == [i \in 0..Len(box) |-> IF i = 0 THEN <<"old", 1>>
                                              ELSE IF i <= n THEN <<"new", i>> ELSE <<"old", i - n + 1>>]
  <2>1. \A q \in Task \ {p} : Len(frame'[q].mailBox) = Len(frame[q].mailBox)
    BY <1>14
  <2>2. ASSUME NEW s \in Slots, s[1] # p
        PROVE  Msg(s)' = Msg(s) /\ (Bears(s)' => Bears(s)) /\ Unaffected(Msg(s), Bears(s), F)
    <3>1. s[1] \in Task
      BY <1>1, SlotsAre
    <3>2. Msg(s)' = Msg(s) /\ (Bears(s)' => Bears(s))
      BY <1>14, <2>2, <3>1 DEF Msg, Bears
    <3>3. s # <<p, 1>>
      BY <2>2
    <3>4. Unaffected(Msg(s), Bears(s), F)
      BY <1>7, <3>3 DEF Unaffected
    <3>5. QED
      BY <3>2, <3>4
  <2>3. OthersKeep(p, F)
    BY <2>2 DEF OthersKeep
  <2>4. Moves(p, origin, answer, F)
    <3>1. frame'[p].mailBox = box /\ frame'[p].message = m /\ DOMAIN answer = 1..n /\ n \in Nat
          /\ Len(box) \in Nat /\ Len(mail) \in Nat \ {0}
      BY <1>3, <1>10, <1>11, <1>12, <1>14
    <3>2. ASSUME NEW i \in 0..Len(box)
          PROVE  \/ \E j \in 0..Len(mail) :
                      /\ origin[i] = <<"old", j>> /\ Msg(<<p, i>>)' = Msg(<<p, j>>)
                      /\ Bears(<<p, i>>)' => Bears(<<p, j>>)
                      /\ Unaffected(Msg(<<p, j>>), Bears(<<p, i>>)', F)
                 \/ \E j \in DOMAIN answer : origin[i] = <<"new", j>> /\ Msg(<<p, i>>)' = answer[j]
      <4>1. CASE i = 0
        <5>1. origin[i] = <<"old", 1>> /\ Msg(<<p, i>>)' = Msg(<<p, 1>>) /\ ~Bears(<<p, i>>)'
          BY <1>5, <1>14, <3>1, <4>1 DEF Msg, Bears
        <5>2. Unaffected(Msg(<<p, 1>>), Bears(<<p, i>>)', F)
          <6>1. Unaffected(Msg(<<p, 1>>), Bears(<<p, 1>>) /\ <<p, 1>> # <<p, 1>>, F)
            BY <1>5, <1>7
          <6>2. QED
            BY <5>1, <6>1 DEF Unaffected
        <5>3. 1 \in 0..Len(mail)
          BY <3>1
        <5>4. QED
          BY <5>1, <5>2, <5>3, <1>5
      <4>2. CASE i # 0 /\ i <= n
        <5>1. i \in 1..n /\ Msg(<<p, i>>)' = answer[i] /\ origin[i] = <<"new", i>>
          BY <1>11, <3>1, <4>2 DEF Msg
        <5>2. QED
          BY <3>1, <5>1
      <4>3. CASE i # 0 /\ ~(i <= n)
        <5> DEFINE j == i - n + 1
        <5>1. j \in 2..Len(mail) /\ i \in n+1..Len(box)
          BY <1>11, <3>1, <4>3
        <5>2. Msg(<<p, i>>)' = mail[j] /\ Msg(<<p, j>>) = mail[j] /\ origin[i] = <<"old", j>>
          <6>1. box[i] = mail[j]
            BY <1>11, <5>1
          <6>2. Msg(<<p, i>>)' = box[i]
            BY <3>1, <4>3 DEF Msg
          <6>3. Msg(<<p, j>>) = mail[j]
            BY <5>1 DEF Msg
          <6>4. origin[i] = <<"old", j>>
            BY <4>3
          <6>5. QED
            BY <6>1, <6>2, <6>3, <6>4
        <5>3. Bears(<<p, j>>) /\ <<p, j>> \in Slots /\ <<p, j>> # <<p, 1>>
          <6>1. j \in 0..Len(mail) /\ j # 0 /\ j # 1
            BY <5>1
          <6>2. <<p, j>> \in Slots
            BY <1>1, <6>1, SlotsAre
          <6>3. QED
            BY <6>1, <6>2 DEF Bears
        <5>4. Unaffected(Msg(<<p, j>>), Bears(<<p, i>>)', F)
          BY <1>7, <5>3 DEF Unaffected
        <5>5. j \in 0..Len(mail)
          BY <5>1
        <5> HIDE DEF j
        <5>6. QED
          BY <5>2, <5>3, <5>4, <5>5
      <4>4. QED
        BY <4>1, <4>2, <4>3
    <3>3. \A i, j \in 0..Len(box) : i # j => origin[i] # origin[j]
      <4> SUFFICES ASSUME NEW i \in 0..Len(box), NEW j \in 0..Len(box), i # j
                   PROVE  origin[i] # origin[j]
        OBVIOUS
      <4>1. "old" # "new"
        OBVIOUS
      <4>2. QED
        BY <3>1, <4>1
    <3> HIDE DEF origin
    <3>4. QED
      BY <3>1, <3>2, <3>3 DEF Moves
  <2> HIDE DEF origin
  <2>5. QED
    BY <1>1, <1>9, <1>10, <1>14, <2>1, <2>3, <2>4, MessagesStep
<1>21. Holds(p)' /\ CombinesOwn(p)'
  <2>1. \A i \in DOMAIN box : box[i] # NoMessage
    <3> SUFFICES ASSUME NEW i \in DOMAIN box PROVE box[i] # NoMessage
      OBVIOUS
    <3>1. i \in 1..Len(box) /\ DOMAIN answer = 1..Len(answer) /\ DOMAIN mail = 1..Len(mail)
      BY <1>2, <1>10, <1>11
    <3>2. CASE i <= Len(answer)
      BY <1>10, <1>11, <3>1, <3>2
    <3>3. CASE ~(i <= Len(answer))
      <4>1. i - Len(answer) + 1 \in DOMAIN mail /\ box[i] = mail[i - Len(answer) + 1]
        <5>1. i \in Len(answer)+1..Len(box) /\ i - Len(answer) + 1 \in 1..Len(mail)
          BY <1>3, <1>11, <3>1, <3>3
        <5>2. box[i] = mail[i - Len(answer) + 1]
          BY <1>11, <5>1
        <5>3. QED
          BY <3>1, <5>1, <5>2
      <4>2. \A j \in DOMAIN mail : Sent(access, mail[j])
        BY <1>1 DEF Holds
      <4>3. QED
        BY <4>1, <4>2, MessageFlags
    <3>4. QED
      BY <3>2, <3>3
  <2>2. \A i \in DOMAIN frame'[p].mailBox : frame'[p].mailBox[i] # NoMessage
    BY <1>12, <1>14, <2>1
  <2>3. \A i \in DOMAIN frame'[p].mailBox : Sent(access', frame'[p].mailBox[i])
    BY <1>14, <1>20, <2>2, MailIsSent
  <2>4. Sent(access', m)
    <3>1. <<p, 0>> \in Slots' /\ Msg(<<p, 0>>)' = m
      BY <1>12, <1>14 DEF Slots, Msg, TypesOK
    <3>2. QED
      BY <1>4, <1>20, <3>1 DEF SlotsOK
  <2>5. QED
    BY <1>12, <1>14, <2>3, <2>4 DEF Holds, CombinesOwn
<1>22. \A b \in AccessId : LastBelow(b)' = LastBelow(b)
  BY <1>6 DEF LastBelow
<1>23. \A b \in Access : REDUCTION_COMBINED \notin F[b]
  BY <1>7, <1>8 DEF Note
<1>24. QED
  BY <1>7, <1>9, <1>14, <1>16, <1>17, <1>19, <1>20, <1>21, <1>22, <1>23, AddingStep

-----------------------------------------------------------------------------
(* A step that links accesses.                                             *)

(* Access a of A is linked to "next" and "down" and has got the flags X.   *)
Relinks(A, B, a, next, down, X) ==
  /\ IsAccessMap(B) /\ Of(B) = Of(A) /\ \A t \in Task : DOMAIN B[t] = DOMAIN A[t]
  /\ \A b \in Of(A) :
       /\ At(B, b).flags = IF b = a THEN At(A, b).flags \cup X ELSE At(A, b).flags
       /\ At(B, b).type = At(A, b).type /\ At(B, b).weak = At(A, b).weak
       /\ At(B, b).successor = IF b = a THEN next ELSE At(A, b).successor
       /\ At(B, b).child = IF b = a THEN down ELSE At(A, b).child

(* One field of an access is assigned.                                     *)
LEMMA FieldSet ==
  ASSUME NEW A, IsAccessMap(A), NEW a \in Of(A), NEW s \in AccessId \cup {NoAccess}
  PROVE  /\ Relinks(A, [A EXCEPT ![a[1]][a[2]].successor = s], a, s, At(A, a).child, {})
         /\ Relinks(A, [A EXCEPT ![a[1]][a[2]].child = s], a, At(A, a).successor, s, {})
         /\ Relinks(A, [A EXCEPT ![a[1]][a[2]].reductionInfo = s], a, At(A, a).successor, At(A, a).child, {})
<1>1. a \in AccessId /\ a[2] \in DOMAIN A[a[1]]
  BY DEF Of
<1>2. At(A, a) \in AccessRecord /\ A[a[1]][a[2]] = At(A, a)
  BY <1>1 DEF IsAccessMap, At
<1>3. ASSUME NEW r \in AccessRecord, r.flags = At(A, a).flags, r.type = At(A, a).type, r.weak = At(A, a).weak
      PROVE  Relinks(A, [A EXCEPT ![a[1]][a[2]] = r], a, r.successor, r.child, {})
  <2> DEFINE B == [A EXCEPT ![a[1]][a[2]] = r]
  <2>1. IsPut(A, B, a, r)
    BY <1>1, Put, Zenon
  <2> HIDE DEF B
  <2>2. /\ IsAccessMap(B) /\ \A t \in Task : DOMAIN B[t] = DOMAIN A[t]
        /\ \A b \in Of(A) : At(B, b) = IF b = a THEN r ELSE At(A, b)
    BY <2>1 DEF IsPut, Of, At
  <2>3. Of(B) = Of(A)
    BY <2>2 DEF Of, AccessId
  <2>4. Relinks(A, B, a, r.successor, r.child, {})
    BY <1>3, <2>2, <2>3 DEF Relinks
  <2>5. QED
    BY <2>4 DEF B
<1>4. Relinks(A, [A EXCEPT ![a[1]][a[2]].successor = s], a, s, At(A, a).child, {})
  <2> DEFINE r == [At(A, a) EXCEPT !.successor = s]
  <2>1. /\ r \in AccessRecord /\ r.flags = At(A, a).flags /\ r.type = At(A, a).type
        /\ r.weak = At(A, a).weak /\ r.successor = s /\ r.child = At(A, a).child
    BY <1>2, RecordUpdates
  <2>2. [A EXCEPT ![a[1]][a[2]].successor = s] = [A EXCEPT ![a[1]][a[2]] = r]
    BY DEF At
  <2> HIDE DEF r
  <2>3. Relinks(A, [A EXCEPT ![a[1]][a[2]] = r], a, r.successor, r.child, {})
    BY <1>3, <2>1
  <2>4. QED
    BY <2>1, <2>2, <2>3, Zenon
<1>5. Relinks(A, [A EXCEPT ![a[1]][a[2]].child = s], a, At(A, a).successor, s, {})
  <2> DEFINE r == [At(A, a) EXCEPT !.child = s]
  <2>1. /\ r \in AccessRecord /\ r.flags = At(A, a).flags /\ r.type = At(A, a).type
        /\ r.weak = At(A, a).weak /\ r.successor = At(A, a).successor /\ r.child = s
    BY <1>2, RecordUpdates
  <2>2. [A EXCEPT ![a[1]][a[2]].child = s] = [A EXCEPT ![a[1]][a[2]] = r]
    BY DEF At
  <2> HIDE DEF r
  <2>3. Relinks(A, [A EXCEPT ![a[1]][a[2]] = r], a, r.successor, r.child, {})
    BY <1>3, <2>1
  <2>4. QED
    BY <2>1, <2>2, <2>3, Zenon
<1>6. Relinks(A, [A EXCEPT ![a[1]][a[2]].reductionInfo = s], a, At(A, a).successor, At(A, a).child, {})
  <2> DEFINE r == [At(A, a) EXCEPT !.reductionInfo = s]
  <2>1. /\ r \in AccessRecord /\ r.flags = At(A, a).flags /\ r.type = At(A, a).type
        /\ r.weak = At(A, a).weak /\ r.successor = At(A, a).successor /\ r.child = At(A, a).child
    BY <1>2, RecordUpdates
  <2>2. [A EXCEPT ![a[1]][a[2]].reductionInfo = s] = [A EXCEPT ![a[1]][a[2]] = r]
    BY DEF At
  <2> HIDE DEF r
  <2>3. Relinks(A, [A EXCEPT ![a[1]][a[2]] = r], a, r.successor, r.child, {})
    BY <1>3, <2>1
  <2>4. QED
    BY <2>1, <2>2, <2>3, Zenon
<1>7. QED
  BY <1>4, <1>5, <1>6

(* ... and then it gets flags.                                             *)
LEMMA LinkedAndGained ==
  ASSUME NEW A, NEW B, NEW a \in Of(A), NEW next, NEW down, Relinks(A, B, a, next, down, {}),
         NEW X \in SUBSET Flag
  PROVE  Relinks(A, Added(B, a, X), a, next, down, X)
<1> DEFINE C == Added(B, a, X)
<1>1. IsAccessMap(B) /\ a \in Of(B)
  BY DEF Relinks
<1>2. OnlyGains(B, C, a, X)
  BY <1>1, Gained
<1> HIDE DEF C
<1>3. Relinks(A, C, a, next, down, X)
  BY <1>2 DEF Relinks, OnlyGains
<1>4. QED
  BY <1>3 DEF C

(* The flags that come with a link lead to no other place.                 *)
LEMMA LinkChanges ==
  ASSUME TypesOK, NEW a \in Access, NEW X \in SUBSET Flag, NEW next, NEW down,
         Relinks(access, access', a, next, down, X),
         next # At(access, a).successor => At(access, a).successor = NoAccess /\ HASNEXT \in X,
         down # At(access, a).child => At(access, a).child = NoAccess /\ HASCHILD \in X,
         NEXTISPARENT \in X => At(access, a).successor = NoAccess
  PROVE  /\ Changes(access, access', Gains(a, X)) /\ Access' = Access /\ IsAccessMap(access')
         /\ \A t \in Task : Declared(t)' = Declared(t)
<1>1. Gains(a, X) \in [Of(access) -> SUBSET Flag] /\ \A b \in Of(access) : Gains(a, X)[b] = IF b = a THEN X ELSE {}
  BY DEF Gains, Access
<1>2. Of(access') = Of(access)
  BY DEF Relinks
<1>3. ASSUME NEW b \in Of(access)
      PROVE  /\ At(access', b).type = At(access, b).type
             /\ At(access', b).flags = At(access, b).flags \cup Gains(a, X)[b]
             /\ At(access', b).successor # At(access, b).successor =>
                  At(access, b).successor = NoAccess /\ HASNEXT \in Gains(a, X)[b]
             /\ At(access', b).child # At(access, b).child =>
                  At(access, b).child = NoAccess /\ HASCHILD \in Gains(a, X)[b]
             /\ NEXTISPARENT \in Gains(a, X)[b] => At(access, b).successor = NoAccess
  BY <1>1 DEF Relinks
<1>4. QED
  BY <1>1, <1>2, <1>3 DEF Changes, Relinks, Access, Declared

(* A link that makes an access answer makes it answer where it leads to.   *)
LEMMA LinkAnswers ==
  ASSUME NEW a, NEW acc, NEW new, NEW next, NEW child,
         Messages(a, acc, new, next, child) # <<>>
  PROVE  LET m == Messages(a, acc, new, next, child)[1]
         IN  /\ new \subseteq {HASNEXT, NEXTISPARENT} => m.flagsForNext # {} /\ m.to = next
             /\ new = {HASCHILD} => m.flagsForNext # {} /\ m.to = child
<1> DEFINE M    == Messages(a, acc, new, next, child)
           all  == acc.flags \cup new
           toC  == KindsForChild(new, all)
           toN  == KindsForNext(acc.type, new, all)
           run  == Schedules(acc.type, acc.weak, new)
           comb == Combines(acc.type, new)
           mN(b) == MessageToNext(a, toN, next, all, b)
           mC   == MessageToChild(a, toC, child, run)
           With(m) == [m EXCEPT !.combine = comb,
                       !.flagsAfterPropagation = @ \cup (IF comb THEN {REDUCTION_COMBINED} ELSE {})]
<1>1. /\ toN # {} => \A b : mN(b).flagsForNext # {} /\ mN(b).to = next
      /\ toC # {} => mC.flagsForNext # {} /\ mC.to = child
  BY DEF MessageToNext, MessageToChild, NoMessage, Satisfied, ChildDone
<1>2. /\ \A b : With(mN(b)).flagsForNext = mN(b).flagsForNext /\ With(mN(b)).to = mN(b).to
      /\ With(mC).flagsForNext = mC.flagsForNext /\ With(mC).to = mC.to
  BY DEF MessageToNext, MessageToChild, NoMessage
<1>3. new \subseteq {HASNEXT, NEXTISPARENT} \/ new = {HASCHILD} => ~run /\ ~comb
  <2>1. \A t : <<"SATISFIED", t>> \notin {HASNEXT, NEXTISPARENT, HASCHILD}
    BY DEF HASNEXT, NEXTISPARENT, HASCHILD
  <2>2. run => \E t : <<"SATISFIED", t>> \in new
    BY DEF Schedules, Satisfied
  <2>3. comb => \E t : <<"SATISFIED", t>> \in new
    BY DEF Combines, Satisfied
  <2>4. QED
    BY <2>1, <2>2, <2>3
<1>4. new \subseteq {HASNEXT, NEXTISPARENT} => toC = {}
  <2>1. \A k : HASNEXT \notin Satisfied({k}) \cup {HASCHILD} /\ NEXTISPARENT \notin Satisfied({k}) \cup {HASCHILD}
    BY DEF HASNEXT, NEXTISPARENT, HASCHILD, Satisfied
  <2>2. \A k : {HASNEXT, NEXTISPARENT} \cap (Satisfied({k}) \cup {HASCHILD}) = {}
    BY <2>1
  <2>3. QED
    BY <2>2 DEF KindsForChild, Propagates
<1>5. new = {HASCHILD} => toN = {}
  <2>1. \A k : HASCHILD \notin ReleaseCondition(acc.type, k)
    BY DEF HASNEXT, UNREGISTERED, HASCHILD, Satisfied, ChildDone, ReleaseCondition
  <2>2. QED
    BY <2>1 DEF KindsForNext, Propagates
<1>6. M = IF acc.type \in SharedType
          THEN (IF toN # {} \/ (run /\ toC = {}) THEN <<mN(run /\ toC = {})>> ELSE <<>>)
                 \o (IF toC # {} THEN <<mC>> ELSE <<>>)
          ELSE IF toC \cup toN = {} /\ ~run /\ ~comb THEN <<>>
          ELSE <<With(IF toC # {} /\ toN = {} THEN <<mC>>[1] ELSE mN(run))>>
  BY Zenon DEF Messages
<1>7. <<mC>>[1] = mC
  OBVIOUS
<1> HIDE DEF M, toC, toN, run, comb, mN, mC, With
<1>8. CASE new \subseteq {HASNEXT, NEXTISPARENT}
  <2>1. \/ M = <<>> \o <<>>
        \/ toN # {} /\ \E b : M = <<mN(b)>> \o <<>>
        \/ toN # {} /\ \E b : M = <<With(mN(b))>>
        \/ M = <<>>
    BY <1>3, <1>4, <1>6, <1>8
  <2>2. toN # {} /\ \E b : M = <<mN(b)>> \/ M = <<With(mN(b))>>
    BY <2>1, ConcatOfOne DEF M
  <2>3. PICK b : M = <<mN(b)>> \/ M = <<With(mN(b))>>
    BY <2>2
  <2>4. M[1] = mN(b) \/ M[1] = With(mN(b))
    BY <2>3
  <2>5. M[1].flagsForNext # {} /\ M[1].to = next
    BY <1>1, <1>2, <2>2, <2>4
  <2>6. HASCHILD \notin {HASNEXT, NEXTISPARENT}
    BY DEF HASNEXT, NEXTISPARENT, HASCHILD
  <2>7. QED
    BY <1>8, <2>5, <2>6 DEF M
<1>9. CASE new = {HASCHILD}
  <2>1. \/ M = <<>> \o <<>>
        \/ toC # {} /\ M = <<>> \o <<mC>>
        \/ toC # {} /\ M = <<With(mC)>>
        \/ M = <<>>
    BY <1>3, <1>5, <1>6, <1>7, <1>9
  <2>2. toC # {} /\ (M = <<mC>> \/ M = <<With(mC)>>)
    BY <2>1, ConcatOfOne DEF M
  <2>3. M[1] = mC \/ M[1] = With(mC)
    BY <2>2
  <2>4. M[1].flagsForNext # {} /\ M[1].to = child
    BY <1>1, <1>2, <2>2, <2>3
  <2>5. HASCHILD \notin {HASNEXT, NEXTISPARENT}
    BY DEF HASNEXT, NEXTISPARENT, HASCHILD
  <2>6. QED
    BY <1>9, <2>4, <2>5 DEF M
<1>10. QED
  BY <1>8, <1>9 DEF M

(* A thread with an empty mailbox takes the first of the answers.          *)
LEMMA LinkMessages ==
  ASSUME TypesOK, TypesOK', SlotsOK, NoDuplicates, NEW F, Changes(access, access', F), NEW p \in Task,
         \A q \in Task \ {p} : pc'[q] = pc[q] /\ frame'[q] = frame[q],
         frame'[p].mailBox = <<>>, NEW answer, Answers(F, answer),
         frame'[p].message = NoMessage \/ (1 \in DOMAIN answer /\ frame'[p].message = answer[1]),
         \A s \in Slots : s[1] # p => Unaffected(Msg(s), Bears(s), F)
  PROVE  SlotsOK' /\ NoDuplicates' /\ Combinations(F)
<1> DEFINE origin == [i \in {0} |-> IF frame'[p].message = NoMessage THEN None ELSE <<"new", 1>>]
<1>1. \A q \in Task \ {p} : Len(frame'[q].mailBox) = Len(frame[q].mailBox)
  OBVIOUS
<1>2. OthersKeep(p, F)
  <2> SUFFICES ASSUME NEW s \in Slots, s[1] # p
               PROVE  Msg(s)' = Msg(s) /\ (Bears(s)' => Bears(s)) /\ Unaffected(Msg(s), Bears(s), F)
    BY DEF OthersKeep
  <2>1. s[1] \in Task
    BY SlotsAre
  <2>2. Msg(s)' = Msg(s) /\ (Bears(s)' => Bears(s))
    BY <2>1 DEF Msg, Bears
  <2>3. QED
    BY <2>2
<1>3. Moves(p, origin, answer, F)
  <2>1. Len(frame'[p].mailBox) = 0 /\ 0..Len(frame'[p].mailBox) = {0}
    BY EmptySeq
  <2>2. Msg(<<p, 0>>)' = frame'[p].message
    BY DEF Msg
  <2>3. \/ origin[0] = None /\ Msg(<<p, 0>>)' = NoMessage
        \/ \E j \in DOMAIN answer : origin[0] = <<"new", j>> /\ Msg(<<p, 0>>)' = answer[j]
    BY <2>2
  <2> HIDE DEF origin
  <2>4. QED
    BY <2>1, <2>3 DEF Moves
<1> HIDE DEF origin
<1>4. QED
  BY <1>1, <1>2, <1>3, MessagesStep

(* The flags that come with a link disturb no message under way.           *)
LEMMA LinkDisturbsNothing ==
  ASSUME SlotsOK, NEW F, \A b \in Access : F[b] \subseteq {HASNEXT, HASCHILD, NEXTISPARENT},
         NEW s \in Slots
  PROVE  Unaffected(Msg(s), Bears(s), F)
<1> SUFFICES ASSUME Msg(s) # NoMessage
             PROVE  /\ Msg(s).flagsAfterPropagation \cap F[Msg(s).from] = {}
                    /\ Bears(s) /\ Msg(s).to \in Access => Msg(s).flagsForNext \cap F[Msg(s).to] = {}
  BY DEF Unaffected
<1>1. Sent(access, Msg(s)) /\ Msg(s).from \in Access
  BY DEF SlotsOK, Sent, Access
<1>2. Msg(s).flagsAfterPropagation \subseteq Note
  BY <1>1, MessageFlags
<1>3. Bears(s) => Msg(s).flagsForNext \subseteq Satisfied(Kind) \cup ChildDone(Kind)
  BY MessageFlags DEF SlotsOK
<1>4. {HASNEXT, HASCHILD, NEXTISPARENT} \cap (Satisfied(Kind) \cup ChildDone(Kind) \cup Note) = {}
  BY FlagsDiffer
<1>5. QED
  BY <1>1, <1>2, <1>3, <1>4

(* The last access below an access is not linked before the access ends.   *)
LEMMA LastIsOpen ==
  ASSUME IInv, NEW a \in AccessId, LastBelow(a) # NoAccess,
         a \in Access => UNREGISTERED \notin At(access, a).flags,
         a \in Access => pc[a[1]] \notin Joining
  PROVE  /\ LastBelow(a) \in Access /\ Inserted(LastBelow(a)) /\ Above(LastBelow(a)) = a
         /\ At(access, LastBelow(a)).successor = NoAccess
         /\ {HASNEXT, NEXTISPARENT} \cap At(access, LastBelow(a)).flags = {}
<1> DEFINE last == LastBelow(a)
<1>1. Links /\ Endings
  BY DEF IInv, Links
<1>2. last \in Access /\ Inserted(last) /\ Above(last) = a
  BY <1>1 DEF Links, BottomLinks
<1>3. NEXTISPARENT \notin At(access, last).flags
  <2> SUFFICES ASSUME NEXTISPARENT \in At(access, last).flags PROVE FALSE
    OBVIOUS
  <2>1. At(access, last).successor \in Access
    BY <1>1, <1>2 DEF Links, LinkFlags, SuccessorLinks
  <2>2. At(access, last).successor = a
    BY <1>1, <1>2, <2>1 DEF Links, SuccessorLinks
  <2>3. a \in Access
    BY <2>1, <2>2
  <2>4. QED
    BY <1>1, <1>2, <2>3 DEF Endings
<1>4. At(access, last).successor = NoAccess
  BY <1>1, <1>2, <1>3 DEF Links, BottomLinks
<1>5. HASNEXT \notin At(access, last).flags
  BY <1>1, <1>2, <1>4 DEF Links, LinkFlags
<1>6. QED
  BY <1>2, <1>3, <1>4, <1>5

(* What a step that links accesses has to show.                            *)
LEMMA LinkingStep ==
  ASSUME IInv, TypesOK', NEW p \in Task,
         \A q \in Task \ {p} : pc'[q] = pc[q] /\ frame'[q] = frame[q],
         NEW F, Changes(access, access', F),
         \A b \in Access : REDUCTION_COMBINED \notin F[b],
         Control', Links', Endings', SlotsOK', NoDuplicates', Combinations(F),
         Holds(p)', CombinesOwn(p)', Causes'
  PROVE  IInv'
<1>1. ASSUME NEW q \in Task PROVE Holds(q)' /\ CombinesOwn(q)'
  <2>1. CASE q # p
    <3>1. TypesOK /\ Holds(q) /\ CombinesOwn(q)
      BY DEF IInv, Messaging
    <3>2. frame'[q] = frame[q] /\ pc'[q] = pc[q]
      BY <2>1
    <3>3. QED
      BY <3>1, <3>2, HoldsKept, CombinesKept
  <2>2. QED
    BY <2>1
<1>2. QED
  BY <1>1 DEF IInv, Links, Messaging

(* The last access below access a is chained to it.                        *)
LEMMA JoinLinks ==
  ASSUME IInv, program' = program, NEW a \in Access, Inserted(a),
         NEW last \in Access, last = LastBelow(a), Above(last) = a, Inserted(last),
         At(access, last).successor = NoAccess, NEXTISPARENT \notin At(access, last).flags,
         Relinks(access, access', last, a, At(access, last).child, {HASNEXT, NEXTISPARENT}),
         \A b \in Access : Inserted(b)' <=> Inserted(b),
         \A b \in AccessId : LastBelow(b)' = LastBelow(b)
  PROVE  Links'
<1>1. /\ Access' = Access /\ Of(access') = Of(access) /\ Access = Of(access)
      /\ \A b : Above(b)' = Above(b)
      /\ Links
  BY SameProgram DEF Relinks, Access, IInv, Links
<1>2. \A b \in Access :
        /\ At(access', b).flags = IF b = last THEN At(access, b).flags \cup {HASNEXT, NEXTISPARENT}
                                  ELSE At(access, b).flags
        /\ At(access', b).successor = IF b = last THEN a ELSE At(access, b).successor
        /\ At(access', b).child = At(access, b).child
  BY <1>1 DEF Relinks
<1>3. HASCHILD \notin {HASNEXT, NEXTISPARENT} /\ a # NoAccess
  BY NoAccessIsNone DEF HASCHILD, HASNEXT, NEXTISPARENT, Access
<1>4. LinkFlags'
  BY <1>1, <1>2, <1>3, ZenonT(30) DEF LinkFlags, Links
<1>5. NotYetLinked'
  <2>1. ASSUME NEW c \in Access, ~Inserted(c)
        PROVE  /\ At(access', c).flags = {}
               /\ \A b \in Access : At(access', b).successor # c /\ At(access', b).child # c
    <3>1. c # last /\ c # a
      BY <2>1
    <3>2. At(access, c).flags = {} /\ \A b \in Access : At(access, b).successor # c /\ At(access, b).child # c
      BY <1>1, <2>1 DEF NotYetLinked, Links
    <3>3. QED
      BY <1>2, <3>1, <3>2
  <2>2. QED
    BY <1>1, <2>1 DEF NotYetLinked
<1>6. ChildLinks'
  BY <1>1, <1>2 DEF ChildLinks, Links
<1>7. SuccessorLinks'
  <2>1. ASSUME NEW b \in Access
        PROVE  /\ At(access', b).successor \in Access \cup {NoAccess}
               /\ \A c \in Access : At(access', b).successor = c =>
                    IF NEXTISPARENT \in At(access', b).flags THEN c = Above(b)
                    ELSE Inserted(c)' /\ Above(c) = Above(b) /\ c # b
    <3>1. CASE b = last
      BY <1>2, <3>1
    <3>2. CASE b # last
      BY <1>1, <1>2, <3>2, ZenonT(30) DEF SuccessorLinks, Links
    <3>3. QED
      BY <3>1, <3>2
  <2>2. QED
    BY <1>1, <2>1 DEF SuccessorLinks
<1>8. \A b, c \in Access :
        At(access', b).successor = c /\ NEXTISPARENT \notin At(access', b).flags =>
          At(access, b).successor = c /\ NEXTISPARENT \notin At(access, b).flags
  <2> SUFFICES ASSUME NEW b \in Access, NEW c \in Access, At(access', b).successor = c,
                      NEXTISPARENT \notin At(access', b).flags
               PROVE  At(access, b).successor = c /\ NEXTISPARENT \notin At(access, b).flags
    OBVIOUS
  <2>1. b # last
    BY <1>2
  <2>2. QED
    BY <1>2, <2>1
<1>9. OnePredecessor'
  <2>1. OnePredecessor
    BY <1>1 DEF Links
  <2>2. ASSUME NEW b \in Access, NEW d \in Access, NEW c \in Access,
               At(access', b).successor = c, NEXTISPARENT \notin At(access', b).flags
        PROVE  /\ At(access', d).child # c
               /\ (At(access', d).successor = c /\ NEXTISPARENT \notin At(access', d).flags) => b = d
    <3>1. At(access, b).successor = c /\ NEXTISPARENT \notin At(access, b).flags
      BY <1>8, <2>2
    <3>2. /\ At(access, d).child # c
          /\ (At(access, d).successor = c /\ NEXTISPARENT \notin At(access, d).flags) => b = d
      BY <2>1, <3>1 DEF OnePredecessor
    <3>3. QED
      BY <1>2, <1>8, <3>2
  <2>3. QED
    BY <1>1, <2>2 DEF OnePredecessor, At
<1>10. BottomLinks'
  <2>1. a \in AccessId /\ \A b \in Access : b \in AccessId
    BY DEF Access, Of
  <2>2. BottomLinks
    BY <1>1 DEF Links
  <2>3. ASSUME NEW b \in AccessId
        PROVE  /\ LastBelow(b) \in Access \cup {NoAccess}
               /\ \A c \in Access : LastBelow(b) = c =>
                    /\ Inserted(c)' /\ Above(c) = b
                    /\ At(access', c).successor # NoAccess => NEXTISPARENT \in At(access', c).flags
               /\ b \in Access => (LastBelow(b) = NoAccess <=> At(access', b).child = NoAccess)
    <3>1. LastBelow(b) \in Access \cup {NoAccess} /\ (b \in Access => (LastBelow(b) = NoAccess <=> At(access', b).child = NoAccess))
      BY <1>2, <2>2 DEF BottomLinks
    <3>2. ASSUME NEW c \in Access, LastBelow(b) = c
          PROVE  /\ Inserted(c)' /\ Above(c) = b
                 /\ At(access', c).successor # NoAccess => NEXTISPARENT \in At(access', c).flags
      <4>1. Inserted(c) /\ Above(c) = b /\ (At(access, c).successor # NoAccess => NEXTISPARENT \in At(access, c).flags)
        BY <2>2, <3>2 DEF BottomLinks
      <4>2. QED
        BY <1>2, <4>1
    <3>3. QED
      BY <3>1, <3>2
  <2>4. ASSUME NEW c \in Access, NEW b \in AccessId, NEXTISPARENT \in At(access', c).flags, Above(c) = b
        PROVE  LastBelow(b) = c
    <3>1. CASE c = last
      BY <2>4, <3>1
    <3>2. CASE c # last
      BY <1>2, <2>2, <2>4, <3>2 DEF BottomLinks
    <3>3. QED
      BY <3>1, <3>2
  <2>5. QED
    BY <1>1, <2>3, <2>4 DEF BottomLinks
<1>11. QED
  BY <1>4, <1>5, <1>6, <1>7, <1>9, <1>10 DEF Links

(* An access that is inserted belongs to a task another one created.       *)
LEMMA InsertedHasParent ==
  ASSUME TypesOK, Control, NEW c \in Access, Inserted(c)
  PROVE  c[1] \in Task \ {Main} /\ Parent[c[1]] \in Task /\ Parent[c[1]] # c[1]
<1>1. c[1] # Main
  <2>1. Declared(Main) = {}
    <3>1. program \in DOMAIN Programs
      BY DEF TypesOK
    <3>2. PICK D \in Programs[program].declarations : \A t \in Task : Declared(t) = DOMAIN D[t]
      BY DEF TypesOK
    <3>3. DOMAIN D[Main] = {}
      BY <3>1, ProperDeclarations
    <3>4. QED
      BY <3>2, <3>3, RegistrationAssumption
  <2>2. QED
    BY <2>1 DEF Access, Of, Declared
<1>2. QED
  BY <1>1 DEF Inserted, Access, Of, AccessId, Control, CreatedAt

(* The end of an access with subaccesses: the last one is chained to it.   *)
LEMMA JoinChildrenKeeps ==
  ASSUME IInv, NEW p \in Task, NEW x, MayEnd(p, x), pc[p] # "unregister",
         JoinChildren(p, x), program' = program
  PROVE  IInv'
<1> DEFINE a == <<p, x>>
           last == bottomMap[p][x].access
           X == {HASNEXT, NEXTISPARENT}
           F == Gains(last, X)
           A1 == [access EXCEPT ![last[1]][x].successor = a]
           message == Single(A1, last, X)
           place == IF message.flagsForNext = {} THEN "unregister" ELSE "joinGive"
           f == [frame[p] EXCEPT !.addr = a, !.todo = @ \ {x}, !.message = message]
<1>1. /\ access' = Added(A1, last, X)
      /\ frame' = [frame EXCEPT ![p].addr = a, ![p].todo = @ \ {x}, ![p].message = message]
      /\ pc' = [pc EXCEPT ![p] = place]
      /\ bottomMap' = bottomMap
      /\ access[p][x].child # NoAccess
  BY Zenon DEF JoinChildren
<1> HIDE DEF A1, message, place, f, F
<1>2. /\ TypesOK /\ Control /\ SlotsOK /\ NoDuplicates /\ Endings /\ Links /\ Causes
  BY DEF IInv, Links, Messaging
<1>3. /\ a \in Access /\ a \in AccessId /\ UNREGISTERED \notin At(access, a).flags
      /\ pc[p] \in {"body", "finalize"} /\ frame[p].mailBox = <<>>
      /\ x \in Address /\ Inserted(a)
  <2>1. a \in Access /\ UNREGISTERED \notin At(access, a).flags /\ pc[p] \in {"body", "finalize"}
    BY DEF MayEnd
  <2>2. QED
    BY <2>1, EmptyHands DEF Access, Of, AccessId, Inserted
<1>4. last # NoAccess /\ last = LastBelow(a) /\ At(access, a).child # NoAccess
  <2>1. last = LastBelow(a) /\ At(access, a).child # NoAccess
    BY <1>1, Zenon DEF LastBelow, At
  <2>2. QED
    <3> HIDE DEF last, a, X
    <3>1. QED
      BY <1>2, <1>3, <2>1 DEF Links, BottomLinks
<1>5. /\ last \in Access /\ Inserted(last) /\ Above(last) = a
      /\ At(access, last).successor = NoAccess
      /\ X \cap At(access, last).flags = {}
  BY <1>3, <1>4, LastIsOpen DEF Joining
<1>6. last[1] # Main /\ last[1] # p /\ Parent[last[1]] = p /\ last # a
  <2>1. Parent[last[1]] = p
    BY <1>5 DEF Above
  <2>2. Parent[last[1]] # last[1] /\ last[1] # Main
    BY <1>2, <1>5, InsertedHasParent
  <2>3. QED
    BY <2>1, <2>2
<1> USE DEF A1, message, place, f, F
<1>7. /\ Relinks(access, A1, last, a, At(access, last).child, {})
      /\ Relinks(access, access', last, a, At(access, last).child, X)
  <2>1. IsAccessMap(access) /\ last \in Of(access) /\ a \in AccessId \cup {NoAccess}
    BY <1>2, <1>3, <1>5 DEF TypesOK, Access
  <2>6. last[2] = x /\ A1 = [access EXCEPT ![last[1]][last[2]].successor = a]
    BY <1>5 DEF Above
  <2>2. Relinks(access, A1, last, a, At(access, last).child, {})
    BY <2>1, <2>6, FieldSet
  <2>3. X \in SUBSET Flag
    BY DEF Flag
  <2> HIDE DEF A1, X
  <2>4. Relinks(access, access', last, a, At(access, last).child, X)
    BY <1>1, <2>1, <2>2, <2>3, LinkedAndGained
  <2>5. QED
    BY <2>2, <2>4 DEF A1
<1> HIDE DEF A1
<1>8. /\ Changes(access, access', F) /\ Access' = Access /\ IsAccessMap(access')
      /\ \A t \in Task : Declared(t)' = Declared(t)
  <2>1. X \in SUBSET Flag /\ HASNEXT \in X
    BY DEF Flag
  <2> HIDE DEF X
  <2>2. QED
    BY <1>2, <1>5, <1>7, <2>1, LinkChanges
<1>9. \A b \in Access : F[b] = IF b = last THEN X ELSE {}
  BY DEF Gains
<1>10. /\ X \cap (Satisfied(Kind) \cup ChildDone(Kind) \cup Note \cup {HASCHILD, UNREGISTERED}) = {}
  <2>1. X \cap (Satisfied(Kind) \cup ChildDone(Kind) \cup Note) = {}
    BY FlagsDiffer
  <2>2. HASCHILD \notin X /\ UNREGISTERED \notin X
    BY DEF HASCHILD, UNREGISTERED, HASNEXT, NEXTISPARENT
  <2> HIDE DEF X
  <2>3. QED
    BY <2>1, <2>2
<1>11. /\ message \in Message
       /\ \/ message = NoMessage
          \/ LET M == Messages(last, At(A1, last), X, a, At(A1, last).child)
             IN  M # <<>> /\ 1 \in DOMAIN M /\ message = M[1]
  <2>1. IsAccessMap(A1) /\ last \in Of(A1) /\ At(A1, last).successor = a
    <3> HIDE DEF message, place, f, F, last, X
    <3>1. QED
      BY <1>5, <1>7 DEF Relinks, Access
  <2>2. X \in SUBSET Flag
    BY DEF Flag
  <2> HIDE DEF X
  <2>3. QED
    BY <2>1, <2>2, SingleIs
<1>12. message # NoMessage => message.flagsForNext # {} /\ message.to = a
  <2> DEFINE M == Messages(last, At(A1, last), X, a, At(A1, last).child)
  <2> HIDE DEF message
  <2>1. X \subseteq {HASNEXT, NEXTISPARENT}
    OBVIOUS
  <2> HIDE DEF X
  <2>2. M # <<>> => M[1].flagsForNext # {} /\ M[1].to = a
    BY <2>1, LinkAnswers
  <2>3. QED
    BY <1>11, <2>2
<1>13. NoMessage.flagsForNext = {}
  BY DEF NoMessage
<1> HIDE DEF message, last
<1>14. f \in FrameRecord /\ f.ip = frame[p].ip /\ f.todo = frame[p].todo \ {x} /\ f.addr = a
       /\ f.message = message /\ f.mailBox = <<>>
  <2>1. frame[p] \in FrameRecord
    BY <1>2, FrameIs
  <2>2. QED
    BY <1>3, <1>11, <2>1 DEF FrameRecord
<1>15. frame' = [frame EXCEPT ![p] = f]
  BY <1>1, <1>2 DEF TypesOK
<1> HIDE DEF f
<1>16. /\ TypesOK' /\ pc'[p] = place /\ frame'[p] = f
       /\ \A q \in Task \ {p} : pc'[q] = pc[q] /\ frame'[q] = frame[q]
  <2>1. GoesTo(p, place, f)
    BY <1>1, <1>14, <1>15 DEF GoesTo, Place
  <2>2. bottomMap' \in BottomMaps
    BY <1>1, <1>2, FrameIs
  <2> HIDE DEF place
  <2>3. QED
    BY <1>2, <1>8, <2>1, <2>2, ThreadTypes
<1>17. place \in {"unregister", "joinGive"} /\ (place = "unregister" <=> message = NoMessage)
  BY <1>12, <1>13
<1> HIDE DEF place
<1>18. Body' = Body /\ DOMAIN Body[p] = 1..Len(Body[p]) /\ Len(Body[p]) \in Nat /\ frame[p].ip \in Nat
       /\ \A b : Above(b)' = Above(b)
  BY <1>2, SameProgram, Positions DEF TypesOK
<1>19. Finished(p)' <=> Finished(p)
  <2>1. Finished(p)' <=> frame[p].ip > Len(Body[p])
    BY <1>14, <1>16, <1>17, <1>18 DEF Finished
  <2>2. QED
    BY <1>18, <2>1 DEF MayEnd
<1>20. Advances(p)
  <2>1. frame[p].ip <= frame'[p].ip
    BY <1>2, <1>14, <1>16 DEF TypesOK
  <2>2. QED
    BY <1>3, <1>16, <1>17, <1>19, <2>1 DEF Advances, Creating
<1>21. \A b \in AccessId : LastBelow(b)' = LastBelow(b)
  BY <1>1 DEF LastBelow
<1>22. \A b \in Access : Inserted(b)' <=> Inserted(b)
  BY <1>2, <1>3, <1>8, <1>16, <1>20, InsertedKept DEF Creating
<1>23. \A b \in Access :
         /\ At(access', b).flags = IF b = last THEN At(access, b).flags \cup X ELSE At(access, b).flags
         /\ At(access', b).successor = IF b = last THEN a ELSE At(access, b).successor
         /\ At(access', b).child = At(access, b).child
  BY <1>7 DEF Relinks, Access
<1>24. Links'
  BY <1>3, <1>4, <1>5, <1>7, <1>21, <1>22, JoinLinks
<1>25. Control'
  <2>1. ASSUME NEW q \in Task \ {p}, NEW b \in Access, LinksAt(q, b), pc[q] \in {"give", "linked"}
        PROVE  At(access', b).successor = NoAccess /\ At(access', b).child = NoAccess
    <3>1. Parent[b[1]] = q
      BY <1>2, <2>1, Links1 DEF LinksAt
    <3>2. b # last
      BY <1>6, <2>1, <3>1
    <3>3. QED
      BY <1>23, <2>1, <3>2 DEF LinksAt
  <2>2. pc'[p] \notin {"give", "linked"}
    BY <1>16, <1>17
  <2>3. QED
    BY <1>2, <1>8, <1>16, <1>20, <2>1, <2>2, ControlKept
<1>26. \A b \in Access : F[b] \cap (ChildDone(Kind) \cup Satisfied(Kind) \cup Note \cup {UNREGISTERED}) = {}
  BY <1>9, <1>10
<1>27. NEXTISPARENT \in At(access', last).flags /\ UNREGISTERED \notin At(access', a).flags
  BY <1>3, <1>5, <1>6, <1>23
<1>28. Endings'
  <2>1. \A b \in Access : UNREGISTERED \in F[b] => b[1] = p /\ ReleasedBy(p, b[2])'
    BY <1>26
  <2>2. \A b, c \in Access : NEXTISPARENT \in F[b] /\ Above(b) = c =>
          pc'[c[1]] \in Joining /\ frame'[c[1]].addr = c
    <3> SUFFICES ASSUME NEW b \in Access, NEW c \in Access, NEXTISPARENT \in F[b], Above(b) = c
                 PROVE  pc'[c[1]] \in Joining /\ frame'[c[1]].addr = c
      OBVIOUS
    <3>1. b = last
      BY <1>9
    <3>2. c = a /\ c[1] = p
      BY <1>5, <3>1
    <3>3. QED
      BY <1>14, <1>16, <1>17, <3>2 DEF Joining
  <2>3. pc[p] \notin Joining
    BY <1>3 DEF Joining
  <2>4. \A b \in Access : F[b] \cap ChildDone(Kind) = {}
    BY <1>26
  <2>5. \A b \in AccessId : LastBelow(b)' = LastBelow(b)
    BY <1>21
  <2>6. \A b \in Access : b \in AccessId
    BY DEF Access, Of
  <2>7. JoinsAt(p, a)'
    <3>1. frame'[p].addr = a /\ a[1] = p /\ UNREGISTERED \notin At(access', a).flags
          /\ At(access', a).child # NoAccess
      BY <1>3, <1>4, <1>14, <1>16, <1>23, <1>27
    <3>2. \A c \in Access : LastBelow(a)' = c => NEXTISPARENT \in At(access', c).flags
      BY <1>3, <1>4, <1>21, <1>27
    <3>3. IF Finished(p)' THEN x \notin frame'[p].todo
          ELSE frame'[p].ip \in DOMAIN Body[p] /\ Body[p][frame'[p].ip] = <<"release", x>>
      BY <1>14, <1>16, <1>19 DEF MayEnd, Op
    <3>4. QED
      BY <1>8, <1>18, <3>1, <3>2, <3>3 DEF JoinsAt, Op
  <2>8. ASSUME Finished(p)', NEW y \in frame'[p].todo
        PROVE  y \in Declared(p) /\ UNREGISTERED \notin At(access', <<p, y>>).flags
    <3>1. Finished(p) /\ pc[p] = "finalize" /\ y \in frame[p].todo
      BY <1>3, <1>14, <1>16, <1>19, <2>8 DEF Finished
    <3>2. y \in Declared(p) /\ UNREGISTERED \notin access[p][y].flags
      BY <1>2, <3>1 DEF Endings
    <3>3. <<p, y>> \in Access /\ At(access, <<p, y>>) = access[p][y]
      BY <1>2, <3>2 DEF Access, Of, AccessId, Declared, TypesOK, IsAccessMap, At
    <3>4. <<p, y>> # last
      BY <1>6, <3>3
    <3>5. QED
      BY <1>23, <3>2, <3>3, <3>4
  <2>9. pc'[p] \notin {"children", "finalize"}
    BY <1>16, <1>17
  <2>10. (\E b \in Access : JoinsAt(p, b))'
    BY <1>3, <1>8, <2>7
  <2> HIDE DEF F, X, a, f, place
  <2>11. QED
    BY <1>2, <1>8, <1>16, <1>20, <2>1, <2>2, <2>3, <2>4, <2>5, <2>6, <2>8, <2>9, <2>10, EndingsKept, ZenonT(60)
<1>29. \A k \in Kind : <<"CHILD_DONE", k>> \notin At(access, a).flags
  <2>1. At(access, a).flags \cap ChildDone(Kind) = {}
    BY <1>2, <1>3, <1>4, <1>5 DEF Endings
  <2>2. QED
    BY <2>1 DEF ChildDone
<1>30. Answering(access, access', F, last)
  <2>1. last \in Of(access) /\ F[last] = X
    BY <1>5, <1>9 DEF Access
  <2>2. \A g \in At(access, last).flags \cap Note : Justified(At(access, last).type, At(access, last).flags, g)
    BY <1>2, <1>5 DEF Causes
  <2>3. HASCHILD \in At(access', last).flags =>
          LET c == At(access', last).child
          IN  /\ c \in Of(access) /\ c # last /\ F[c] = {}
              /\ \A k \in Kind : <<"SATISFIED", k>> \in At(access, c).flags => ToChild(At(access, last).flags, k)
    <3> SUFFICES ASSUME HASCHILD \in At(access', last).flags
                 PROVE  LET c == At(access, last).child
                        IN  /\ c \in Access /\ c # last /\ F[c] = {}
                            /\ \A k \in Kind : <<"SATISFIED", k>> \in At(access, c).flags =>
                                 ToChild(At(access, last).flags, k)
      BY <1>5, <1>23 DEF Access
    <3> DEFINE c == At(access, last).child
    <3>1. HASCHILD \in At(access, last).flags
      BY <1>5, <1>10, <1>23
    <3>2. c # NoAccess
      BY <1>2, <1>5, <3>1 DEF Links, LinkFlags
    <3>3. c \in Access /\ c # last
      BY <1>2, <1>5, <3>2, NoSelfLinks
    <3>4. \A k \in Kind : <<"SATISFIED", k>> \in At(access, c).flags => ToChild(At(access, last).flags, k)
      BY <1>2, <1>5, <3>3, Zenon DEF Causes, PassedOn
    <3>5. QED
      BY <1>9, <3>3, <3>4
  <2>4. At(access', last).successor = a /\ a \in Of(access) /\ a # last /\ F[a] = {}
    BY <1>3, <1>5, <1>6, <1>9, <1>23 DEF Access
  <2>5. F[last] \cap At(access, last).flags = {} /\ F[last] \cap Note = {}
    BY <1>5, <1>10, <2>1
  <2>6. QED
    BY <1>27, <1>29, <2>1, <2>2, <2>3, <2>4, <2>5 DEF Answering
<1> DEFINE M == Messages(last, At(A1, last), X, a, At(A1, last).child)
<1>31. Answers(F, M)
  <2>1. At(A1, last).flags = At(access, last).flags /\ At(A1, last).type = At(access, last).type
        /\ At(A1, last).child = At(access', last).child /\ At(access', last).successor = a
    BY <1>5, <1>7 DEF Relinks, Access
  <2>2. F[last] = X
    BY <1>5, <1>9
  <2> HIDE DEF X
  <2>3. M = Messages(last, At(A1, last), F[last], At(access', last).successor, At(access', last).child)
    BY <2>1, <2>2
  <2>4. QED
    BY <1>30, <2>1, <2>3 DEF Answers
<1>32. SlotsOK' /\ NoDuplicates' /\ Combinations(F)
  <2>1. \A s \in Slots : Unaffected(Msg(s), Bears(s), F)
    <3>1. \A b \in Access : F[b] \subseteq {HASNEXT, HASCHILD, NEXTISPARENT}
      BY <1>9
    <3>2. QED
      BY <1>2, <3>1, LinkDisturbsNothing
  <2>2. frame'[p].message = NoMessage \/ (1 \in DOMAIN M /\ frame'[p].message = M[1])
    BY <1>11, <1>14, <1>16
  <2> HIDE DEF M
  <2>3. QED
    BY <1>2, <1>8, <1>14, <1>16, <1>31, <2>1, <2>2, LinkMessages
<1> HIDE DEF M
<1>33. Holds(p)' /\ CombinesOwn(p)'
  <2>1. message # NoMessage => Sent(access', message)
    <3>1. <<p, 0>> \in Slots' /\ Msg(<<p, 0>>)' = message
      BY <1>14, <1>16 DEF Slots, Msg, TypesOK
    <3>2. QED
      BY <1>32, <3>1 DEF SlotsOK
  <2>2. QED
    BY <1>12, <1>14, <1>16, <1>17, <2>1 DEF Holds, CombinesOwn
<1>34. Causes'
  <2>1. LinkFlags'
    BY <1>24 DEF Links
  <2>2. \A b \in Access : F[b] \cap Note = {} /\ \A k \in Kind : <<"SATISFIED", k>> \notin F[b] /\ <<"CHILD_DONE", k>> \notin F[b]
    BY <1>26 DEF Satisfied, ChildDone
  <2>3. ASSUME NEW b \in Access, NEW c \in Access, NEW k \in Kind
        PROVE  /\ ~(At(access', b).child = c /\ At(access, b).child # c)
               /\ At(access', b).successor = c /\ At(access, b).successor # c =>
                    (IF NEXTISPARENT \in At(access', b).flags THEN <<"CHILD_DONE", k>> ELSE <<"SATISFIED", k>>)
                      \notin At(access', c).flags
    <3>1. At(access', b).successor = c /\ At(access, b).successor # c => b = last /\ c = a
      BY <1>23
    <3>2. At(access', a).flags = At(access, a).flags
      BY <1>3, <1>6, <1>23
    <3>3. QED
      BY <1>23, <1>27, <1>29, <3>1, <3>2
  <2>4. QED
    BY <1>2, <1>8, <2>1, <2>2, <2>3, CausesKept
<1>35. \A b \in Access : REDUCTION_COMBINED \notin F[b]
  BY <1>26 DEF Note
<1>36. QED
  BY <1>8, <1>16, <1>24, <1>25, <1>28, <1>32, <1>33, <1>34, <1>35, LinkingStep

(* Where insertAccesses is.  The access of the parent is not unregistered: *)
(* a task creates no child below an access that it has released.           *)
LEMMA InsertContext ==
  ASSUME IInv, NEW p \in Task, pc[p] = "insert", NEW x \in frame[p].todo
  PROVE  LET c == Op(p)[2]
             new == <<c, x>>
             b == <<p, x>>
         IN  /\ c \in Task \ {Main} /\ c # p /\ Parent[c] = p /\ pc[c] = "registering"
             /\ Op(p) = <<"create", c>> /\ x \in Address /\ x \in Declared(c)
             /\ \A d \in Task : pc[d] = "registering" /\ Parent[d] = p => d = c
             /\ new \in Access /\ ~Inserted(new) /\ Above(new) = b /\ b \in AccessId
             /\ At(access, new).flags = {}
             /\ At(access, new).successor = NoAccess /\ At(access, new).child = NoAccess
             /\ \A d \in Access : At(access, d).successor # new /\ At(access, d).child # new
             /\ b \in Access => UNREGISTERED \notin At(access, b).flags /\ Inserted(b)
<1>1. TypesOK /\ Control /\ Links /\ Endings
  BY DEF IInv, Links
<1>2. PICK c \in Task \ {Main} :
        /\ frame[p].ip \in DOMAIN Body[p] /\ Op(p) = <<"create", c>> /\ Op(p)[2] = c
        /\ Parent[c] = p /\ c # p /\ pc[c] = "registering" /\ frame[p].todo \subseteq Declared(c)
        /\ \A d \in Task : pc[d] = "registering" /\ Parent[d] = p => d = c
  BY <1>1, Registers DEF Creating
<1> DEFINE new == <<c, x>>
           b == <<p, x>>
<1>3. x \in Address /\ x \in Declared(c) /\ b \in AccessId
  BY <1>1, <1>2 DEF TypesOK, AccessId
<1>4. new \in Access
  BY <1>3 DEF Access, Of, AccessId, Declared
<1>5. ~Inserted(new) /\ Above(new) = b
  BY <1>2 DEF Inserted, Above
<1>6. At(access, new).flags = {} /\ \A d \in Access : At(access, d).successor # new /\ At(access, d).child # new
  BY <1>1, <1>4, <1>5 DEF Links, NotYetLinked
<1>7. At(access, new).successor = NoAccess /\ At(access, new).child = NoAccess
  BY <1>1, <1>4, <1>6 DEF Links, LinkFlags
<1>8. ASSUME b \in Access PROVE UNREGISTERED \notin At(access, b).flags /\ Inserted(b)
  <2>1. Inserted(b)
    BY <1>8 DEF Inserted
  <2>2. ~ReleasedBy(p, x)
    <3> SUFFICES ASSUME NEW j \in DOMAIN Body[p], Body[p][j] = <<"release", x>>, j < frame[p].ip
                 PROVE  FALSE
      BY DEF ReleasedBy, Finished
    <3>1. program \in DOMAIN Programs
      BY <1>1 DEF TypesOK
    <3>2. PICK D \in Programs[program].declarations : \A t \in Task : Declared(t) = DOMAIN D[t]
      BY <1>1 DEF TypesOK
    <3>3. \A k \in DOMAIN Body[p] : Body[p][k][1] = "create" /\ j < k => x \notin DOMAIN D[Body[p][k][2]]
      <4>1. Body[p][j][1] = "release" /\ Body[p][j][2] = x
        OBVIOUS
      <4>2. QED
        BY <3>1, <4>1, ProperDeclarations DEF Body
    <3>4. Body[p][frame[p].ip] = <<"create", c>>
      BY <1>2 DEF Op
    <3>5. x \notin DOMAIN D[c]
      BY <1>2, <3>3, <3>4
    <3>6. QED
      BY <1>3, <3>2, <3>5
  <2>3. QED
    BY <1>1, <1>8, <2>1, <2>2 DEF Endings
<1>9. QED
  BY <1>2, <1>3, <1>4, <1>5, <1>6, <1>7, <1>8

(* The links after insertAccesses: access l, the last one of the address,  *)
(* or the one of the parent, or the new access itself, has got the flags X *)
(* that tell of the new access.                                            *)
InsertLinksOf(new, b, l, next, down, X) ==
  \/ /\ LastBelow(b) # NoAccess /\ l = LastBelow(b) /\ X = {HASNEXT}
     /\ next = new /\ down = At(access, l).child
  \/ /\ LastBelow(b) = NoAccess /\ b \in Access /\ l = b /\ X = {HASCHILD}
     /\ next = At(access, l).successor /\ down = new
  \/ /\ LastBelow(b) = NoAccess /\ b \notin Access /\ l = new /\ X = Satisfied(Kind)
     /\ next = At(access, l).successor /\ down = At(access, l).child

(* The access that tells of the new one is not linked already where the    *)
(* new one goes, and the flags it gets are new to it.                      *)
LEMMA InsertPlace ==
  ASSUME IInv, NEW p \in Task, pc[p] = "insert", NEW x \in frame[p].todo,
         NEW new, new = <<Op(p)[2], x>>, NEW b, b = <<p, x>>,
         NEW l, NEW next, NEW down, NEW X, InsertLinksOf(new, b, l, next, down, X)
  PROVE  /\ l \in Access /\ X \in SUBSET Flag /\ NEXTISPARENT \notin X
         /\ X \cap At(access, l).flags = {}
         /\ X \cap (ChildDone(Kind) \cup Note \cup {UNREGISTERED, NEXTISPARENT}) = {}
         /\ next # At(access, l).successor => At(access, l).successor = NoAccess /\ HASNEXT \in X
         /\ down # At(access, l).child => At(access, l).child = NoAccess /\ HASCHILD \in X
         /\ next = new => NEXTISPARENT \notin At(access, l).flags
         /\ l # new => Inserted(l) /\ X \subseteq {HASNEXT, HASCHILD}
         /\ next \in {new, At(access, l).successor} /\ down \in {new, At(access, l).child}
         /\ l = LastBelow(b) \/ l = b \/ l = new
<1>1. TypesOK /\ Control /\ Links /\ Endings
  BY DEF IInv, Links
<1>2. /\ new \in Access /\ ~Inserted(new) /\ Above(new) = b /\ b \in AccessId
      /\ At(access, new).flags = {}
      /\ At(access, new).successor = NoAccess /\ At(access, new).child = NoAccess
      /\ \A d \in Access : At(access, d).successor # new /\ At(access, d).child # new
      /\ b \in Access => UNREGISTERED \notin At(access, b).flags /\ Inserted(b)
  BY InsertContext
<1>3. /\ {HASNEXT, HASCHILD} \cap (ChildDone(Kind) \cup Note \cup {UNREGISTERED, NEXTISPARENT}) = {}
      /\ Satisfied(Kind) \cap (ChildDone(Kind) \cup Note \cup {UNREGISTERED, NEXTISPARENT}) = {}
      /\ {HASNEXT, HASCHILD} \subseteq Flag /\ Satisfied(Kind) \subseteq Flag
  <2>1. {HASNEXT, HASCHILD} \cap (ChildDone(Kind) \cup Note) = {} /\ Satisfied(Kind) \cap (ChildDone(Kind) \cup Note) = {}
        /\ UNREGISTERED \notin Satisfied(Kind) /\ NEXTISPARENT \notin Satisfied(Kind)
    BY FlagsDiffer
  <2>2. HASNEXT \notin {UNREGISTERED, NEXTISPARENT} /\ HASCHILD \notin {UNREGISTERED, NEXTISPARENT}
    BY DEF HASNEXT, HASCHILD, UNREGISTERED, NEXTISPARENT
  <2>3. {HASNEXT, HASCHILD} \subseteq Flag /\ Satisfied(Kind) \subseteq Flag
    BY DEF Flag
  <2>4. QED
    BY <2>1, <2>2, <2>3
<1>4. b \in Access => pc[b[1]] \notin Joining
  BY DEF Joining
<1>5. CASE LastBelow(b) # NoAccess
  <2>1. l = LastBelow(b) /\ X = {HASNEXT} /\ next = new /\ down = At(access, l).child
    BY <1>5 DEF InsertLinksOf
  <2>2. /\ l \in Access /\ Inserted(l) /\ At(access, l).successor = NoAccess
        /\ {HASNEXT, NEXTISPARENT} \cap At(access, l).flags = {}
    BY <1>2, <1>4, <1>5, <2>1, LastIsOpen
  <2>3. QED
    BY <1>2, <1>3, <2>1, <2>2
<1>6. CASE LastBelow(b) = NoAccess /\ b \in Access
  <2>1. l = b /\ X = {HASCHILD} /\ next = At(access, l).successor /\ down = new
    BY <1>6 DEF InsertLinksOf
  <2>2. At(access, l).child = NoAccess /\ HASCHILD \notin At(access, l).flags
    BY <1>1, <1>2, <1>6, <2>1 DEF Links, BottomLinks, LinkFlags
  <2>3. QED
    BY <1>2, <1>3, <1>6, <2>1, <2>2
<1>7. CASE LastBelow(b) = NoAccess /\ b \notin Access
  <2>1. l = new /\ X = Satisfied(Kind) /\ next = At(access, l).successor /\ down = At(access, l).child
    BY <1>7 DEF InsertLinksOf
  <2>2. QED
    BY <1>2, <1>3, <2>1
<1>8. QED
  BY <1>5, <1>6, <1>7

(* The links are in order after insertAccesses.                            *)
LEMMA InsertedLinks ==
  ASSUME IInv, program' = program, NEW p \in Task, pc[p] = "insert", NEW x \in frame[p].todo,
         NEW new, new = <<Op(p)[2], x>>, NEW b, b = <<p, x>>,
         NEW l, NEW next, NEW down, NEW X, InsertLinksOf(new, b, l, next, down, X),
         Relinks(access, access', l, next, down, X),
         Inserted(new)', \A d \in Access \ {new} : Inserted(d)' <=> Inserted(d),
         LastBelow(b)' = new, \A d \in AccessId \ {b} : LastBelow(d)' = LastBelow(d)
  PROVE  Links'
<1>1. /\ Access' = Access /\ Of(access') = Of(access) /\ Access = Of(access)
      /\ \A d : Above(d)' = Above(d)
      /\ Links
  BY SameProgram DEF Relinks, Access, IInv, Links
<1>2. /\ l \in Access /\ NEXTISPARENT \notin X /\ X \cap Note = {}
      /\ next # At(access, l).successor => At(access, l).successor = NoAccess /\ HASNEXT \in X
      /\ down # At(access, l).child => At(access, l).child = NoAccess /\ HASCHILD \in X
      /\ next = new => NEXTISPARENT \notin At(access, l).flags
      /\ l # new => Inserted(l)
  BY InsertPlace
<1>3. /\ new \in Access /\ ~Inserted(new) /\ Above(new) = b /\ b \in AccessId
      /\ At(access, new).flags = {}
      /\ At(access, new).successor = NoAccess /\ At(access, new).child = NoAccess
      /\ \A d \in Access : At(access, d).successor # new /\ At(access, d).child # new
      /\ b \in Access => UNREGISTERED \notin At(access, b).flags /\ Inserted(b)
  BY InsertContext
<1>4. \A d \in Access :
        /\ At(access', d).flags = IF d = l THEN At(access, d).flags \cup X ELSE At(access, d).flags
        /\ At(access', d).successor = IF d = l THEN next ELSE At(access, d).successor
        /\ At(access', d).child = IF d = l THEN down ELSE At(access, d).child
  BY <1>1 DEF Relinks
<1>5. /\ HASNEXT \in X <=> next = new
      /\ HASCHILD \in X <=> down = new
      /\ next # new => next = At(access, l).successor
      /\ down # new => down = At(access, l).child
      /\ next = new => l = LastBelow(b) /\ LastBelow(b) # NoAccess
      /\ down = new => l = b
      /\ b \in Access => l # new
      /\ new # NoAccess
  <2>1. HASNEXT # HASCHILD /\ HASNEXT \notin Satisfied(Kind) /\ HASCHILD \notin Satisfied(Kind)
    BY FlagsDiffer DEF HASNEXT, HASCHILD
  <2>2. new # NoAccess
    BY <1>3, NoAccessIsNone DEF Access
  <2>3. \A d \in Access : At(access, d).successor # new /\ At(access, d).child # new
    BY <1>3
  <2>4. LastBelow(b) # new
    BY <1>1, <1>3 DEF Links, BottomLinks
  <2>5. CASE LastBelow(b) # NoAccess
    <3>1. l = LastBelow(b) /\ X = {HASNEXT} /\ next = new /\ down = At(access, l).child
      BY <2>5 DEF InsertLinksOf
    <3>2. QED
      BY <1>2, <2>1, <2>2, <2>3, <2>4, <2>5, <3>1
  <2>6. CASE LastBelow(b) = NoAccess /\ b \in Access
    <3>1. l = b /\ X = {HASCHILD} /\ next = At(access, l).successor /\ down = new
      BY <2>6 DEF InsertLinksOf
    <3>2. QED
      BY <1>2, <1>3, <2>1, <2>2, <2>3, <2>4, <2>6, <3>1
  <2>7. CASE LastBelow(b) = NoAccess /\ b \notin Access
    <3>1. l = new /\ X = Satisfied(Kind) /\ next = At(access, l).successor /\ down = At(access, l).child
      BY <2>7 DEF InsertLinksOf
    <3>2. QED
      BY <1>2, <1>3, <2>1, <2>2, <2>3, <2>4, <2>7, <3>1
  <2>8. QED
    BY <2>5, <2>6, <2>7
<1>6. LinkFlags'
  <2>1. ASSUME NEW d \in Access
        PROVE  /\ HASNEXT \in At(access', d).flags <=> At(access', d).successor # NoAccess
               /\ HASCHILD \in At(access', d).flags <=> At(access', d).child # NoAccess
               /\ NEXTISPARENT \in At(access', d).flags => HASNEXT \in At(access', d).flags
    <3>1. /\ HASNEXT \in At(access, d).flags <=> At(access, d).successor # NoAccess
          /\ HASCHILD \in At(access, d).flags <=> At(access, d).child # NoAccess
          /\ NEXTISPARENT \in At(access, d).flags => HASNEXT \in At(access, d).flags
      BY <1>1 DEF Links, LinkFlags
    <3>2. QED
      BY <1>2, <1>4, <1>5, <3>1
  <2>2. QED
    BY <1>1, <2>1 DEF LinkFlags
<1>7. \A d \in Access : Inserted(d) => Inserted(d)'
  BY <1>3
<1>8. NotYetLinked'
  <2>1. ASSUME NEW c \in Access, ~Inserted(c)'
        PROVE  /\ At(access', c).flags = {}
               /\ \A d \in Access : At(access', d).successor # c /\ At(access', d).child # c
    <3>1. c # new /\ c # l /\ ~Inserted(c)
      BY <1>2, <1>7, <2>1
    <3>2. At(access, c).flags = {} /\ \A d \in Access : At(access, d).successor # c /\ At(access, d).child # c
      BY <1>1, <3>1 DEF NotYetLinked, Links
    <3>3. QED
      BY <1>2, <1>4, <1>5, <3>1, <3>2
  <2>2. QED
    BY <1>1, <2>1 DEF NotYetLinked
<1>9. ChildLinks'
  <2>1. ASSUME NEW d \in Access
        PROVE  /\ At(access', d).child \in Access \cup {NoAccess}
               /\ \A c \in Access : At(access', d).child = c => Inserted(c)' /\ Above(c) = d
    <3>1. CASE At(access', d).child = At(access, d).child
      <4>1. At(access, d).child \in Access \cup {NoAccess} /\ \A c \in Access : At(access, d).child = c => Inserted(c) /\ Above(c) = d
        BY <1>1 DEF ChildLinks, Links
      <4>2. QED
        BY <1>7, <3>1, <4>1
    <3>2. CASE At(access', d).child # At(access, d).child
      <4>1. d = l /\ At(access', d).child = new /\ l = b
        BY <1>4, <1>5, <3>2
      <4>2. QED
        BY <1>3, <4>1
    <3>3. QED
      BY <3>1, <3>2
  <2>2. QED
    BY <1>1, <2>1 DEF ChildLinks
<1>10. \A d \in Access : NEXTISPARENT \in At(access', d).flags <=> NEXTISPARENT \in At(access, d).flags
  BY <1>2, <1>4
<1>11. next = new => Above(l) = b /\ l # new
  <2> SUFFICES ASSUME next = new PROVE Above(l) = b /\ l # new
    OBVIOUS
  <2>1. l = LastBelow(b) /\ l \in Access
    BY <1>2, <1>5
  <2>2. Above(l) = b /\ Inserted(l)
    BY <1>1, <1>3, <2>1 DEF Links, BottomLinks
  <2>3. QED
    BY <1>3, <2>2
<1>12. SuccessorLinks'
  <2>1. ASSUME NEW d \in Access
        PROVE  /\ At(access', d).successor \in Access \cup {NoAccess}
               /\ \A c \in Access : At(access', d).successor = c =>
                    IF NEXTISPARENT \in At(access', d).flags THEN c = Above(d)
                    ELSE Inserted(c)' /\ Above(c) = Above(d) /\ c # d
    <3>1. CASE At(access', d).successor = At(access, d).successor
      <4>1. /\ At(access, d).successor \in Access \cup {NoAccess}
            /\ \A c \in Access : At(access, d).successor = c =>
                    IF NEXTISPARENT \in At(access, d).flags THEN c = Above(d)
                    ELSE Inserted(c) /\ Above(c) = Above(d) /\ c # d
        BY <1>1 DEF SuccessorLinks, Links
      <4>2. QED
        BY <1>7, <1>10, <3>1, <4>1
    <3>2. CASE At(access', d).successor # At(access, d).successor
      <4>1. d = l /\ At(access', d).successor = new /\ next = new
        BY <1>4, <1>5, <3>2
      <4>2. QED
        BY <1>2, <1>3, <1>10, <1>11, <4>1
    <3>3. QED
      BY <3>1, <3>2
  <2>2. QED
    BY <1>1, <2>1 DEF SuccessorLinks
<1>13. OnePredecessor'
  <2>1. ASSUME NEW d \in Access, NEW e \in Access, NEW c \in Access,
               At(access', d).successor = c, NEXTISPARENT \notin At(access', d).flags
        PROVE  /\ At(access', e).child # c
               /\ (At(access', e).successor = c /\ NEXTISPARENT \notin At(access', e).flags) => d = e
    <3>1. CASE c = new
      <4>1. d = l /\ next = new
        BY <1>3, <1>4, <1>5, <2>1, <3>1
      <4>2. \A g \in Access : At(access', g).successor = new => g = l
        BY <1>3, <1>4
      <4>3. down # new
        BY <1>3, <1>5, <1>11, <4>1 DEF InsertLinksOf
      <4>4. At(access', e).child # new
        BY <1>3, <1>4, <1>5, <4>3
      <4>5. QED
        BY <3>1, <4>1, <4>2, <4>4
    <3>2. CASE c # new
      <4>1. At(access, d).successor = c /\ NEXTISPARENT \notin At(access, d).flags
        BY <1>4, <1>5, <1>10, <2>1, <3>2
      <4>2. /\ At(access, e).child # c
            /\ (At(access, e).successor = c /\ NEXTISPARENT \notin At(access, e).flags) => d = e
        BY <1>1, <4>1 DEF OnePredecessor, Links
      <4>3. QED
        BY <1>4, <1>5, <1>10, <3>2, <4>2
    <3>3. QED
      BY <3>1, <3>2
  <2>2. QED
    BY <1>1, <2>1 DEF OnePredecessor, At
<1>14. BottomLinks'
  <2>1. BottomLinks
    BY <1>1 DEF Links
  <2>2. ASSUME NEW d \in AccessId
        PROVE  /\ LastBelow(d)' \in Access \cup {NoAccess}
               /\ \A c \in Access : LastBelow(d)' = c =>
                    /\ Inserted(c)' /\ Above(c) = d
                    /\ At(access', c).successor # NoAccess => NEXTISPARENT \in At(access', c).flags
               /\ d \in Access => (LastBelow(d)' = NoAccess <=> At(access', d).child = NoAccess)
    <3>1. CASE d = b
      <4>1. l = new => next # new
        BY <1>11
      <4>2. At(access', new).successor = NoAccess
        BY <1>3, <1>4, <1>5, <4>1
      <4>3. b \in Access => At(access', b).child # NoAccess
        <5> SUFFICES ASSUME b \in Access PROVE At(access', b).child # NoAccess
          OBVIOUS
        <5>1. CASE LastBelow(b) # NoAccess
          <6>1. At(access, b).child # NoAccess
            BY <1>3, <2>1, <5>1 DEF BottomLinks
          <6>2. QED
            BY <1>4, <1>5, <6>1
        <5>2. CASE LastBelow(b) = NoAccess
          <6>1. l = b /\ down = new
            BY <5>2 DEF InsertLinksOf
          <6>2. QED
            BY <1>4, <1>5, <6>1
        <5>3. QED
          BY <5>1, <5>2
      <4>4. QED
        BY <1>3, <1>5, <3>1, <4>2, <4>3
    <3>2. CASE d # b
      <4>1. LastBelow(d)' = LastBelow(d)
        BY <3>2
      <4>2. ASSUME NEW c \in Access, LastBelow(d) = c
            PROVE  /\ Inserted(c)' /\ Above(c) = d
                   /\ At(access', c).successor # NoAccess => NEXTISPARENT \in At(access', c).flags
        <5>1. Inserted(c) /\ Above(c) = d /\ (At(access, c).successor # NoAccess => NEXTISPARENT \in At(access, c).flags)
          BY <2>1, <4>2 DEF BottomLinks
        <5>2. At(access', c).successor = At(access, c).successor
          BY <1>4, <1>5, <1>11, <3>2, <5>1
        <5>3. QED
          BY <1>7, <1>10, <5>1, <5>2
      <4>3. LastBelow(d) \in Access \cup {NoAccess} /\ (d \in Access => (LastBelow(d) = NoAccess <=> At(access, d).child = NoAccess))
        BY <2>1 DEF BottomLinks
      <4>4. d \in Access => At(access', d).child = At(access, d).child
        BY <1>4, <1>5, <3>2
      <4>5. QED
        BY <4>1, <4>2, <4>3, <4>4
    <3>3. QED
      BY <3>1, <3>2
  <2>3. ASSUME NEW c \in Access, NEW d \in AccessId, NEXTISPARENT \in At(access', c).flags, Above(c) = d
        PROVE  LastBelow(d)' = c
    <3>1. NEXTISPARENT \in At(access, c).flags
      BY <1>10, <2>3
    <3>2. LastBelow(d) = c
      BY <2>1, <2>3, <3>1 DEF BottomLinks
    <3>3. d # b
      <4> SUFFICES ASSUME d = b PROVE FALSE
        OBVIOUS
      <4>1. LastBelow(b) = c /\ LastBelow(b) # NoAccess
        BY <1>1, <3>2, NoAccessIsNone
      <4>2. l = c /\ next = new
        BY <4>1 DEF InsertLinksOf
      <4>3. QED
        BY <1>2, <3>1, <4>2
    <3>4. QED
      BY <3>2, <3>3
  <2>4. QED
    BY <1>1, <2>2, <2>3 DEF BottomLinks
<1>15. QED
  BY <1>6, <1>8, <1>9, <1>12, <1>13, <1>14 DEF Links

(* A change that leaves the links, before one that sets them.              *)
LEMMA RelinksAfter ==
  ASSUME NEW A, NEW B, NEW C, NEW n \in Of(A), NEW a \in Of(A), NEW next, NEW down, NEW X,
         Relinks(A, B, n, At(A, n).successor, At(A, n).child, {}), Relinks(B, C, a, next, down, X)
  PROVE  Relinks(A, C, a, next, down, X)
<1>1. /\ Of(B) = Of(A) /\ Of(C) = Of(A) /\ IsAccessMap(C)
      /\ \A t \in Task : DOMAIN C[t] = DOMAIN A[t]
  BY DEF Relinks
<1>2. \A b \in Of(A) :
        /\ At(B, b).flags = At(A, b).flags /\ At(B, b).type = At(A, b).type /\ At(B, b).weak = At(A, b).weak
        /\ At(B, b).successor = At(A, b).successor /\ At(B, b).child = At(A, b).child
  BY DEF Relinks
<1>3. \A b \in Of(A) :
       /\ At(C, b).flags = IF b = a THEN At(A, b).flags \cup X ELSE At(A, b).flags
       /\ At(C, b).type = At(A, b).type /\ At(C, b).weak = At(A, b).weak
       /\ At(C, b).successor = IF b = a THEN next ELSE At(A, b).successor
       /\ At(C, b).child = IF b = a THEN down ELSE At(A, b).child
  BY <1>1, <1>2 DEF Relinks
<1>4. QED
  BY <1>1, <1>3 DEF Relinks

(* What insertAccesses does for one address.                               *)
InsertsAt(p, x, new, b, l, next, down, X, A1, place, f) ==
  /\ InsertLinksOf(new, b, l, next, down, X)
  /\ Relinks(access, A1, l, next, down, {}) /\ Relinks(access, access', l, next, down, X)
  /\ bottomMap' \in BottomMaps /\ LastBelow(b)' = new
  /\ \A d \in AccessId \ {b} : LastBelow(d)' = LastBelow(d)
  /\ GoesTo(p, place, f)
  /\ f.ip = frame[p].ip /\ f.todo = frame[p].todo \ {x} /\ f.addr = new /\ f.mailBox = <<>>
  /\ f.message = IF l = new THEN NoMessage ELSE Single(A1, l, X)
  /\ f.own = IF l = new THEN [Single(A1, l, X) EXCEPT !.schedule = TRUE] ELSE NoMessage
  /\ place = IF l # new /\ Single(A1, l, X).flagsForNext # {} THEN "give" ELSE "linked"

(* insertAccesses, step by step: one access is linked and gets flags, and  *)
(* the thread goes on.                                                     *)
LEMMA InsertIs ==
  ASSUME IInv, program' = program, NEW p \in Task, NEW x, InsertAccess(p, x),
         NEW new, new = <<Op(p)[2], x>>, NEW b, b = <<p, x>>
  PROVE  \E l, next, down, X, A1, place, f : InsertsAt(p, x, new, b, l, next, down, X, A1, place, f)
<1> DEFINE c     == Op(p)[2]
           entry == bottomMap[p][x]
           isRed == access[c][x].type = "REDUCTION"
           pred  == entry.access
           above == IF pred = NoAccess THEN ParentAccess(c, x) ELSE NoAccess
           inherited == ReductionOf(above)
           open  == IF entry.reductionInfo # NoReduction \/ ~isRed
                    THEN entry.reductionInfo ELSE inherited
           mine  == IF ~isRed THEN NoReduction
                    ELSE IF open # NoReduction /\ Acc(open).operator = access[c][x].operator
                    THEN open ELSE <<c, x>>
           A0 == [access EXCEPT ![c][x].reductionInfo = mine]
           A1 == IF pred # NoAccess THEN [A0 EXCEPT ![pred[1]][x].successor = <<c, x>>]
                 ELSE IF above # NoAccess THEN [A0 EXCEPT ![p][x].child = <<c, x>>]
                 ELSE A0
           link == IF pred # NoAccess THEN <<pred, {HASNEXT}>>
                   ELSE IF above # NoAccess THEN <<above, {HASCHILD}>>
                   ELSE <<<<c, x>>, Satisfied(Kind)>>
           l == link[1]
           X == link[2]
           next == IF pred # NoAccess THEN new ELSE At(access, l).successor
           down == IF pred = NoAccess /\ above # NoAccess THEN new ELSE At(access, l).child
           message == Single(A1, l, X)
           own == IF l = <<c, x>> THEN [message EXCEPT !.schedule = TRUE] ELSE NoMessage
           mess == IF l = <<c, x>> THEN NoMessage ELSE message
           f == [frame[p] EXCEPT !.todo = @ \ {x}, !.addr = <<c, x>>, !.reductionInfo = open,
                                 !.message = mess, !.own = own]
           place == IF l # <<c, x>> /\ message.flagsForNext # {} THEN "give" ELSE "linked"
<1>1. /\ pc[p] = "insert" /\ x \in frame[p].todo
      /\ access' = Added(A1, l, X)
      /\ bottomMap' = [bottomMap EXCEPT ![p][x] = [access |-> <<c, x>>, reductionInfo |-> mine]]
      /\ frame' = [frame EXCEPT ![p].todo = @ \ {x}, ![p].addr = <<c, x>>, ![p].reductionInfo = open,
                                ![p].message = mess, ![p].own = own]
      /\ pc' = [pc EXCEPT ![p] = place]
  BY ZenonT(40) DEF InsertAccess
<1>2. TypesOK /\ Control /\ Links /\ IsAccessMap(access)
  <2> HIDE DEF c, entry, isRed, pred, above, inherited, open, mine, A0, A1, link, l, X, next, down, message, own, mess, f, place
  <2>1. QED
    BY DEF IInv, Links, TypesOK
<1>3. /\ c \in Task \ {Main} /\ Parent[c] = p /\ x \in Address /\ x \in Declared(c)
      /\ new = <<c, x>> /\ new \in Access /\ new \in AccessId /\ Above(new) = b /\ b \in AccessId
  <2> HIDE DEF entry, isRed, pred, above, inherited, open, mine, A0, A1, link, l, X, next, down, message, own, mess, f, place
  <2>1. QED
    BY <1>1, InsertContext, ZenonT(30) DEF Access, Of
<1>4. /\ pred = LastBelow(b) /\ pred \in Access \cup {NoAccess}
      /\ pred # NoAccess => pred \in Access /\ pred = <<pred[1], x>> /\ pred[1] \in Task
  <2>1. pred = LastBelow(b)
    BY DEF LastBelow
  <2>2. LastBelow(b) \in Access \cup {NoAccess} /\ \A d \in Access : LastBelow(b) = d => Above(d) = b
    BY <1>2, <1>3, Zenon DEF Links, BottomLinks
  <2>3. \A d \in Access : d = <<d[1], d[2]>> /\ d[1] \in Task
    BY DEF Access, Of, AccessId
  <2> HIDE DEF pred
  <2>4. pred # NoAccess => pred \in Access /\ Above(pred) = b
    BY <2>1, <2>2
  <2>5. pred # NoAccess => pred[2] = x
    BY <2>4 DEF Above
  <2>6. QED
    BY <2>1, <2>2, <2>3, <2>4, <2>5
<1>5. /\ above # NoAccess => above = b /\ b \in Access /\ pred = NoAccess
      /\ pred = NoAccess => (above # NoAccess <=> b \in Access)
  <2>1. ParentAccess(c, x) = IF x \in Declared(p) THEN b ELSE NoAccess
    BY <1>3 DEF ParentAccess
  <2>2. b \in Access <=> x \in Declared(p)
    BY <1>3 DEF Access, Of, Declared
  <2>3. b # NoAccess
    BY <1>3, RegistrationAssumption DEF AccessId
  <2> HIDE DEF pred
  <2>4. QED
    BY <2>1, <2>2, <2>3
<1>6. /\ entry \in [access : AccessId \cup {NoAccess}, reductionInfo : AccessId \cup {NoReduction}]
      /\ open \in AccessId \cup {NoAccess} /\ mine \in AccessId \cup {NoAccess}
  <2>1. entry \in [access : AccessId \cup {NoAccess}, reductionInfo : AccessId \cup {NoReduction}]
    BY <1>2, <1>3, FrameIs DEF BottomMaps
  <2>2. inherited \in AccessId \cup {NoAccess}
    <3>1. \A d \in Access : Acc(d).reductionInfo \in AccessId \cup {NoAccess}
      BY <1>2 DEF IsAccessMap, AccessRecord, Acc, Access, Of, NoReduction
    <3> HIDE DEF above
    <3>2. above = NoAccess \/ above \in Access
      BY <1>5
    <3>3. QED
      BY <3>1, <3>2 DEF ReductionOf, NoReduction
  <2> HIDE DEF inherited, entry
  <2>3. open \in AccessId \cup {NoAccess}
    BY <2>1, <2>2 DEF NoReduction
  <2> HIDE DEF open
  <2>4. QED
    BY <1>3, <2>1, <2>3 DEF NoReduction
<1> HIDE DEF entry, isRed, inherited, open, mine
<1>7. InsertLinksOf(new, b, l, next, down, X)
  <2> HIDE DEF pred, above
  <2>1. CASE pred # NoAccess
    <3>1. l = pred /\ X = {HASNEXT} /\ next = new /\ down = At(access, l).child
      BY <2>1
    <3> HIDE DEF l, X, next, down
    <3>2. QED
      BY <1>4, <2>1, <3>1 DEF InsertLinksOf
  <2>2. CASE pred = NoAccess /\ above # NoAccess
    <3>1. l = b /\ X = {HASCHILD} /\ next = At(access, l).successor /\ down = new
      BY <1>5, <2>2
    <3> HIDE DEF l, X, next, down
    <3>2. QED
      BY <1>4, <1>5, <2>2, <3>1 DEF InsertLinksOf
  <2>3. CASE pred = NoAccess /\ above = NoAccess
    <3>1. l = new /\ X = Satisfied(Kind) /\ next = At(access, l).successor /\ down = At(access, l).child
      <4> HIDE DEF A0, A1, pred, above, message, own, mess, f, place, c
      <4>1. QED
        BY <1>3, <2>3
    <3> HIDE DEF l, X, next, down
    <3>2. QED
      BY <1>4, <1>5, <2>3, <3>1 DEF InsertLinksOf
  <2>4. QED
    BY <2>1, <2>2, <2>3
<1>8. l \in Access /\ X \in SUBSET Flag
  <2> HIDE DEF l, X, next, down, A0, A1, pred, above, link, message, own, mess, f, place
  <2>1. pc[p] = "insert" /\ x \in frame[p].todo /\ new = <<Op(p)[2], x>>
    BY <1>1, Zenon
  <2> HIDE DEF c
  <2>2. QED
    BY <1>7, <2>1, InsertPlace
<1>9. Relinks(access, A0, new, At(access, new).successor, At(access, new).child, {})
  <2> HIDE DEF A1, pred, above, link, l, X, next, down, message, own, mess, f, place
  <2>1. new[1] = c /\ new[2] = x /\ new \in Of(access)
    BY <1>3 DEF Access
  <2>2. A0 = [access EXCEPT ![new[1]][new[2]].reductionInfo = mine]
    BY <2>1
  <2> HIDE DEF A0, c
  <2>3. QED
    BY <1>2, <1>6, <2>1, <2>2, FieldSet
<1>10. /\ IsAccessMap(A0) /\ Of(A0) = Of(access) /\ Access = Of(access)
       /\ \A d \in Access : At(A0, d).successor = At(access, d).successor /\ At(A0, d).child = At(access, d).child
  BY <1>9 DEF Relinks, Access
<1>11. Relinks(access, A1, l, next, down, {})
  <2> HIDE DEF pred, above, A0
  <2>1. CASE pred # NoAccess
    <3>3. l = pred /\ next = new /\ down = At(access, l).child
      BY <2>1
    <3>4. pred[2] = x
      BY <1>4, <2>1
    <3>5. A1 = [A0 EXCEPT ![pred[1]][x].successor = <<c, x>>]
      BY <2>1
    <3>1. A1 = [A0 EXCEPT ![pred[1]][pred[2]].successor = new] /\ l = pred /\ next = new /\ down = At(access, l).child
      BY <1>3, <3>3, <3>4, <3>5
    <3> HIDE DEF A1, l, next, down
    <3>2. Relinks(A0, A1, pred, new, At(A0, pred).child, {})
      BY <1>3, <1>4, <1>10, <2>1, <3>1, FieldSet
    <3>6. QED
      BY <1>3, <1>4, <1>9, <1>10, <2>1, <3>1, <3>2, RelinksAfter
  <2>2. CASE pred = NoAccess /\ above # NoAccess
    <3>1. A1 = [A0 EXCEPT ![b[1]][b[2]].child = new] /\ l = b /\ next = At(access, l).successor /\ down = new
      BY <1>3, <1>5, <2>2
    <3> HIDE DEF A1, l, next, down
    <3>2. Relinks(A0, A1, b, At(A0, b).successor, new, {})
      BY <1>3, <1>5, <1>10, <2>2, <3>1, FieldSet
    <3>3. QED
      BY <1>3, <1>5, <1>9, <1>10, <2>2, <3>1, <3>2, RelinksAfter
  <2>3. CASE pred = NoAccess /\ above = NoAccess
    BY <1>3, <1>9, <2>3
  <2>4. QED
    BY <2>1, <2>2, <2>3
<1> HIDE DEF A1, l, X, next, down
<1>12. Relinks(access, access', l, next, down, X)
  BY <1>1, <1>8, <1>10, <1>11, LinkedAndGained
<1>13. /\ bottomMap' \in BottomMaps /\ LastBelow(b)' = new
       /\ \A d \in AccessId \ {b} : LastBelow(d)' = LastBelow(d)
  <2> DEFINE e == [access |-> new, reductionInfo |-> mine]
  <2>1. e \in [access : AccessId \cup {NoAccess}, reductionInfo : AccessId \cup {NoReduction}] /\ e.access = new
    BY <1>3, <1>6 DEF NoReduction
  <2>2. bottomMap' = [bottomMap EXCEPT ![p][x] = e]
    BY <1>1, <1>3
  <2>3. bottomMap \in BottomMaps
    BY <1>2, FrameIs
  <2> HIDE DEF e
  <2>4. bottomMap' \in BottomMaps
    BY <1>3, <2>1, <2>2, <2>3 DEF BottomMaps
  <2>5. bottomMap'[p][x] = e
    BY <1>3, <2>2, <2>3 DEF BottomMaps
  <2>6. \A t \in Task, y \in Address : t # p \/ y # x => bottomMap'[t][y] = bottomMap[t][y]
    BY <1>3, <2>2, <2>3 DEF BottomMaps
  <2>7. \A d \in AccessId \ {b} : d[1] \in Task /\ d[2] \in Address /\ (d[1] # p \/ d[2] # x)
    BY DEF AccessId
  <2>8. QED
    BY <2>1, <2>4, <2>5, <2>6, <2>7 DEF LastBelow
<1>14. message \in Message
  BY <1>8, <1>10, <1>11, SingleIs DEF Relinks
<1> HIDE DEF message
<1>15. own \in Message /\ mess \in Message
  <2>1. [message EXCEPT !.schedule = TRUE] \in Message
    BY <1>14 DEF Message
  <2>2. QED
    BY <1>14, <2>1, NothingTyped
<1> HIDE DEF own, mess
<1>16. f \in FrameRecord /\ f.ip = frame[p].ip /\ f.todo = frame[p].todo \ {x} /\ f.addr = new
       /\ f.message = mess /\ f.own = own /\ f.mailBox = <<>>
  <2>1. frame[p] \in FrameRecord /\ frame[p].mailBox = <<>>
    BY <1>1, <1>2, FrameIs, EmptyHands
  <2>2. QED
    BY <1>3, <1>6, <1>15, <2>1 DEF FrameRecord, NoReduction
<1>17. frame' = [frame EXCEPT ![p] = f]
  BY <1>1, <1>2 DEF TypesOK
<1> HIDE DEF f
<1>18. GoesTo(p, place, f)
  BY <1>1, <1>16, <1>17 DEF GoesTo, Place
<1>19. InsertsAt(p, x, new, b, l, next, down, X, A1, place, f)
  BY <1>3, <1>7, <1>11, <1>12, <1>13, <1>16, <1>18 DEF InsertsAt, message, own, mess
<1>20. QED
  BY <1>19

(* The step of insertAccesses for one address.                             *)
LEMMA InsertKeeps ==
  ASSUME IInv, program' = program, NEW p \in Task, pc[p] = "insert", NEW x \in frame[p].todo,
         NEW new, new = <<Op(p)[2], x>>, NEW b, b = <<p, x>>,
         NEW l, NEW next, NEW down, NEW X, NEW A1, NEW place, NEW f,
         InsertsAt(p, x, new, b, l, next, down, X, A1, place, f)
  PROVE  IInv'
<1> DEFINE F == Gains(l, X)
           c == Op(p)[2]
           message == Single(A1, l, X)
<1>1. /\ TypesOK /\ Control /\ SlotsOK /\ NoDuplicates /\ Endings /\ Links /\ Causes
  BY DEF IInv, Links, Messaging
<1>2. /\ c \in Task \ {Main} /\ c # p /\ Parent[c] = p /\ pc[c] = "registering"
      /\ Op(p) = <<"create", c>> /\ x \in Address /\ new = <<c, x>>
      /\ \A d \in Task : pc[d] = "registering" /\ Parent[d] = p => d = c
      /\ new \in Access /\ ~Inserted(new) /\ Above(new) = b /\ b \in AccessId
      /\ At(access, new).flags = {}
      /\ At(access, new).successor = NoAccess /\ At(access, new).child = NoAccess
      /\ \A d \in Access : At(access, d).successor # new /\ At(access, d).child # new
      /\ b \in Access => UNREGISTERED \notin At(access, b).flags /\ Inserted(b)
      /\ b[1] = p /\ new[1] = c /\ new[2] = x /\ new # NoAccess
  <2>1. \A d \in Access : d # NoAccess
    BY NoAccessIsNone DEF Access
  <2>2. QED
    BY <2>1, InsertContext
<1>3. /\ InsertLinksOf(new, b, l, next, down, X)
      /\ Relinks(access, A1, l, next, down, {}) /\ Relinks(access, access', l, next, down, X)
      /\ bottomMap' \in BottomMaps /\ LastBelow(b)' = new
      /\ \A d \in AccessId \ {b} : LastBelow(d)' = LastBelow(d)
      /\ GoesTo(p, place, f)
      /\ f.ip = frame[p].ip /\ f.todo = frame[p].todo \ {x} /\ f.addr = new /\ f.mailBox = <<>>
      /\ f.message = IF l = new THEN NoMessage ELSE message
      /\ f.own = IF l = new THEN [message EXCEPT !.schedule = TRUE] ELSE NoMessage
      /\ place = IF l # new /\ message.flagsForNext # {} THEN "give" ELSE "linked"
  BY DEF InsertsAt
<1>4. /\ l \in Access /\ X \in SUBSET Flag /\ NEXTISPARENT \notin X
      /\ X \cap At(access, l).flags = {}
      /\ X \cap (ChildDone(Kind) \cup Note \cup {UNREGISTERED, NEXTISPARENT}) = {}
      /\ next # At(access, l).successor => At(access, l).successor = NoAccess /\ HASNEXT \in X
      /\ down # At(access, l).child => At(access, l).child = NoAccess /\ HASCHILD \in X
      /\ next = new => NEXTISPARENT \notin At(access, l).flags
      /\ l # new => Inserted(l) /\ X \subseteq {HASNEXT, HASCHILD}
      /\ next \in {new, At(access, l).successor} /\ down \in {new, At(access, l).child}
      /\ l = LastBelow(b) \/ l = b \/ l = new
  BY <1>3, InsertPlace
<1>5. LastBelow(b) # NoAccess => /\ LastBelow(b) # new /\ Above(LastBelow(b)) = b
                                 /\ LastBelow(b) \in Access
                                 /\ NEXTISPARENT \notin At(access, LastBelow(b)).flags
  <2>1. LastBelow(b) # NoAccess => LastBelow(b) \in Access /\ Inserted(LastBelow(b)) /\ Above(LastBelow(b)) = b
          /\ NEXTISPARENT \notin At(access, LastBelow(b)).flags
    BY <1>2, LastIsOpen DEF Joining
  <2>2. QED
    BY <1>2, <2>1
<1>6. /\ l = new => /\ b \notin Access /\ X = Satisfied(Kind) /\ LastBelow(b) = NoAccess
                    /\ next = At(access, l).successor /\ down = At(access, l).child
      /\ l # new => \/ X = {HASNEXT} /\ next = new /\ l = LastBelow(b) /\ l # NoAccess
                    \/ X = {HASCHILD} /\ down = new /\ l = b
  <2>1. b # new
    BY <1>2
  <2>2. QED
    BY <1>3, <1>5, <2>1 DEF InsertLinksOf
<1>7. /\ Changes(access, access', F) /\ Access' = Access /\ IsAccessMap(access')
      /\ \A t \in Task : Declared(t)' = Declared(t)
  BY <1>1, <1>3, <1>4, LinkChanges
<1>8. \A d \in Access : F[d] = IF d = l THEN X ELSE {}
  BY DEF Gains
<1>9. /\ TypesOK' /\ pc'[p] = place /\ frame'[p] = f
      /\ \A q \in Task \ {p} : pc'[q] = pc[q] /\ frame'[q] = frame[q]
  BY <1>1, <1>3, <1>7, ThreadTypes
<1>10. place \in {"give", "linked"}
  BY <1>3
<1>11. Body' = Body /\ Parent' = Parent /\ \A d : Above(d)' = Above(d)
  BY SameProgram
<1>12. Advances(p) /\ ~Finished(p)' /\ ~Finished(p)
  <2>1. frame[p].ip <= frame'[p].ip
    BY <1>1, <1>3, <1>9 DEF TypesOK
  <2>2. ~Finished(p)' /\ ~Finished(p)
    BY <1>9, <1>10 DEF Finished
  <2>3. frame'[p].ip = frame[p].ip /\ frame'[p].todo \subseteq frame[p].todo
    BY <1>3, <1>9
  <2>4. QED
    BY <1>9, <1>10, <2>1, <2>2, <2>3 DEF Advances, Creating
<1>13. \A d \in Access :
         /\ At(access', d).flags = IF d = l THEN At(access, d).flags \cup X ELSE At(access, d).flags
         /\ At(access', d).successor = IF d = l THEN next ELSE At(access, d).successor
         /\ At(access', d).child = IF d = l THEN down ELSE At(access, d).child
         /\ At(access', d).type = At(access, d).type
  BY <1>3 DEF Relinks, Access
<1>14. Inserted(new)'
  <2>1. new \in Access' /\ pc'[c] = "registering" /\ Parent'[c] = p /\ x \notin frame'[p].todo
    BY <1>2, <1>3, <1>7, <1>9, <1>11
  <2>2. QED
    BY <1>2, <2>1 DEF Inserted
<1>15. ASSUME NEW d \in Access, d # new PROVE Inserted(d)' <=> Inserted(d)
  <2>1. d \in Access' /\ d[1] \in Task /\ d = <<d[1], d[2]>>
    BY <1>7 DEF Access, Of, AccessId
  <2>2. CASE d[1] = p
    BY <1>7, <1>9, <1>10, <2>1, <2>2 DEF Inserted
  <2>3. CASE d[1] # p /\ pc[d[1]] # "registering"
    BY <1>7, <1>9, <2>1, <2>3 DEF Inserted
  <2>4. CASE d[1] # p /\ pc[d[1]] = "registering"
    <3>1. Parent[d[1]] \in Task
      BY <1>1, <2>1, <2>4 DEF Control, CreatedAt
    <3>2. pc'[d[1]] = "registering"
      BY <1>9, <2>1, <2>4
    <3>3. d[2] \in frame'[Parent[d[1]]].todo <=> d[2] \in frame[Parent[d[1]]].todo
      <4>1. CASE Parent[d[1]] # p
        BY <1>9, <3>1, <4>1
      <4>2. CASE Parent[d[1]] = p
        <5>1. d[1] = c
          BY <1>2, <2>1, <2>4, <4>2
        <5>2. d[2] # x
          BY <1>2, <1>15, <2>1, <5>1
        <5>3. QED
          BY <1>3, <1>9, <4>2, <5>2
      <4>3. QED
        BY <4>1, <4>2
    <3>4. QED
      BY <1>7, <1>11, <2>4, <3>2, <3>3 DEF Inserted
  <2>5. QED
    BY <2>2, <2>3, <2>4
<1>16. Links'
  BY <1>2, <1>3, <1>14, <1>15, InsertedLinks
<1>17. Control'
  <2>1. ASSUME NEW q \in Task \ {p}, NEW d \in Access, LinksAt(q, d), pc[q] \in {"give", "linked"}
        PROVE  At(access', d).successor = NoAccess /\ At(access', d).child = NoAccess
    <3>1. Parent[d[1]] = q /\ pc[d[1]] = "registering"
      BY <1>1, <2>1, Links1 DEF LinksAt
    <3>2. d # l
      <4>1. d # new
        BY <1>2, <2>1, <3>1
      <4>2. d # b
        BY <1>2, <3>1
      <4>3. LastBelow(b) # NoAccess => d # LastBelow(b)
        <5>1. LastBelow(b) # NoAccess => Parent[LastBelow(b)[1]] = p
          BY <1>2, <1>5 DEF Above
        <5>2. QED
          BY <2>1, <3>1, <5>1
      <4>4. QED
        BY <1>6, <4>1, <4>2, <4>3
    <3>3. QED
      BY <1>13, <2>1, <3>2 DEF LinksAt
  <2>2. LinksAt(p, new)'
    <3>1. At(access', new).successor = NoAccess /\ At(access', new).child = NoAccess
      <4> HIDE DEF F, message, c
      <4>1. QED
        BY <1>2, <1>6, <1>13
    <3>2. frame'[p].addr = new /\ new[2] \notin frame'[p].todo
      <4> HIDE DEF F, message
      <4>1. frame'[p].addr = new /\ frame'[p].todo = frame[p].todo \ {x}
        BY <1>3, <1>9, Zenon
      <4>2. QED
        BY <1>2, <4>1
    <3>3. Op(p)' = <<"create", new[1]>>
      BY <1>2, <1>3, <1>9, <1>11 DEF Op
    <3>4. QED
      BY <3>1, <3>2, <3>3 DEF LinksAt
  <2>3. (\E a \in Access : LinksAt(p, a))'
    BY <1>2, <1>7, <2>2
  <2>4. QED
    BY <1>1, <1>7, <1>9, <1>12, <2>1, <2>3, ControlKept
<1>18. \A d \in Access : F[d] \cap (ChildDone(Kind) \cup Note \cup {UNREGISTERED, NEXTISPARENT}) = {}
  BY <1>4, <1>8
<1>19. Endings'
  <2>1. \A d \in Access : UNREGISTERED \in F[d] => d[1] = p /\ ReleasedBy(p, d[2])'
    BY <1>18
  <2>2. \A d, e \in Access : NEXTISPARENT \in F[d] /\ Above(d) = e =>
          pc'[e[1]] \in Joining /\ frame'[e[1]].addr = e
    BY <1>18
  <2>3. pc[p] \notin Joining /\ pc'[p] \notin Joining /\ pc'[p] \notin {"children", "finalize"}
    BY <1>9, <1>10 DEF Joining
  <2>4. \A d \in Access : F[d] \cap ChildDone(Kind) = {}
    BY <1>18
  <2>5. ASSUME NEW d \in Access
        PROVE  LastBelow(d)' = LastBelow(d) \/ At(access', d).flags \cap ChildDone(Kind) = {}
    <3>1. CASE d # b
      BY <1>3, <3>1 DEF Access, Of
    <3>2. CASE d = b
      <4>1. At(access, b).child = NoAccess <=> LastBelow(b) = NoAccess
        BY <1>1, <1>2, <3>2 DEF Links, BottomLinks
      <4>2. At(access, b).flags \cap ChildDone(Kind) = {}
        <5> SUFFICES ASSUME At(access, b).flags \cap ChildDone(Kind) # {} PROVE FALSE
          OBVIOUS
        <5>1. /\ At(access, b).child = NoAccess => UNREGISTERED \in At(access, b).flags
              /\ \A g \in Access : LastBelow(b) = g => NEXTISPARENT \in At(access, g).flags
          BY <1>1, <3>2 DEF Endings
        <5>2. QED
          BY <1>2, <1>5, <3>2, <4>1, <5>1
      <4>3. QED
        BY <1>13, <1>4, <3>2, <4>2
    <3>3. QED
      BY <3>1, <3>2
  <2>6. \A d \in AccessId : /\ d[1] # p => LastBelow(d)' = LastBelow(d)
                            /\ LastBelow(d) # NoAccess => LastBelow(d)' # NoAccess
    BY <1>2, <1>3
  <2>7. ~(Finished(p)' /\ pc'[p] \in Joining \cup {"propagate", "delivered", "finalize"})
    BY <1>12
  <2>8. QED
    BY <1>1, <1>7, <1>9, <1>12, <2>1, <2>2, <2>3, <2>4, <2>5, <2>6, <2>7, EndingsKept
<1> DEFINE M == Messages(l, At(A1, l), X, next, down)
<1>20. /\ IsAccessMap(A1) /\ l \in Of(A1) /\ At(A1, l).successor = next /\ At(A1, l).child = down
       /\ At(A1, l).flags = At(access, l).flags /\ At(A1, l).type = At(access, l).type
       /\ At(access', l).successor = next /\ At(access', l).child = down
       /\ F[l] = X
  <2> HIDE DEF F, message, M, c
  <2>1. /\ IsAccessMap(A1) /\ Of(A1) = Of(access)
        /\ \A d \in Of(access) :
             /\ At(A1, d).flags = IF d = l THEN At(access, d).flags \cup {} ELSE At(access, d).flags
             /\ At(A1, d).type = At(access, d).type
             /\ At(A1, d).successor = IF d = l THEN next ELSE At(access, d).successor
             /\ At(A1, d).child = IF d = l THEN down ELSE At(access, d).child
    BY <1>3, Zenon DEF Relinks
  <2>2. \A d \in Of(access) :
          /\ At(access', d).successor = IF d = l THEN next ELSE At(access, d).successor
          /\ At(access', d).child = IF d = l THEN down ELSE At(access, d).child
    BY <1>3, Zenon DEF Relinks
  <2>3. l \in Of(access) /\ l \in Access
    BY <1>4 DEF Access
  <2>4. F[l] = X
    BY <1>8, <2>3, Zenon
  <2>5. At(A1, l).flags = At(access, l).flags
    BY <2>1, <2>3
  <2>6. /\ At(A1, l).type = At(access, l).type
        /\ At(A1, l).successor = next /\ At(A1, l).child = down
    BY <2>1, <2>3, Zenon
  <2>7. At(access', l).successor = next /\ At(access', l).child = down
    BY <2>2, <2>3, Zenon
  <2>8. QED
    BY <2>1, <2>3, <2>4, <2>5, <2>6, <2>7, Zenon
<1>21. /\ message \in Message
       /\ message = NoMessage \/ (1 \in DOMAIN M /\ M # <<>> /\ message = M[1])
  <2> HIDE DEF F
  <2>1. QED
    BY <1>4, <1>20, SingleIs
<1> HIDE DEF message, M, F
<1>22. l # new => Answering(access, access', F, l)
  <2> SUFFICES ASSUME l # new PROVE Answering(access, access', F, l)
    OBVIOUS
  <2>1. l \in Of(access) /\ new \in Of(access) /\ F[new] = {} /\ At(access, new).flags = {}
    BY <1>2, <1>4, <1>8 DEF Access
  <2>2. \A g \in At(access, l).flags \cap Note : Justified(At(access, l).type, At(access, l).flags, g)
    BY <1>1, <1>4 DEF Causes
  <2>3. HASCHILD \in At(access', l).flags =>
              /\ down \in Of(access) /\ down # l /\ F[down] = {}
              /\ \A k \in Kind : <<"SATISFIED", k>> \in At(access, down).flags => ToChild(At(access, l).flags, k)
    <3>1. CASE down = new
      BY <2>1, <3>1
    <3>2. CASE down # new
      <4> SUFFICES ASSUME HASCHILD \in At(access', l).flags
                   PROVE  /\ down \in Access /\ down # l /\ F[down] = {}
                          /\ \A k \in Kind : <<"SATISFIED", k>> \in At(access, down).flags =>
                               ToChild(At(access, l).flags, k)
        BY DEF Access
      <4>1. down = At(access, l).child
        BY <1>4, <3>2
      <4>2. down # NoAccess
        BY <1>4, <1>7, <1>16, <1>20 DEF Links, LinkFlags
      <4>3. down \in Access /\ down # l
        BY <1>1, <1>4, <4>1, <4>2, NoSelfLinks
      <4>4. \A k \in Kind : <<"SATISFIED", k>> \in At(access, down).flags => ToChild(At(access, l).flags, k)
        BY <1>1, <1>4, <4>1, <4>3, Zenon DEF Causes, PassedOn
      <4>5. QED
        BY <1>8, <4>3, <4>4
    <3>3. QED
      BY <3>1, <3>2
  <2>4. HASNEXT \in At(access', l).flags =>
              /\ next \in Of(access) /\ next # l /\ F[next] = {}
              /\ \A k \in Kind :
                   (IF NEXTISPARENT \in At(access', l).flags THEN <<"CHILD_DONE", k>> ELSE <<"SATISFIED", k>>)
                     \in At(access, next).flags => ToNext(At(access, l).type, At(access, l).flags, k)
    <3>1. CASE next = new
      BY <2>1, <3>1
    <3>2. CASE next # new
      <4> SUFFICES ASSUME HASNEXT \in At(access', l).flags
                   PROVE  /\ next \in Access /\ next # l /\ F[next] = {}
                          /\ \A k \in Kind :
                               (IF NEXTISPARENT \in At(access', l).flags THEN <<"CHILD_DONE", k>> ELSE <<"SATISFIED", k>>)
                                 \in At(access, next).flags => ToNext(At(access, l).type, At(access, l).flags, k)
        BY DEF Access
      <4>1. next = At(access, l).successor
        BY <1>4, <3>2
      <4>2. next # NoAccess
        BY <1>4, <1>7, <1>16, <1>20 DEF Links, LinkFlags
      <4>3. next \in Access /\ next # l
        BY <1>1, <1>4, <4>1, <4>2, NoSelfLinks
      <4>4. NEXTISPARENT \in At(access', l).flags <=> NEXTISPARENT \in At(access, l).flags
        BY <1>4, <1>13
      <4>5. \A k \in Kind : PassedOn(access, l, next, k)
        BY <1>1, <1>4, <4>3, Zenon DEF Causes
      <4>6. \A k \in Kind :
              (IF NEXTISPARENT \in At(access, l).flags THEN <<"CHILD_DONE", k>> ELSE <<"SATISFIED", k>>)
                \in At(access, next).flags => ToNext(At(access, l).type, At(access, l).flags, k)
        BY <4>1, <4>5 DEF PassedOn
      <4>7. QED
        BY <1>8, <4>3, <4>4, <4>6
    <3>3. QED
      BY <3>1, <3>2
  <2>5. F[l] \cap At(access, l).flags = {} /\ F[l] \cap Note = {}
    BY <1>4, <1>20
  <2>6. QED
    BY <1>20, <2>1, <2>2, <2>3, <2>4, <2>5, Zenon DEF Answering
<1> DEFINE answer == IF l = new THEN <<>> ELSE M
<1>23. Answers(F, answer)
  <2>1. CASE l = new
    BY <2>1 DEF Answers
  <2>2. CASE l # new
    <3>1. M = Messages(l, At(A1, l), F[l], At(access', l).successor, At(access', l).child)
      BY <1>20 DEF M
    <3>2. Answers(F, M)
      BY <1>20, <1>22, <2>2, <3>1 DEF Answers
    <3>3. QED
      BY <2>2, <3>2
  <2>3. QED
    BY <2>1, <2>2
<1>24. \A s \in Slots : Unaffected(Msg(s), Bears(s), F)
  <2>1. CASE l # new
    <3>1. \A d \in Access : F[d] \subseteq {HASNEXT, HASCHILD, NEXTISPARENT}
      BY <1>4, <1>8, <2>1
    <3>2. QED
      BY <1>1, <3>1, LinkDisturbsNothing
  <2>2. CASE l = new
    <3> SUFFICES ASSUME NEW s \in Slots, Msg(s) # NoMessage
                 PROVE  /\ Msg(s).flagsAfterPropagation \cap F[Msg(s).from] = {}
                        /\ Bears(s) /\ Msg(s).to \in Access => Msg(s).flagsForNext \cap F[Msg(s).to] = {}
      BY DEF Unaffected
    <3>1. /\ Msg(s).from \in Access /\ Msg(s).flagsAfterPropagation \subseteq Note
      BY <1>1, MessageFlags DEF SlotsOK, Sent, Access
    <3>2. Msg(s).flagsAfterPropagation \cap F[Msg(s).from] = {}
      BY <1>18, <3>1
    <3>3. Bears(s) /\ Msg(s).flagsForNext # {} => Msg(s).to # new
      BY <1>1, <1>2, LinkedIsInserted
    <3>4. Bears(s) /\ Msg(s).to \in Access => Msg(s).flagsForNext \cap F[Msg(s).to] = {}
      BY <1>8, <2>2, <3>3
    <3>5. QED
      BY <3>2, <3>4
  <2>3. QED
    BY <2>1, <2>2
<1>25. SlotsOK' /\ NoDuplicates' /\ Combinations(F)
  <2>1. frame'[p].message = NoMessage \/ (1 \in DOMAIN answer /\ frame'[p].message = answer[1])
    BY <1>3, <1>9, <1>21
  <2> HIDE DEF answer
  <2>2. QED
    BY <1>1, <1>3, <1>7, <1>9, <1>23, <1>24, <2>1, LinkMessages
<1> HIDE DEF answer
<1>26. Holds(p)'
  <2>1. ASSUME place = "give" PROVE Sent(access', f.message) /\ f.message.flagsForNext # {} /\ f.message.to = new
    <3>1. l # new /\ message.flagsForNext # {} /\ f.message = message
      BY <1>3, <2>1
    <3>2. message # NoMessage /\ M # <<>> /\ message = M[1]
      BY <1>21, <3>1 DEF NoMessage
    <3>3. <<p, 0>> \in Slots' /\ Msg(<<p, 0>>)' = message
      BY <1>3, <1>9, <3>1 DEF Slots, Msg, TypesOK
    <3>4. Sent(access', message)
      BY <1>25, <3>2, <3>3 DEF SlotsOK
    <3>5. /\ X \subseteq {HASNEXT, NEXTISPARENT} => message.to = next
          /\ X = {HASCHILD} => message.to = down
      BY <3>2, LinkAnswers DEF M
    <3>6. message.to = new
      BY <1>6, <3>1, <3>5
    <3>7. QED
      BY <3>1, <3>4, <3>6
  <2>2. QED
    BY <1>3, <1>9, <1>10, <2>1 DEF Holds
<1>27. CombinesOwn(p)'
  <2> SUFFICES ASSUME f.own.combine
               PROVE  /\ f.own.flagsAfterPropagation = {REDUCTION_COMBINED}
                      /\ <<"SATISFIED", "WRITE">> \in At(access', new).flags
                      /\ REDUCTION_COMBINED \notin At(access', new).flags
                      /\ \A s \in Slots' : Msg(s)'.from = new => REDUCTION_COMBINED \notin Msg(s)'.flagsAfterPropagation
    BY <1>3, <1>7, <1>9 DEF CombinesOwn
  <2>1. l = new /\ message.combine /\ f.own.flagsAfterPropagation = message.flagsAfterPropagation
    <3>1. l = new
      BY <1>3 DEF NoMessage
    <3>2. f.own = [message EXCEPT !.schedule = TRUE]
      BY <1>3, <3>1
    <3>3. QED
      BY <1>21, <3>1, <3>2 DEF Message
  <2>2. /\ message = M[1] /\ 1 \in DOMAIN M
    BY <1>21, <2>1 DEF NoMessage
  <2>3. X = Satisfied(Kind) /\ At(A1, l).flags = {}
    BY <1>2, <1>6, <1>20, <2>1
  <2>4. HASNEXT \notin At(A1, l).flags \cup X /\ HASCHILD \notin At(A1, l).flags \cup X
    BY <2>3 DEF Satisfied, HASNEXT, HASCHILD
  <2>5. message.flagsAfterPropagation = {REDUCTION_COMBINED}
    BY <2>1, <2>2, <2>4, AnswerOfUnlinked DEF M
  <2>6. At(access', new).flags = Satisfied(Kind)
    BY <1>2, <1>13, <2>1, <2>3
  <2>7. <<"SATISFIED", "WRITE">> \in Satisfied(Kind) /\ REDUCTION_COMBINED \notin Satisfied(Kind)
    BY DEF Satisfied, Kind, REDUCTION_COMBINED
  <2>8. ASSUME NEW s \in Slots', Msg(s)'.from = new
        PROVE  REDUCTION_COMBINED \notin Msg(s)'.flagsAfterPropagation
    <3>1. s[1] \in Task /\ s[2] \in 0..Len(frame'[s[1]].mailBox) /\ s = <<s[1], s[2]>>
      BY <1>9, SlotsAre DEF Slots
    <3>2. CASE s[1] = p
      <4>1. Msg(s)' = NoMessage
        BY <1>3, <1>9, <2>1, <3>1, <3>2 DEF Msg
      <4>2. QED
        BY <4>1 DEF NoMessage
    <3>3. CASE s[1] # p
      <4>1. s \in Slots /\ Msg(s)' = Msg(s)
        BY <1>1, <1>9, <3>1, <3>3, SlotsAre DEF Msg
      <4>2. CASE Msg(s) = NoMessage
        BY <4>1, <4>2 DEF NoMessage
      <4>3. CASE Msg(s) # NoMessage
        BY <1>1, <1>2, <2>8, <4>1, <4>3, LinkedIsInserted
      <4>4. QED
        BY <4>2, <4>3
    <3>4. QED
      BY <3>2, <3>3
  <2>9. QED
    BY <2>1, <2>5, <2>6, <2>7, <2>8
<1>28. Causes'
  <2>1. LinkFlags'
    BY <1>16 DEF Links
  <2>2. ASSUME NEW d \in Access, NEW k \in Kind
        PROVE  /\ <<"CHILD_DONE", k>> \notin F[d]
               /\ <<"SATISFIED", k>> \in F[d] => d = new /\ l = new
    <3>1. <<"CHILD_DONE", k>> \notin F[d]
      BY <1>18 DEF ChildDone
    <3>2. <<"SATISFIED", k>> \notin {HASNEXT, HASCHILD}
      BY DEF HASNEXT, HASCHILD
    <3>3. QED
      BY <1>4, <1>8, <3>1, <3>2
  <2>3. ASSUME NEW a \in Access, NEW d \in Access, NEW k \in Kind
        PROVE  /\ <<"SATISFIED", k>> \in F[d] =>
                    At(access', a).child # d /\ At(access', a).successor # d /\ Above(d) # a
               /\ At(access', a).child = d /\ At(access, a).child # d => At(access', d).flags = {}
               /\ At(access', a).successor = d /\ At(access, a).successor # d => At(access', d).flags = {}
    <3>1. ASSUME <<"SATISFIED", k>> \in F[d]
          PROVE  At(access', a).child # d /\ At(access', a).successor # d /\ Above(d) # a
      <4>1. d = new /\ l = new
        BY <2>2, <3>1
      <4>2. At(access', a).child = At(access, a).child /\ At(access', a).successor = At(access, a).successor
        BY <1>6, <1>13, <4>1
      <4>3. At(access, a).child # new /\ At(access, a).successor # new
        BY <1>2
      <4>4. Above(new) # a
        BY <1>2, <1>6, <4>1
      <4>5. QED
        BY <4>1, <4>2, <4>3, <4>4
    <3>2. (At(access', a).child = d /\ At(access, a).child # d)
           \/ (At(access', a).successor = d /\ At(access, a).successor # d) => d = new /\ l # new
      BY <1>4, <1>6, <1>13
    <3>3. l # new => At(access', new).flags = {}
      BY <1>2, <1>13
    <3>4. QED
      BY <3>1, <3>2, <3>3
  <2>4. \A d \in Access : F[d] \cap Note = {}
    BY <1>18
  <2>5. QED
    BY <1>1, <1>7, <2>1, <2>2, <2>3, <2>4, CausesKept
<1>29. \A d \in Access : REDUCTION_COMBINED \notin F[d]
  BY <1>18 DEF Note
<1>30. QED
  BY <1>7, <1>9, <1>16, <1>17, <1>19, <1>25, <1>26, <1>27, <1>28, <1>29, LinkingStep

(* insertAccesses for one address.                                         *)
LEMMA InsertAccessKeeps ==
  ASSUME IInv, NEW p \in Task, NEW x, InsertAccess(p, x), program' = program
  PROVE  IInv'
<1> DEFINE new == <<Op(p)[2], x>>
           b == <<p, x>>
<1>1. pc[p] = "insert" /\ x \in frame[p].todo
  BY Zenon DEF InsertAccess
<1>2. PICK l, next, down, X, A1, place, f : InsertsAt(p, x, new, b, l, next, down, X, A1, place, f)
  BY InsertIs
<1>3. QED
  BY <1>1, <1>2, InsertKeeps

-----------------------------------------------------------------------------
(* The invariant is inductive.                                             *)

(* finalizeDataAccess, with or without subaccesses to join first.          *)
LEMMA FinalizeAccessKeeps ==
  ASSUME IInv, NEW p \in Task, NEW x, MayEnd(p, x), pc[p] # "unregister",
         FinalizeAccess(p, x), program' = program
  PROVE  IInv'
  BY UnregisterAccessKeeps, JoinChildrenKeeps DEF FinalizeAccess

(* Registering a task.                                                     *)
LEMMA RegisterStepKeeps ==
  ASSUME IInv, NEW p \in Task, RegisterStep(p), program' = program
  PROVE  IInv'
<1>1. CASE SubmitTask(p)
  BY <1>1, SubmitTaskKeeps
<1>2. CASE \E x \in Address : InsertAccess(p, x)
  BY <1>2, InsertAccessKeeps
<1>3. CASE GiveToNew(p)
  BY <1>3, GiveToNewKeeps
<1>4. CASE LinkAccess(p)
  BY <1>4, LinkAccessKeeps
<1>5. CASE EndRegistration(p)
  BY <1>5, EndRegistrationKeeps
<1>6. QED
  BY <1>1, <1>2, <1>3, <1>4, <1>5 DEF RegisterStep

(* Ending the accesses of a task.                                          *)
LEMMA UnregisterStepKeeps ==
  ASSUME IInv, NEW p \in Task, UnregisterStep(p), program' = program
  PROVE  IInv'
<1>1. CASE ReleaseAccessRegion(p)
  <2>1. InBody(p, "release") /\ FinalizeAccess(p, Op(p)[2]) /\ pc[p] # "unregister"
    BY <1>1 DEF ReleaseAccessRegion, InBody
  <2>2. QED
    BY <2>1, ReleaseMayEnd, FinalizeAccessKeeps
<1>2. CASE EndBody(p)
  BY <1>2, EndBodyQuiet
<1>3. CASE FinalizeNext(p)
  <2>1. pc[p] = "finalize"
    BY <1>3 DEF FinalizeNext
  <2>2. PICK x \in frame[p].todo : FinalizeAccess(p, x)
    BY <1>3 DEF FinalizeNext
  <2>3. MayEnd(p, x)
    BY <2>1, FinalizeMayEnd
  <2>4. QED
    BY <2>1, <2>2, <2>3, FinalizeAccessKeeps
<1>4. CASE JoinGive(p)
  BY <1>4, JoinGiveKeeps
<1>5. CASE Joined(p)
  BY <1>5, JoinedKeeps
<1>6. CASE FinalizeJoined(p)
  <2>1. pc[p] = "unregister" /\ UnregisterAccess(p, frame[p].addr[2])
    BY <1>6 DEF FinalizeJoined
  <2>2. QED
    BY <2>1, JoinedMayEnd, UnregisterAccessKeeps
<1>7. CASE Deliver(p)
  BY <1>7, DeliverKeeps
<1>8. CASE AfterDelivery(p)
  BY <1>8, AfterDeliveryKeeps
<1>9. CASE EndPropagation(p)
  BY <1>9, EndPropagationQuiet
<1>10. CASE EndFinalize(p)
  BY <1>10, EndFinalizeQuiet
<1>11. CASE \E x \in Address : FinalizeChildAccess(p, x)
  BY <1>11, FinalizeChildAccessKeeps
<1>12. CASE ReleaseCommutative(p)
  BY <1>12, ReleaseCommutativeQuiet
<1>13. CASE ScanCommutative(p)
  BY <1>13, OtherVariables DEF ScanCommutative, accessVars
<1>14. CASE DropOwnShare(p)
  BY <1>14, DropOwnShareQuiet
<1>15. CASE CompleteTask(p)
  BY <1>15, CompleteTaskQuiet
<1>16. QED
  BY <1>1, <1>2, <1>3, <1>4, <1>5, <1>6, <1>7, <1>8, <1>9, <1>10, <1>11, <1>12, <1>13, <1>14, <1>15
     DEF UnregisterStep

(* Every step of the system.                                               *)
LEMMA NextKeeps ==
  ASSUME IInv, [Next]_vars
  PROVE  IInv'
<1>1. ASSUME NEW p \in Task, Step(p)
      PROVE  IInv'
  <2>1. program' = program
    BY <1>1 DEF Step
  <2>2. CASE RegisterStep(p)
    BY <2>1, <2>2, RegisterStepKeeps
  <2>3. CASE UnregisterStep(p)
    BY <2>1, <2>3, UnregisterStepKeeps
  <2>4. CASE SubmitSatisfied(p)
    BY <2>1, <2>4, OtherVariables DEF SubmitSatisfied, accessVars
  <2>5. CASE DisposeTask(p)
    BY <2>1, <2>5, OtherVariables DEF DisposeTask, accessVars
  <2>6. CASE StartTask(p)
    BY <2>1, <2>6, StartTaskQuiet
  <2>7. CASE EnterTaskwait(p)
    BY <2>1, <2>7, EnterTaskwaitQuiet
  <2>8. CASE ExitTaskwait(p)
    BY <2>1, <2>8, ExitTaskwaitQuiet
  <2>9. QED
    BY <1>1, <2>2, <2>3, <2>4, <2>5, <2>6, <2>7, <2>8 DEF Step
<1>2. CASE UNCHANGED vars
  BY <1>2, OtherVariables DEF vars, accessVars
<1>3. QED
  BY <1>1, <1>2 DEF Next, Terminated

(* Before the main task creates any other, nothing is linked.              *)
LEMMA InitIsInvariant ==
  ASSUME Init
  PROVE  IInv
<1>1. PICK D \in Programs[program].declarations :
        access = [t \in Task |->
                   [x \in DOMAIN D[t] |->
                      [type |-> D[t][x].type, weak |-> D[t][x].weak,
                       operator |-> D[t][x].operator, flags |-> {},
                       successor |-> NoAccess, child |-> NoAccess,
                       reductionInfo |-> NoReduction]]]
  BY DEF Init
<1>2. /\ program \in DOMAIN Programs
      /\ bottomMap = [t \in Task |-> [x \in Address |-> [access |-> NoAccess, reductionInfo |-> NoReduction]]]
      /\ pc = [t \in Task |-> IF t = Main THEN "body" ELSE "none"]
      /\ frame = [t \in Task |-> NoFrame]
  BY DEF Init
<1>3. \A t \in Task : /\ DOMAIN D[t] \subseteq Address
                      /\ \A x \in DOMAIN D[t] :
                           D[t][x] \in [type : AccessType, weak : BOOLEAN, operator : {"+", "*"}]
  BY <1>2, ProperDeclarations
<1>4. \A t \in Task : Declared(t) = DOMAIN D[t]
  BY <1>1 DEF Declared
<1>5. IsAccessMap(access)
  <2>1. access = [t \in Task |-> [x \in DOMAIN access[t] |-> access[t][x]]]
    BY <1>1
  <2>2. \A t \in Task : DOMAIN access[t] \subseteq Address
    BY <1>3, <1>4 DEF Declared
  <2>3. \A a \in AccessId : a[2] \in DOMAIN access[a[1]] => access[a[1]][a[2]] \in AccessRecord
    <3> SUFFICES ASSUME NEW a \in AccessId, a[2] \in DOMAIN access[a[1]]
                 PROVE  access[a[1]][a[2]] \in AccessRecord
      OBVIOUS
    <3>1. a[1] \in Task /\ a[2] \in DOMAIN D[a[1]]
      BY <1>4 DEF AccessId, Declared
    <3>2. D[a[1]][a[2]] \in [type : AccessType, weak : BOOLEAN, operator : {"+", "*"}]
      BY <1>3, <3>1
    <3>3. QED
      BY <1>1, <3>1, <3>2 DEF AccessRecord
  <2>4. QED
    BY <2>1, <2>2, <2>3 DEF IsAccessMap
<1>6. \A a \in Access : /\ At(access, a).flags = {} /\ At(access, a).successor = NoAccess
                        /\ At(access, a).child = NoAccess /\ a # NoAccess
  <2>1. \A a \in Access : a[1] \in Task /\ a[2] \in DOMAIN D[a[1]]
    BY <1>4 DEF Access, Of, AccessId, Declared
  <2>2. \A a \in Access : a # NoAccess
    BY NoAccessIsNone DEF Access
  <2>3. QED
    BY <1>1, <2>1, <2>2 DEF At
<1>7. \A t \in Task : /\ pc[t] \in {"none", "body"} /\ frame[t] = NoFrame /\ (t # Main => pc[t] = "none")
                      /\ pc[Main] = "body"
  BY <1>2, RegistrationAssumption
<1>8. NoFrame \in FrameRecord /\ NoFrame.message = NoMessage /\ NoFrame.mailBox = <<>>
  BY NothingTyped DEF NoFrame
<1>9. TypesOK
  <2>1. \E E \in Programs[program].declarations : \A t \in Task : Declared(t) = DOMAIN E[t]
    BY <1>4
  <2>2. pc \in [Task -> Place]
    BY <1>2 DEF Place
  <2>3. frame \in [Task -> FrameRecord]
    BY <1>2, <1>8
  <2>4. bottomMap \in BottomMaps
    BY <1>2 DEF BottomMaps, NoReduction
  <2>5. QED
    BY <1>2, <1>5, <2>1, <2>2, <2>3, <2>4 DEF TypesOK, FrameRecord, BottomMaps
<1>10. Control
  BY <1>7, RegistrationAssumption DEF Control, Creating
<1>11. \A b \in AccessId : LastBelow(b) = NoAccess
  BY <1>2 DEF LastBelow, AccessId
<1>12. LinkFlags /\ NotYetLinked /\ ChildLinks /\ SuccessorLinks /\ OnePredecessor
  BY <1>6 DEF LinkFlags, NotYetLinked, ChildLinks, SuccessorLinks, OnePredecessor
<1>13. BottomLinks
  BY <1>6, <1>11 DEF BottomLinks
<1>14. Endings
  BY <1>6, <1>7 DEF Endings, Joining, Finished
<1>15. Messaging
  <2>1. \A s \in Slots : Msg(s) = NoMessage
    <3> SUFFICES ASSUME NEW s \in Slots PROVE Msg(s) = NoMessage
      OBVIOUS
    <3>1. s[1] \in Task /\ s[2] \in 0..Len(frame[s[1]].mailBox)
      BY <1>9, SlotsAre
    <3>2. s[2] = 0
      BY <1>7, <1>8, <3>1
    <3>3. QED
      BY <1>7, <1>8, <3>1, <3>2 DEF Msg
  <2>2. Carried(access, NoMessage) /\ NoMessage.flagsAfterPropagation = {}
    BY DEF Carried, NoMessage
  <2>3. SlotsOK /\ NoDuplicates
    BY <2>1, <2>2 DEF SlotsOK, NoDuplicates
  <2>4. \A p \in Task : Holds(p) /\ CombinesOwn(p)
    BY <1>7, <1>8 DEF Holds, CombinesOwn
  <2>5. QED
    BY <2>3, <2>4 DEF Messaging
<1>16. Causes
  BY <1>6 DEF Causes, PassedOn
<1>17. QED
  BY <1>9, <1>10, <1>12, <1>13, <1>14, <1>15, <1>16 DEF IInv

-----------------------------------------------------------------------------
(* What the invariant says of the next fetch_add of every thread.          *)

(* Flags that are no satisfiability and no link pass nothing on to a       *)
(* child.                                                                  *)
LEMMA NothingForChild ==
  ASSUME NEW new, NEW all, new \cap (Satisfied(Kind) \cup {HASCHILD}) = {}
  PROVE  KindsForChild(new, all) = {}
  BY DEF KindsForChild, Propagates, Satisfied

(* a comes right before x below the same parent; b is the last one below   *)
(* x, and was chained to it.                                               *)
Previous(a, x) == At(access, a).successor = x /\ NEXTISPARENT \notin At(access, a).flags
ChainedTo(b, x) == At(access, b).successor = x /\ NEXTISPARENT \in At(access, b).flags

(* An access with subaccesses that are done has the last of them chained.  *)
LEMMA DoneIsChained ==
  ASSUME IInv, NEW a \in Access, At(access, a).child # NoAccess, NEW k \in Kind,
         <<"CHILD_DONE", k>> \in At(access, a).flags
  PROVE  LastBelow(a) \in Access /\ ChainedTo(LastBelow(a), a)
<1> DEFINE c == LastBelow(a)
<1>1. Links /\ Endings /\ TypesOK /\ Control
  BY DEF IInv, Links
<1>2. a \in AccessId
  BY DEF Access, Of
<1>3. c \in Access /\ Above(c) = a
  BY <1>1, <1>2 DEF Links, BottomLinks
<1>4. NEXTISPARENT \in At(access, c).flags
  <2>1. At(access, a).flags \cap ChildDone(Kind) # {}
    BY DEF ChildDone
  <2>2. QED
    BY <1>1, <1>3, <2>1 DEF Endings
<1> HIDE DEF c
<1>5. At(access, c).successor # NoAccess
  BY <1>1, <1>3, <1>4 DEF Links, LinkFlags
<1>6. At(access, c).successor \in Access
  BY <1>1, <1>3, <1>5, NoSelfLinks
<1>7. At(access, c).successor = a
  BY <1>1, <1>3, <1>4, <1>6 DEF Links, SuccessorLinks
<1>8. QED
  BY <1>3, <1>4, <1>7 DEF ChainedTo, c

(* What an access gets across from below has been waited for by all of its *)
(* subaccesses: an access that was not satisfied is not told that they are *)
(* done.                                                                   *)
LEMMA DoneOnlyIfSatisfied ==
  ASSUME IInv, NEW a \in Access, At(access, a).child # NoAccess, NEW k \in Kind,
         <<"CHILD_DONE", k>> \in At(access, a).flags
  PROVE  <<"SATISFIED", k>> \in At(access, a).flags
<1>1. BottomLinks /\ Causes /\ a \in AccessId
  BY DEF IInv, Access, Of
<1>2. PICK c \in Access : c = LastBelow(a) /\ ChainedTo(c, a) /\ Above(c) = a
  <2>1. LastBelow(a) \in Access /\ ChainedTo(LastBelow(a), a)
    BY DoneIsChained
  <2>2. Above(LastBelow(a)) = a
    BY <1>1, <2>1 DEF BottomLinks
  <2>3. QED
    BY <2>1, <2>2
<1>3. PassedOn(access, c, a, k)
  BY <1>1, <1>2, Zenon DEF Causes
<1>4. ToNext(At(access, c).type, At(access, c).flags, k)
  BY <1>2, <1>3 DEF PassedOn, ChainedTo
<1>5. <<"SATISFIED", k>> \in At(access, c).flags
  BY <1>4 DEF ToNext, ReleaseCondition, Satisfied
<1>6. QED
  BY <1>1, <1>2, <1>5, Zenon DEF Causes

(* A message under way is the only one of its flags.                       *)
LEMMA DeliveryIsAtomic ==
  ASSUME IInv, NEW s \in Slots, Bears(s), Msg(s).flagsForNext # {},
         NEW a, a = Msg(s).to,
         pc[s[1]] = "joinGive" => UNREGISTERED \notin At(access, a).flags
  PROVE  AddsOnce(At(access, a), Msg(s).flagsForNext) /\ OneDestination(At(access, a), Msg(s).flagsForNext)
<1> DEFINE new == Msg(s).flagsForNext
           acc == At(access, a)
           all == acc.flags \cup new
<1>1. Carried(access, Msg(s))
  BY DEF IInv, Messaging, SlotsOK
<1>2. a \in Access /\ new \cap acc.flags = {}
  BY <1>1 DEF Carried, Access
<1>3. new \subseteq Satisfied(Kind) \cup ChildDone(Kind)
  BY <1>1, MessageFlags
<1>4. ASSUME acc.type \notin SharedType, KindsForChild(new, all) # {}, KindsForNext(acc.type, new, all) # {}
      PROVE  FALSE
  <2>1. PICK j \in Kind : Propagates(new, all, Satisfied({j}) \cup {HASCHILD})
    BY <1>4 DEF KindsForChild
  <2>2. PICK k \in Kind : Propagates(new, all, ReleaseCondition(acc.type, k))
    BY <1>4 DEF KindsForNext
  <2>3. ReleaseCondition(acc.type, k) = Satisfied({k}) \cup ChildDone({k}) \cup {UNREGISTERED, HASNEXT}
    BY <1>4 DEF ReleaseCondition
  <2>4. {HASCHILD, UNREGISTERED, HASNEXT} \cap new = {}
    <3>1. {UNREGISTERED, HASNEXT, HASCHILD} \cap (Satisfied(Kind) \cup ChildDone(Kind)) = {}
      BY FlagsDiffer
    <3>2. QED
      BY <1>3, <3>1
  <2>5. HASCHILD \in acc.flags
    BY <2>1, <2>4 DEF Propagates
  <2>6. acc.child # NoAccess
    BY <1>2, <2>5 DEF IInv, LinkFlags
  <2>7. <<"SATISFIED", k>> \in all /\ <<"CHILD_DONE", k>> \in all
    BY <2>2, <2>3 DEF Propagates, Satisfied, ChildDone
  <2>8. PICK K \in SUBSET Kind : new = Satisfied(K) \/ new = ChildDone(K)
    BY <1>1 DEF Carried, GoesToChild, GoesToNext
  <2>9. <<"SATISFIED", j>> \in new
    <3>1. new \cap Satisfied({j}) # {}
      BY <2>1, <2>4 DEF Propagates
    <3>2. QED
      BY <3>1 DEF Satisfied
  <2>10. new = Satisfied(K)
    BY <2>8, <2>9 DEF ChildDone
  <2>11. <<"CHILD_DONE", k>> \in acc.flags
    BY <2>7, <2>10 DEF Satisfied
  <2>12. <<"SATISFIED", k>> \in new
    BY <2>2, <2>3, <2>4, <2>10 DEF Propagates, Satisfied, ChildDone
  <2>13. <<"SATISFIED", k>> \in acc.flags
    BY <1>2, <2>6, <2>11, DoneOnlyIfSatisfied
  <2>14. QED
    BY <1>2, <2>12, <2>13
<1>5. QED
  BY <1>2, <1>4 DEF AddsOnce, OneDestination

(* The invariant gives the property.                                       *)
LEMMA InvariantGivesAtomicity ==
  ASSUME IInv
  PROVE  AdditionsAreAtomic
<1>1. /\ TypesOK /\ Control /\ SlotsOK /\ \A p \in Task : Holds(p)
  BY DEF IInv, Messaging
<1> SUFFICES ASSUME NEW p \in Task, NEW add \in Pending(p)
             PROVE  AddsOnce(Acc(add[1]), add[2]) /\ OneDestination(Acc(add[1]), add[2])
  BY DEF AdditionsAreAtomic
<1>2. \A a : Acc(a) = At(access, a)
  BY DEF Acc, At
<1> DEFINE m == frame[p].message
<1>3. <<p, 0>> \in Slots /\ Msg(<<p, 0>>) = m
  BY <1>1, SlotZero
<1>4. CASE pc[p] \in {"give", "joinGive"}
  <2>1. add[1] = frame[p].addr /\ add[2] = m.flagsForNext
    BY <1>4 DEF Pending
  <2>2. m.flagsForNext # {} /\ m.to = frame[p].addr
    BY <1>1, <1>4 DEF Holds
  <2>3. Bears(<<p, 0>>)
    BY <1>4 DEF Bears
  <2>4. pc[<<p, 0>>[1]] = "joinGive" => UNREGISTERED \notin At(access, frame[p].addr).flags
    BY <1>4 DEF IInv, Endings, Joining, JoinsAt
  <2> HIDE DEF m
  <2>5. QED
    BY <1>2, <1>3, <2>1, <2>2, <2>3, <2>4, DeliveryIsAtomic
<1>5. CASE pc[p] \in {"linked", "joined", "delivered"}
  <2>1. add[1] = m.from /\ add[2] = m.flagsAfterPropagation /\ m.from # NoAccess
    BY <1>5 DEF Pending
  <2>2. Sent(access, m)
    <3>1. m # NoMessage
      BY <2>1 DEF NoMessage
    <3>2. QED
      BY <1>1, <1>3, <3>1 DEF SlotsOK
  <2>3. add[2] \cap At(access, add[1]).flags = {} /\ add[2] \subseteq Note
    BY <2>1, <2>2, MessageFlags DEF Sent
  <2>4. Note \cap (Satisfied(Kind) \cup {HASCHILD}) = {}
    BY FlagsDiffer
  <2>5. KindsForChild(add[2], Acc(add[1]).flags \cup add[2]) = {}
    BY <2>3, <2>4, NothingForChild
  <2>6. QED
    BY <1>2, <2>3, <2>5 DEF AddsOnce, OneDestination
<1>6. CASE pc[p] = "propagate"
  <2> DEFINE head == Head(frame[p].mailBox)
  <2>1. frame[p].mailBox # <<>> /\ add[1] = head.to /\ add[2] = head.flagsForNext
    BY <1>6 DEF Pending, NoMessage
  <2>2. <<p, 1>> \in Slots /\ Msg(<<p, 1>>) = head /\ Bears(<<p, 1>>)
    <3>1. frame[p].mailBox \in Seq(Message) /\ Len(frame[p].mailBox) \in Nat /\ Len(frame[p].mailBox) >= 1
      BY <1>1, <2>1 DEF TypesOK
    <3>2. head = frame[p].mailBox[1]
      BY <2>1, <3>1
    <3>3. QED
      BY <1>1, <3>1, <3>2, SlotsAre DEF Msg, Bears
  <2>3. CASE head.flagsForNext = {}
    <3>1. KindsForChild(add[2], Acc(add[1]).flags \cup add[2]) = {}
      BY <2>1, <2>3, NothingForChild
    <3>2. QED
      BY <2>1, <2>3, <3>1 DEF AddsOnce, OneDestination
  <2>4. CASE head.flagsForNext # {}
    <3>1. pc[<<p, 1>>[1]] # "joinGive"
      BY <1>6
    <3> HIDE DEF head
    <3>2. QED
      BY <1>2, <2>1, <2>2, <2>4, <3>1, DeliveryIsAtomic
  <2>5. QED
    BY <2>3, <2>4
<1>7. pc[p] \in {"give", "joinGive", "linked", "joined", "delivered", "propagate"}
  BY DEF Pending
<1>8. QED
  BY <1>4, <1>5, <1>6, <1>7

(* The next fetch_add of every thread adds flags that are not there: it    *)
(* carries into no other flag, and where the automata answers with a       *)
(* single message it has a single destination (the assertions of apply,    *)
(* applySingle and applyPropagated in DataAccess.cpp).                     *)
THEOREM FlagsAreAddedOnce == Spec => []AdditionsAreAtomic
<1>1. Init => IInv
  BY InitIsInvariant
<1>2. IInv /\ [Next]_vars => IInv'
  BY NextKeeps
<1>3. IInv => AdditionsAreAtomic
  BY InvariantGivesAtomicity
<1>4. QED
  BY <1>1, <1>2, <1>3, PTL DEF Spec

-----------------------------------------------------------------------------
(* Where an access cannot be disposed of.                                  *)

(* A thread that has begun to tell the last accesses below its task that   *)
(* no other one will come.                                                 *)
Late == {"children", "releasing", "completing", "done"}

ParentsAreDone ==
  \A a \in Access : PARENT_DONE \in At(access, a).flags =>
    Parent[a[1]] \in Task /\ pc[Parent[a[1]]] \in Late

(* While a thread chains the last access below its own to it, the message  *)
(* in its hands is from that one; while it links a new access, it is from  *)
(* an access on the same address, and what the new one answers notes what  *)
(* a message notes.                                                        *)
Hands(p) ==
  LET from == frame[p].message.from
  IN  /\ pc[p] \in {"joinGive", "joined"} =>
           /\ from \in Access /\ Above(from) = frame[p].addr
           /\ NEXTISPARENT \in At(access, from).flags
      /\ pc[p] \in {"give", "linked"} =>
           /\ from = NoAccess \/ from[2] = frame[p].addr[2]
           /\ frame[p].own.flagsAfterPropagation \subseteq Note

Heed == ParentsAreDone /\ \A p \in Task : Hands(p)

(* The accesses of A have in B the same flags and more, but not that their *)
(* parent is done.                                                         *)
GetsMore(A, B) ==
  /\ IsAccessMap(B) /\ Of(B) = Of(A)
  /\ \A a \in Of(A) :
       /\ At(A, a).flags \subseteq At(B, a).flags
       /\ PARENT_DONE \in At(B, a).flags => PARENT_DONE \in At(A, a).flags

(* A fetch_add of other flags.                                             *)
LEMMA AddedGetsMore ==
  ASSUME NEW A, IsAccessMap(A), NEW a \in Of(A), NEW X \in SUBSET Flag, PARENT_DONE \notin X
  PROVE  GetsMore(A, Added(A, a, X))
<1> DEFINE B == Added(A, a, X)
<1>1. OnlyGains(A, B, a, X)
  BY Gained
<1> HIDE DEF B
<1>2. GetsMore(A, B)
  BY <1>1 DEF OnlyGains, GetsMore
<1>3. QED
  BY <1>2 DEF B

(* What the first of the answers of an access says of its sender.          *)
LEMMA SingleFrom ==
  ASSUME NEW A, IsAccessMap(A), NEW a \in Of(A), NEW X \in SUBSET Flag
  PROVE  /\ Single(A, a, X).from \in {a, NoAccess}
         /\ Single(A, a, X) # NoMessage => Single(A, a, X).from = a
         /\ Single(A, a, X).flagsAfterPropagation \subseteq Note
<1> DEFINE M == Messages(a, At(A, a), X, At(A, a).successor, At(A, a).child)
           m == Single(A, a, X)
<1>1. m = NoMessage \/ (1 \in DOMAIN M /\ m = M[1])
  BY SingleIs
<1>2. CASE m = NoMessage
  BY <1>2 DEF NoMessage
<1>3. CASE 1 \in DOMAIN M /\ m = M[1]
  <2> DEFINE all == At(A, a).flags \cup X
  <2>1. /\ M[1].from = a
        /\ \/ AnswersChild(M[1], At(A, a).child, KindsForChild(X, all))
           \/ AnswersNext(M[1], At(A, a).successor, all, KindsForNext(At(A, a).type, X, all))
    BY <1>3, AnswerFields
  <2> HIDE DEF M, m
  <2>2. M[1].flagsAfterPropagation \subseteq Note
    BY <2>1 DEF AnswersChild, AnswersNext, KindsForChild, KindsForNext, Note, ChildSatisfied, NextSatisfied
  <2>3. m.from = a /\ m.flagsAfterPropagation \subseteq Note
    BY <1>3, <2>1, <2>2
  <2>4. QED
    BY <2>3 DEF m
<1>4. QED
  BY <1>1, <1>2, <1>3

(* A step of one thread that adds other flags.                             *)
LEMMA HeedStep ==
  ASSUME IInv, Heed, NEW p \in Task, program' = program, GetsMore(access, access'),
         \A q \in Task : pc[q] \in Late => pc'[q] \in Late,
         \A q \in Task \ {p} : frame'[q] = frame[q] /\ (pc'[q] = pc[q] \/ pc'[q] \in {"registering", "submitted"}),
         Hands(p)'
  PROVE  Heed'
<1>1. Access' = Access /\ Access = Of(access) /\ Parent' = Parent /\ \A b : Above(b)' = Above(b)
  BY SameProgram DEF GetsMore, Access
<1>2. ParentsAreDone'
  BY <1>1 DEF Heed, ParentsAreDone, GetsMore
<1>3. ASSUME NEW q \in Task \ {p} PROVE Hands(q)'
  <2>1. frame'[q] = frame[q] /\ Hands(q)
    BY DEF Heed
  <2>2. pc'[q] \in {"joinGive", "joined", "give", "linked"} => pc'[q] = pc[q]
    BY <1>3
  <2>3. \A b \in Access : NEXTISPARENT \in At(access, b).flags => NEXTISPARENT \in At(access', b).flags
    BY <1>1 DEF GetsMore
  <2>4. QED
    BY <1>1, <2>1, <2>2, <2>3 DEF Hands
<1>4. QED
  BY <1>2, <1>3 DEF Heed

(* The thread goes to another place.                                       *)
LEMMA HeedMove ==
  ASSUME IInv, Heed, NEW p \in Task, NEW x, program' = program, GetsMore(access, access'),
         pc' = [pc EXCEPT ![p] = x], pc[p] \in Late => x \in Late,
         \A q \in Task \ {p} : frame'[q] = frame[q], Hands(p)'
  PROVE  Heed'
<1>1. pc \in [Task -> Place]
  BY DEF IInv, TypesOK
<1>2. /\ \A q \in Task : pc[q] \in Late => pc'[q] \in Late
      /\ \A q \in Task \ {p} : pc'[q] = pc[q]
  BY <1>1
<1>3. QED
  BY <1>2, HeedStep

(* A thread that changes no access and holds nothing.                      *)
LEMMA HeedQuiet ==
  ASSUME IInv, Heed, NEW p \in Task, NEW x, program' = program, access' = access,
         pc' = [pc EXCEPT ![p] = x], pc[p] \in Late => x \in Late,
         x \notin {"joinGive", "joined", "give", "linked"},
         \A q \in Task \ {p} : frame'[q] = frame[q]
  PROVE  Heed'
<1>1. GetsMore(access, access')
  BY DEF GetsMore, IInv, TypesOK
<1>2. pc'[p] = x
  BY DEF IInv, TypesOK
<1>3. Hands(p)'
  BY <1>2 DEF Hands
<1>4. QED
  BY <1>1, <1>3, HeedMove

(* The task of the operation a thread comes to is not created yet.         *)
LEMMA CreatesNew ==
  ASSUME TypesOK, Control, NEW p \in Task, pc[p] = "body",
         frame[p].ip \in DOMAIN Body[p], Op(p)[1] = "create"
  PROVE  /\ Op(p)[2] \in Task \ {Main} /\ Op(p)[2] # p /\ pc[Op(p)[2]] = "none"
         /\ Op(p) = <<"create", Op(p)[2]>> /\ Parent[Op(p)[2]] = p
         /\ \A u \in Task : \A j \in DOMAIN Body[u] :
              Body[u][j] = <<"create", Op(p)[2]>> => u = p /\ j = frame[p].ip
<1> DEFINE e == Op(p)[2]
<1>1. Op(p) = <<"create", e>>
  <2>1. Body[p] \in Seq({"create", "release", "taskwait"} \X (Task \cup Address))
    BY RegistrationAssumption DEF Body, TypesOK
  <2>2. Op(p) \in {"create", "release", "taskwait"} \X (Task \cup Address)
    BY <2>1 DEF Op
  <2>3. QED
    BY <2>2
<1> HIDE DEF e
<1>2. PICK c : c = e
  OBVIOUS
<1>3. /\ c \in Task \ {Main} /\ Parent[c] = p
      /\ \A u \in Task : \A j \in DOMAIN Body[u] : Body[u][j] = <<"create", c>> => u = p /\ j = frame[p].ip
  <2> DEFINE i == frame[p].ip
  <2>1. i \in DOMAIN Body[p] /\ Body[p][i] = <<"create", c>>
    BY <1>1, <1>2 DEF Op
  <2> HIDE DEF i
  <2>2. /\ c \in Task \ {Main} /\ Parent[c] = p
        /\ \A u \in Task : \A j \in DOMAIN Body[u] : Body[u][j] = <<"create", c>> => u = p /\ j = i
    <3>1. program \in DOMAIN Programs
      BY DEF TypesOK
    <3>2. QED
      BY <2>1, <3>1, ParentIs
  <2>3. QED
    BY <2>2 DEF i
<1>4. pc[c] = "none" /\ c # p
  <2>1. ~Past(p, frame[p].ip) /\ pc[p] \notin Creating
    <3>1. frame[p].ip \in Nat
      BY DEF TypesOK
    <3>2. ~Finished(p)
      BY DEF Finished
    <3>3. QED
      BY <3>1, <3>2 DEF Past, Creating
  <2>2. ~CreatedAt(c)
    BY <1>3, <2>1 DEF CreatedAt
  <2>3. QED
    BY <1>3, <2>2 DEF Control
<1>5. QED
  BY <1>1, <1>2, <1>3, <1>4 DEF e

(* What a thread gives to an access says nothing about its parent.         *)
LEMMA GivesLittle ==
  ASSUME IInv, NEW p \in Task, pc[p] \in {"give", "joinGive"}
  PROVE  /\ frame[p].addr \in Access /\ frame[p].message.to = frame[p].addr
         /\ frame[p].message.flagsForNext \in SUBSET Flag
         /\ frame[p].message.flagsForNext \subseteq Satisfied(Kind) \cup ChildDone(Kind)
         /\ PARENT_DONE \notin frame[p].message.flagsForNext
<1> DEFINE m == frame[p].message
<1>1. /\ TypesOK /\ SlotsOK /\ m.flagsForNext # {} /\ m.to = frame[p].addr
      /\ frame[p] \in FrameRecord
  BY FrameIs DEF IInv, Messaging, Holds
<1>2. <<p, 0>> \in Slots /\ Msg(<<p, 0>>) = m /\ Bears(<<p, 0>>)
  BY <1>1, SlotZero DEF Bears
<1>3. Carried(access, m)
  BY <1>1, <1>2 DEF SlotsOK
<1>4. m.to \in Access /\ m.flagsForNext \subseteq Satisfied(Kind) \cup ChildDone(Kind)
  BY <1>1, <1>3, MessageFlags DEF Carried, Access
<1>5. m.flagsForNext \in SUBSET Flag
  BY <1>1 DEF FrameRecord, Message
<1>6. QED
  BY <1>1, <1>4, <1>5, FlagsDiffer

(* A task that submits another one.                                        *)
LEMMA SubmitTaskHeeds ==
  ASSUME IInv, Heed, NEW p \in Task, SubmitTask(p), program' = program
  PROVE  Heed'
<1> DEFINE c == Op(p)[2]
<1>1. /\ TypesOK /\ Control
      /\ pc[p] = "body" /\ frame[p].ip \in DOMAIN Body[p] /\ Op(p)[1] = "create"
      /\ pc' = [pc EXCEPT ![p] = "insert", ![c] = "registering"]
      /\ frame' = [frame EXCEPT ![p].todo = Declared(c)]
      /\ access' = access
  BY DEF IInv, SubmitTask, InBody, accessVars
<1>2. c \in Task /\ c # p /\ pc[c] = "none"
  BY <1>1, CreatesNew
<1> HIDE DEF c
<1>3. /\ pc'[p] = "insert" /\ pc'[c] = "registering" /\ \A q \in Task \ {p, c} : pc'[q] = pc[q]
      /\ \A q \in Task \ {p} : frame'[q] = frame[q]
  BY <1>1, <1>2 DEF TypesOK
<1>4. GetsMore(access, access')
  BY <1>1 DEF GetsMore, TypesOK
<1>5. \A q \in Task : pc[q] \in Late => pc'[q] \in Late
  BY <1>1, <1>2, <1>3 DEF Late
<1>6. Hands(p)'
  BY <1>3 DEF Hands
<1>7. QED
  BY <1>3, <1>4, <1>5, <1>6, HeedStep

(* The end of the registration.                                            *)
LEMMA EndRegistrationHeeds ==
  ASSUME IInv, Heed, NEW p \in Task, EndRegistration(p), program' = program
  PROVE  Heed'
<1> DEFINE c == Op(p)[2]
<1>1. /\ TypesOK /\ Control
      /\ pc[p] = "insert"
      /\ pc' = [pc EXCEPT ![p] = "body", ![c] = "submitted"]
      /\ frame' = [frame EXCEPT ![p].ip = @ + 1]
      /\ access' = access
  BY DEF IInv, EndRegistration, accessVars
<1>2. c \in Task /\ c # p /\ pc[c] = "registering"
  BY <1>1, Registers DEF Creating
<1> HIDE DEF c
<1>3. /\ pc'[p] = "body" /\ pc'[c] = "submitted" /\ \A q \in Task \ {p, c} : pc'[q] = pc[q]
      /\ \A q \in Task \ {p} : frame'[q] = frame[q]
  BY <1>1, <1>2 DEF TypesOK
<1>4. GetsMore(access, access')
  BY <1>1 DEF GetsMore, TypesOK
<1>5. \A q \in Task : pc[q] \in Late => pc'[q] \in Late
  BY <1>1, <1>2, <1>3 DEF Late
<1>6. Hands(p)'
  BY <1>3 DEF Hands
<1>7. QED
  BY <1>3, <1>4, <1>5, <1>6, HeedStep

(* insertAccesses: the message the thread holds is from the previous       *)
(* access on the address, or from the access of the parent.                *)
LEMMA InsertAccessHeeds ==
  ASSUME IInv, Heed, NEW p \in Task, NEW x, InsertAccess(p, x), program' = program
  PROVE  Heed'
<1> DEFINE new == <<Op(p)[2], x>>
           b == <<p, x>>
<1>1. pc[p] = "insert" /\ x \in frame[p].todo
  BY Zenon DEF InsertAccess
<1>2. PICK l, next, down, X, A1, place, f : InsertsAt(p, x, new, b, l, next, down, X, A1, place, f)
  BY InsertIs
<1>3. /\ InsertLinksOf(new, b, l, next, down, X)
      /\ Relinks(access, A1, l, next, down, {}) /\ Relinks(access, access', l, next, down, X)
      /\ GoesTo(p, place, f) /\ f.addr = new
      /\ f.message = IF l = new THEN NoMessage ELSE Single(A1, l, X)
      /\ f.own = IF l = new THEN [Single(A1, l, X) EXCEPT !.schedule = TRUE] ELSE NoMessage
      /\ place \in {"give", "linked"}
  BY <1>2 DEF InsertsAt
<1>4. l \in Access /\ X \in SUBSET Flag
  BY <1>1, <1>3, InsertPlace
<1>5. PARENT_DONE \notin X
  <2>1. X \in {{HASNEXT}, {HASCHILD}, Satisfied(Kind)}
    BY <1>3 DEF InsertLinksOf
  <2>2. PARENT_DONE \notin {HASNEXT, HASCHILD}
    BY DEF PARENT_DONE, HASNEXT, HASCHILD
  <2>3. PARENT_DONE \notin Satisfied(Kind)
    BY FlagsDiffer
  <2>4. QED
    BY <2>1, <2>2, <2>3
<1>6. l # new => l[2] = x
  <2>1. b \in AccessId /\ new[2] = x /\ b[2] = x
    BY <1>1, InsertContext
  <2>2. CASE LastBelow(b) # NoAccess /\ l = LastBelow(b)
    <3>1. Above(l) = b
      BY <1>4, <2>1, <2>2 DEF IInv, BottomLinks
    <3>2. QED
      BY <2>1, <3>1 DEF Above
  <2>3. l = b \/ l = new \/ (LastBelow(b) # NoAccess /\ l = LastBelow(b))
    BY <1>3 DEF InsertLinksOf
  <2>4. QED
    BY <2>1, <2>2, <2>3
<1>7. GetsMore(access, access')
  BY <1>3, <1>5 DEF Relinks, GetsMore
<1>8. IsAccessMap(A1) /\ l \in Of(A1)
  BY <1>3, <1>4 DEF Relinks, Access
<1>9. f.message.from = NoAccess \/ f.message.from[2] = f.addr[2]
  <2>1. CASE l = new
    BY <1>3, <2>1 DEF NoMessage
  <2>2. CASE l # new
    <3>1. f.message.from \in {l, NoAccess}
      BY <1>3, <1>4, <1>8, <2>2, SingleFrom
    <3>2. f.addr[2] = x
      BY <1>3
    <3>3. QED
      BY <1>6, <2>2, <3>1, <3>2
  <2>3. QED
    BY <2>1, <2>2
<1>10. f.own.flagsAfterPropagation \subseteq Note
  <2>1. CASE l = new
    <3>1. Single(A1, l, X).flagsAfterPropagation \subseteq Note /\ Single(A1, l, X) \in Message
      BY <1>4, <1>8, SingleFrom, SingleIs
    <3>2. QED
      BY <1>3, <2>1, <3>1 DEF Message
  <2>2. CASE l # new
    BY <1>3, <2>2 DEF NoMessage
  <2>3. QED
    BY <2>1, <2>2
<1>11. pc'[p] = place /\ frame'[p] = f /\ \A q \in Task \ {p} : frame'[q] = frame[q]
  BY <1>3 DEF GoesTo, IInv, TypesOK
<1>12. Hands(p)'
  BY <1>3, <1>9, <1>10, <1>11 DEF Hands
<1>13. QED
  BY <1>1, <1>3, <1>7, <1>11, <1>12, HeedMove DEF GoesTo, Late

(* The access gets the first message.                                      *)
LEMMA GiveToNewHeeds ==
  ASSUME IInv, Heed, NEW p \in Task, GiveToNew(p), program' = program
  PROVE  Heed'
<1> DEFINE m == frame[p].message
           new == frame[p].addr
           own == Single(access, new, m.flagsForNext)
<1>1. /\ pc[p] = "give"
      /\ access' = Added(access, new, m.flagsForNext)
      /\ frame' = [frame EXCEPT ![p].own = own]
      /\ pc' = [pc EXCEPT ![p] = "linked"]
  BY DEF GiveToNew
<1>2. /\ new \in Access /\ m.flagsForNext \in SUBSET Flag /\ PARENT_DONE \notin m.flagsForNext
      /\ TypesOK /\ IsAccessMap(access)
  BY <1>1, GivesLittle DEF IInv, TypesOK
<1>3. own.flagsAfterPropagation \subseteq Note
  BY <1>2, SingleFrom DEF Access
<1>4. GetsMore(access, access')
  BY <1>1, <1>2, AddedGetsMore DEF Access
<1> HIDE DEF own
<1>5. /\ pc'[p] = "linked" /\ frame'[p] = [frame[p] EXCEPT !.own = own]
      /\ \A q \in Task \ {p} : frame'[q] = frame[q]
  BY <1>1, <1>2 DEF TypesOK
<1>6. frame'[p].own = own /\ frame'[p].message = m /\ frame'[p].addr = new
  <2>1. frame[p] \in FrameRecord
    BY <1>2, FrameIs
  <2>2. QED
    BY <1>5, <2>1 DEF FrameRecord
<1>7. Hands(p)'
  BY <1>1, <1>3, <1>5, <1>6 DEF Hands, Heed
<1>8. QED
  BY <1>1, <1>4, <1>5, <1>7, HeedMove DEF Late

(* One such change after another.                                          *)
LEMMA GetsMoreTwice ==
  ASSUME NEW A, NEW B, NEW C, GetsMore(A, B), GetsMore(B, C)
  PROVE  GetsMore(A, C)
  BY DEF GetsMore

(* What a message that was sent notes of its sender.                       *)
LEMMA NotesLittle ==
  ASSUME NEW m, Sent(access, m)
  PROVE  /\ m.from \in Access /\ m.flagsAfterPropagation \in SUBSET Flag
         /\ m.flagsAfterPropagation \subseteq Note /\ PARENT_DONE \notin m.flagsAfterPropagation
<1>1. m.flagsAfterPropagation \subseteq Note
  BY MessageFlags
<1>2. QED
  BY <1>1, FlagsDiffer DEF Sent, Access

(* The previous access gets what its message has to note, the new one that *)
(* its combination was seen.                                               *)
LEMMA LinkAccessHeeds ==
  ASSUME IInv, Heed, NEW p \in Task, LinkAccess(p), program' = program
  PROVE  Heed'
<1> DEFINE m   == frame[p].message
           own == frame[p].own
           new == frame[p].addr
           A1  == IF m.from = NoAccess THEN access ELSE Added(access, m.from, m.flagsAfterPropagation)
<1>1. /\ pc[p] = "linked"
      /\ access' = IF own.combine THEN Added(A1, new, own.flagsAfterPropagation) ELSE A1
      /\ frame' = [frame EXCEPT ![p] = [NoFrame EXCEPT !.ip = frame[p].ip, !.todo = frame[p].todo]]
      /\ pc' = [pc EXCEPT ![p] = "insert"]
  BY DEF LinkAccess
<1>2. TypesOK /\ Control /\ SlotsOK /\ IsAccessMap(access) /\ own \in Message /\ CombinesOwn(p)
  BY FrameIs DEF IInv, Messaging, TypesOK, FrameRecord
<1>3. new \in Access
  BY <1>1, <1>2, Links1
<1>4. <<p, 0>> \in Slots /\ Msg(<<p, 0>>) = m
  BY <1>2, SlotZero
<1>5. GetsMore(access, A1)
  <2>1. CASE m.from = NoAccess
    BY <1>2, <2>1 DEF GetsMore
  <2>2. CASE m.from # NoAccess
    <3>1. Sent(access, m)
      BY <1>2, <1>4, <2>2 DEF SlotsOK, NoMessage
    <3> HIDE DEF m
    <3>2. /\ m.from \in Of(access) /\ m.flagsAfterPropagation \in SUBSET Flag
          /\ PARENT_DONE \notin m.flagsAfterPropagation
      BY <3>1, NotesLittle DEF Access
    <3>3. GetsMore(access, Added(access, m.from, m.flagsAfterPropagation))
      BY <1>2, <3>2, AddedGetsMore
    <3>4. QED
      BY <2>2, <3>3
  <2>3. QED
    BY <2>1, <2>2
<1>6. PARENT_DONE \notin own.flagsAfterPropagation /\ own.flagsAfterPropagation \in SUBSET Flag
  BY <1>1, <1>2, FlagsDiffer DEF Heed, Hands, Message
<1> HIDE DEF A1, own, m
<1>7. GetsMore(access, access')
  <2>1. CASE own.combine
    <3>1. IsAccessMap(A1) /\ new \in Of(A1)
      BY <1>3, <1>5 DEF GetsMore, Access
    <3> HIDE DEF new
    <3>2. GetsMore(A1, Added(A1, new, own.flagsAfterPropagation))
      BY <1>6, <3>1, AddedGetsMore
    <3>3. QED
      BY <1>1, <1>5, <2>1, <3>2, GetsMoreTwice
  <2>2. CASE ~own.combine
    BY <1>1, <1>5, <2>2
  <2>3. QED
    BY <2>1, <2>2
<1>8. pc'[p] = "insert" /\ \A q \in Task \ {p} : frame'[q] = frame[q]
  BY <1>1, <1>2 DEF TypesOK
<1>9. Hands(p)'
  BY <1>8 DEF Hands
<1>10. QED
  BY <1>1, <1>7, <1>8, <1>9, HeedMove DEF Late

(* The end of an access without subaccesses that were not chained.         *)
LEMMA UnregisterAccessHeeds ==
  ASSUME IInv, Heed, NEW p \in Task, NEW x, MayEnd(p, x), UnregisterAccess(p, x), program' = program
  PROVE  Heed'
<1> DEFINE F == {UNREGISTERED} \cup (IF access[p][x].child = NoAccess THEN ChildDone(Kind) ELSE {})
           mailBox == Answer(access, <<p, x>>, F)
<1>1. /\ access' = Added(access, <<p, x>>, F)
      /\ frame' = [frame EXCEPT ![p].addr = NoAccess, ![p].todo = @ \ {x}, ![p].mailBox = mailBox,
                                ![p].reductionInfo = access[p][x].reductionInfo]
      /\ pc' = [pc EXCEPT ![p] = "propagate"]
  BY Zenon DEF UnregisterAccess
<1>2. TypesOK /\ IsAccessMap(access) /\ <<p, x>> \in Of(access) /\ pc[p] \notin Late
  BY DEF IInv, TypesOK, MayEnd, Access, Late
<1> HIDE DEF mailBox
<1>3. PARENT_DONE \notin F /\ F \in SUBSET Flag
  <2>1. PARENT_DONE # UNREGISTERED /\ UNREGISTERED \in Flag
    BY DEF PARENT_DONE, UNREGISTERED, Flag
  <2>2. PARENT_DONE \notin ChildDone(Kind)
    BY FlagsDiffer
  <2>3. ChildDone(Kind) \subseteq Flag
    BY DEF Flag
  <2>4. QED
    BY <2>1, <2>2, <2>3
<1> HIDE DEF F
<1>4. GetsMore(access, access')
  BY <1>1, <1>2, <1>3, AddedGetsMore
<1>5. pc'[p] = "propagate" /\ \A q \in Task \ {p} : frame'[q] = frame[q]
  BY <1>1, <1>2 DEF TypesOK
<1>6. Hands(p)'
  BY <1>5 DEF Hands
<1>7. QED
  BY <1>1, <1>2, <1>4, <1>5, <1>6, HeedMove

(* The message in the hands of the thread is from the last access below.   *)
LEMMA JoinChildrenHeeds ==
  ASSUME IInv, Heed, NEW p \in Task, NEW x, MayEnd(p, x), pc[p] # "unregister",
         JoinChildren(p, x), program' = program
  PROVE  Heed'
<1> DEFINE a == <<p, x>>
           last == bottomMap[p][x].access
           X == {HASNEXT, NEXTISPARENT}
           A1 == [access EXCEPT ![last[1]][x].successor = a]
           message == Single(A1, last, X)
           place == IF message.flagsForNext = {} THEN "unregister" ELSE "joinGive"
<1>1. /\ access' = Added(A1, last, X)
      /\ frame' = [frame EXCEPT ![p].addr = a, ![p].todo = @ \ {x}, ![p].message = message]
      /\ pc' = [pc EXCEPT ![p] = place]
      /\ access[p][x].child # NoAccess
  BY Zenon DEF JoinChildren
<1> HIDE DEF A1, message, place
<1>2. TypesOK /\ Links /\ pc[p] \in {"body", "finalize"} /\ a \in Access /\ a \in AccessId
      /\ IsAccessMap(access) /\ UNREGISTERED \notin At(access, a).flags
  BY DEF IInv, Links, TypesOK, MayEnd, Access, Of
<1>3. last = LastBelow(a) /\ last # NoAccess
  <2>1. last = LastBelow(a) /\ At(access, a).child # NoAccess
    BY <1>1, Zenon DEF LastBelow, At
  <2> HIDE DEF last, a
  <2>2. QED
    BY <1>2, <2>1 DEF Links, BottomLinks
<1>4. last \in Access /\ Above(last) = a
  BY <1>2, <1>3, LastIsOpen DEF Joining
<1>5. X \in SUBSET Flag /\ PARENT_DONE \notin X /\ NEXTISPARENT \in X
  BY DEF Flag, PARENT_DONE, HASNEXT, NEXTISPARENT
<1> HIDE DEF last, X
<1>6. Relinks(access, A1, last, a, At(access, last).child, {})
  <2>1. last[2] = x /\ A1 = [access EXCEPT ![last[1]][last[2]].successor = a]
    BY <1>4 DEF Above, A1
  <2>2. last \in Of(access)
    BY <1>4 DEF Access
  <2> HIDE DEF a
  <2>3. QED
    BY <1>2, <2>1, <2>2, FieldSet
<1>7. IsAccessMap(A1) /\ last \in Of(A1) /\ GetsMore(access, A1)
  BY <1>4, <1>6 DEF Relinks, GetsMore, Access
<1>8. OnlyGains(A1, access', last, X)
  BY <1>1, <1>5, <1>7, Gained
<1>9. GetsMore(access, access') /\ NEXTISPARENT \in At(access', last).flags
  <2>1. GetsMore(A1, access')
    BY <1>1, <1>5, <1>7, AddedGetsMore
  <2>2. At(access', last).flags = At(A1, last).flags \cup X
    BY <1>7, <1>8 DEF OnlyGains
  <2>3. QED
    BY <1>5, <1>7, <2>1, <2>2, GetsMoreTwice
<1>10. message.flagsForNext # {} => message.from = last
  <2>1. message # NoMessage => message.from = last
    BY <1>5, <1>7, SingleFrom DEF message
  <2>2. QED
    BY <2>1 DEF NoMessage
<1>11. /\ pc'[p] = place /\ \A q \in Task \ {p} : frame'[q] = frame[q]
       /\ frame'[p].addr = a /\ frame'[p].message = message
  <2>1. frame'[p] = [frame[p] EXCEPT !.addr = a, !.todo = @ \ {x}, !.message = message]
    BY <1>1, <1>2 DEF TypesOK
  <2>2. frame[p] \in FrameRecord
    BY <1>2, FrameIs
  <2> HIDE DEF a
  <2>3. frame'[p].addr = a /\ frame'[p].message = message
    BY <2>1, <2>2 DEF FrameRecord
  <2>4. QED
    BY <1>1, <1>2, <2>3 DEF TypesOK
<1>12. Access' = Access /\ \A d : Above(d)' = Above(d)
  BY <1>9, SameProgram DEF GetsMore, Access
<1>13. Hands(p)'
  <2> HIDE DEF a
  <2>1. pc'[p] = "unregister" \/ (pc'[p] = "joinGive" /\ message.from = last)
    BY <1>10, <1>11 DEF place
  <2>2. CASE pc'[p] = "unregister"
    BY <2>2 DEF Hands
  <2>3. CASE pc'[p] = "joinGive" /\ message.from = last
    <3>1. frame'[p].message.from = last /\ last \in Access'
      BY <1>4, <1>11, <1>12, <2>3
    <3>2. \A d : d = last => Above(d)' = a
      BY <1>4, <1>12
    <3>3. QED
      BY <1>9, <1>11, <2>3, <3>1, <3>2 DEF Hands
  <2>4. QED
    BY <2>1, <2>2, <2>3
<1>14. QED
  BY <1>1, <1>2, <1>9, <1>11, <1>13, HeedMove DEF Late

(* The access gets the message of the last one below it.                   *)
LEMMA JoinGiveHeeds ==
  ASSUME IInv, Heed, NEW p \in Task, JoinGive(p), program' = program
  PROVE  Heed'
<1>1. /\ pc[p] = "joinGive" /\ pc' = [pc EXCEPT ![p] = "joined"]
      /\ access' = Added(access, frame[p].addr, frame[p].message.flagsForNext)
      /\ frame' = frame
  BY DEF JoinGive
<1> DEFINE a == frame[p].addr
           X == frame[p].message.flagsForNext
<1>2. GetsMore(access, access')
  <2>1. IsAccessMap(access) /\ a \in Of(access) /\ X \in SUBSET Flag /\ PARENT_DONE \notin X
    BY <1>1, GivesLittle DEF IInv, TypesOK, Access
  <2>2. access' = Added(access, a, X)
    BY <1>1
  <2> HIDE DEF a, X
  <2>3. QED
    BY <2>1, <2>2, AddedGetsMore
<1>3. pc'[p] = "joined" /\ Access' = Access /\ \A b : Above(b)' = Above(b)
  BY <1>1, <1>2, SameProgram DEF GetsMore, Access, IInv, TypesOK
<1>4. Hands(p)'
  BY <1>1, <1>2, <1>3 DEF Heed, Hands, GetsMore, Access
<1>5. QED
  BY <1>1, <1>2, <1>4, HeedMove DEF Late

(* The last one below gets what its message notes.                         *)
LEMMA JoinedHeeds ==
  ASSUME IInv, Heed, NEW p \in Task, Joined(p), program' = program
  PROVE  Heed'
<1> DEFINE m == frame[p].message
<1>1. /\ pc[p] = "joined" /\ pc' = [pc EXCEPT ![p] = "unregister"]
      /\ access' = Added(access, m.from, m.flagsAfterPropagation)
      /\ frame' = [frame EXCEPT ![p].message = NoMessage]
  BY DEF Joined
<1>2. TypesOK /\ IsAccessMap(access) /\ Sent(access, m)
  BY <1>1 DEF IInv, TypesOK, Messaging, Holds
<1> HIDE DEF m
<1>3. GetsMore(access, access')
  BY <1>1, <1>2, NotesLittle, AddedGetsMore DEF Access
<1>4. pc'[p] = "unregister" /\ \A q \in Task \ {p} : frame'[q] = frame[q]
  BY <1>1, <1>2 DEF TypesOK
<1>5. Hands(p)'
  BY <1>4 DEF Hands
<1>6. QED
  BY <1>1, <1>3, <1>4, <1>5, HeedMove DEF Late

(* The delivery of the top message.                                        *)
LEMMA DeliverHeeds ==
  ASSUME IInv, Heed, NEW p \in Task, Deliver(p), program' = program
  PROVE  Heed'
<1> DEFINE mail == frame[p].mailBox
           m == Head(mail)
           X == m.flagsForNext
<1>1. /\ TypesOK /\ SlotsOK /\ IsAccessMap(access) /\ pc[p] = "propagate" /\ mail # <<>>
      /\ mail \in Seq(Message)
  BY DEF Deliver, IInv, Messaging, TypesOK
<1>2. m = mail[1] /\ Len(mail) \in Nat \ {0} /\ m \in Message
  BY <1>1
<1>3. Carried(access, m)
  <2>1. 1 \in 0..Len(mail)
    BY <1>2
  <2>2. <<p, 1>> \in Slots
    BY <1>1, <2>1, SlotsAre
  <2>3. Msg(<<p, 1>>) = m /\ Bears(<<p, 1>>)
    BY <1>2 DEF Msg, Bears
  <2>4. QED
    BY <1>1, <2>2, <2>3 DEF SlotsOK
<1>4. /\ pc' = [pc EXCEPT ![p] = "delivered"] /\ \A q \in Task \ {p} : frame'[q] = frame[q]
      /\ X = {} => access' = access
      /\ X # {} => access' = Added(access, m.to, X)
  <2>1. CASE X = {}
    BY <1>1, <2>1 DEF Deliver, TypesOK
  <2>2. CASE X # {}
    BY <1>1, <2>2 DEF Deliver, TypesOK
  <2>3. QED
    BY <2>1, <2>2
<1> HIDE DEF m, mail
<1>5. GetsMore(access, access')
  <2>1. CASE X = {}
    BY <1>1, <1>4, <2>1 DEF GetsMore
  <2>2. CASE X # {}
    <3>1. m.to \in Of(access) /\ X \subseteq Satisfied(Kind) \cup ChildDone(Kind) /\ X \in SUBSET Flag
      BY <1>2, <1>3, <2>2, MessageFlags DEF Carried, Message
    <3>2. PARENT_DONE \notin X
      BY <3>1, FlagsDiffer
    <3> HIDE DEF X
    <3>3. QED
      BY <1>1, <1>4, <2>2, <3>1, <3>2, AddedGetsMore
  <2>3. QED
    BY <2>1, <2>2
<1>6. pc'[p] = "delivered"
  BY <1>1, <1>4 DEF TypesOK
<1>7. Hands(p)'
  BY <1>6 DEF Hands
<1>8. QED
  BY <1>1, <1>4, <1>5, <1>7, HeedMove DEF Late

(* The sender notes that its message was delivered.                        *)
LEMMA AfterDeliveryHeeds ==
  ASSUME IInv, Heed, NEW p \in Task, AfterDelivery(p), program' = program
  PROVE  Heed'
<1> DEFINE m == frame[p].message
<1>1. /\ pc[p] = "delivered" /\ pc' = [pc EXCEPT ![p] = "propagate"]
      /\ access' = Added(access, m.from, m.flagsAfterPropagation)
      /\ frame' = [frame EXCEPT ![p].message = NoMessage,
                      ![p].reductionInfo = IF m.combine THEN Acc(m.from).reductionInfo ELSE @]
  BY DEF AfterDelivery
<1>2. TypesOK /\ IsAccessMap(access) /\ Sent(access, m)
  BY <1>1 DEF IInv, TypesOK, Messaging, Holds
<1>3. pc'[p] = "propagate" /\ \A q \in Task \ {p} : frame'[q] = frame[q]
  BY <1>1, <1>2 DEF TypesOK
<1> HIDE DEF m
<1>4. GetsMore(access, access')
  BY <1>1, <1>2, NotesLittle, AddedGetsMore DEF Access
<1>5. Hands(p)'
  BY <1>3 DEF Hands
<1>6. QED
  BY <1>1, <1>3, <1>4, <1>5, HeedMove DEF Late

(* The last child access learns that its parent is done, which it is.      *)
LEMMA FinalizeChildAccessHeeds ==
  ASSUME IInv, Heed, NEW p \in Task, NEW x \in Address, FinalizeChildAccess(p, x), program' = program
  PROVE  Heed'
<1> DEFINE last == LastBelow(<<p, x>>)
<1>1. /\ pc[p] = "children" /\ x \in frame[p].todo /\ pc' = pc
      /\ access' = Added(access, last, {PARENT_DONE})
      /\ frame' = [frame EXCEPT ![p].todo = @ \ {x}]
  BY DEF FinalizeChildAccess, LastBelow
<1>2. TypesOK /\ Endings /\ BottomLinks /\ IsAccessMap(access) /\ <<p, x>> \in AccessId
  BY DEF IInv, TypesOK, AccessId
<1>3. last \in Access /\ Parent[last[1]] = p
  <2>1. last # NoAccess
    BY <1>1, <1>2 DEF Endings
  <2> HIDE DEF last
  <2>2. last \in Access /\ Above(last) = <<p, x>>
    BY <1>2, <2>1 DEF BottomLinks, last
  <2>3. QED
    BY <2>2 DEF Above
<1> HIDE DEF last
<1>4. {PARENT_DONE} \in SUBSET Flag
  BY DEF Flag
<1>5. OnlyGains(access, access', last, {PARENT_DONE})
  BY <1>1, <1>2, <1>3, <1>4, Gained DEF Access
<1>6. /\ Access' = Access /\ Access = Of(access) /\ Parent' = Parent /\ \A b : Above(b)' = Above(b)
  BY <1>5, SameProgram DEF OnlyGains, Access
<1>7. ParentsAreDone'
  <2> SUFFICES ASSUME NEW a \in Access, PARENT_DONE \in At(access', a).flags
               PROVE  Parent[a[1]] \in Task /\ pc[Parent[a[1]]] \in Late
    BY <1>1, <1>6 DEF ParentsAreDone
  <2>1. CASE a = last
    BY <1>1, <1>3, <2>1 DEF Late
  <2>2. CASE a # last
    <3>1. PARENT_DONE \in At(access, a).flags
      BY <1>5, <1>6, <2>2 DEF OnlyGains
    <3>2. QED
      BY <3>1 DEF Heed, ParentsAreDone
  <2>3. QED
    BY <2>1, <2>2
<1>8. \A q \in Task \ {p} : frame'[q] = frame[q]
  BY <1>1, <1>2 DEF TypesOK
<1>9. ASSUME NEW q \in Task PROVE Hands(q)'
  <2>1. CASE q = p
    BY <1>1, <2>1 DEF Hands
  <2>2. CASE q # p
    <3>1. frame'[q] = frame[q] /\ pc'[q] = pc[q] /\ Hands(q)
      BY <1>1, <1>8, <2>2 DEF Heed
    <3>2. \A b \in Access : NEXTISPARENT \in At(access, b).flags => NEXTISPARENT \in At(access', b).flags
      BY <1>5, <1>6 DEF OnlyGains
    <3>3. QED
      BY <1>6, <3>1, <3>2 DEF Hands
  <2>3. QED
    BY <2>1, <2>2
<1>10. QED
  BY <1>7, <1>9 DEF Heed

(* The steps that change no access.                                        *)
LEMMA QuietStepsHeed ==
  ASSUME IInv, Heed, NEW p \in Task, program' = program,
         \/ StartTask(p) \/ EnterTaskwait(p) \/ ExitTaskwait(p)
         \/ EndBody(p) \/ EndPropagation(p) \/ EndFinalize(p)
         \/ ReleaseCommutative(p) \/ DropOwnShare(p) \/ CompleteTask(p)
  PROVE  Heed'
<1>1. TypesOK
  BY DEF IInv
<1>2. CASE StartTask(p)
  <2>1. access' = access /\ frame' = frame /\ pc[p] = "submitted" /\ pc' = [pc EXCEPT ![p] = "body"]
    BY <1>2 DEF StartTask, accessVars
  <2>2. QED
    BY <2>1, HeedQuiet DEF Late
<1>3. CASE EnterTaskwait(p)
  <2>1. access' = access /\ pc[p] = "body" /\ \A q \in Task \ {p} : frame'[q] = frame[q]
    BY <1>1, <1>3 DEF EnterTaskwait, InBody, TypesOK
  <2>2. pc' = [pc EXCEPT ![p] = "body"] \/ pc' = [pc EXCEPT ![p] = "taskwait"]
    BY <1>1, <1>3, <2>1 DEF EnterTaskwait, TypesOK
  <2>3. QED
    BY <2>1, <2>2, HeedQuiet DEF Late
<1>4. CASE ExitTaskwait(p)
  <2>1. /\ access' = access /\ pc[p] = "taskwait" /\ pc' = [pc EXCEPT ![p] = "body"]
        /\ \A q \in Task \ {p} : frame'[q] = frame[q]
    BY <1>1, <1>4 DEF ExitTaskwait, accessVars, TypesOK
  <2>2. QED
    BY <2>1, HeedQuiet DEF Late
<1>5. CASE EndBody(p)
  <2>1. /\ access' = access /\ pc[p] = "body" /\ pc' = [pc EXCEPT ![p] = "finalize"]
        /\ \A q \in Task \ {p} : frame'[q] = frame[q]
    BY <1>1, <1>5 DEF EndBody, accessVars, TypesOK
  <2>2. QED
    BY <2>1, HeedQuiet DEF Late
<1>6. CASE EndPropagation(p)
  <2>1. /\ access' = access /\ pc[p] = "propagate" /\ \A q \in Task \ {p} : frame'[q] = frame[q]
        /\ pc' = [pc EXCEPT ![p] = "body"] \/ pc' = [pc EXCEPT ![p] = "finalize"]
    BY <1>1, <1>6 DEF EndPropagation, accessVars, TypesOK
  <2>2. QED
    BY <2>1, HeedQuiet DEF Late
<1>7. CASE EndFinalize(p)
  <2>1. /\ access' = access /\ pc[p] = "finalize" /\ pc' = [pc EXCEPT ![p] = "children"]
        /\ \A q \in Task \ {p} : frame'[q] = frame[q]
    BY <1>1, <1>7 DEF EndFinalize, accessVars, TypesOK
  <2>2. QED
    BY <2>1, HeedQuiet DEF Late
<1>8. CASE ReleaseCommutative(p)
  <2>1. access' = access /\ frame' = frame /\ pc' = [pc EXCEPT ![p] = "releasing"]
    BY <1>8 DEF ReleaseCommutative, accessVars
  <2>2. QED
    BY <2>1, HeedQuiet DEF Late
<1>9. CASE DropOwnShare(p)
  <2>1. access' = access /\ frame' = frame /\ pc' = [pc EXCEPT ![p] = "completing"]
    BY <1>9 DEF DropOwnShare, accessVars
  <2>2. QED
    BY <2>1, HeedQuiet DEF Late
<1>10. CASE CompleteTask(p)
  <2>1. /\ access' = access /\ pc' = [pc EXCEPT ![p] = "done"]
        /\ \A q \in Task \ {p} : frame'[q] = frame[q]
    BY <1>1, <1>10 DEF CompleteTask, accessVars, TypesOK
  <2>2. QED
    BY <2>1, HeedQuiet DEF Late
<1>11. QED
  BY <1>2, <1>3, <1>4, <1>5, <1>6, <1>7, <1>8, <1>9, <1>10

(* The steps on other parts of the state.                                  *)
LEMMA OtherVariablesHeed ==
  ASSUME Heed, program' = program, access' = access, pc' = pc, frame' = frame
  PROVE  Heed'
<1>1. Access' = Access /\ Parent' = Parent /\ \A b : Above(b)' = Above(b)
  BY SameProgram DEF Access
<1>2. ParentsAreDone'
  BY <1>1 DEF Heed, ParentsAreDone
<1>3. \A p \in Task : Hands(p)'
  BY <1>1 DEF Heed, Hands
<1>4. QED
  BY <1>2, <1>3 DEF Heed

(* finalizeDataAccess, with or without subaccesses to join first.          *)
LEMMA FinalizeAccessHeeds ==
  ASSUME IInv, Heed, NEW p \in Task, NEW x, MayEnd(p, x), pc[p] # "unregister",
         FinalizeAccess(p, x), program' = program
  PROVE  Heed'
  BY UnregisterAccessHeeds, JoinChildrenHeeds DEF FinalizeAccess

(* Every step of the system.                                               *)
LEMMA NextHeeds ==
  ASSUME IInv, Heed, [Next]_vars
  PROVE  Heed'
<1>1. ASSUME NEW p \in Task, Step(p)
      PROVE  Heed'
  <2>1. program' = program
    BY <1>1 DEF Step
  <2>2. CASE RegisterStep(p)
    BY <2>1, <2>2, SubmitTaskHeeds, InsertAccessHeeds, GiveToNewHeeds, LinkAccessHeeds, EndRegistrationHeeds
       DEF RegisterStep
  <2>3. CASE UnregisterStep(p)
    <3>1. CASE ReleaseAccessRegion(p)
      <4>1. InBody(p, "release") /\ FinalizeAccess(p, Op(p)[2]) /\ pc[p] # "unregister"
        BY <3>1 DEF ReleaseAccessRegion, InBody
      <4>2. QED
        BY <2>1, <4>1, ReleaseMayEnd, FinalizeAccessHeeds
    <3>2. CASE FinalizeNext(p)
      <4>1. pc[p] = "finalize"
        BY <3>2 DEF FinalizeNext
      <4>2. PICK x \in frame[p].todo : FinalizeAccess(p, x)
        BY <3>2 DEF FinalizeNext
      <4>3. MayEnd(p, x)
        BY <4>1, FinalizeMayEnd
      <4>4. QED
        BY <2>1, <4>1, <4>2, <4>3, FinalizeAccessHeeds
    <3>3. CASE FinalizeJoined(p)
      <4>1. pc[p] = "unregister" /\ UnregisterAccess(p, frame[p].addr[2])
        BY <3>3 DEF FinalizeJoined
      <4>2. QED
        BY <2>1, <4>1, JoinedMayEnd, UnregisterAccessHeeds
    <3>4. CASE JoinGive(p) \/ Joined(p) \/ Deliver(p) \/ AfterDelivery(p)
      BY <2>1, <3>4, JoinGiveHeeds, JoinedHeeds, DeliverHeeds, AfterDeliveryHeeds
    <3>5. CASE \E x \in Address : FinalizeChildAccess(p, x)
      BY <2>1, <3>5, FinalizeChildAccessHeeds
    <3>6. CASE ScanCommutative(p)
      BY <2>1, <3>6, OtherVariablesHeed DEF ScanCommutative, accessVars
    <3>7. CASE EndBody(p) \/ EndPropagation(p) \/ EndFinalize(p) \/ ReleaseCommutative(p) \/ DropOwnShare(p)
               \/ CompleteTask(p)
      BY <2>1, <3>7, QuietStepsHeed
    <3>8. QED
      BY <2>3, <3>1, <3>2, <3>3, <3>4, <3>5, <3>6, <3>7 DEF UnregisterStep
  <2>4. CASE SubmitSatisfied(p)
    BY <2>1, <2>4, OtherVariablesHeed DEF SubmitSatisfied, accessVars
  <2>5. CASE DisposeTask(p)
    BY <2>1, <2>5, OtherVariablesHeed DEF DisposeTask, accessVars
  <2>6. CASE StartTask(p) \/ EnterTaskwait(p) \/ ExitTaskwait(p)
    BY <2>1, <2>6, QuietStepsHeed
  <2>7. QED
    BY <1>1, <2>2, <2>3, <2>4, <2>5, <2>6 DEF Step
<1>2. CASE UNCHANGED vars
  BY <1>2, OtherVariablesHeed DEF vars, accessVars
<1>3. QED
  BY <1>1, <1>2 DEF Next, Terminated

(* Before the main task creates any other, nothing is linked.              *)
LEMMA InitHeeds ==
  ASSUME Init
  PROVE  Heed
<1>1. PICK D \in Programs[program].declarations :
        access = [t \in Task |->
                   [x \in DOMAIN D[t] |->
                      [type |-> D[t][x].type, weak |-> D[t][x].weak,
                       operator |-> D[t][x].operator, flags |-> {},
                       successor |-> NoAccess, child |-> NoAccess,
                       reductionInfo |-> NoReduction]]]
  BY DEF Init
<1>2. \A a \in Access : At(access, a).flags = {}
  BY <1>1 DEF Access, Of, At, AccessId
<1>3. ParentsAreDone
  BY <1>2 DEF ParentsAreDone
<1>4. \A p \in Task : pc[p] \in {"body", "none"}
  BY DEF Init
<1>5. \A p \in Task : Hands(p)
  BY <1>4 DEF Hands
<1>6. QED
  BY <1>3, <1>5 DEF Heed

(* What an access waits for before it may be disposed of.                  *)
LEMMA NotDisposedWithout ==
  ASSUME NEW acc, NEW new,
         \/ UNREGISTERED \notin acc.flags \cup new
         \/ /\ PARENT_DONE \notin acc.flags \cup new
            /\ NEXTISPARENT \in acc.flags \cup new \/ HASNEXT \notin acc.flags \cup new
  PROVE  ~Disposes(acc, new)
  BY DEF Disposes, Disposable, DisposeFlags

(* An access under a task that has not ended is not told otherwise.        *)
LEMMA ParentIsNotDone ==
  ASSUME Heed, NEW a \in Access, pc[Parent[a[1]]] \notin Late
  PROVE  PARENT_DONE \notin At(access, a).flags
  BY DEF Heed, ParentsAreDone

(* The new access a thread is linking is the last one of its address.      *)
LEMMA NewIsNotDisposed ==
  ASSUME IInv, Heed, NEW p \in Task, pc[p] \in {"give", "linked"}, NEW new,
         new \cap {HASNEXT, PARENT_DONE} = {}
  PROVE  ~Disposes(At(access, frame[p].addr), new)
<1>1. TypesOK /\ Control /\ LinkFlags
  BY DEF IInv
<1>2. PICK a \in Access : LinksAt(p, a) /\ frame[p].addr = a /\ Parent[a[1]] = p
  BY <1>1, Links1
<1>3. HASNEXT \notin At(access, a).flags
  BY <1>1, <1>2 DEF LinkFlags, LinksAt
<1>4. PARENT_DONE \notin At(access, a).flags
  BY <1>2, ParentIsNotDone DEF Late
<1>5. QED
  BY <1>2, <1>3, <1>4, NotDisposedWithout

(* An access of the task that links a new one below it was not released.   *)
LEMMA OwnIsNotReleased ==
  ASSUME IInv, NEW p \in Task, pc[p] = "linked", NEW b \in Access, b = <<p, frame[p].addr[2]>>
  PROVE  UNREGISTERED \notin At(access, b).flags
<1>1. TypesOK /\ Control /\ Endings
  BY DEF IInv
<1>2. PICK a \in Access : LinksAt(p, a) /\ frame[p].addr = a /\ a[1] \in Task
  BY <1>1, Links1
<1> DEFINE c == a[1]
           x == a[2]
<1>3. Op(p) = <<"create", c>> /\ b = <<p, x>> /\ x \in Declared(c)
  BY <1>2 DEF LinksAt, Access, Of, AccessId, Declared
<1>4. frame[p].ip \in DOMAIN Body[p]
  BY <1>1 DEF Control, Creating, CreatesAt
<1> HIDE DEF c, x
<1>5. ~ReleasedBy(p, x)
  <2> SUFFICES ASSUME NEW j \in DOMAIN Body[p], Body[p][j] = <<"release", x>>, j < frame[p].ip
               PROVE  FALSE
    BY DEF ReleasedBy, Finished
  <2>1. program \in DOMAIN Programs
    BY <1>1 DEF TypesOK
  <2>2. PICK D \in Programs[program].declarations : \A t \in Task : Declared(t) = DOMAIN D[t]
    BY <1>1 DEF TypesOK
  <2>3. \A k \in DOMAIN Body[p] : Body[p][k][1] = "create" /\ j < k => x \notin DOMAIN D[Body[p][k][2]]
    <3>1. Body[p][j][1] = "release" /\ Body[p][j][2] = x
      OBVIOUS
    <3>2. QED
      BY <2>1, <3>1, ProperDeclarations DEF Body
  <2>4. Body[p][frame[p].ip] = <<"create", c>>
    BY <1>3 DEF Op
  <2>5. x \notin DOMAIN D[c]
    BY <1>4, <2>3, <2>4
  <2>6. QED
    BY <1>2, <1>3, <2>2, <2>5 DEF c
<1>6. b[1] = p /\ b[2] = x
  BY <1>3
<1>7. QED
  BY <1>1, <1>5, <1>6 DEF Endings

(* An access that still has to pass something on when it is unregistered   *)
(* waits for its arrival.                                                  *)
LEMMA AnswersBeforeDisposal ==
  ASSUME IInv, NEW a \in Access, UNREGISTERED \notin At(access, a).flags,
         Disposes(At(access, a), {UNREGISTERED})
  PROVE  Answer(access, a, {UNREGISTERED}) = <<>>
<1> DEFINE acc == At(access, a)
           new == {UNREGISTERED}
           all == acc.flags \cup new
<1>1. \A f \in acc.flags \cap Note : Justified(acc.type, acc.flags, f)
  BY DEF IInv, Causes
<1>2. DisposeFlags(all, acc.type) \subseteq all
  BY DEF Disposes, Disposable
<1>3. UNREGISTERED \notin Satisfied(Kind) \cup {HASCHILD} \cup Note
  BY FlagsDiffer DEF UNREGISTERED, HASCHILD, Satisfied
<1> HIDE DEF acc
<1>4. KindsForChild(new, all) = {}
  BY <1>3, NothingForChild
<1>5. KindsForNext(acc.type, new, all) = {}
  <2> SUFFICES ASSUME NEW k \in Kind, Propagates(new, all, ReleaseCondition(acc.type, k))
               PROVE  FALSE
    BY DEF KindsForNext
  <2>1. HASNEXT \in all /\ UNREGISTERED \in ReleaseCondition(acc.type, k)
    BY DEF Propagates, ReleaseCondition
  <2>2. <<"NEXT_SATISFIED", k>> \in all
    BY <1>2, <2>1 DEF DisposeFlags, NextSatisfied
  <2>3. <<"NEXT_SATISFIED", k>> \in acc.flags \cap Note
    BY <1>3, <2>2 DEF Note, NextSatisfied
  <2>4. Justified(acc.type, acc.flags, <<"NEXT_SATISFIED", k>>)
    BY <1>1, <2>3
  <2>5. ToNext(acc.type, acc.flags, k)
    BY <2>4 DEF Justified, REDUCTION_COMBINED
  <2>6. UNREGISTERED \in acc.flags
    BY <2>1, <2>5 DEF ToNext
  <2>7. QED
    BY <2>6 DEF acc
<1>6. ~Schedules(acc.type, acc.weak, new) /\ ~Combines(acc.type, new)
  <2>1. ASSUME NEW j PROVE ~(Satisfied({j}) \subseteq new)
    <3>1. <<"SATISFIED", j>> \in Satisfied({j})
      BY DEF Satisfied
    <3>2. <<"SATISFIED", j>> # UNREGISTERED
      BY DEF UNREGISTERED
    <3>3. QED
      BY <3>1, <3>2
  <2> HIDE DEF new
  <2>2. ~Combines(acc.type, new)
    BY <2>1 DEF Combines
  <2>3. ~Schedules(acc.type, acc.weak, new)
    <3>1. PICK j : j = IF acc.type \in SharedType THEN acc.type ELSE "WRITE"
      OBVIOUS
    <3>2. (IF acc.type \in SharedType THEN {acc.type} ELSE {"WRITE"}) = {j}
      BY <3>1
    <3>3. QED
      BY <2>1, <3>2 DEF Schedules
  <2>4. QED
    BY <2>2, <2>3
<1>7. Answer(access, a, new) = Messages(a, acc, new, acc.successor, acc.child)
  BY DEF Answer, acc, At
<1> HIDE DEF new
<1>8. Messages(a, acc, new, acc.successor, acc.child) = <<>>
  BY <1>4, <1>5, <1>6 DEF Messages
<1>9. QED
  BY <1>7, <1>8 DEF new

(* The two invariants give the property.                                   *)
LEMMA HeedIsEnough ==
  ASSUME IInv, Heed
  PROVE  NoUnheededDisposal
<1>1. TypesOK /\ SlotsOK /\ Endings /\ \A p \in Task : Holds(p)
  BY DEF IInv, Messaging
<1> SUFFICES ASSUME NEW p \in Task, NEW add \in Unheeded(p)
             PROVE  ~Disposes(Acc(add[1]), add[2])
  BY DEF NoUnheededDisposal
<1>2. \A a : Acc(a) = At(access, a)
  BY DEF Acc, At
<1> DEFINE m == frame[p].message
<1>3. Hands(p)
  BY DEF Heed
<1>4. CASE pc[p] \in {"give", "joinGive"}
  <2>1. add[1] = frame[p].addr /\ add[2] = m.flagsForNext
    BY <1>4 DEF Unheeded
  <2>2. add[2] \subseteq Satisfied(Kind) \cup ChildDone(Kind)
    BY <1>4, <2>1, GivesLittle
  <2>3. add[2] \cap {HASNEXT, PARENT_DONE, UNREGISTERED} = {}
    BY <2>2, FlagsDiffer
  <2>4. CASE pc[p] = "give"
    BY <1>2, <2>1, <2>3, <2>4, NewIsNotDisposed
  <2>5. CASE pc[p] = "joinGive"
    <3>1. UNREGISTERED \notin At(access, add[1]).flags
      BY <1>1, <2>1, <2>5 DEF Endings, Joining, JoinsAt
    <3>2. QED
      BY <1>2, <2>3, <3>1, NotDisposedWithout
  <2>6. QED
    BY <1>4, <2>4, <2>5
<1>5. CASE pc[p] = "joined"
  <2>1. add[1] = m.from /\ add[2] = m.flagsAfterPropagation
    BY <1>5 DEF Unheeded
  <2>2. m.from \in Access /\ Above(m.from) = frame[p].addr /\ NEXTISPARENT \in At(access, m.from).flags
    BY <1>3, <1>5 DEF Hands
  <2>3. PARENT_DONE \notin m.flagsAfterPropagation
    BY <1>1, <1>5, NotesLittle DEF Holds
  <2>4. frame[p].addr[1] = p
    BY <1>1, <1>5 DEF Endings, Joining, JoinsAt
  <2>5. Parent[m.from[1]] = p
    BY <2>2, <2>4 DEF Above
  <2>6. PARENT_DONE \notin At(access, m.from).flags
    BY <1>5, <2>2, <2>5, ParentIsNotDone DEF Late
  <2>7. QED
    BY <1>2, <2>1, <2>2, <2>3, <2>6, NotDisposedWithout
<1>6. CASE pc[p] = "linked"
  <2>1. CASE add[1] = frame[p].addr /\ add[2] = frame[p].own.flagsAfterPropagation
    <3>1. add[2] \subseteq Note
      BY <1>3, <1>6, <2>1 DEF Hands
    <3>2. add[2] \cap {HASNEXT, PARENT_DONE} = {}
      BY <3>1, FlagsDiffer
    <3>3. QED
      BY <1>2, <1>6, <2>1, <3>2, NewIsNotDisposed
  <2>2. ASSUME NEW x \in Address, m.from = <<p, x>>, add[1] = m.from, add[2] = m.flagsAfterPropagation
        PROVE  ~Disposes(Acc(add[1]), add[2])
    <3>1. m.from # NoAccess
      BY <2>2, RegistrationAssumption
    <3>2. Sent(access, m)
      <4>1. m # NoMessage /\ <<p, 0>> \in Slots /\ Msg(<<p, 0>>) = m
        BY <1>1, <3>1, SlotZero DEF NoMessage
      <4>2. QED
        BY <1>1, <4>1 DEF SlotsOK
    <3>3. m.from \in Access /\ UNREGISTERED \notin m.flagsAfterPropagation
      BY <3>2, NotesLittle, FlagsDiffer
    <3>4. m.from = <<p, frame[p].addr[2]>>
      BY <1>3, <1>6, <2>2, <3>1 DEF Hands
    <3>5. UNREGISTERED \notin At(access, m.from).flags
      BY <1>6, <3>3, <3>4, OwnIsNotReleased
    <3>6. QED
      BY <1>2, <2>2, <3>3, <3>5, NotDisposedWithout
  <2>3. QED
    BY <1>6, <2>1, <2>2 DEF Unheeded
<1>7. CASE pc[p] = "unregister"
  <2>1. /\ add[1] = frame[p].addr /\ add[2] = {UNREGISTERED}
        /\ Answer(access, frame[p].addr, {UNREGISTERED}) # <<>>
    BY <1>7 DEF Unheeded
  <2>2. frame[p].addr \in Access /\ UNREGISTERED \notin At(access, frame[p].addr).flags
    BY <1>1, <1>7 DEF Endings, Joining, JoinsAt
  <2>3. QED
    BY <1>2, <2>1, <2>2, AnswersBeforeDisposal
<1>8. pc[p] \in {"give", "joinGive", "joined", "linked", "unregister"}
  BY DEF Unheeded
<1>9. QED
  BY <1>4, <1>5, <1>6, <1>7, <1>8

(* Where the code asserts that an access cannot be disposed of yet, or     *)
(* does not look whether it can, it cannot: no access is lost to the count *)
(* that deletes its task (the assertions of applySingle, insertAccesses    *)
(* and finalizeDataAccess).                                                *)
THEOREM NoDisposalIsMissed == Spec => []NoUnheededDisposal
<1>1. Init => IInv /\ Heed
  BY InitIsInvariant, InitHeeds
<1>2. IInv /\ Heed /\ [Next]_vars => IInv' /\ Heed'
  BY NextKeeps, NextHeeds
<1>3. IInv /\ Heed => NoUnheededDisposal
  BY HeedIsEnough
<1>4. QED
  BY <1>1, <1>2, <1>3, PTL DEF Spec

-----------------------------------------------------------------------------
(* The order of the accesses on one address.                               *)

PassesEarly(a, k) == At(access, a).type = k /\ k \in SharedType

(* With the accesses of U come those they are nested under; with those of  *)
(* U and E the ones before them are in E; with those of E that pass kind k *)
(* on at their end only, what is nested under them.                        *)
ClosedOrder(k, U, E) ==
  /\ \A x \in U : Above(x) \in Access => Above(x) \in U
  /\ \A x \in U \cup E : \A a \in Access : Previous(a, x) => a \in E
  /\ \A x \in E : \A b \in Access : ~PassesEarly(x, k) /\ ChainedTo(b, x) => b \in E

(* What comes before access c on its address, on all levels of nesting.    *)
Earlier(k, c) ==
  {a \in Access : \A U, E \in SUBSET Access : c \in U /\ ClosedOrder(k, U, E) => a \in E}

PassedOnBy(a, k) ==
  /\ <<"SATISFIED", k>> \in At(access, a).flags
  /\ \/ PassesEarly(a, k)
     \/ /\ {UNREGISTERED, <<"CHILD_DONE", k>>} \subseteq At(access, a).flags
        /\ At(access, a).child # NoAccess => ChainedTo(LastBelow(a), a)

SatisfiedInOrder ==
  \A c \in Access : \A k \in Kind :
    <<"SATISFIED", k>> \in At(access, c).flags => \A a \in Earlier(k, c) : PassedOnBy(a, k)

(* An access that met the condition of a kind.                             *)
LEMMA MetCondition ==
  ASSUME IInv, NEW a \in Access, NEW k \in Kind, ToNext(At(access, a).type, At(access, a).flags, k)
  PROVE  PassedOnBy(a, k)
<1>1. ReleaseCondition(At(access, a).type, k) \subseteq At(access, a).flags
  BY DEF ToNext
<1>2. CASE PassesEarly(a, k)
  BY <1>1, <1>2 DEF PassesEarly, ReleaseCondition, Satisfied, PassedOnBy
<1>3. CASE ~PassesEarly(a, k)
  <2>1. Satisfied({k}) \cup ChildDone({k}) \cup {UNREGISTERED} \subseteq At(access, a).flags
    BY <1>1, <1>3 DEF PassesEarly, ReleaseCondition, Satisfied
  <2>2. {<<"SATISFIED", k>>, <<"CHILD_DONE", k>>, UNREGISTERED} \subseteq At(access, a).flags
    BY <2>1 DEF Satisfied, ChildDone
  <2>3. QED
    BY <2>2, DoneIsChained DEF PassedOnBy
<1>4. QED
  BY <1>2, <1>3

(* The accesses that have kind k, and those that have passed it on, are    *)
(* closed under what comes before.                                         *)
LEMMA SatisfactionIsClosed ==
  ASSUME IInv, NEW k \in Kind
  PROVE  ClosedOrder(k, {x \in Access : <<"SATISFIED", k>> \in At(access, x).flags},
                        {a \in Access : PassedOnBy(a, k)})
<1> DEFINE U == {x \in Access : <<"SATISFIED", k>> \in At(access, x).flags}
           E == {a \in Access : PassedOnBy(a, k)}
<1>1. Causes
  BY DEF IInv
<1>2. \A x \in U : Above(x) \in Access => Above(x) \in U
  BY <1>1, Zenon DEF Causes
<1>3. ASSUME NEW x \in U \cup E, NEW a \in Access, Previous(a, x) PROVE a \in E
  <2>1. x \in Access /\ <<"SATISFIED", k>> \in At(access, x).flags
    BY DEF PassedOnBy
  <2>2. PassedOn(access, a, x, k)
    BY <1>1, <2>1, Zenon DEF Causes
  <2>3. ToNext(At(access, a).type, At(access, a).flags, k)
    BY <1>3, <2>1, <2>2 DEF PassedOn, Previous
  <2>4. QED
    BY <2>3, MetCondition
<1>4. ASSUME NEW x \in E, NEW b \in Access, ~PassesEarly(x, k), ChainedTo(b, x) PROVE b \in E
  <2>1. x \in Access /\ <<"CHILD_DONE", k>> \in At(access, x).flags
    BY <1>4 DEF PassedOnBy
  <2>2. PassedOn(access, b, x, k)
    BY <1>1, <2>1, Zenon DEF Causes
  <2>3. ToNext(At(access, b).type, At(access, b).flags, k)
    BY <1>4, <2>1, <2>2 DEF PassedOn, ChainedTo
  <2>4. QED
    BY <2>3, MetCondition
<1> HIDE DEF U, E
<1>5. ClosedOrder(k, U, E)
  BY <1>2, <1>3, <1>4 DEF ClosedOrder
<1>6. QED
  BY <1>5 DEF U, E

(* A satisfiability arrives at an access only when every access before it  *)
(* on its address, before the ones it is nested under, and nested under    *)
(* any of these, has had it and is over: unregistered, its subaccesses     *)
(* done with the kind and chained to it (or of the shared kind itself,     *)
(* which does not wait).  This is the order DataAccess.cpp is there for.   *)
THEOREM AccessesAreSatisfiedInOrder == Spec => []SatisfiedInOrder
<1>1. Init => IInv
  BY InitIsInvariant
<1>2. IInv /\ [Next]_vars => IInv'
  BY NextKeeps
<1>3. ASSUME IInv PROVE SatisfiedInOrder
  <2> SUFFICES ASSUME NEW c \in Access, NEW k \in Kind, <<"SATISFIED", k>> \in At(access, c).flags,
                      NEW a \in Earlier(k, c)
               PROVE  PassedOnBy(a, k)
    BY DEF SatisfiedInOrder
  <2> DEFINE U == {x \in Access : <<"SATISFIED", k>> \in At(access, x).flags}
             E == {b \in Access : PassedOnBy(b, k)}
  <2>1. ClosedOrder(k, U, E) /\ c \in U /\ U \in SUBSET Access /\ E \in SUBSET Access
    BY <1>3, SatisfactionIsClosed
  <2> HIDE DEF U, E
  <2>2. a \in E
    BY <2>1 DEF Earlier
  <2>3. QED
    BY <2>2 DEF E
<1>4. QED
  BY <1>1, <1>2, <1>3, PTL DEF Spec
=============================================================================
