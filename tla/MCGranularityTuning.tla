------------------------- MODULE MCGranularityTuning -------------------------
(* Small loops for GranularityTuning.                                      *)
EXTENDS GranularityTuning, TLC

CONSTANTS a, b, c, d, x1, x2

Loop(copies, uses, while, communication, optimize) ==
  [copies |-> copies, uses |-> uses, rounds |-> 2, while |-> while,
   optimize |-> optimize, communication |-> communication]

ForLoops(tasks, Uses, Communications, optimize) ==
  {Loop(<<tasks>>, u, FALSE, m, optimize) : u \in [{tasks[i] : i \in DOMAIN tasks} -> Uses], m \in Communications}
WhileLoops(copies, Uses) ==
  {Loop(copies, u, TRUE, {}, "none") :
     u \in [UNION {{copies[k][i] : i \in DOMAIN copies[k]} : k \in DOMAIN copies} -> Uses]}

Read(x) == x :> "READ"
Write(x) == x :> "WRITE"
Both == Read(x1) @@ Write(x2)

(* Four tasks that make two chains, or fronts, or a diamond.               *)
Wide ==
  UNION {ForLoops(<<a, b, c, d>>, {Write(x1), use}, {{}}, "basic") : use \in {Write(x2), Read(x1), Both}}

(* Edges that repeat and edges that follow from others.                    *)
Redundant ==
  ForLoops(<<a, b, c>>, {Write(x1), Both, Read(x1) @@ Read(x2), Write(x1) @@ Write(x2)}, {{}}, "none")
    \cup ForLoops(<<a, b, c>>, {Write(x1), Both, Read(x1)}, {{}}, "transitive")

Reducing == ForLoops(<<a, b, c>>, {x1 :> t : t \in {"READ", "WRITE", "REDUCTION"}}, {{}}, "basic")

(* Tasks with external events.                                             *)
Communicating ==
  ForLoops(<<a, b, c, d>>, {Write(x1), Write(x2), Both}, {{b}, {d}}, "basic")

Conditional ==
  WhileLoops(<<<<a, b, c>>>>, {Write(x1), Read(x1), Write(x2)})
    \cup WhileLoops(<<<<a, b>>, <<c, d>>>>, {Write(x1), Both})
    \cup WhileLoops(<<<<a, b>>, <<c, d>>>>, {Write(x1), Write(x2)})

(* A vertex that cannot be grouped is put into a chain nevertheless when   *)
(* it is the third one or a later one (see CommunicationAlone).            *)
MayBeSwallowed(L) ==
  \E e, f \in IterationEdges(L) : f.to = e.from /\ e.to \in L.communication \cup FirstControls(L)

(* An edge that closes the loop and leads to a combination is counted in   *)
(* the ReductionInfo also when that is in a group (see the README).        *)
ClosesAtReduction(L) == \E e \in CloseDependencyLoop(L) : e.to \in ReductionNodes(L)

TunedAsMeant ==
  {L \in Wide \cup Redundant \cup Reducing \cup Communicating \cup Conditional :
     ~MayBeSwallowed(L) /\ ~ClosesAtReduction(L)}

Swallowed == {L \in Communicating : MayBeSwallowed(L)}
=============================================================================
