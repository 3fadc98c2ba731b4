---------------------------- MODULE TaskCreation ----------------------------
(***************************************************************************)
(* The tasks the runtime creates by itself, and the task types they need   *)
(* (system/TaskCreation.cpp): while threads register task infos and spawn  *)
(* functions, main creates a taskloop, whose children the runtime          *)
(* generates, and then a taskiter, whose tasks it puts into groups.  Then  *)
(* the runtime may be shut down.                                           *)
(***************************************************************************)
EXTENDS GranularityTuning, Taskloop, TaskTypes

CONSTANTS
  Main,           (* the declarer of the task info of the taskloop         *)
  Grouping,       (* the declarer of the task info of groups               *)
  Tuned           (* the taskloops that a taskiter follows (a bound)       *)

ASSUME CreationAssumption == {Main, Grouping} \subseteq Declarer /\ Tuned \subseteq Taskloops

tuningVars == vars
creationVars == <<tuningVars, taskloopVars, typeVars>>

CreationInit == Init /\ TaskloopInit /\ TypesInit

Typed(t) == types[InfoOf[t]] > 0

(* createTask uses the type of the info of the taskloop.                   *)
StepOfTaskloop ==
  /\ at[Runtime] = "running" /\ Typed(Main)
  /\ TaskloopNext
  /\ UNCHANGED <<tuningVars, typeVars>>

(* A group needs the type of groups (getEmptyGroupTask).  The tasks that   *)
(* were spawned have come to their end before (a bound).                   *)
StepOfTaskiter ==
  /\ at[Runtime] = "running" /\ at[Grouping] # "locked"
  /\ progress = "done" /\ taskloop \in Tuned
  /\ \A t \in Spawner : at[t] = "destroyed"
  /\ TuningNext
  /\ Len(members') > Len(members) => Typed(Grouping)
  /\ UNCHANGED <<taskloopVars, typeVars>>

(* getGroupTaskInfo registers the info of groups when it is needed.        *)
StepOfTypes ==
  /\ TypesNext
  /\ at'[Grouping] # at[Grouping] => phase \notin {"untuned", "closed"}
  /\ at'[Runtime] = "stopping" => progress = "done" /\ phase \in {"untuned", "closed"}
  /\ UNCHANGED <<tuningVars, taskloopVars>>

Stopped == at[Runtime] = "stopped" /\ UNCHANGED creationVars

CreationNext == StepOfTaskloop \/ StepOfTaskiter \/ StepOfTypes \/ Stopped

CreationSpec == CreationInit /\ [][CreationNext]_creationVars
=============================================================================
