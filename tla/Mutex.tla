-------------------------------- MODULE Mutex --------------------------------
(***************************************************************************)
(* What a lock promises: a thread that asks for it becomes its owner when  *)
(* there is no other.  UserMutex implements it.                            *)
(***************************************************************************)
CONSTANT Thread

VARIABLE status      (* idle, waiting or critical                          *)

Init == status = [t \in Thread |-> "idle"]

Request(t) ==
  /\ status[t] = "idle"
  /\ status' = [status EXCEPT ![t] = "waiting"]

Enter(t) ==
  /\ status[t] = "waiting"
  /\ \A u \in Thread : status[u] # "critical"
  /\ status' = [status EXCEPT ![t] = "critical"]

Leave(t) ==
  /\ status[t] = "critical"
  /\ status' = [status EXCEPT ![t] = "idle"]

Next == \E t \in Thread : Request(t) \/ Enter(t) \/ Leave(t)

Spec == Init /\ [][Next]_status
=============================================================================
