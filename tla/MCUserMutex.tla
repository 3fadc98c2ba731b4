----------------------------- MODULE MCUserMutex -----------------------------
(* Three tasks that lock and unlock one mutex for ever; the race to        *)
(* allocate it is in every behaviour.                                      *)
EXTENDS UserMutex

CONSTANTS t1, t2, t3

MCTask == {t1, t2, t3}
=============================================================================
