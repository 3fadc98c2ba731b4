----------------------- MODULE MCCommutativeSemaphore -----------------------
(* Four commutative tasks over two bits: every assignment of non-empty     *)
(* masks is an initial state, so queues of three tasks, masks that overlap *)
(* in part and a release that lets several tasks go all occur.             *)
EXTENDS CommutativeSemaphore

CONSTANTS t1, t2, t3, t4, b1, b2

MCTask == {t1, t2, t3, t4}
MCBit == {b1, b2}
=============================================================================
