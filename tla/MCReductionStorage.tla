------------------------- MODULE MCReductionStorage -------------------------
(* Three tasks on two CPUs with words of one bit: the bitset has two words,*)
(* and a slot is used again by the task that comes third.                  *)
EXTENDS ReductionStorage

CONSTANTS t1, t2, t3, c1, c2

MCTask == {t1, t2, t3}
MCCpu == {c1, c2}
=============================================================================
