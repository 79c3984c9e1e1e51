------------------------------ MODULE MCBarrier ------------------------------
(* Model-checking instance of Barrier. *)
EXTENDS Barrier

CONSTANTS t1, t2, t3, t4

MCThreads4 == {t1, t2, t3, t4}
=============================================================================
