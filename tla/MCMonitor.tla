------------------------------ MODULE MCMonitor ------------------------------
(* Model-checking instance of Monitor. *)
EXTENDS Monitor, TLC

\* One repetition, or two whose orders can be mixed, reported with and without the runs.
MCCommandLines == [repetitions : 1 .. 2, aggregates_only : BOOLEAN]

\* Nothing tells the instances apart.
Symmetry == Permutations(Instances)
=============================================================================
