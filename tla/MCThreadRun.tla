----------------------------- MODULE MCThreadRun -----------------------------
(* Model-checking instances of ThreadRun. *)
EXTENDS ThreadRun

\* With two iterations a batch of three takes them all and leaves a leftover.
MCLoops ==
  {[kind |-> "range", n |-> 1], [kind |-> "keep", n |-> 1],
   [kind |-> "batch", n |-> 3]}
=============================================================================
