--------------------------- MODULE MCRunBenchmarks ---------------------------
(* Model-checking instances of RunBenchmarks. *)
EXTENDS RunBenchmarks

Bench(f, cx, reps, disp, fil) ==
  [family |-> f, complexity |-> cx, repeats |-> reps, display |-> disp, file |-> fil]

\* A family of two instances with complexity, different repeats, and different
\* settings for the two reporters; a plain benchmark that is repeated; a single one.
MCBenchmarks ==
  << Bench(0, TRUE, 2, FALSE, TRUE), Bench(0, TRUE, 1, TRUE, FALSE),
     Bench(1, FALSE, 3, TRUE, TRUE), Bench(2, FALSE, 1, TRUE, TRUE) >>
=============================================================================
