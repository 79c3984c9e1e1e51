-------------------------- MODULE MCBenchmarkRunner --------------------------
(* Model-checking instances of BenchmarkRunner. A tick is a tenth of the default *)
(* minimum time.                                                                 *)
EXTENDS BenchmarkRunner

Instance(mt, wt, it, reps, clk) ==
  [min_time |-> mt, min_warmup_time |-> wt, iterations |-> it,
   repetitions |-> reps, clock |-> clk, aggregation_mode |-> clk = "manual"]

\* Performance counters are asked for, in vain or not, where a warm-up time is given.
Setting(tg, bt, wt, dry) ==
  [tag |-> tg, benchtime |-> bt, min_warmup_time |-> wt, repetitions |-> 2,
   dry_run |-> dry,
   perf_counters |-> IF wt = 0 THEN "none" ELSE IF dry THEN "set up" ELSE "failed"]

\* Nothing registered; a minimum and a longer warm-up; an explicit count; repeated,
\* on another clock.
MCInstances ==
  {Instance(0, 0, 0, 0, "real"), Instance(10, 20, 0, 3, "cpu"),
   Instance(0, 0, 7, 0, "cpu"), Instance(5, 0, 0, 3, "manual")}

MCFlags ==
  {Setting("TIME", 10, 0, FALSE), Setting("TIME", 10, 3, FALSE),
   Setting("ITERS", 4, 3, FALSE), Setting("TIME", 10, 3, TRUE)}

\* Below and above a tenth of the minimum, enough, nearly enough for the longer
\* warm-up (1.4 times the count rounds down to the same count), and far too long.
MCTimes == {0, 2, 10, 19, 50}
=============================================================================
