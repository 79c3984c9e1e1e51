----------------------------- MODULE MCReporting -----------------------------
(* Model-checking instances of Reporting. *)
EXTENDS Reporting

MCTimeUnits == [ns |-> 6, us |-> 2]

MCCounterNames == <<"a", "b", "items_per_second">>

MCCounterFlags ==
  [a |-> {"kAvgIterations"}, b |-> {"kAvgThreads", "kInvert"}, items_per_second |-> {"kIsRate"}]

\* A repetition that took t for each of its m iterations, one thread's counters in each
\* element of cs.
Rep(m, t, cs) ==
  [skipped |-> FALSE, iterations |-> m, real |-> Whole((t + 1) * m), manual |-> Whole(t * t * m),
   cpu |-> Whole(t * m), counters |-> cs]

Skip(m, threads) ==
  [skipped |-> TRUE, iterations |-> m, real |-> Whole(0), manual |-> Whole(0),
   cpu |-> Whole(0), counters |-> [i \in 1 .. threads |-> NoCounters]]

A(x) == [a |-> Whole(x)]
B(x) == [b |-> Whole(x)]
AB(x) == [a |-> Whole(x), b |-> Whole(x + 1)]
Items(x) == [items_per_second |-> Whole(x)]

Instance(n, threads, only, reps) ==
  [n |-> n, threads |-> threads, aggregates_only |-> only, repetitions |-> reps]

\* Lengths 1, 2 and 4; no, one or two counters, from one thread or another; two, three and
\* four repetitions; skips first, later, and with no or the same iterations.
MCInstanceResults ==
  { Instance(1, 1, FALSE, <<Rep(2, 1, <<NoCounters>>)>>),
    Instance(2, 1, FALSE, <<Rep(1, 2, <<A(2)>>)>>),
    Instance(4, 1, FALSE, <<Rep(2, 3, <<B(2)>>)>>),
    Instance(2, 2, TRUE,  <<Rep(2, 1, <<A(2), B(1)>>), Rep(2, 3, <<AB(1), A(4)>>)>>),
    Instance(1, 1, FALSE, <<Rep(2, 2, <<Items(4)>>), Skip(0, 1), Rep(2, 1, <<A(2)>>)>>),
    Instance(4, 1, TRUE,  <<Rep(2, 3, <<A(6)>>), Rep(2, 1, <<A(2)>>), Rep(2, 4, <<A(4)>>),
                            Rep(2, 2, <<A(0)>>)>>),
    Instance(2, 1, FALSE, <<Rep(2, 4, <<NoCounters>>), Skip(2, 1), Rep(2, 1, <<NoCounters>>)>>),
    Instance(2, 1, FALSE, <<Skip(2, 1), Rep(2, 1, <<A(1)>>), Rep(2, 3, <<A(1)>>)>>),
    Instance(2, 1, FALSE, <<Skip(0, 1), Rep(2, 1, <<A(1)>>)>>) }
=============================================================================
