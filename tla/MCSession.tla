------------------------------ MODULE MCSession ------------------------------
(* Model-checking instances of Session. *)
EXTENDS Session

Arg(f, t) == [flag |-> f, text |-> t]

\* An argument of each kind of flag, converted and not, twice and between others, and
\* some that are no flags of the library.
MCArgs ==
  { Arg("other", NoText), Arg("help", NoText), Arg("benchmark_dry_run", NoText),
    Arg("benchmark_dry_run", "off"), Arg("benchmark_repetitions", "3"),
    Arg("benchmark_repetitions", "3x"), Arg("benchmark_repetitions", ""),
    Arg("benchmark_format", "csv"), Arg("benchmark_format", "xml"),
    Arg("benchmark_out", "out"), Arg("benchmark_filter", NoText),
    Arg("benchmark_list_tests", NoText), Arg("benchmark_context", "a=1"),
    Arg("benchmark_context", "b=2,bad") }

MCCommandLines == UNION {[1 .. n -> MCArgs] : n \in 0 .. 3}

MCKvPairs ==
  [t \in {"a=1", "b=2,bad", "a=9,b=8", "a=5,a=6"} |->
     CASE t = "a=1"     -> << <<"a", "1">> >>
       [] t = "b=2,bad" -> << <<"b", "2">>, <<"bad">> >>
       [] t = "a=9,b=8" -> << <<"a", "9">>, <<"b", "8">> >>
       [] t = "a=5,a=6" -> << <<"a", "5">>, <<"a", "6">> >>]

MCEnvironments ==
  { [f \in {} |-> ""],
    [benchmark_repetitions |-> "2", benchmark_context |-> "a=9,b=8"],
    [benchmark_repetitions |-> "2y", benchmark_time_unit |-> "ms",
     benchmark_context |-> "a=5,a=6"] }

MCContexts == {<<"a", "0">>, <<"dry_run", "no">>}

MCMatching ==
  [s \in {"all", "none", "broken"} |->
     CASE s = "all" -> 2 [] s = "none" -> 0 [] s = "broken" -> -1]
=============================================================================
