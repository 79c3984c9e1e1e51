----------------------------- MODULE Registration -----------------------------
(***************************************************************************)
(* The registration of benchmarks: families, the calls that configure them *)
(* (each of which may stop the program with a BM_CHECK), and FindBenchmarks,*)
(* which turns the families into the instances that are run.               *)
(*                                                                         *)
(* A name is the sequence of its components, a regular expression the set  *)
(* of components it finds: it matches a name that has one of them.         *)
(***************************************************************************)
EXTENDS Arguments

LOCAL INSTANCE SequencesExt

CONSTANTS
  Names,             \* function names
  Disabled,          \* those that begin with DISABLED_
  kRangeMultiplier,  \* multiplier a family starts with (8 in the code)
  NumCpus,           \* CPUInfo::Get().num_cpus
  Limits,            \* inputs: ends of ranges, and arguments
  Lists,             \* inputs: what Args, Ranges and ArgsProduct are called with
  Counts,            \* inputs: thread counts and strides
  Multipliers,       \* inputs: range multipliers
  Filters,           \* inputs: [negative, components, valid]
  MaxCalls           \* bound: calls of the interface

ASSUME RegistrationAssumption ==
  /\ Disabled \subseteq Names
  /\ kRangeMultiplier \in Nat \ {0, 1} /\ NumCpus \in Nat \ {0}
  /\ Limits \subseteq T /\ Counts \subseteq T /\ Multipliers \subseteq T
  /\ MaxCalls \in Nat

VARIABLES
  families_,
  benchmarks,  \* what FindBenchmarks returned, until the next call
  calls,       \* calls so far
  aborted      \* a BM_CHECK failed

vars == <<families_, benchmarks, calls, aborted>>

\* Bug variant: the names do not fix the count.
ArgsCntOfArgs(family) == IF family.args_ = << >> THEN -1 ELSE Len(family.args_[1])

ArgsCnt(family) ==
  IF family.args_ # << >> THEN Len(family.args_[1])
  ELSE IF family.arg_names_ # << >> THEN Len(family.arg_names_)
  ELSE -1

CountIs(family, n) == ArgsCnt(family) \in {-1, n}

\* The members asked and asked_threads are history: what the calls asked for, by the
\* reference definitions.
NewFamily(name) ==
  [name_ |-> name, args_ |-> << >>, arg_names_ |-> << >>, thread_counts_ |-> << >>,
   range_multiplier_ |-> kRangeMultiplier, min_time_ |-> 0, min_warmup_time_ |-> 0,
   iterations_ |-> 0, repetitions_ |-> 0, aggregation_report_mode_ |-> {},
   time_type |-> {}, asked |-> << >>, asked_threads |-> << >>]

NotFound == [ok |-> FALSE, filter |-> << >>, list |-> << >>]

Init ==
  /\ families_ = << >>
  /\ benchmarks = NotFound
  /\ calls = 0
  /\ aborted = FALSE

-----------------------------------------------------------------------------
(* Calls on a family.                                                      *)

Running == ~aborted /\ calls < MaxCalls

RegisterBenchmark(name) ==
  /\ Running
  /\ families_' = Append(families_, NewFamily(name))
  /\ benchmarks' = NotFound
  /\ calls' = calls + 1
  /\ UNCHANGED aborted

\* A call on family f: its checks, and the family it leaves.
Call(f, checks, family) ==
  /\ calls' = calls + 1
  /\ benchmarks' = NotFound
  /\ aborted' = ~checks
  /\ families_' = IF checks THEN [families_ EXCEPT ![f] = family] ELSE families_

\* Arguments are appended in the order of the calls.
AddArgs(f, checks, tuples, asked) ==
  Call(f, checks, [families_[f] EXCEPT !.args_ = @ \o tuples, !.asked = @ \o asked])

Singles(values) == [i \in DOMAIN values |-> <<values[i]>>]

Arg(f, x) == AddArgs(f, CountIs(families_[f], 1), <<<<x>>>>, <<<<x>>>>)

Args(f, args) == AddArgs(f, CountIs(families_[f], Len(args)), <<args>>, <<args>>)

\* Benchmark::Range, a name the library of sequences has taken.
RangeArgs(f, start, limit) ==
  LET mult   == families_[f].range_multiplier_
      checks == CountIs(families_[f], 1) /\ RangeChecks(start, limit, mult)
  IN IF checks
       THEN AddArgs(f, TRUE, Singles(AddRange(start, limit, mult)),
                    Singles(RangeReference(start, limit, mult)))
       ELSE Call(f, FALSE, families_[f])

ArgsProduct(f, arglists) ==
  AddArgs(f, CountIs(families_[f], Len(arglists)), Product(arglists),
          ProductReference(arglists))

\* Pairs of ends, each of which becomes one of the lists of a product.
Ranges(f, ranges) ==
  LET mult   == families_[f].range_multiplier_
      checks == /\ CountIs(families_[f], Len(ranges))
                /\ \A i \in DOMAIN ranges : RangeChecks(ranges[i][1], ranges[i][2], mult)
  IN IF checks
       THEN AddArgs(f, TRUE,
              Product([i \in DOMAIN ranges |-> AddRange(ranges[i][1], ranges[i][2], mult)]),
              ProductReference([i \in DOMAIN ranges |->
                                  RangeReference(ranges[i][1], ranges[i][2], mult)]))
       ELSE Call(f, FALSE, families_[f])

\* Called with a positive step and a limit that is a step away from the type's maximum.
DenseRange(f, start, limit, step) ==
  LET values == DenseValues(start, limit, step)
      kept   == {x \in start .. limit : (x - start) % step = 0}
  IN AddArgs(f, CountIs(families_[f], 1) /\ start <= limit, Singles(values),
             Singles(Ascending(kept)))

\* ArgName is ArgNames with one name.
ArgNames(f, names) ==
  Call(f, CountIs(families_[f], Len(names)), [families_[f] EXCEPT !.arg_names_ = names])

RangeMultiplier(f, multiplier) ==
  Call(f, multiplier > 1, [families_[f] EXCEPT !.range_multiplier_ = multiplier])

AddThreads(f, checks, threads, asked) ==
  Call(f, checks, [families_[f] EXCEPT !.thread_counts_ = @ \o threads,
                                       !.asked_threads = @ \o asked])

Threads(f, t) == AddThreads(f, t > 0, <<t>>, <<t>>)

ThreadPerCpu(f) == AddThreads(f, TRUE, <<NumCpus>>, <<NumCpus>>)

ThreadRange(f, min, max) ==
  IF min > 0 /\ max >= min
    THEN AddThreads(f, TRUE, AddRange(min, max, 2), RangeReference(min, max, 2))
    ELSE Call(f, FALSE, families_[f])

\* The last count is added by a call of its own.
DenseThreadRange(f, min, max, stride) ==
  IF min > 0 /\ max >= min /\ stride >= 1
    THEN AddThreads(f, TRUE,
           Append(IF min < max THEN DenseValues(min, max - 1, stride) ELSE << >>, max),
           Ascending({x \in min .. max : x = max \/ (x - min) % stride = 0}))
    ELSE Call(f, FALSE, families_[f])

NoMinTimes(family) == family.min_time_ = 0 /\ family.min_warmup_time_ = 0

MinTime(f, t) ==
  Call(f, t > 0 /\ families_[f].iterations_ = 0, [families_[f] EXCEPT !.min_time_ = t])

MinWarmUpTime(f, t) ==
  Call(f, t >= 0 /\ families_[f].iterations_ = 0,
       [families_[f] EXCEPT !.min_warmup_time_ = t])

Iterations(f, n) ==
  Call(f, n > 0 /\ NoMinTimes(families_[f]), [families_[f] EXCEPT !.iterations_ = n])

Repetitions(f, n) == Call(f, n > 0, [families_[f] EXCEPT !.repetitions_ = n])

\* ARM_Default, ARM_FileReportAggregatesOnly and ARM_DisplayReportAggregatesOnly are the
\* bits "default", "file" and "display"; no bit at all is ARM_Unspecified.
ReportAggregatesOnly(f, value) ==
  Call(f, TRUE, [families_[f] EXCEPT !.aggregation_report_mode_ =
                   IF value THEN {"file", "display"} ELSE {"default"}])

DisplayAggregatesOnly(f, value) ==
  Call(f, TRUE, [families_[f] EXCEPT !.aggregation_report_mode_ =
                   IF value THEN @ \cup {"default", "display"}
                   ELSE (@ \cup {"default"}) \ {"display"}])

\* process_time goes with either of the others, which exclude each other.
UseTime(f, type) ==
  LET excluded == CASE type = "real_time" -> {"manual_time"}
                    [] type = "manual_time" -> {"real_time"}
                    [] OTHER -> {}
  IN Call(f, families_[f].time_type \cap excluded = {},
          [families_[f] EXCEPT !.time_type = @ \cup {type}])

SetName(f, name) == Call(f, TRUE, [families_[f] EXCEPT !.name_ = name])

ClearBenchmarks ==
  /\ Running
  /\ families_ # << >>
  /\ families_' = << >>
  /\ benchmarks' = NotFound
  /\ calls' = calls + 1
  /\ UNCHANGED aborted

-----------------------------------------------------------------------------
(* FindBenchmarks.                                                         *)

\* Components of the name of an instance, in the order of BenchmarkName::str; what is
\* empty has no component.
FullName(family, point) ==
  LET argument(i) == <<"arg", IF i \in DOMAIN family.arg_names_
                                THEN family.arg_names_[i] ELSE "",
                       point.args[i]>>
      given(kind, set) == IF set THEN <<<<kind>>>> ELSE << >>
  IN <<<<"function", family.name_>>>>
       \o [i \in DOMAIN point.args |-> argument(i)]
       \o given("min_time", family.min_time_ # 0)
       \o given("min_warmup_time", family.min_warmup_time_ # 0)
       \o given("iterations", family.iterations_ # 0)
       \o given("repeats", family.repetitions_ # 0)
       \o given("process_time", "process_time" \in family.time_type)
       \o given("manual_time", "manual_time" \in family.time_type)
       \o given("real_time", "real_time" \in family.time_type)
       \o (IF family.thread_counts_ = << >> THEN << >>
           ELSE <<<<"threads", point.threads>>>>)

Match(filter, name) == \E i \in DOMAIN name : name[i] \in filter.components

Enabled(family, filter) == family.name_ \notin Disabled

Selects(filter, family, point) ==
  /\ Enabled(family, filter)
  /\ Match(filter, FullName(family, point)) # filter.negative

\* A family without arguments is given an empty list of them, and keeps it: Args({}) is
\* called for it.
Prepared(family) ==
  IF ArgsCnt(family) = -1
    THEN [family EXCEPT !.args_ = <<<< >>>>, !.asked = <<<< >>>>]
    ELSE family

\* Arguments in their order, and for each the thread counts in theirs.
Points(family) ==
  LET threads == IF family.thread_counts_ = << >> THEN <<1>> ELSE family.thread_counts_
      n == Len(threads)
  IN [k \in 1 .. Len(family.args_) * n |->
        [args |-> family.args_[(k - 1) \div n + 1], threads |-> threads[((k - 1) % n) + 1]]]

Instance(family, family_index, index, point) ==
  [family_index |-> family_index, per_family_instance_index |-> index,
   args |-> point.args, threads |-> point.threads, name |-> FullName(family, point),
   aggregation_report_mode_ |-> family.aggregation_report_mode_]

\* Bug variant: the family index counts families without an instance, too.
IndexAfterAny(found, selected) == found.next_family_index + 1

\* Only a family that has an instance takes an index.
IndexAfter(found, selected) ==
  IF selected = << >> THEN found.next_family_index ELSE found.next_family_index + 1

FindInFamily(filter, found, family) ==
  LET selected == SelectSeq(Points(family), LAMBDA point : Selects(filter, family, point))
  IN [next_family_index |-> IndexAfter(found, selected),
      list |-> found.list \o
                 [k \in DOMAIN selected |->
                    Instance(family, found.next_family_index, k - 1, selected[k])]]

FindIn(families, filter) ==
  FoldLeft(LAMBDA found, family : FindInFamily(filter, found, family),
           [next_family_index |-> 0, list |-> << >>], families).list

\* An expression that does not compile finds nothing and touches nothing.
FindBenchmarks(filter) ==
  /\ Running
  /\ calls' = calls + 1
  /\ IF filter.valid
       THEN /\ families_' = [f \in DOMAIN families_ |-> Prepared(families_[f])]
            /\ benchmarks' = [ok |-> TRUE, filter |-> filter,
                              list |-> FindIn(families_', filter)]
       ELSE /\ benchmarks' = NotFound
            /\ UNCHANGED families_
  /\ UNCHANGED aborted

-----------------------------------------------------------------------------

Configure(f) ==
  \/ \E x \in Limits : Arg(f, x)
  \/ \E args \in Lists.args : Args(f, args)
  \/ \E start, limit \in Limits : RangeArgs(f, start, limit)
  \/ \E ranges \in Lists.ranges : Ranges(f, ranges)
  \/ \E arglists \in Lists.products : ArgsProduct(f, arglists)
  \/ \E span \in Lists.dense : DenseRange(f, span[1], span[2], span[3])
  \/ \E names \in Lists.names : ArgNames(f, names)
  \/ \E m \in Multipliers : RangeMultiplier(f, m)
  \/ \E t \in Counts : Threads(f, t)
  \/ ThreadPerCpu(f)
  \/ \E min, max \in Counts : ThreadRange(f, min, max)
  \/ \E min, max, stride \in Counts : DenseThreadRange(f, min, max, stride)
  \/ \E t \in {0, 1} : MinTime(f, t)
  \/ \E t \in {0, 1} : MinWarmUpTime(f, t)
  \/ \E n \in {0, 1} : Iterations(f, n)
  \/ \E n \in {0, 1} : Repetitions(f, n)
  \/ \E value \in BOOLEAN : ReportAggregatesOnly(f, value)
  \/ \E value \in BOOLEAN : DisplayAggregatesOnly(f, value)
  \/ \E type \in {"process_time", "manual_time", "real_time"} : UseTime(f, type)
  \/ \E name \in Names : SetName(f, name)

Next ==
  \/ \E name \in Names : RegisterBenchmark(name)
  \/ Running /\ \E f \in DOMAIN families_ : Configure(f)
  \/ ClearBenchmarks
  \/ \E filter \in Filters : FindBenchmarks(filter)

Spec == Init /\ [][Next]_vars

-----------------------------------------------------------------------------
(* Properties.                                                             *)

\* Whatever calls were made in whatever order, the families are as RunInThread and
\* BenchmarkRunner take them to be: all argument lists of a family have one length, which
\* is that of its argument names, thread counts are positive, an explicit iteration count
\* excludes both minimum times, and manual excludes real time.
TypeOK ==
  /\ calls \in 0 .. MaxCalls /\ aborted \in BOOLEAN
  /\ \A f \in DOMAIN families_ :
       LET family == families_[f]
       IN /\ family.name_ \in Names
          /\ \A i \in DOMAIN family.args_ :
               /\ family.args_[i] \in Seq(T)
               /\ CountIs(family, Len(family.args_[i]))
               /\ Len(family.arg_names_) \in {0, Len(family.args_[i])}
          /\ \A i \in DOMAIN family.thread_counts_ : family.thread_counts_[i] \in 1 .. kmax
          /\ family.iterations_ = 0 \/ family.min_time_ + family.min_warmup_time_ = 0
          /\ ~({"manual_time", "real_time"} \subseteq family.time_type)

\* What a family is to be run with is what its calls asked for, in their order: both ends
\* of every range, the powers between them with either sign and 0, each once and
\* ascending; every element of a product once, its first list varying fastest.
ArgsAsAsked ==
  \A f \in DOMAIN families_ :
    /\ families_[f].args_ = families_[f].asked
    /\ families_[f].thread_counts_ = families_[f].asked_threads

\* How often a list has an instance with these arguments, threads and name.
Occurrences(list, family, point) ==
  Cardinality({i \in DOMAIN list : /\ list[i].args = point.args
                                   /\ list[i].threads = point.threads
                                   /\ list[i].name = FullName(family, point)})

\* FindBenchmarks: a filter and its negation share the enabled instances between them,
\* each is found by exactly one of the two, as often as it was registered, and a disabled
\* one by neither. The indices that name the found ones in the reports have no gaps and
\* follow the list: families count from 0 and skip those without an instance, instances
\* count from 0 in each family.
InstancesFound ==
  /\ LET list == benchmarks.list
     IN \A i \in DOMAIN list :
          IF i > 1 /\ list[i].family_index = list[i - 1].family_index
            THEN list[i].per_family_instance_index = list[i - 1].per_family_instance_index + 1
            ELSE /\ list[i].per_family_instance_index = 0
                 /\ list[i].family_index = IF i = 1 THEN 0 ELSE list[i - 1].family_index + 1
  /\ benchmarks.ok =>
       LET negated == [benchmarks.filter EXCEPT !.negative = ~@]
           both    == benchmarks.list \o FindIn(families_, negated)
           enabled == SelectSeq(families_, LAMBDA f : f.name_ \notin Disabled)
       IN /\ Len(both) = FoldLeft(LAMBDA n, f : n + Len(Points(f)), 0, enabled)
          /\ \A f \in DOMAIN enabled : \A k \in DOMAIN Points(enabled[f]) :
               Occurrences(both, enabled[f], Points(enabled[f])[k]) > 0
=============================================================================
