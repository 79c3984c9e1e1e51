------------------------------- MODULE Reporting -------------------------------
(***************************************************************************)
(* From the results of an instance's repetitions to the lines that a       *)
(* reporter writes: CreateRunReport merges and finishes the counters of    *)
(* the threads, ComputeStats makes the aggregates, ComputeBigO the last    *)
(* two rows of a family, and the console, CSV and JSON reporters decide on *)
(* headers, columns and the scale of the times.                            *)
(*                                                                         *)
(* One family and one reporter; RunBenchmarks has several of both. Numbers *)
(* are those of Statistics. Percent signs, widths, labels, memory results  *)
(* and the rest of the text are left out.                                  *)
(***************************************************************************)
EXTENDS Statistics

CONSTANTS
  TimeUnits,        \* with the multiplier of each: [unit -> number]
  DefaultTimeUnit,
  CounterNames,     \* sequence of the names, in the order of std::map
  FixedCounters,    \* of those, the ones for which the CSV has a column of its own
  CounterFlags,     \* [name -> set of flags]
  InstanceResults,  \* what an instance may yield: [n, threads, aggregates_only,
                    \*   repetitions: Seq([skipped, iterations, real, manual, cpu,
                    \*                     counters: Seq([names -> value])])]
  Complexities,
  MaxReports, MaxSuites   \* bounds of the model

Names == {CounterNames[i] : i \in DOMAIN CounterNames}

IsSeq(s) == s \in Seq({s[k] : k \in DOMAIN s})

ASSUME ReportingAssumption ==
  /\ \A u \in DOMAIN TimeUnits : TimeUnits[u] \in Nat \ {0}
  /\ DefaultTimeUnit \in DOMAIN TimeUnits
  /\ CounterNames \in Seq(STRING)
  /\ \A i, j \in DOMAIN CounterNames : CounterNames[i] = CounterNames[j] => i = j
  /\ MaxReports \in Nat /\ MaxSuites \in Nat
  /\ \A i \in InstanceResults :
       /\ i.n \in Nat \ {0} /\ i.threads \in Nat \ {0} /\ i.aggregates_only \in BOOLEAN
       /\ IsSeq(i.repetitions)
       /\ \A r \in DOMAIN i.repetitions :
            LET result == i.repetitions[r]
            IN  /\ result.skipped \in BOOLEAN /\ result.iterations \in Nat
                /\ ~result.skipped => result.iterations > 0
                /\ IsSeq(result.counters) /\ Len(result.counters) = i.threads
                /\ \A t \in 1 .. i.threads : DOMAIN result.counters[t] \subseteq Names
       \* The iterations are found in the first repetition that counts them.
       /\ Cardinality({i.repetitions[r].iterations : r \in
                         {q \in DOMAIN i.repetitions : ~i.repetitions[q].skipped}}) <= 1

VARIABLES
  checks,              \* built without NDEBUG: BM_CHECK aborts
  family,              \* [complexity, manual, unit] of the benchmark
  per_family_reports,  \* runs of the family that were not skipped
  reporter,            \* kind, header state, and the lines it has written
  suite, reports,      \* suites begun, instances reported
  aborted

vars == <<checks, family, per_family_reports, reporter, suite, reports, aborted>>

Kinds == {"console", "tabular", "csv", "json"}

NoCounters == [c \in {} |-> Whole(0)]

\* Number k of a finite set of positions, and what a sequence has at those positions.
Nth(places, k) ==
  CHOOSE i \in places : Cardinality({j \in places : j < i}) = k - 1

At(s, places) == [k \in 1 .. Cardinality(places) |-> s[Nth(places, k)]]

Ordered(names) == At(CounterNames, {i \in DOMAIN CounterNames : CounterNames[i] \in names})

Init ==
  /\ checks \in BOOLEAN
  /\ family \in [complexity : Complexities, manual : BOOLEAN, unit : DOMAIN TimeUnits]
  /\ per_family_reports = << >>
  /\ reporter \in [kind : Kinds, printed_header_ : {FALSE}, prev_counters_ : {{}},
                   user_counter_names_ : {{}}, failed : {FALSE}, lines : {<< >>}]
  /\ suite = 0
  /\ reports = 0
  /\ aborted = FALSE

-----------------------------------------------------------------------------
(* Runs, as BenchmarkReporter::Run; an aggregate also keeps the runs that  *)
(* it is about.                                                            *)

\* RunInThread adds the counters of each thread to those of the manager.
CountersOf(result) ==
  LET merged[t \in 0 .. Len(result.counters)] ==
        IF t = 0 THEN NoCounters ELSE Increment(merged[t - 1], result.counters[t])
  IN merged[Len(result.counters)]

\* The time that decides on the iterations also divides the rates. UseRealTime, which only
\* makes that the real time, is left out.
Seconds(result) == IF family.manual THEN result.manual ELSE result.cpu

CreateRunReport(instance, result) ==
  LET merged == CountersOf(result)
      real   == IF family.manual THEN result.manual ELSE result.real
  IN [aggregate_name |-> "", aggregate_unit |-> "time", power |-> 1, about |-> << >>,
      skipped |-> result.skipped, iterations |-> result.iterations, n |-> instance.n,
      unit |-> family.unit, complexity |-> family.complexity,
      real |-> IF result.skipped THEN Whole(0) ELSE real,
      cpu |-> IF result.skipped THEN Whole(0) ELSE result.cpu,
      counters |->
        IF result.skipped THEN NoCounters
        ELSE [c \in DOMAIN merged |->
                Finish(merged[c], CounterFlags[c], result.iterations, Seconds(result),
                       instance.threads)]]

CreateRunReports(instance) ==
  [r \in DOMAIN instance.repetitions |->
     CreateRunReport(instance, instance.repetitions[r])]

Kept(runs) == At(runs, {i \in DOMAIN runs : ~runs[i].skipped})

CounterStats(runs, c) ==
  LET kept   == Kept(runs)
      having == At(kept, {i \in DOMAIN kept : c \in DOMAIN kept[i].counters})
  IN [i \in DOMAIN having |-> having[i].counters[c]]

UsedCounters(runs) == UNION {DOMAIN runs[i].counters : i \in DOMAIN runs}

\* ComputeStats does not come back: a checked build wants the same iterations of all
\* runs, and a first run that was skipped has no statistics.
StatsAbort(runs) ==
  /\ Len(Kept(runs)) >= 2
  /\ \/ runs[1].skipped
     \/ checks /\ \E i \in DOMAIN runs : runs[i].iterations # runs[1].iterations

\* Bug variant: only the runs that were not skipped count.
RescaleByKept(runs) == Ratio(Len(Kept(runs)), runs[1].iterations)

IterationRescaleFactor(runs) == Ratio(Len(runs), runs[1].iterations)

\* The run of one statistic, from the results for the times and the counters.
AggregateRow(runs, stat, real, cpu, counters) ==
  LET power == StatisticPower(stat)
      scale == IF StatisticUnit(stat) = "time"
               THEN Power(IterationRescaleFactor(runs), power) ELSE Whole(1)
  IN [aggregate_name |-> stat, aggregate_unit |-> StatisticUnit(stat), power |-> power,
      about |-> runs, skipped |-> FALSE, iterations |-> Len(runs), n |-> 0,
      unit |-> runs[1].unit, complexity |-> "oNone",
      real |-> Times(real, scale), cpu |-> Times(cpu, scale), counters |-> counters]

\* The results of one statistic for the counters that the runs have.
AggregateCounters(runs, stat) ==
  LET of(c) == Computed(stat, CounterStats(runs, c))
  IN {f \in [UsedCounters(runs) -> UNION {of(c) : c \in UsedCounters(runs)}] :
        \A c \in DOMAIN f : f[c] \in of(c)}

\* The results of one statistic; the median may depend on nth_element.
Aggregates(runs, stat) ==
  LET kept  == Kept(runs)
      reals == Computed(stat, [i \in DOMAIN kept |-> kept[i].real])
      cpus  == Computed(stat, [i \in DOMAIN kept |-> kept[i].cpu])
  IN {AggregateRow(runs, stat, real, cpu, counters) :
        real \in reals, cpu \in cpus, counters \in AggregateCounters(runs, stat)}

ComputeStats(runs) ==
  IF Len(Kept(runs)) < 2 THEN {<< >>}
  ELSE {<<mean, median, stddev, cv>> :
          mean \in Aggregates(runs, "mean"), median \in Aggregates(runs, "median"),
          stddev \in Aggregates(runs, "stddev"), cv \in Aggregates(runs, "cv")}

\* Bug variant: the curve for the CPU time is looked for on its own.
CurveOnItsOwn(first) == family.complexity

\* "The Big-O complexity for CPU time must have the same Big-O function!"
SecondCurve(first) == first.complexity

\* The length is that of each run; the curve is found for the manual time if there is
\* one, otherwise for the CPU time, and fitted to the other time.
BigOFit(runs) ==
  LET n      == [i \in DOMAIN runs |-> runs[i].n]
      real   == [i \in DOMAIN runs |-> Over(runs[i].real, Whole(runs[i].iterations))]
      cpu    == [i \in DOMAIN runs |-> Over(runs[i].cpu, Whole(runs[i].iterations))]
      first  == MinimalLeastSq(n, IF family.manual THEN real ELSE cpu, family.complexity)
      second == MinimalLeastSq(n, IF family.manual THEN cpu ELSE real, SecondCurve(first))
  IN IF family.manual THEN [real |-> first, cpu |-> second]
     ELSE [real |-> second, cpu |-> first]

\* The coefficients are in the default time unit.
BigORow(runs, fit) ==
  [aggregate_name |-> "BigO", aggregate_unit |-> "time", power |-> 1, about |-> runs,
   skipped |-> FALSE, iterations |-> 0, n |-> 0, unit |-> DefaultTimeUnit,
   complexity |-> fit.cpu.complexity, real |-> fit.real.coef, cpu |-> fit.cpu.coef,
   counters |-> NoCounters]

\* The RMS is divided by the multiplier that it is going to be multiplied by.
RmsRow(runs, fit) ==
  LET back == Power(Ratio(1, TimeUnits[family.unit]), 2)
  IN [BigORow(runs, fit) EXCEPT
        !.aggregate_name = "RMS", !.aggregate_unit = "percentage", !.power = 2,
        !.unit = family.unit,
        !.real = Times(fit.real.rms, back), !.cpu = Times(fit.cpu.rms, back)]

\* The one result, as a set like that of ComputeStats.
ComputeBigO(runs) ==
  IF Len(runs) < 2 THEN {<< >>}
  ELSE {<<BigORow(runs, fit), RmsRow(runs, fit)>> : fit \in {BigOFit(runs)}}

-----------------------------------------------------------------------------
(* What the reporters write.                                               *)

\* GetAdjustedRealTime, GetAdjustedCPUTime.
Adjusted(run, time) ==
  Times(time, Power(Ratio(TimeUnits[run.unit],
                          IF run.iterations = 0 THEN 1 ELSE run.iterations), run.power))

AdjustedTimes(run) == [real |-> Adjusted(run, run.real), cpu |-> Adjusted(run, run.cpu)]

RawTimes(run) == [real |-> run.real, cpu |-> run.cpu]

CsvTimes(run) == IF run.aggregate_unit = "time" THEN AdjustedTimes(run) ELSE RawTimes(run)

ConsoleTimes(run) ==
  IF run.aggregate_name = "RMS" THEN AdjustedTimes(run)
  ELSE IF run.aggregate_unit = "time" THEN AdjustedTimes(run) ELSE RawTimes(run)

JsonTimes(run) ==
  IF run.aggregate_name = "RMS" THEN [cpu |-> Adjusted(run, run.cpu)]
  ELSE IF run.aggregate_unit = "time" THEN AdjustedTimes(run) ELSE RawTimes(run)

Header(names) == [kind |-> "header", names |-> names]

\* A skipped run has neither times nor counters, but in the JSON.
Row(run, times, cells) ==
  [kind |-> "row", run |-> run, times |-> times, cells |-> cells]

TextRow(run, times, cells) ==
  IF run.skipped THEN Row(run, << >>, << >>) ELSE Row(run, times, cells)

Empty == << >>

UserCounters(run) == DOMAIN run.counters \ FixedCounters

\* The names of a header are those of the runs of the first call; a skipped run has no
\* cells for counters.
CsvReportRuns(rep, runs) ==
  LET used  == UNION {UserCounters(runs[i]) : i \in DOMAIN runs}
      names == IF rep.printed_header_ THEN rep.user_counter_names_ ELSE used
      cells(run) == [i \in 1 .. Cardinality(names) |->
                       LET c == Ordered(names)[i]
                       IN  IF c \in DOMAIN run.counters THEN run.counters[c] ELSE Empty]
      rows  == [i \in DOMAIN runs |->
                  TextRow(runs[i], CsvTimes(runs[i]), cells(runs[i]))]
  IN IF rep.printed_header_ /\ checks /\ ~(used \subseteq names)
     THEN [rep EXCEPT !.failed = TRUE]
     ELSE [rep EXCEPT !.printed_header_ = TRUE, !.user_counter_names_ = names,
                      !.lines = @ \o (IF rep.printed_header_ THEN << >>
                                      ELSE <<Header(Ordered(names))>>) \o rows]

\* Bug variant: counters are compared by their number.
SameNumber(l, r) == Cardinality(l) = Cardinality(r)

SameNames(l, r) == l = r

\* In the tabular format a run with other counters gets a header of its own.
ConsoleReportRun(rep, run) ==
  LET names  == DOMAIN run.counters
      header == ~rep.printed_header_
                \/ (rep.kind = "tabular" /\ ~SameNames(names, rep.prev_counters_))
      row    == TextRow(run, ConsoleTimes(run),
                        [i \in 1 .. Cardinality(names) |-> run.counters[Ordered(names)[i]]])
  IN [rep EXCEPT !.printed_header_ = TRUE,
                 !.prev_counters_ = IF header THEN names ELSE @,
                 !.lines = @ \o (IF header THEN <<Header(Ordered(names))>> ELSE << >>)
                             \o <<row>>]

JsonReportRun(rep, run) ==
  [rep EXCEPT !.lines = Append(@, Row(run, JsonTimes(run), run.counters))]

ReportRun(rep, run) ==
  IF rep.kind = "json" THEN JsonReportRun(rep, run) ELSE ConsoleReportRun(rep, run)

\* These two go through the runs one by one.
ReportEach(rep, runs) ==
  LET after[i \in 0 .. Len(runs)] ==
        IF i = 0 THEN rep ELSE ReportRun(after[i - 1], runs[i])
  IN after[Len(runs)]

ReportRuns(rep, runs) ==
  IF rep.failed THEN rep
  ELSE IF rep.kind = "csv" THEN CsvReportRuns(rep, runs)
  ELSE ReportEach(rep, runs)

\* Report: the repetitions, unless only aggregates are wanted and there are some.
Reported(runs, aggregates, only) ==
  LET first == IF only /\ aggregates # << >> THEN reporter ELSE ReportRuns(reporter, runs)
  IN  IF aggregates = << >> THEN first ELSE ReportRuns(first, aggregates)

-----------------------------------------------------------------------------
\* A suite begins: only the console forgets the header of the one before.
ReportContext ==
  /\ suite < MaxSuites /\ ~aborted /\ per_family_reports = << >>
  /\ suite' = suite + 1
  /\ reporter' = IF reporter.kind \in {"console", "tabular"}
                 THEN [reporter EXCEPT !.printed_header_ = FALSE, !.prev_counters_ = {}]
                 ELSE reporter
  /\ UNCHANGED <<checks, family, per_family_reports, reports, aborted>>

\* Bug variant: all runs are kept for the fit.
InFamilyAll(runs) ==
  IF family.complexity = "oNone" THEN << >> ELSE per_family_reports \o runs

\* With complexity, the runs of all instances so far that were not skipped.
InFamily(runs) ==
  IF family.complexity = "oNone" THEN << >> ELSE per_family_reports \o Kept(runs)

\* An instance is done, which may have been the last of its family: the reports of the
\* family are then dropped.
ReportInstance(instance, last) ==
  /\ suite > 0 /\ reports < MaxReports /\ ~aborted
  /\ last => family.complexity # "oNone"
  /\ \E runs \in {CreateRunReports(instance)} :
       \/ /\ StatsAbort(runs)
          /\ aborted' = TRUE
          /\ UNCHANGED <<per_family_reports, reporter>>
       \/ /\ ~StatsAbort(runs)
          /\ per_family_reports' = IF last THEN << >> ELSE InFamily(runs)
          /\ \E stats \in ComputeStats(runs),
               bigO \in IF last THEN ComputeBigO(InFamily(runs)) ELSE {<< >>} :
               reporter' = Reported(runs, stats \o bigO, instance.aggregates_only)
          /\ aborted' = reporter'.failed
  /\ reports' = reports + 1
  /\ UNCHANGED <<checks, family, suite>>

Next ==
  \/ ReportContext
  \/ \E instance \in InstanceResults, last \in BOOLEAN : ReportInstance(instance, last)

Spec == Init /\ [][Next]_vars

-----------------------------------------------------------------------------
(* Properties.                                                             *)

\* The state has the expected shape: the names that the console and the CSV remember are
\* the counters', and what fails has been noticed by a build that checks or is a crash.
TypeOK ==
  /\ {checks, aborted, reporter.failed} \subseteq BOOLEAN
  /\ family \in [complexity : Complexities, manual : BOOLEAN, unit : DOMAIN TimeUnits]
  /\ reporter.kind \in Kinds
  /\ reporter.user_counter_names_ \cup reporter.prev_counters_ \subseteq Names
  /\ reporter.failed => aborted /\ checks /\ reporter.kind = "csv"
  /\ suite \in 0 .. MaxSuites /\ reports \in 0 .. MaxReports
  /\ \A i \in DOMAIN per_family_reports : ~per_family_reports[i].skipped

Rows == {i \in DOMAIN reporter.lines : reporter.lines[i].kind = "row"}

\* The header that a reader of line i looks up.
HeaderOf(i) ==
  reporter.lines[CHOOSE h \in 1 .. i : /\ reporter.lines[h].kind = "header"
                                       /\ \A j \in h + 1 .. i : reporter.lines[j].kind = "row"]

\* CSVReporter and the tabular ConsoleReporter: a header stands above every row, and each
\* number of the row is the counter of the name above it. All counters of the run are
\* there, but in a release build, where the CSV leaves out those it met too late.
RowsUnderHeaders ==
  reporter.kind \in {"csv", "tabular"} =>
    \A i \in Rows :
      LET line  == reporter.lines[i]
          names == HeaderOf(i).names
          shown == {names[j] : j \in DOMAIN names}
          mine  == IF reporter.kind = "csv" THEN UserCounters(line.run)
                   ELSE DOMAIN line.run.counters
      IN line.run.skipped \/
           /\ Len(line.cells) = Len(names)
           /\ \A j \in DOMAIN names :
                line.cells[j] = IF names[j] \in mine THEN line.run.counters[names[j]]
                                ELSE Empty
           /\ mine \subseteq shown \/ (reporter.kind = "csv" /\ ~checks)

\* The statistics, as a textbook has them.
KthSmallest(v, k) ==
  LET at == CHOOSE i \in DOMAIN v :
              /\ Cardinality({j \in DOMAIN v : Less(v[j], v[i])}) < k
              /\ Cardinality({j \in DOMAIN v : ~Less(v[i], v[j])}) >= k
  IN  v[at]

MeanReference(v) == Over(RatioSum(v), Whole(Len(v)))

MedianReference(v) ==
  Over(Plus(KthSmallest(v, (Len(v) + 1) \div 2), KthSmallest(v, (Len(v) + 2) \div 2)),
       Whole(2))

VarianceReference(v) ==
  Over(RatioSum([i \in DOMAIN v |-> Power(Minus(v[i], MeanReference(v)), 2)]),
       Whole(Len(v) - 1))

Reference(stat, v) ==
  CASE stat = "mean"   -> MeanReference(v)
    [] stat = "median" -> MedianReference(v)
    [] stat = "stddev" -> VarianceReference(v)
    [] stat = "cv"     -> Over(VarianceReference(v), Power(MeanReference(v), 2))

\* ComputeStats and GetAdjusted...Time: an aggregate's times, as they are shown, are the
\* statistic of the times that are shown for the runs that were not skipped, although the
\* former are divided by the number of reports and the latter by their iterations. A
\* counter's aggregate is the statistic of the values shown for it.
AggregatesExact ==
  \A i \in Rows :
    LET line == reporter.lines[i]
        stat == line.run.aggregate_name
        kept == Kept(line.run.about)
        shown(column) == [k \in DOMAIN kept |-> CsvTimes(kept[k])[column]]
    IN stat \in {StatisticsNames[s] : s \in DOMAIN StatisticsNames} =>
         /\ \A column \in {"real", "cpu"} :
              line.times[column] = Reference(stat, shown(column))
         /\ \A c \in DOMAIN line.run.counters :
              LET values == CounterStats(line.run.about, c)
              IN  Len(values) >= 2 /\ MeanReference(values)[1] # 0
                    => line.run.counters[c] = Reference(stat, values)

FamilyFit(about, curve, column) ==
  LeastSquares([i \in DOMAIN about |-> about[i].n],
               [i \in DOMAIN about |-> Over(about[i][column], Whole(about[i].iterations))],
               curve)

Curves == {"o1"} \cup {AutoCurves[i] : i \in DOMAIN AutoCurves}

\* ComputeBigO: the row names one curve, both coefficients are the best for that curve,
\* and where the curve was to be found no other one is closer to the times it was found
\* for, which are the manual times if there are any.
BigOFits ==
  \A i \in Rows :
    LET run  == reporter.lines[i].run
        fits == [column \in {"real", "cpu"} |-> FamilyFit(run.about, run.complexity, column)]
    IN run.aggregate_name = "BigO" =>
         /\ family.complexity # "oAuto" => run.complexity = family.complexity
         /\ \A column \in {"real", "cpu"} : run[column] = fits[column].coef
         /\ family.complexity = "oAuto" =>
              LET column == IF family.manual THEN "real" ELSE "cpu"
              IN \A curve \in Curves :
                   ~Better(FamilyFit(run.about, curve, column), fits[column])
=============================================================================
