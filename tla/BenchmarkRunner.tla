--------------------------- MODULE BenchmarkRunner ---------------------------
(***************************************************************************)
(* class BenchmarkRunner: all the repetitions of one benchmark instance,   *)
(* with the warm-up, the search for an iteration count, the extra memory   *)
(* and profiler passes and the reports that come out.                      *)
(*                                                                         *)
(* The runner is driven by one thread, so a step is one round of Setup,    *)
(* DoNIterations, Teardown and the decision that follows. What a round     *)
(* measures is the environment: any of Times, and any round may be skipped *)
(* (ThreadRun is the inside of a round). Times are whole ticks.            *)
(***************************************************************************)
EXTENDS Integers, Sequences

CONSTANTS
  Instances,        \* benchmark instances: what was registered
  FlagSettings,     \* command lines
  Times,            \* ticks a round may take
  Overshoots,       \* iterations a round may run beyond the request
  kMaxIterations,
  kDefaultMinTime,
  memory_manager    \* is one registered?

ASSUME RunnerConstants ==
  /\ kMaxIterations \in Nat \ {0} /\ kDefaultMinTime \in Nat
  /\ Times \subseteq Nat /\ Overshoots \subseteq Nat
  /\ memory_manager \in BOOLEAN
ASSUME InstancesAssumption ==
  Instances \subseteq
    [min_time : Nat, min_warmup_time : Nat, iterations : Nat, repetitions : Nat,
     clock : {"cpu", "real", "manual"}, aggregation_mode : BOOLEAN]
ASSUME FlagsAssumption ==
  FlagSettings \subseteq
    [tag : {"TIME", "ITERS"}, benchtime : Nat \ {0}, min_warmup_time : Nat,
     repetitions : Nat \ {0}, dry_run : BOOLEAN,
     perf_counters : {"none", "set up", "failed"}]

VARIABLES
  b, flags,        \* the instance and the flags of this run, fixed
  pc,
  min_warmup_time, warmup_done, iters,
  i_backup,        \* RunWarmUp's copy of iters
  i,               \* IterationResults of the last round
  num_repetitions_done,
  non_aggregates   \* the reports so far

fixed == <<b, flags, min_warmup_time>>
vars == <<b, flags, pc, min_warmup_time, warmup_done, iters, i_backup, i,
          num_repetitions_done, non_aggregates>>

NoRound == [iters |-> 0, seconds |-> 0, real_time_used |-> 0, skipped |-> FALSE]

-----------------------------------------------------------------------------
(* The constructor.                                                        *)

min_time ==
  IF flags.dry_run THEN 0
  ELSE IF b.min_time # 0 THEN b.min_time
  ELSE IF flags.tag = "ITERS" THEN kDefaultMinTime
  ELSE flags.benchtime

WarmupTime(inst, fl) ==
  IF fl.dry_run THEN 0
  ELSE IF inst.min_time # 0 /\ inst.min_warmup_time > 0 THEN inst.min_warmup_time
  ELSE fl.min_warmup_time

repeats ==
  IF flags.dry_run THEN 1
  ELSE IF b.repetitions # 0 THEN b.repetitions ELSE flags.repetitions

has_explicit_iteration_count == b.iterations # 0 \/ flags.tag = "ITERS"

InitialIters(inst, fl) ==
  IF fl.dry_run THEN 1
  ELSE IF inst.iterations # 0 THEN inst.iterations
  ELSE IF fl.tag = "ITERS" THEN fl.benchtime ELSE 1

\* The BM_CHECK at the end of the constructor, as it is written.
PerfCheck(inst, fl) ==
  inst.aggregation_mode => fl.perf_counters = "none" \/ fl.perf_counters = "failed"

Init ==
  /\ b \in Instances
  /\ flags \in FlagSettings
  /\ pc = IF PerfCheck(b, flags) THEN "idle" ELSE "aborted"
  /\ min_warmup_time = WarmupTime(b, flags)
  /\ warmup_done = (min_warmup_time = 0)
  /\ iters = InitialIters(b, flags)
  /\ i_backup = 0
  /\ i = NoRound
  /\ num_repetitions_done = 0
  /\ non_aggregates = <<>>

-----------------------------------------------------------------------------
(* One round.                                                              *)

\* What DoNIterations(n) may come back with: iters is an average over the threads.
\* A run that was not skipped has done at least n; in one that was, some threads may
\* not have begun. What a skipped run measured is never looked at.
Rounds(n) ==
  [iters : 0 .. n, seconds : {0}, real_time_used : {0}, skipped : {TRUE}] \cup
  {r \in [iters : {n + o : o \in Overshoots}, seconds : Times,
          real_time_used : Times, skipped : {FALSE}] :
     b.clock = "real" => r.real_time_used = r.seconds}

\* Bug variant: the two minima are mixed up.
GetMinTimeToApplySwapped == IF warmup_done THEN min_warmup_time ELSE min_time

GetMinTimeToApply == IF warmup_done THEN min_time ELSE min_warmup_time

ShouldReport(r) ==
  \/ r.skipped
  \/ flags.dry_run
  \/ r.iters >= kMaxIterations
  \/ r.seconds >= GetMinTimeToApply
  \/ r.real_time_used >= 5 * GetMinTimeToApply /\ b.clock # "manual"

\* llround(multiplier * iters): 10 times, or 1.4 * min / seconds times if the
\* round took more than a tenth of the minimum.
Extrapolated(r) ==
  IF 10 * r.seconds > GetMinTimeToApply
  THEN (28 * GetMinTimeToApply * r.iters + 10 * r.seconds) \div (20 * r.seconds)
  ELSE 10 * r.iters

\* Bug variant: nothing forces the count up when the extrapolation rounds down.
PredictWithoutFloor(r) ==
  IF Extrapolated(r) > kMaxIterations THEN kMaxIterations ELSE Extrapolated(r)

PredictNumItersNeeded(r) ==
  LET next == IF Extrapolated(r) > r.iters + 1 THEN Extrapolated(r) ELSE r.iters + 1
  IN  IF next > kMaxIterations THEN kMaxIterations ELSE next

-----------------------------------------------------------------------------
(* DoOneRepetition.                                                        *)

HasRepeatsRemaining == repeats # num_repetitions_done

BeginRepetition ==
  /\ pc = "idle"
  /\ HasRepeatsRemaining
  /\ pc' = IF warmup_done THEN "measure" ELSE "warmup"
  /\ i_backup' = iters
  /\ UNCHANGED <<fixed, warmup_done, iters, i, num_repetitions_done,
                 non_aggregates>>

\* Bug variant: the count found in the warm-up is kept for the measurement.
FinishWarmUpKeepingIters ==
  /\ warmup_done' = TRUE
  /\ iters' = iters

FinishWarmUp ==
  /\ warmup_done' = TRUE
  /\ iters' = i_backup

\* One turn of RunWarmUp's loop.
WarmUpRound ==
  /\ pc = "warmup"
  /\ \E r \in Rounds(iters) :
       /\ i' = r
       /\ IF ShouldReport(r)
          THEN FinishWarmUp /\ pc' = "measure"
          ELSE /\ iters' = PredictNumItersNeeded(r)
               /\ UNCHANGED <<pc, warmup_done>>
  /\ UNCHANGED <<fixed, i_backup, num_repetitions_done, non_aggregates>>

\* Bug variant: later repetitions search again.
SignificantEveryTime(r) == has_explicit_iteration_count \/ ShouldReport(r)

Significant(r) ==
  \/ num_repetitions_done # 0
  \/ has_explicit_iteration_count
  \/ ShouldReport(r)

\* One turn of DoOneRepetition's loop.
MeasuredRound ==
  /\ pc = "measure"
  /\ \E r \in Rounds(iters) :
       /\ i' = r
       /\ IF Significant(r)
          THEN pc' = "memory" /\ UNCHANGED iters
          ELSE iters' = PredictNumItersNeeded(r) /\ UNCHANGED pc
  /\ UNCHANGED <<fixed, warmup_done, i_backup, num_repetitions_done, non_aggregates>>

\* A pass of its own on one thread, where a manager is registered; what its round
\* measures is thrown away.
RunMemoryManager ==
  /\ pc = "memory"
  /\ pc' = "profiler"
  /\ UNCHANGED <<fixed, warmup_done, iters, i_backup, i, num_repetitions_done,
                 non_aggregates>>

RunProfilerManager ==
  /\ pc = "profiler"
  /\ pc' = "report"
  /\ UNCHANGED <<fixed, warmup_done, iters, i_backup, i, num_repetitions_done,
                 non_aggregates>>

\* What the search is for: a round that took the benchmark's own minimum (not the
\* warm-up's), or could not run longer.
LongEnough(r) ==
  \/ r.seconds >= min_time
  \/ r.iters >= kMaxIterations
  \/ r.real_time_used >= 5 * min_time /\ b.clock # "manual"

\* Bug variant: the memory pass runs as many iterations as the measurement.
CreateRunReportAllIterations ==
  [ iterations |-> i.iters, skipped |-> i.skipped, requested |-> iters,
    long_enough |-> LongEnough(i), has_statistics |-> ~i.skipped,
    memory_iterations |-> IF ~memory_manager \/ i.skipped THEN 0 ELSE iters ]

\* CreateRunReport: a skipped run's report has no statistics and no memory result. Of
\* the times it is kept whether they were long enough, and with them what count the
\* runner had asked for.
CreateRunReport ==
  [ iterations |-> i.iters, skipped |-> i.skipped, requested |-> iters,
    long_enough |-> LongEnough(i), has_statistics |-> ~i.skipped,
    memory_iterations |->
      IF ~memory_manager \/ i.skipped THEN 0 ELSE IF iters < 16 THEN iters ELSE 16 ]

Report ==
  /\ pc = "report"
  /\ non_aggregates' = Append(non_aggregates, CreateRunReport)
  /\ num_repetitions_done' = num_repetitions_done + 1
  /\ pc' = "idle"
  /\ i' = NoRound
  /\ UNCHANGED <<fixed, warmup_done, iters, i_backup>>

GetResults ==
  /\ pc = "idle"
  /\ ~HasRepeatsRemaining
  /\ pc' = "done"
  /\ UNCHANGED <<fixed, warmup_done, iters, i_backup, i, num_repetitions_done,
                 non_aggregates>>

Stopped == pc \in {"done", "aborted"} /\ UNCHANGED vars

Next ==
  \/ BeginRepetition
  \/ WarmUpRound
  \/ MeasuredRound
  \/ RunMemoryManager
  \/ RunProfilerManager
  \/ Report
  \/ GetResults
  \/ Stopped

Spec == Init /\ [][Next]_vars

\* The runner is one thread that goes on; rounds come to an end (ThreadRun).
FairSpec == Spec /\ WF_vars(Next)

-----------------------------------------------------------------------------
RoundType ==
  [iters : Nat, seconds : Nat, real_time_used : Nat, skipped : BOOLEAN]

ReportType ==
  [iterations : Nat, skipped : BOOLEAN, requested : Nat, long_enough : BOOLEAN,
   has_statistics : BOOLEAN, memory_iterations : 0 .. 16]

\* Type invariant.
TypeOK ==
  /\ b \in Instances
  /\ flags \in FlagSettings
  /\ pc \in {"idle", "warmup", "measure", "memory", "profiler", "report", "done",
             "aborted"}
  /\ min_warmup_time \in Nat
  /\ warmup_done \in BOOLEAN
  /\ iters \in Nat \ {0}
  /\ i_backup \in Nat
  /\ i \in RoundType
  /\ num_repetitions_done \in Nat
  /\ non_aggregates \in Seq(ReportType)

Searching == pc \in {"warmup", "measure"}

\* The assertions of RunWarmUp and DoOneRepetition: a round that is not accepted is
\* followed by one with more iterations, and never with more than the limit.
IterationsGrow ==
  [][Searching /\ pc' = pc =>
       iters' > i'.iters /\ iters' <= kMaxIterations]_vars

\* "After running the warmup phase the BenchmarkRunner should be in a state as this
\* warmup never happened": the first measured round gets the constructor's count.
WarmUpRestores ==
  [][warmup_done' # warmup_done => iters' = InitialIters(b, flags)]_vars

\* Only the first repetition looks for an iteration count: the reports of all
\* repetitions were asked for the same one.
SameRequest ==
  \A k \in 1 .. Len(non_aggregates) :
    non_aggregates[k].requested = non_aggregates[1].requested

Kept == {k \in 1 .. Len(non_aggregates) : ~non_aggregates[k].skipped}

\* Whatever repetition a report that was not skipped is of, the count it was asked for
\* is one with which the first repetition ran long enough, or could not run longer. The
\* exception is the code's: a first repetition that is skipped ends the search with the
\* count it had come to, and the later ones are reported with that, however short they
\* are (against the comment in DoOneRepetition: "it has calculated the correct
\* iteration time").
CountFound ==
  ~has_explicit_iteration_count /\ ~flags.dry_run =>
    \A k \in Kept :
      \/ non_aggregates[1].skipped
      \/ /\ non_aggregates[1].long_enough
         /\ non_aggregates[k].requested = non_aggregates[1].requested
         /\ non_aggregates[1].requested <= non_aggregates[1].iterations

\* Every repetition comes to an end, however the measured times jump about.
RunnerTerminates == <>(pc \in {"done", "aborted"})

-----------------------------------------------------------------------------
(* What comments and documentation say.                                    *)

\* ComputeStats aggregates as soon as two repetitions were not skipped.
Aggregates == pc = "done" /\ \E j, k \in Kept : j # k

\* ComputeStats takes the statistics to compute from the first report.
FirstReportHasStatistics == Aggregates => non_aggregates[1].has_statistics
=============================================================================
