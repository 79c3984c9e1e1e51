# A verification project for Microbrencmark

The repository is Google Benchmark (C++ library, `src/src`, `src/include`) with a
program of its own on top, `benchmark_monitor_C`, which runs microbenchmarks and
records energy next to time. This directory holds TLA+ models of the parts whose
correctness depends on order, concurrency, failure or long sequences of calls,
the TLC runs that check them on small instances, and TLAPS proofs of what holds
for every instance. Paths below are relative to the repository; line numbers are in
`PROJECT.json` ("map").

Contents: [1 Inventory](#1-inventory) - [2 Modules](#2-modules-and-the-code) -
[3 Runs](#3-runs-what-is-checked) - [4 Findings](#4-what-the-violation-runs-show) -
[5 Proofs](#5-proofs) - [6 Limits](#6-what-is-left-out-and-why) - [7 Plan](#7-plan)

## 1 Inventory

How a program runs: `main` calls `Initialize` (flags) and `RunSpecifiedBenchmarks`,
which asks the registry for the instances that match the filter and calls
`RunBenchmarks`. That makes one `BenchmarkRunner` per instance and runs their
repetitions, in order or shuffled. A repetition is one or more calls of
`DoNIterations`, each of which starts the benchmark's threads; each thread calls the
user's function with a `State`, meets the others at a `Barrier`, and merges its
results into the `ThreadManager`. Reports go to a display reporter and perhaps a
file reporter.

| Component | State | Operations | Interacts by | What is hard, what makes it correct |
|---|---|---|---|---|
| **Barrier** `src/mutex.h` | `running_threads_`, `phase_number_`, `entered_`, `phase_number_cp` on each stack | `wait`, `removeThread` | lock and condition variable | interleaving, spurious wakeups, reuse, removal of the thread everyone waits for; nobody passes early, nobody sleeps for ever |
| **Thread run** `benchmark.cc` (`State`), `benchmark_runner.cc` (`RunInThread`, `ThreadRunnerDefault`), `thread_manager.h`, `thread_timer.h` | a `State` and a `ThreadTimer` per thread, `ThreadManager::results` | the loop, `PauseTiming`, `SkipWithError`, `SetIterationTime`, start and stop, merge, join | the barrier, the benchmark mutex, joins | threads that skip or leave early at any point; threads start and stop together, a result that looks complete is complete, the run ends |
| **BenchmarkRunner** `benchmark_runner.cc` | `iters`, `warmup_done`, repetitions done, reports | constructor, `RunWarmUp`, `DoOneRepetition`, memory and profiler passes, `GetResults` | calls `DoNIterations`, `CreateRunReport` | the search for an iteration count with arbitrary measured times, state left over by the warm-up, repetitions that are skipped |
| **RunBenchmarks** `benchmark.cc` | `repetition_indices`, `per_family_reports`, the runners | the repetition loop, `Report` | runners, reporters, pointers into the family map | shuffled repetitions, family reports that complete with whichever instance is last and are erased while runners point at them, skipped runs |
| **JSON reporter** `json_reporter.cc` | `first_report_`, the stream | `ReportContext`, `ReportRuns`, `Finalize` | called by `RunBenchmarks` | commas and brackets over a sequence of calls, several suites |
| **System monitor** `benchmark_monitor_C/*.cpp` | `g_energy_start`, `header_written_`, the results file | reading the energy counter, `ReportRuns`, `writeResult` | called from benchmark functions and as a reporter; the file outlives the process | a global that belongs to the call made last, a counter that starts again, sessions that are killed |
| **Console and CSV reporters** `console_reporter.cc`, `csv_reporter.cc` | `printed_header_`, `prev_counters_`, `user_counter_names_` | `ReportContext`, `ReportRuns` | called by `RunBenchmarks` | the header is fixed by an earlier run or call, later runs may have other counters; every number stands under its name, times have the right scale |
| **Statistics, complexity, counters** `statistics.cc`, `complexity.cc`, `counter.cc` | none | `ComputeStats`, `ComputeBigO`, `Finish`, `Increment` | called by the runner, `RunBenchmarks` and the merge | which runs are counted, rescaling between iterations and repetitions, a median of a partly sorted list, one curve for two times |
| **Registration** `benchmark_register.*`, `benchmark_api_internal.cc` | the families and their argument lists | `Args`, `Ranges`, `ArgsProduct`, `ThreadRange`, `FindBenchmarks` | called before `main` and by `RunSpecifiedBenchmarks` | powers near the limits of an integer type, negative ranges, calls that exclude each other, family indices under a filter |
| **Performance counters** `perf_counters.*` | descriptors and group leaders, two snapshots | `Create`, `Start`, `Stop`, closing | system calls; `PauseTiming` and `ResumeTiming` | failing and interrupted system calls, full groups, descriptors that leak, offsets of several groups in one buffer |
| **Flags, initialisation, entry points** `commandlineflags.cc`, `benchmark.cc` | flag variables, `global_context`, the default reporter | `Initialize`, `AddCustomContext`, `RunSpecifiedBenchmarks`, `Shutdown` | environment, `argv`, reporters, the output file | an array shortened while it is walked, several sources of one map, a static object with two owners |
| Strings, platform layer `string_util.cc`, `sysinfo.cc`, `timers.cc` | CPU information, clocks, log | queries of the system, formatting | everywhere | input and output |
| Comparison tools, Python bindings, GPU benchmarks, analysis script | - | offline | files | not part of the running library |

## 2 Modules and the code

| Module | Models | EXTENDS / INSTANCE |
|---|---|---|
| `AbstractBarrier` | what the barrier promises: rounds of sets of threads | |
| `Barrier` | `class Barrier` | instantiates `AbstractBarrier` (`RefinesRounds`, `RoundsComplete`) |
| `BarrierProofs` | theorems about `Barrier` | extends `Barrier` |
| `ThreadRun` | one call of `DoNIterations` with its threads | instantiates `Barrier` |
| `ThreadRunProofs` | theorems about `ThreadRun`, alone and together with its barrier | extends it, instantiates `BarrierProofs` |
| `BenchmarkRunner` | all repetitions of one instance | |
| `RunnerProofs` | theorems about `BenchmarkRunner` | extends it |
| `JsonReporter` | `class JSONReporter` as operators on a reporter's state | |
| `RunBenchmarks` | the repetitions and reports of all instances | instantiates `JsonReporter` |
| `RunBenchmarksProofs` | theorems about `RunBenchmarks` | extends it |
| `Monitor` | the energy readings, the monitor's reporter and its file | |
| `MonitorProofs` | theorems about `Monitor` | extends it |
| `Arguments` | ranges, dense ranges and products of argument lists, in integers of `Width` bits | |
| `Registration` | the families, the calls that configure them, `FindBenchmarks` | extends `Arguments` |
| `PerfCounters` | `PerfCounters` and `PerfCountersMeasurement` with libpfm | |
| `PerfCountersProofs` | theorems about `PerfCounters` | extends it |
| `Statistics` | `counter.cc`, the four statistics, least squares; operators on rational numbers | |
| `Reporting` | from the results of repetitions to the rows of a console, CSV or JSON reporter | extends `Statistics` |
| `ReportingProofs` | theorems about `Reporting` | extends it |
| `Session` | flags, command line, custom context, reporters and files of a program | |
| `SessionProofs` | theorems about `Session` | extends it |
| `MC*` | values for the constants | extend the module they are named after |

The levels are composed by what a lower one promises: `ThreadRun` ends with a merged
result that is complete or marked as skipped (`CompleteUnlessSkipped`,
`RunTerminates`), which is what a round of `BenchmarkRunner` may come back with
(`Rounds`); a runner ends (`RunnerTerminates`) with one report per repetition,
skipped or not, which is a step of `RunBenchmarks`; calls and repetitions of
`Monitor` come in the orders those two modules allow. `Registration` is where the
instances of `RunBenchmarks` come from (`InstancesFound`: the family indices under
which the map of reports is kept are dense and never shared), `Reporting` is what its
calls of `Report` write, and `Session` is the program around it.

**Barrier.** A critical section of `lock_` is one action. It ends at the condition
wait or, in `wait`, before `notify_all`, which is called after the lock was given
up and therefore is a step of its own (`NotifyAndReturn`). `at[t]` is the thread's
place. `EnterAndWait`/`EnterAsLast` are the two ways through the first half of
`createBarrier`; `TakeOver` is a waiter that finds `entered_ == running_threads_`
after a removal; `ReturnReleased` is one whose phase has passed; `SleepAgain` one
that was woken for nothing; `RemoveThread` is `removeThread`, which notifies with
the lock held.

**ThreadRun.** `pc` and `loop` place a thread in `RunInThread` and in the user's
function, `st[t]` is its `State` together with its timer and its loop iterator. The
user's function is the environment: it pauses, resumes, skips, sets a manual time
and returns whenever the header allows it, and, with `MayBreak`, also where the
header forbids it. `StartKeepRunning` and `FinishedState` run up to the barrier,
`PassStart` and `PassStop` from it. `DidNotRun`, `Merge` and
`NotifyThreadComplete` are the tail of `RunInThread`.

**BenchmarkRunner.** A step is a round: `Setup`, `DoNIterations`, `Teardown` and the
decision that follows. Times are whole ticks. The two `seconds` that matter,
`i.seconds` (the clock the benchmark chose) and `real_time_used`, are free, equal
only if real time was chosen. `Extrapolated` is the rounded product of
`PredictNumItersNeeded` in integers. A report keeps, for the properties, whether its
round was long enough (`long_enough`) and whether it has statistics.

**RunBenchmarks.** A step is a repetition, a report or a call of `RunBenchmarks`'
own. Shuffling is the free choice of the next instance. `per_family_reports[f].live`
is whether the map still has the family. Each reporter may refuse in `ReportContext`
(`refused`), and both are finalized all the same. `NextSuite` is another call of
`RunSpecifiedBenchmarks` with the same reporters. An instance has at least one
repetition (hazard on `benchmark.cc`:470). The two places where the code reads
through a null pointer (`CrashInStatistics`, `CrashInErase`) stop the model.

**JsonReporter.** `written` is how far the document of this suite has come;
`reported_before` is history: the reporter had reported runs in an earlier suite.

**Monitor.** `energy` is what was spent, the counter is `energy % CounterRange`. Each
reading may fail on its own and is 0 then (`readRAPLEnergy`). `flags` are what
`Initialize` finds on the session's command line: the repetitions and whether only
aggregates are to be reported (`Reports`). `results` is the file, which may fail to
open; each write may fail on its own, and the code does not look. A line is one flush,
hence one step, and a session may end before any of them. The last row's energy is in
`measured`, with what was spent since its instance was called last (`spent`), how often
the counter started again meanwhile (`restarts`) and whether a reading failed. History
for the properties are `last_call`, `start_failed`, `lost` (lines of an instance that
could not be written) and `headerless` (the file was left, or is written, without names
of the columns).

**Registration.** Each method of `Benchmark` is an action that fails a `BM_CHECK`
(`aborted`) or changes the family. `Arguments` enumerates as the code does; what the
calls promise is stated apart (`RangeReference`, `ProductReference`, `Ascending`) and
kept per family as history (`asked`, `asked_threads`). A name is the sequence of its
components, a regular expression a set of components that it finds.

**PerfCounters.** `Create` is a loop over names (`NextName`), attempts (`Open`: opened,
interrupted, refused) and leaders (`Enable`), whose locals are in `new`; `counters_` is
the live object, `fds` the kernel's table. A snapshot is one action per group, so that
events happen in between. The kernel's part (the number of a new descriptor, what an
enabled group counts) is modelled from what the code relies on.

**Statistics and Reporting.** A double is a pair of integers; standard deviation,
coefficient of variation and RMS are kept as squares (`power` 2). `NthElement` is every
order `std::nth_element` may leave. A reporter's lines are headers with names and rows
with times and cells; a row keeps its run and an aggregate the runs it is `about`, for
the properties only. One family and one reporter: what several do to each other is
`RunBenchmarks`.

**Session.** Texts stand for themselves, and sets and functions say what the
conversions make of them. `ParseArgument` is a round of the loop in
`ParseCommandLineFlags`, with the removal from `argv`; the rest of it is
`FinishFlags`. `RunSpecifiedBenchmarks` is one action: what happens in it is
`RunBenchmarks`. What is asked of the custom context is numbered by its sources in the
order of their precedence (`Asked`): the program before `Initialize`, the dry run, the
environment, the arguments, the program afterwards.

Definitions that begin with "Bug variant" in their comment are not part of the
models: each is a plausible bug, put in the place of the definition it follows to
see that the properties notice it (`PROJECT.json`, "mutants").

## 3 Runs: what is checked

| Run | Bounds | Shows |
|---|---|---|
| `Barrier` | 4 threads, 4 phases | `CountersExact`, `NoLostWakeup`, the implementation of `AbstractBarrier` (`RefinesRounds`), and that every wait returns and every complete round is let go |
| `ThreadRun` | 3 threads, 2 iterations, three kinds of loop (a batch of 3 leaves a leftover), manual time in one thread, skips with a message by the benchmark and with an error by `RunInThread` | `MeetTogether`, `TimerStoppedAtMerge`, `SkipReported`, `CompleteUnlessSkipped`, `RunTerminates` |
| `Runner` | 4 registrations, 4 command lines, 5 times per round, a limit of 20 iterations | the search grows and ends with a count that was found, the warm-up leaves no trace, repetitions share a request (`CountFound`, `IterationsGrow`, `WarmUpRestores`, `SameRequest`, `RunnerTerminates`) |
| `RunBenchmarks` | 4 instances in 3 families, up to 3 repetitions, 2 suites, both orders, reporters that refuse | each instance reported once and complete, families complete and not used after erasure, what the JSON document of each suite is (`ReportedOnce`, `BigOOnce`, `NoDanglingFamily`, `JsonWellFormed`) |
| `Monitor` | 2 instances with 1 or 2 repetitions, with and without aggregates only, 2 sessions (`MaxSessions`), energy up to 3 (`MaxEnergy`) with a counter of 2, any reading or write failing | `HeaderFirst`, `EnergySinceLastCall`, `EveryRunOnce` |
| `Registration` | integers from -16 to 15 (`Width` 4), any 4 calls (`MaxCalls`), multipliers 3, 2 and 4, ends of ranges at both limits of the type | `ArgsAsAsked`, `InstancesFound` |
| `PerfCounters` | up to 5 names, 3 of them at most opened (`kMaxCounters`), 2 attempts, 2 timed sections (`MaxSections`), 3 events (`MaxEvents`), any number of measurements one after the other | `DescriptorsOwned`, `MeasuredEvents` |
| `Reporting` | 9 results with up to 4 repetitions and 2 threads, 2 reports (`MaxReports`) in 2 suites (`MaxSuites`), 4 kinds of reporter, 3 complexities, 2 units | `RowsUnderHeaders`, `AggregatesExact`, `BigOFits` |
| `Session` | 14 arguments, up to 3 on a line, 3 environments, 2 suites (`MaxSuites`), a pair added by the program (`MaxAdded`) | `ArgsParsed`, `ContextKept` |

Why these bounds are enough to be interesting: three threads are needed for two that
wait while a third is removed, four let one of the released ones be late as well;
four phases let a late waiter see a phase after next, had the barrier allowed it.
Two iterations are the least for a loop to go round; a batch larger than what is
left is among them. A limit of 20 lets the search stop at the limit, by time and by
the 5-fold real time, and grow by the factor 10, by the extrapolation and by the
floor of one; the times lie on both sides of each threshold. Three repetitions are
the least for a statistic over two with a third one skipped. Five bits are enough for a
range to stop at the limit of the type with each multiplier, for its other end to be a
power or not, and for a range that is all negative or goes through 0; four calls for a
family with names, arguments and threads that is then looked for. Three descriptors make
one, two or three groups of any sizes that add up to that. Two reports are the least for
a header that is older than its row and for a fit; lengths 1, 2 and 4 tell all curves
apart but where the model says they tie. Three arguments are the least for one that
moves up between two others. The bounds in the
models are named constants: `MaxPhase` (no thread enters the barrier after it; in
`ThreadRun` a thread passes two phases, and 3 is never reached), `MaxEnergy`,
`MaxSessions`, `Suites`. The two benchmarks of `Monitor` are symmetric: nothing orders
them, and no temporal property is checked there.

`Barrier`, `Monitor`, `Registration`, `PerfCounters`, `Reporting` and `Session` are
checked without deadlock detection: threads may all have been removed or have used up
the phases, a user need not start another session, make another call or report, and a
failed check or an `exit` ends the program.
Everywhere else a state without a successor is an error, and the final states have a
stuttering action of their own.

Fairness. `Barrier` and `ThreadRun` assume weak fairness for each thread's own steps:
the operating system schedules every runnable thread, and a mutex is given to a
thread that asks for it. A thread that can call the barrier does, or is removed:
`RunInThread` calls `NotifyThreadComplete` on every path. Spurious wakeups, skips
and early returns are never forced. `NextIteration` has strong fairness, because a
benchmark that pauses and resumes for ever would otherwise keep it from being
continuously enabled; that it pauses finitely often is an assumption about the
benchmark. `BenchmarkRunner` is one thread and has weak fairness of its next step;
that a round ends is `RunTerminates`.

## 4 What the violation runs show

Each checks one statement of the documentation or of a comment, which the code does
not keep. The quotes are in `PROJECT.json`, "findings".

| Run | Statement | What happens |
|---|---|---|
| `Runner_statistics` | statistics can be taken from the first report | the first repetition was skipped and has a null pointer there |
| `Session_prevail` | command-line switches always prevail over the environment | the pairs of `--benchmark_context` are added to those of `BENCHMARK_CONTEXT` with `emplace`, which keeps the value that is there |
| `Session_twice` | the library uses the default display reporter when none is provided | the first suite deletes it, the second one uses it |

Also seen while modelling, each a step of a model but without a run of its own.

* Thread runs: manual times of several threads are added up, although the header
  (`benchmark.h`:880-881) promises the largest; the profiler manager is not stopped when
  a benchmark skips in its loop and returns (`benchmark.h`:477-478); a thread that skips
  leaves its loop at once, while the user guide (874) says that all threads finish
  before any exits.
* Runner: `MinWarmUpTime` without `MinTime` is ignored although the guide (261) says it
  overrides the flag (`WarmupTime`); Setup runs once per round, not once per benchmark
  (guide, 283); the check at the end of the constructor fails exactly when performance
  counters could be set up (`PerfCheck`; only in builds with checks); a first repetition
  that was skipped fixes the iteration count for the later ones, long enough or not
  (`Significant`; the exception in `CountFound`).
* Reports: if every run of a family with complexity was skipped, `Runs.front()` of an
  empty vector is read (`CrashInErase`); a `JSONReporter` that serves a second suite
  begins its list with a comma, and `Finalize` is called on a file reporter that was
  never opened because the display reporter refused (both are the exceptions that
  `JsonWellFormed` names); a skipped repetition reports other iterations than the rest,
  which stops a build with checks (`StatsAbort`).
* The monitor: a session that ends before its first result leaves an empty file, which
  the next one takes to have its header (`HeaderKnown`, `headerless`); a reading that
  fails is taken for 0 (`readRAPLEnergy`), and the difference with one that did not is
  the whole counter or near 2^64; a restart of the counter during a call gives a
  difference near 2^64 too (`restarts`); repetitions of one instance all carry the energy
  since the last of them began. Times are divided by 10^9 as if they were in nanoseconds
  although a benchmark may have another unit (`benchmark_monitor.cpp`:237; not in the
  model).
* Registration: all checks are `BM_CHECK`s, so that a release build goes on with what
  they refuse; `FindBenchmarks` gives a family without arguments an empty list for good,
  after which `Arg` fails its check (`Prepared`); `ArgNames` without arguments yields no
  instance at all; `ArgsProduct` of no lists indexes an empty vector, and `DenseRange`
  with a step of 0 does not end (neither is an input of the model).
* Performance counters: a counter that is opened as the leader of a second group keeps
  the attributes of a member (`Descriptor`); a name given twice is counted twice in one
  user counter; a list longer than 32 stops a build with checks although `Create` is
  ready to cut it (`Construct`).
* CSV: a counter that turns up after the header stops a build with checks and is left
  out silently otherwise (`CsvReportRuns`). The RMS is stored divided by the multiplier of
  the time unit, so that multiplying it later gives the right value
  (`complexity.cc`:233-235), but the CSV does not multiply it (`csv_reporter.cc`:132).
* Flags: a `--benchmark_context` whose second pair is broken stays in `argv` although the first
  was taken (`PairsBeforeError`); `--benchmark_repetitions=` is taken as 0; a file
  reporter without `--benchmark_out` ends the program, while `benchmark.h`:391-393 says
  it is ignored; the output file is emptied before the filter is looked at.

## 5 Proofs

For every finite set of threads and every bound on the phases (`BarrierProofs`):

* `TypeCorrect`, `CountersCorrect`, `PhaseLagCorrect`, `EntryCheckCorrect`,
  `NoLostWakeupCorrect`, and `BarrierRefinesRounds`: `Barrier` implements
  `AbstractBarrier!Spec` under the mapping `Entered`, `Released`, `LastThreads`,
  `Gone`.
* The inductive invariant `BInv` adds two facts to the types: the counters are the
  cardinalities of `Entered` and `NotGone` (`CountersExact`), and a waiter is at most
  one phase behind (`PhaseLag`) - without which a phase that ends could not be told
  from the one after it - with `OneNotifier`: one last thread at a time. As `Entered`
  is a subset of `NotGone`, equal counters mean equal sets (`AllInside`): the code's
  comparison of two numbers is the abstract "everybody is inside". `NoLostWakeup` is
  inductive relative to `BInv`.
* Assumed: `ThreadsAssumption` (a finite non-empty set), `MaxPhaseAssumption`.

For every set of registrations, command lines, times, limits (`RunnerProofs`):

* `RunnerTypeCorrect`, `SameRequestCorrect`, `CountFoundCorrect`,
  `IterationsGrowCorrect` and `WarmUpRestoresCorrect`.
* `RunnerInv` is the type invariant with `WarmUpPending` (until the warm-up is over
  the constructor's count is in `iters` or in `i_backup`), `OneRequest` (all reports
  were asked for what `iters` still is), `Accepted` (the first repetition leaves
  its loop only with a round that `ShouldReport` took), `Done` (a round that was not
  skipped did what it was asked for) and `FirstLongEnough` (so did the first report, and
  long enough). None of the properties is inductive without them: `SameRequest` and
  `CountFound` need to know that `iters` does not move after the first report,
  `WarmUpRestores` where the backup came from. The arithmetic
  is in three lemmas (`QuotientType`, `ExtrapolatedType`, `PredictionGrows`).
* Assumed: `RunnerConstants`, `InstancesAssumption`, `FlagsAssumption`, which say no
  more than the types of the C++ fields and that the limit is positive.

For every number of threads, whatever the barrier does (`ThreadRunProofs`):

* `TimerStoppedCorrect` and `SkipReportedCorrect`. `ThreadInv` keeps the shape of what
  the two read, and adds `NotTimed` per thread (the timer is stopped from the skip, or
  from the wait that ends the loop, on) and `OneSkip`, which holds in every state and
  not only when all threads are done: the shared results carry the kind and the
  message of one thread, and are unmarked exactly while nobody has skipped.
* Assumed: `NumThreadsAssumption`, `SkipKindsAssumption`.

For every number of threads, in the barrier that `Barrier` models (the second part of
`ThreadRunProofs`):

* `MeetTogetherCorrect`, and `RunKeepsRounds`: every step of a run is a step of the
  barrier or leaves it alone, so that `BarrierRefinesRounds` holds of the barrier inside
  the run, whatever the benchmark function does.
* `MeetingInv` is `ThreadInv`, the barrier's `BInv`, and `Meetings`, which reads the
  meeting off the phase number: in phase 0 nobody is past the start, in phase 1 all who
  are left have started and nobody is past the end, in phase 2 all who are left have
  finished, and there is no phase 3. The step that ends a phase is where the counting
  argument is needed: by `AllInside` of `BarrierProofs`, cited from there, all who are
  left are waiters of the open phase, and by `Meetings` they wait for one meeting. With
  no phase 3, the bound `MaxPhase` that `ThreadRun` gives to the barrier is never met.
* `ThreadRunTypeCorrect` and `CompleteCorrect` (`CompleteUnlessSkipped`): if nobody
  skipped, the joined result has at least `Iters` iterations per thread and no more
  than one incomplete batch each besides.
* `CountInv` is `MeetingInv` and the types with what makes the sum right: `Counts` says of
  each `State` that a leftover is less than a batch and that nothing follows it, and
  `AddsUp` bounds the merged result from both sides by the number of the threads that
  have merged, so that no sum over them is needed. The property speaks of a run that is
  joined and is not inductive: it needs `AddsUp` for the threads merged so far.
* Assumed: the same, and `ItersAssumption`, `LoopsAssumption`,
  `ManualTimersAssumption`, `SwitchAssumption`; that `0 .. NumThreads - 1` is finite and
  not empty, which `BarrierProofs` assumes of the threads, is proved (`ThreadsFinite`).

For every set of instances in families, number of repetitions, order and settings of
the reporters (`RunBenchmarksProofs`):

* `ReportedOnceCorrect` and `JsonCorrect`. `ReportInv` adds `ToldByReport` - before
  the report of an instance no reporter has heard of it, by it everybody in use has,
  of repetitions, aggregates or both - and `JsonInv`, which gives in every suite the
  state of each JSON document: it follows from whether the document was opened
  (`Opened`), whether there were runs (`ToldAny`), and whether the reporter had reported
  runs before. `ReportedOnce` alone is not inductive: it leaves open what was told of an
  instance before the suite is at its end. Nor is `JsonWellFormed`: it says nothing of
  `first_report_`, on which the next comma depends, and which in a suite is the negation
  of `reported_before` until the first run is told.
* `RunBenchmarksTypeCorrect`, `NoDanglingCorrect` and `BigOOnceCorrect`. `FamilyInv`
  adds that `num_runs_done` is the number of pairs of an instance of the family and one
  of its repetitions that is over (`DoneUnits`), that the map still has the family until
  all of them are, and that the complexity is computed with the last. The code compares
  two numbers; that equal numbers mean that nothing is to come is `DoneOrNot`, and that
  the sum it compares with counts those pairs is the lemma `TotalCounts`.
* Assumed: `BenchmarksAssumption`.

For every sequence of opens, enables, reads and moves that succeed or fail
(`PerfCountersProofs`):

* `DescriptorsCorrect`. `OwnedInv` adds the types and `OneOwner`: while `Create` works
  no live object holds counters, and after it the object under construction holds
  none, so that nothing is closed that another object uses. That the kernel gives out
  only free numbers is the lemma `NextDescriptorIsFree`.
* `PerfCountersTypeCorrect` and `MeasuredEventsCorrect`. `MeasuredInv` ties the live
  object to the kernel's table: `Grouped` (the leaders split the counters into groups
  that follow each other and are those of the kernel), `Named` (a counter counts the
  event whose name is at its place), `Creating` (the same while `Create` is under way),
  `ReadPlace` (a snapshot under way has read whole groups, up to `offset`) and `Measured`,
  which bounds each counter's value together with what its descriptor has counted since
  the last start. The place of a value in the buffer of several groups is right only
  because groups are contiguous: that is what `Grouped` is for. So that it can be stated,
  a descriptor of the model knows its group (`group`, kept by `Joined`), as the kernel's
  does.
* Assumed: `PerfCountersAssumption`.

For every set of benchmarks, command lines, range of the counter and number of sessions,
each killed anywhere, with readings and writes that fail (`MonitorProofs`):

* `MonitorTypeCorrect`, `HeaderFirstCorrect` and `EnergyCorrect`. `MonitorInv` adds
  `HeaderPlace` (a session that has the file open and has not come to the header found no
  file, and a file without lines is one whose header is still to come or never will) and
  `ReadingOfCurrent` (from a benchmark's call to its report the one global
  `g_energy_start` holds that call's reading, unless it failed). The counter is a
  remainder, so that a difference of readings takes the lemmas `Division`,
  `RestartsAreNumbers` and `DifferenceOfReadings`.
* `EveryRunOnceCorrect`: `RowInv` adds `RowsAddUp`: for each instance the rows in the
  file, those that could not be written and those not yet written make what is owed to
  it, the runs or the aggregates, in every state and not only between reports.
* Assumed: `MonitorAssumption`.

For every environment and command line, whatever the texts convert to
(`SessionProofs`):

* `SessionTypeCorrect`, `ArgsParsedCorrect` and `ContextKeptCorrect`.
* The properties speak of the end of `Initialize`. `LineInv` is what holds in each round
  of the loop before: of the `Consumed` first arguments those that no flag took stand in
  front of `argv`, in their order, the others are behind (`Shortened`), and every flag
  has the text that it would have if the line ended here (`TextAfter`). `Consumed` is not
  a variable of the code: it follows from the index and the two lengths.
* `ContextInv` says the same of the context: a map `Holds` a range of sources if it has
  the keys that these asked for, each with the value of the first. The flag's map holds
  the environment and the arguments so far, the global one the program's own pairs. That
  they can be put together at the end, in whatever order the map is walked, is the lemma
  `Merged`; that `EmplaceAll` does emplace all, `EmplacedAll`.
* Assumed: `SessionAssumption`, which says what the constants are: command lines are
  sequences of a flag and a text, and `KvPairs` knows the texts given for a context.

For every set of counters, results of the repetitions, reporter, number of reports and
suites, in builds with and without checks (`ReportingProofs`):

* `RowsUnderHeadersCorrect` and `ReportingTypeCorrect`, from `ReportingInductive`.
* `RowsUnderHeaders` is not inductive: it says nothing of what the reporter remembers, on
  which the next row depends. `ReportingInv` adds that (`RepInv`). A CSV that has written
  anything begins with the header of the names that it remembers, and has none behind it
  (`CsvLines`); in the tabular format the names remembered are those of the last header,
  and every row has a header `Under` which it stands with no other between
  (`TabularLines`). A row's header is stated as one that exists; that the header a reader
  looks up is that one is the last step, in `RowsUnderHeadersCorrect`. The weaker claim
  for a release build - a counter that a CSV met too late may be missing, but nothing
  stands under a wrong name - is part of `RowFits`.
* The runs may come from anywhere in a report: `ReportsTyped`, `KeptTyped`, `StatsTyped`
  and `BigOTyped` say that repetitions, the family's runs, aggregates and fits have only
  the counters that the header's order knows. `CsvKeeps`, `ConsoleKeeps` and `JsonKeeps`
  are the three reporters, `EachKeeps` the loop of two of them over the runs.
* Which runs are kept, and the order of the names in a header, are enumerations of a set
  of positions (`Nth`). That a finite set of positions has an element with each number of
  others before it is `Enumerated`; `OrderedFacts` makes of it that a header has each
  name once and as many as there are cells.
* Assumed: `ReportingAssumption`: the names are distinct, an instance has the counters of
  as many threads as it says, and all are among the names.

TLC evaluates every assumption for the constants of the passing runs.

`EntryCheckCorrect` is proved and not run: its statement follows from `CountersExact`.

Only model-checked: all liveness (`EveryWaitReturns`, `RoundsComplete`,
`RunTerminates`, `RunnerTerminates`; liveness under fairness is beyond the installed
provers), `AggregatesExact` and `BigOFits` of `Reporting`, and the properties of
`Registration`. The two of `Reporting` compare rational numbers in lowest terms, whose
`gcd` is a recursion over the data, with sums over sequences of any length.
`ArgsAsAsked` of `Registration` is about powers: an exponent that is not a literal means
nothing to the provers, so that neither the limits of the type nor the elements of a
range are known to them; TLC compares its lists with reference definitions. Its `TypeOK`
and `InstancesFound` could be proved once its lists are stated without `SelectSeq` and
folds (section 7).

The induction theorems of the library take an operator and cannot be used. Where a proof
above needs an induction - over the folds of `TotalCounts` and `EmplacedAll`, the
recursive functions of `CountersOf` and `ReportEach`, the positions of `Enumerated` - it
looks at a smallest number or set for which the claim fails instead; that a recursive
function is one is such a claim, too (`MergedExists`, `AfterExists`). `SelectSeq` cannot
be reasoned about, which is why `Kept` of `Monitor` and `ArgsParsed` are stated by places
and ranks, and `Kept` and `Ordered` of `Reporting` by `At`.

## 6 What is left out, and why

* Cpu and real time as quantities in `ThreadRun` and `BenchmarkRunner`: there a time is
  free, in `Reporting` it is given. Rounding of doubles, labels, memory results, and the
  text, widths and escaping of reports.
* `UseRealTime` in `Reporting`; statistics of the user's own; a complexity of length 0
  or less, which fails a check.
* Several threads on one performance measurement: a race on its snapshots, which the
  code only warns of.
* The monitor's times, temperature, CPU information and the size taken from a name; a
  write of a line that leaves a part of it in the file (a write that fails leaves
  nothing), and a header of which only a part was written; which of several RAPL
  domains a reading is of.
* In `Registration` setters that only store what nothing there reads.
* `BM_CHECK` is compiled in only without `NDEBUG`; the models state the checks as
  properties (`EntryCheckHolds` (proved), `TimerStoppedAtMerge`, `IterationsGrow`) rather than
  as stops, except for the runner's constructor, the registration, `ComputeStats`, the
  CSV header and the snapshots, where `checks` says which build it is.
* User code that is undefined by the header: joining a barrier twice, using a `State`
  from another thread. Custom thread runners are not modelled.
* The components without a module in section 1: planned, or input and output without
  state, or offline tools, as `PROJECT.json` says of each.

## 7 Plan

Done: `Barrier` (abstract, detailed, refinement), `ThreadRun`, `BenchmarkRunner`,
`RunBenchmarks` with `JsonReporter`, `Monitor`, `Registration` with `Arguments`,
`PerfCounters`, `Reporting` with `Statistics`, `Session`.

Also done: proofs of the barrier and its refinement, of every safety property that is
checked of the runner, `ThreadRun`, `RunBenchmarks`, `Monitor`, `PerfCounters` and
`Session`, and of the types and the rows of `Reporting`.

Left, in this order:

1. Proofs about `Registration`: its types, and `InstancesFound`, restated without
   `SelectSeq` and folds.
2. `ThreadRun` with a `PerfCountersMeasurement` of its own per thread, should the code
   get one.
3. The numbers of `string_util.cc` (units of human-readable counters) and the parsing of
   `ParseBenchMinTime`, which are conversions without state.
