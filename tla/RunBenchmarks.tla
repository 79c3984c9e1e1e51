---------------------------- MODULE RunBenchmarks ----------------------------
(***************************************************************************)
(* internal::RunBenchmarks: the order in which the repetitions of all the  *)
(* instances run, the reports shared by the instances of a family, and what*)
(* the display and the file reporter are told, and when.                   *)
(*                                                                         *)
(* A repetition (BenchmarkRunner) is one step here, which may have been    *)
(* skipped. std::shuffle of repetition_indices is a free choice of the     *)
(* instance whose next repetition runs.                                    *)
(***************************************************************************)
EXTENDS Integers, Sequences, FiniteSets, FiniteSetsExt

CONSTANTS
  benchmarks,        \* sequence of [family, complexity, repeats, display, file]:
                     \* the last two say "aggregates only" for that reporter
  HasFileReporter,
  MayRefuse,         \* a reporter may answer false to ReportContext
  Suites             \* RunSpecifiedBenchmarks is called so often, same reporters

Instances == DOMAIN benchmarks

Families == {benchmarks[b].family : b \in Instances}

ASSUME BenchmarksAssumption ==
  /\ benchmarks \in
       Seq([family : Nat, complexity : BOOLEAN, repeats : Nat \ {0},
            display : BOOLEAN, file : BOOLEAN])
  /\ {HasFileReporter, MayRefuse} \subseteq BOOLEAN
  /\ Suites \in Nat \ {0}

VARIABLES
  suite, pc,
  interleaving,             \* --benchmark_enable_random_interleaving
  non_aggregates,           \* each runner's repetitions done: was it skipped?
  per_family_reports,       \* PerFamilyRunReports: [live, total, done, Runs]
  current,                  \* the runner whose repetition has just been done
  bigO,                     \* times a family's complexity was computed
  reported,                 \* what each reporter was told about each instance
  refused,                  \* who answered false to ReportContext, or none
  display_reporter, file_reporter

R == INSTANCE JsonReporter

reporters == <<reported, refused, display_reporter, file_reporter>>
vars == <<suite, pc, interleaving, non_aggregates, per_family_reports, current,
          bigO, reporters>>

Repeats(b) == benchmarks[b].repeats

num_repetitions_done(b) == Len(non_aggregates[b])

\* The repetitions of an instance that were not skipped.
Kept(b) == Cardinality({i \in DOMAIN non_aggregates[b] : ~non_aggregates[b][i]})

InFamily(f) == {b \in Instances : benchmarks[b].complexity /\ benchmarks[b].family = f}

NotReported == [non_aggregates |-> 0, aggregates |-> 0]

\* Bug variant: the runs of a family are those of one of its instances.
NumRunsTotalOfOne(f) ==
  IF InFamily(f) = {} THEN 0 ELSE Repeats(CHOOSE b \in InFamily(f) : TRUE)

\* The loop that makes the runners adds up the repeats of a family.
NumRunsTotal(f) == MapThenSumSet(Repeats, InFamily(f))

NewFamily(f) ==
  [live |-> InFamily(f) # {}, total |-> NumRunsTotal(f), done |-> 0, Runs |-> 0]

Init ==
  /\ suite = 1
  /\ pc = "context"
  /\ interleaving \in BOOLEAN
  /\ non_aggregates = [b \in Instances |-> << >>]
  /\ per_family_reports = [f \in Families |-> NewFamily(f)]
  /\ current = 0
  /\ bigO = [f \in Families |-> 0]
  /\ reported = [who \in {"display", "file"} |-> [b \in Instances |-> NotReported]]
  /\ refused = "none"
  /\ display_reporter = R!NewReporter
  /\ file_reporter = R!NewReporter

-----------------------------------------------------------------------------
\* Who may refuse.
Refusals ==
  {"none"} \cup IF ~MayRefuse THEN {}
                ELSE {"display"} \cup IF HasFileReporter THEN {"file"} ELSE {}

\* ReportContext of the display reporter, then of the file reporter: the second is
\* not asked when the first refuses. If both agree the runners are made.
ReportContext ==
  /\ pc = "context"
  /\ refused' \in Refusals
  /\ display_reporter' = IF refused' # "display" THEN R!ReportContext(display_reporter)
                         ELSE display_reporter
  /\ file_reporter' = IF HasFileReporter /\ refused' = "none"
                      THEN R!ReportContext(file_reporter) ELSE file_reporter
  /\ pc' = IF refused' = "none" THEN "running" ELSE "finalize"
  /\ UNCHANGED <<suite, interleaving, non_aggregates, per_family_reports, current,
                 bigO, reported>>

HasRepeatsRemaining(b) == num_repetitions_done(b) # Repeats(b)

\* What is left of repetition_indices.
Remaining == {b \in Instances : num_repetitions_done(b) < Repeats(b)}

\* The next element of repetition_indices: in order, unless it was shuffled.
DoOneRepetition(b) ==
  /\ pc = "running"
  /\ b \in Remaining
  /\ interleaving \/ \A c \in Remaining : b <= c
  /\ \E skipped \in BOOLEAN :
       /\ non_aggregates' = [non_aggregates EXCEPT ![b] = Append(@, skipped)]
       /\ per_family_reports' =
            IF benchmarks[b].complexity
            THEN [per_family_reports EXCEPT
                    ![benchmarks[b].family].done = @ + 1,
                    ![benchmarks[b].family].Runs = @ + IF skipped THEN 0 ELSE 1]
            ELSE per_family_reports
  /\ current' = b
  /\ pc' = "repeated"
  /\ UNCHANGED <<suite, interleaving, bigO, reporters>>

NextRepetition ==
  /\ pc = "repeated"
  /\ HasRepeatsRemaining(current)
  /\ pc' = "running"
  /\ UNCHANGED <<suite, interleaving, non_aggregates, per_family_reports, current,
                 bigO, reporters>>

\* The instance that has just finished is the last of a family with complexity.
FamilyComplete(b) ==
  /\ benchmarks[b].complexity
  /\ LET reports == per_family_reports[benchmarks[b].family]
     IN  reports.done = reports.total

\* ComputeStats and ComputeBigO return nothing for fewer than two runs. A skipped
\* first report has no statistics to compute, only a null pointer to them.
NullStatistics(b) == Kept(b) >= 2 /\ non_aggregates[b][1]

HasStats(b) == Kept(b) >= 2

HasBigO(b) == FamilyComplete(b) /\ per_family_reports[benchmarks[b].family].Runs >= 2

\* Bug variant: aggregates only, even if there are none.
CallsStrict(b, aggregates_only) ==
  [non_aggregates |-> IF aggregates_only THEN 0 ELSE 1,
   aggregates |-> IF HasStats(b) \/ HasBigO(b) THEN 1 ELSE 0]

\* Which of its two calls of ReportRuns report_one makes.
Calls(b, aggregates_only) ==
  LET aggregates == HasStats(b) \/ HasBigO(b)
  IN  [non_aggregates |-> IF aggregates_only /\ aggregates THEN 0 ELSE 1,
       aggregates |-> IF aggregates THEN 1 ELSE 0]

Told(told, calls) ==
  [non_aggregates |-> told.non_aggregates + calls.non_aggregates,
   aggregates |-> told.aggregates + calls.aggregates]

AfterCalls(rep, calls) ==
  R!ReportRuns(R!ReportRuns(rep, calls.non_aggregates), calls.aggregates)

\* Report(): both reporters, each with its own aggregates-only setting.
Report(b) ==
  LET display == Calls(b, benchmarks[b].display)
      file == Calls(b, benchmarks[b].file)
  IN  /\ reported' = [reported EXCEPT
                        !["display"][b] = Told(@, display),
                        !["file"][b] = IF HasFileReporter THEN Told(@, file) ELSE @]
      /\ display_reporter' = AfterCalls(display_reporter, display)
      /\ file_reporter' = IF HasFileReporter THEN AfterCalls(file_reporter, file)
                          ELSE file_reporter

\* GetResults, the complexity of a family that is complete, erasing it from the
\* map, and the reports.
ReportInstance ==
  /\ pc = "repeated"
  /\ ~HasRepeatsRemaining(current)
  /\ ~NullStatistics(current)
  /\ LET f == benchmarks[current].family
     IN  IF FamilyComplete(current)
         THEN /\ per_family_reports[f].Runs # 0
              /\ bigO' = [bigO EXCEPT ![f] = @ + 1]
              /\ per_family_reports' = [per_family_reports EXCEPT ![f].live = FALSE]
         ELSE UNCHANGED <<bigO, per_family_reports>>
  /\ Report(current)
  /\ pc' = "running"
  /\ UNCHANGED <<suite, interleaving, non_aggregates, current, refused>>

\* GetResults reads the statistics of the first report through a null pointer.
CrashInStatistics ==
  /\ pc = "repeated"
  /\ ~HasRepeatsRemaining(current)
  /\ NullStatistics(current)
  /\ pc' = "null statistics"
  /\ UNCHANGED <<suite, interleaving, non_aggregates, per_family_reports, current,
                 bigO, reporters>>

\* Every run of the family was skipped: Runs.front() of an empty vector, which never
\* had storage, reads through a null pointer.
CrashInErase ==
  /\ pc = "repeated"
  /\ ~HasRepeatsRemaining(current)
  /\ ~NullStatistics(current)
  /\ FamilyComplete(current)
  /\ per_family_reports[benchmarks[current].family].Runs = 0
  /\ pc' = "front of empty"
  /\ UNCHANGED <<suite, interleaving, non_aggregates, per_family_reports, current,
                 bigO, reporters>>

AllRepetitionsDone ==
  /\ pc = "running"
  /\ Remaining = {}
  /\ pc' = "finalize"
  /\ UNCHANGED <<suite, interleaving, non_aggregates, per_family_reports, current,
                 bigO, reporters>>

\* Finalize of both reporters, whether or not anything was run.
Finalize ==
  /\ pc = "finalize"
  /\ display_reporter' = R!Finalize(display_reporter)
  /\ file_reporter' = IF HasFileReporter THEN R!Finalize(file_reporter)
                      ELSE file_reporter
  /\ pc' = "done"
  /\ UNCHANGED <<suite, interleaving, non_aggregates, per_family_reports, current,
                 bigO, reported, refused>>

\* The program calls RunSpecifiedBenchmarks again with reporters of its own.
NextSuite ==
  /\ pc = "done"
  /\ suite < Suites
  /\ suite' = suite + 1
  /\ pc' = "context"
  /\ non_aggregates' = [b \in Instances |-> << >>]
  /\ per_family_reports' = [f \in Families |-> NewFamily(f)]
  /\ current' = 0
  /\ bigO' = [f \in Families |-> 0]
  /\ reported' = [who \in {"display", "file"} |-> [b \in Instances |-> NotReported]]
  /\ refused' = "none"
  /\ display_reporter' = R!NewDocument(display_reporter)
  /\ file_reporter' = R!NewDocument(file_reporter)
  /\ UNCHANGED interleaving

Crashed == pc \in {"null statistics", "front of empty"}

Stopped ==
  /\ Crashed \/ (pc = "done" /\ suite = Suites)
  /\ UNCHANGED vars

Next ==
  \/ ReportContext
  \/ \E b \in Instances : DoOneRepetition(b)
  \/ NextRepetition
  \/ ReportInstance
  \/ CrashInStatistics
  \/ CrashInErase
  \/ AllRepetitionsDone
  \/ Finalize
  \/ NextSuite
  \/ Stopped

Spec == Init /\ [][Next]_vars

-----------------------------------------------------------------------------
\* Type invariant.
TypeOK ==
  /\ suite \in 1 .. Suites
  /\ pc \in {"context", "running", "repeated", "finalize", "done",
             "null statistics", "front of empty"}
  /\ interleaving \in BOOLEAN
  /\ \A b \in Instances :
       non_aggregates[b] \in Seq(BOOLEAN) /\ num_repetitions_done(b) <= Repeats(b)
  /\ per_family_reports \in
       [Families -> [live : BOOLEAN, total : Nat, done : Nat, Runs : Nat]]
  /\ current \in Instances \cup {0}
  /\ \A f \in Families : per_family_reports[f].done <= per_family_reports[f].total
  /\ bigO \in [Families -> Nat]
  /\ reported \in [{"display", "file"} ->
                     [Instances -> [non_aggregates : Nat, aggregates : Nat]]]
  /\ refused \in {"none", "display", "file"}
  /\ display_reporter \in R!ReporterType
  /\ file_reporter \in R!ReporterType

\* Each instance is reported to each reporter in bulk: not before all of its repetitions
\* are done, however those of the instances were interleaved, and in the end exactly
\* once, its repetitions, or its aggregates, or both; nothing is lost because a reporter
\* wants aggregates that do not exist.
ReportedOnce ==
  /\ \A who \in {"display", "file"} : \A b \in Instances :
       reported[who][b] # NotReported => num_repetitions_done(b) = Repeats(b)
  /\ (pc = "done" /\ Remaining = {}) =>
       \A who \in {"display"} \cup (IF HasFileReporter THEN {"file"} ELSE {}) :
         \A b \in Instances :
           LET told == reported[who][b]
           IN  /\ told.non_aggregates <= 1 /\ told.aggregates <= 1
               /\ told.non_aggregates + told.aggregates >= 1
               /\ (Kept(b) >= 2) => told.aggregates = 1

\* A runner's pointer into per_family_reports is not used after the family was
\* erased: no repetition of the family is still to come.
NoDanglingFamily ==
  \A f \in Families :
    (InFamily(f) # {} /\ ~per_family_reports[f].live) => InFamily(f) \cap Remaining = {}

\* The complexity of a family is computed once, from all of its runs, whichever of
\* its instances is the last to finish.
BigOOnce ==
  /\ \A f \in Families : bigO[f] <= 1
  /\ (pc = "finalize" /\ Remaining = {}) =>
       \A f \in Families : bigO[f] = IF InFamily(f) = {} THEN 0 ELSE 1

\* What the JSON reporter rep makes of a suite, as one of those told in reported[who].
\* There is one opening, a comma between the runs of any two instances and one end, with
\* two exceptions, which are the code's. A reporter that reported runs in an earlier
\* suite begins its list with a comma, as soon as there is a run at all. A file reporter
\* is finalized although a display reporter that refused kept it from being opened.
JsonDocument(rep, who) ==
  LET told == \E b \in Instances : reported[who][b] # NotReported
      opened == who = "display" \/ refused = "none"
      spoilt == rep.reported_before /\ told
  IN  /\ rep.written = "malformed" => spoilt
      /\ rep.written = "unopened" => ~opened
      /\ pc = "done" =>
           rep.written = IF ~opened THEN "unopened"
                         ELSE IF spoilt THEN "malformed" ELSE "closed"

\* Both reporters' documents, in every suite. A JSONReporter itself never refuses: where
\* one reporter did, the document is that of the other.
JsonWellFormed ==
  /\ refused # "display" => JsonDocument(display_reporter, "display")
  /\ HasFileReporter /\ refused # "file" => JsonDocument(file_reporter, "file")
=============================================================================
