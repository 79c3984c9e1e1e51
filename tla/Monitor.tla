-------------------------------- MODULE Monitor --------------------------------
(***************************************************************************)
(* benchmark_monitor: benchmarks that read the package's energy counter    *)
(* into a global before their loop, a reporter that subtracts it when a run*)
(* is reported, and the CSV file the results are appended to, which        *)
(* outlives the process.                                                   *)
(*                                                                         *)
(* Repetitions come in any order of the instances and are reported after an*)
(* instance's last one (module RunBenchmarks); a repetition is one or more *)
(* calls of the benchmark function (module BenchmarkRunner). Energy is     *)
(* spent at any time, also while no session is running. Any reading of the *)
(* counter and any write to the file may fail on its own.                  *)
(***************************************************************************)
EXTENDS Integers, Sequences, FiniteSets

CONSTANTS
  Instances,     \* the registered benchmarks
  NoInstance,
  CommandLines,  \* what Initialize may find: [repetitions, aggregates_only]
  NumStatistics, \* aggregates of an instance with two runs or more
  CounterRange,  \* energy_uj starts again at 0 from here
  Word,          \* 2^64: differences of uint64_t are modulo this
  MaxEnergy,     \* bound: energy spent in a behaviour
  MaxSessions    \* bound: how often the program is started

ASSUME MonitorAssumption ==
  /\ NoInstance \notin Instances
  /\ CommandLines \subseteq [repetitions : Nat \ {0}, aggregates_only : BOOLEAN]
  /\ NumStatistics \in Nat
  /\ CounterRange \in Nat \ {0} /\ Word \in Nat /\ CounterRange <= Word
  /\ MaxEnergy \in Nat /\ MaxSessions \in Nat

VARIABLES
  pc,              \* down, running, called (in a benchmark), reporting
  session,
  energy,          \* spent so far, without the counter's limit
  flags,           \* the session's command line
  g_energy_start,
  current,         \* the instance whose repetition is going on
  runs,            \* repetitions done of each instance: was it skipped?
  to_report,       \* what the loop of ReportRuns has not come to yet
  results,         \* results_cpp.csv: [exists, lines], without the rows' energy
  measured,        \* the energy in this session's last row, and what it should be
  file_,           \* the CSVWriter has it open
  header_written_,
  \* History, for the properties:
  last_call,       \* energy when an instance was called last
  start_failed,    \* the reading in g_energy_start failed
  lost,            \* lines of an instance in this session whose write failed
  headerless       \* the file was left, or is written, without a header

process == <<flags, g_energy_start, current, runs, to_report, file_, header_written_>>
history == <<last_call, start_failed, lost, headerless>>
vars == <<pc, session, energy, process, results, measured, history>>

Header == [kind |-> "header"]

Row == [kind : {"row"}, session : Nat, instance : Instances]

Measured == [energy_uj : Nat, spent : Nat, restarts : Nat, failed : BOOLEAN]

NoFlags == [repetitions |-> 1, aggregates_only |-> FALSE]

NothingMeasured == [energy_uj |-> 0, spent |-> 0, restarts |-> 0, failed |-> FALSE]

Init ==
  /\ pc = "down" /\ session = 0
  /\ energy \in 0 .. CounterRange - 1
  /\ flags = NoFlags
  /\ g_energy_start = 0
  /\ current = NoInstance
  /\ runs = [b \in Instances |-> << >>]
  /\ to_report = << >>
  /\ results = [exists |-> FALSE, lines |-> << >>]
  /\ measured = NothingMeasured
  /\ file_ = FALSE /\ header_written_ = FALSE
  /\ last_call = [b \in Instances |-> 0]
  /\ start_failed = FALSE
  /\ lost = [b \in Instances |-> 0]
  /\ headerless = FALSE

-----------------------------------------------------------------------------
(* The package and its counter.                                            *)

Spend ==
  /\ energy < MaxEnergy
  /\ energy' = energy + 1
  /\ UNCHANGED <<pc, session, process, results, measured, history>>

\* A reading is 0 if there is no RAPL, or energy_uj cannot be opened or is no number.
readRAPLEnergy(failed) == IF failed THEN 0 ELSE energy % CounterRange

-----------------------------------------------------------------------------
(* CSVWriter.                                                              *)

\* Bug variant: the writer does not look for an earlier file.
NeverKnown == FALSE

\* A file that is there is taken to have its header.
HeaderKnown == results.exists

Appended(line) == [results EXCEPT !.lines = Append(@, line)]

-----------------------------------------------------------------------------
(* A session: main, RunBenchmarks, the reporter.                           *)

\* The reporter and its CSVWriter are made: fopen in append mode creates the file,
\* or fails. Then the command line is parsed.
StartSession ==
  /\ pc = "down"
  /\ session < MaxSessions
  /\ session' = session + 1
  /\ pc' = "running"
  /\ header_written_' = HeaderKnown
  /\ file_' \in BOOLEAN
  /\ results' = IF file_' THEN [results EXCEPT !.exists = TRUE] ELSE results
  /\ flags' \in CommandLines
  /\ UNCHANGED <<energy, g_energy_start, current, runs, to_report, measured, history>>

\* Bug variant: only the first call of the session takes the reading.
StartReadingOnce(failed) ==
  IF g_energy_start = 0 THEN readRAPLEnergy(failed) ELSE g_energy_start

StartReading(failed) == readRAPLEnergy(failed)

\* The benchmark function up to its loop. A repetition that has begun goes on with
\* calls of the same function.
CallBenchmark(b) ==
  /\ pc = "running"
  /\ Len(runs[b]) < flags.repetitions
  /\ current \in {NoInstance, b}
  /\ current' = b
  /\ start_failed' \in BOOLEAN
  /\ g_energy_start' = StartReading(start_failed')
  /\ last_call' = [last_call EXCEPT ![b] = energy]
  /\ pc' = "called"
  /\ UNCHANGED <<session, energy, flags, runs, to_report, results, measured, file_,
                 header_written_, lost, headerless>>

\* The runner wants more iterations.
CallAgain ==
  /\ pc = "called"
  /\ pc' = "running"
  /\ UNCHANGED <<session, energy, process, results, measured, history>>

\* The places in a list of reports of those that are not skipped.
Kept(reports) == {k \in DOMAIN reports : ~reports[k]}

\* Aggregates are never skipped.
Aggregates(reports) ==
  [k \in 1 .. (IF Cardinality(Kept(reports)) >= 2 THEN NumStatistics ELSE 0) |-> FALSE]

\* The runs, then the aggregates; only these if that was asked for and there are any.
Reports(reports) ==
  IF flags.aggregates_only /\ Aggregates(reports) # << >>
  THEN Aggregates(reports) ELSE reports \o Aggregates(reports)

\* ComputeStats would go through the null pointer of a skipped first run: the process
\* ends there (RunBenchmarks).
NullStatistics(reports) == reports[1] /\ Cardinality(Kept(reports)) >= 2

\* The repetition is done; an instance's last one has it reported.
FinishRepetition ==
  /\ pc = "called"
  /\ \E skipped \in BOOLEAN :
       LET done == Append(runs[current], skipped)
           complete == Len(done) = flags.repetitions
       IN  /\ complete => ~NullStatistics(done)
           /\ runs' = [runs EXCEPT ![current] = done]
           /\ pc' = IF complete THEN "reporting" ELSE "running"
           /\ to_report' = IF complete THEN Reports(done) ELSE << >>
           /\ current' = IF complete THEN current ELSE NoInstance
  /\ UNCHANGED <<session, energy, flags, g_energy_start, results, measured, file_,
                 header_written_, history>>

\* Bug variant: a skipped run ends the loop.
AfterSkippedRun == << >>

AfterSkipped == Tail(to_report)

SkipRun ==
  /\ pc = "reporting"
  /\ to_report # << >> /\ Head(to_report)
  /\ to_report' = AfterSkipped
  /\ UNCHANGED <<pc, session, energy, flags, g_energy_start, current, runs, results,
                 measured, file_, header_written_, history>>

\* The first row's call of writeResult: the header counts as written although nobody
\* looks whether it was.
WriteHeader ==
  /\ pc = "reporting"
  /\ to_report # << >> /\ ~Head(to_report)
  /\ file_ /\ ~header_written_
  /\ \/ results' = Appended(Header) /\ UNCHANGED headerless
     \/ headerless' = TRUE /\ UNCHANGED results
  /\ header_written_' = TRUE
  /\ UNCHANGED <<pc, session, energy, flags, g_energy_start, current, runs, to_report,
                 measured, file_, last_call, start_failed, lost>>

\* Bug variant: the difference is taken of signed numbers.
SignedDifference(end, start) == end - start

\* The difference of two uint64_t.
Difference(end, start) == (end - start) % Word

RowOf(b) == [kind |-> "row", session |-> session, instance |-> b]

MeasuredOf(b, failed) ==
  [energy_uj |-> Difference(readRAPLEnergy(failed), g_energy_start),
   spent |-> energy - last_call[b],
   restarts |-> energy \div CounterRange - last_call[b] \div CounterRange,
   failed |-> failed \/ start_failed]

\* A run that was not skipped: the reading, and with writeResult one flushed line,
\* nothing if the write fails, and nothing ever if the file could not be opened.
WriteResult ==
  /\ pc = "reporting"
  /\ to_report # << >> /\ ~Head(to_report)
  /\ file_ => header_written_
  /\ \/ /\ file_
        /\ results' = Appended(RowOf(current))
        /\ \E failed \in BOOLEAN : measured' = MeasuredOf(current, failed)
        /\ UNCHANGED lost
     \/ /\ file_
        /\ lost' = [lost EXCEPT ![current] = @ + 1]
        /\ UNCHANGED <<results, measured>>
     \/ ~file_ /\ UNCHANGED <<results, measured, lost>>
  /\ to_report' = Tail(to_report)
  /\ UNCHANGED <<pc, session, energy, flags, g_energy_start, current, runs, file_,
                 header_written_, last_call, start_failed, headerless>>

FinishReport ==
  /\ pc = "reporting"
  /\ to_report = << >>
  /\ pc' = "running"
  /\ current' = NoInstance
  /\ UNCHANGED <<session, energy, flags, g_energy_start, runs, to_report, results,
                 measured, file_, header_written_, history>>

AllReported ==
  pc = "running" /\ \A b \in Instances : Len(runs[b]) = flags.repetitions

\* The file is closed, as it is, and the memory of the process is gone.
Exit ==
  /\ pc' = "down"
  /\ flags' = NoFlags
  /\ g_energy_start' = 0
  /\ current' = NoInstance
  /\ runs' = [b \in Instances |-> << >>]
  /\ to_report' = << >>
  /\ measured' = NothingMeasured
  /\ file_' = FALSE /\ header_written_' = FALSE
  /\ last_call' = [b \in Instances |-> 0]
  /\ start_failed' = FALSE
  /\ lost' = [b \in Instances |-> 0]
  /\ headerless' = (headerless \/ (file_ /\ results.lines = << >>))
  /\ UNCHANGED <<session, energy, results>>

\* Finalize only prints; the reporter's destructor closes the file.
EndSession == AllReported /\ Exit

\* The process ends anywhere before: killed, or because --help or a filter that
\* matches nothing leaves it with nothing to run.
Crash == pc # "down" /\ Exit

Next ==
  \/ Spend
  \/ StartSession
  \/ \E b \in Instances : CallBenchmark(b)
  \/ CallAgain
  \/ FinishRepetition
  \/ SkipRun
  \/ WriteHeader
  \/ WriteResult
  \/ FinishReport
  \/ EndSession
  \/ Crash

Spec == Init /\ [][Next]_vars

-----------------------------------------------------------------------------
\* Type invariant.
TypeOK ==
  /\ pc \in {"down", "running", "called", "reporting"}
  /\ session \in 0 .. MaxSessions
  /\ energy \in Nat /\ g_energy_start \in Nat
  /\ flags \in [repetitions : Nat \ {0}, aggregates_only : BOOLEAN]
  /\ current \in Instances \cup {NoInstance}
  /\ \A b \in Instances : runs[b] \in Seq(BOOLEAN) /\ Len(runs[b]) <= flags.repetitions
  /\ to_report \in Seq(BOOLEAN)
  /\ results.exists \in BOOLEAN
  /\ \A k \in DOMAIN results.lines : results.lines[k] = Header \/ results.lines[k] \in Row
  /\ measured \in Measured
  /\ {file_, header_written_, start_failed, headerless} \subseteq BOOLEAN
  /\ last_call \in [Instances -> Nat] /\ lost \in [Instances -> Nat]

Rows == {k \in DOMAIN results.lines : results.lines[k].kind = "row"}

\* However often the program is started, ended or killed, the names of the columns are
\* nowhere but in the first line of the file, and they are there unless the session that
\* made the file left it empty or could not write them.
HeaderFirst ==
  /\ \A k \in DOMAIN results.lines : results.lines[k] = Header => k = 1
  /\ results.lines # << >> => (results.lines[1] = Header <=> ~headerless)

\* If neither reading of a row failed, its energy is what was spent since the reported
\* instance itself was called last, in whatever order repetitions of other instances
\* came; if the counter started again in between, it is off by the counter's range for
\* each time, which in unsigned words means near their limit.
EnergySinceLastCall ==
  ~measured.failed =>
    measured.energy_uj = IF measured.restarts = 0 THEN measured.spent
                         ELSE (measured.spent - measured.restarts * CounterRange) % Word

\* A session that comes to its end has written, or failed to write, each run that was not
\* skipped and each aggregate once, also those after a skipped one, and if aggregates only
\* were asked for just these where there are any.
EveryRunOnce ==
  AllReported /\ file_ =>
    \A b \in Instances :
      Cardinality({k \in Rows : /\ results.lines[k].session = session
                                /\ results.lines[k].instance = b}) + lost[b]
        = Cardinality(Kept(Reports(runs[b])))
=============================================================================
