----------------------------- MODULE RunnerProofs -----------------------------
(***************************************************************************)
(* What holds of BenchmarkRunner for every set of instances, every command *)
(* line, every time a round may take and every limit.                      *)
(*                                                                         *)
(* The inductive invariant is the type invariant together with four facts: *)
(* what the warm-up will put back, what the reports were asked for, why the*)
(* search for an iteration count has ended, and what the first report says *)
(* of that.                                                                *)
(***************************************************************************)
EXTENDS BenchmarkRunner, TLAPS

\* Until the warm-up is over the constructor's count is in iters or in i_backup.
WarmUpPending ==
  /\ pc \in {"measure", "memory", "profiler", "report"} => warmup_done
  /\ num_repetitions_done # 0 => warmup_done
  /\ (pc = "idle" /\ ~warmup_done) => iters = InitialIters(b, flags)
  /\ pc = "warmup" => ~warmup_done /\ i_backup = InitialIters(b, flags)

\* There is a report for each repetition done, and all were asked for what the next
\* one will be asked for.
OneRequest ==
  /\ Len(non_aggregates) = num_repetitions_done
  /\ \A k \in 1 .. Len(non_aggregates) : non_aggregates[k].requested = iters

\* The first repetition leaves its loop with a round it accepted.
Accepted ==
  (pc \in {"memory", "profiler", "report"} /\ num_repetitions_done = 0) =>
    has_explicit_iteration_count \/ ShouldReport(i)

\* A round that was not skipped has done what it was asked for.
Done ==
  pc \in {"memory", "profiler", "report"} /\ ~i.skipped => iters <= i.iters

\* The first report is of a round that was long enough, or of one that was skipped.
FirstLongEnough ==
  /\ ~has_explicit_iteration_count /\ ~flags.dry_run
  /\ num_repetitions_done # 0 /\ ~non_aggregates[1].skipped
  => /\ non_aggregates[1].long_enough
     /\ non_aggregates[1].requested <= non_aggregates[1].iterations

RunnerInv ==
  TypeOK /\ WarmUpPending /\ OneRequest /\ Accepted /\ Done /\ FirstLongEnough

-----------------------------------------------------------------------------
\* A quotient of natural numbers is one.
LEMMA QuotientType ==
  ASSUME NEW m \in Nat, NEW n \in Nat \ {0}
  PROVE  m \div n \in Nat
<1>1. m \div n \in Int
  OBVIOUS
<1>2. n > 0
  OBVIOUS
<1>3. m \div n >= 0
  BY <1>2
<1> QED
  BY <1>1, <1>3

\* The parameters the constructor computes have their types.
LEMMA Parameters ==
  ASSUME b \in Instances, flags \in FlagSettings
  PROVE  /\ min_time \in Nat
         /\ WarmupTime(b, flags) \in Nat
         /\ InitialIters(b, flags) \in Nat \ {0}
         /\ repeats \in Nat \ {0}
<1>1. /\ b.min_time \in Nat /\ b.min_warmup_time \in Nat
      /\ b.iterations \in Nat /\ b.repetitions \in Nat
  BY InstancesAssumption
<1>2. /\ flags.benchtime \in Nat \ {0} /\ flags.min_warmup_time \in Nat
      /\ flags.repetitions \in Nat \ {0}
  BY FlagsAssumption
<1>3. min_time \in Nat /\ repeats \in Nat \ {0}
  BY <1>1, <1>2, RunnerConstants DEF min_time, repeats
<1>4. WarmupTime(b, flags) \in Nat
  BY <1>1, <1>2 DEF WarmupTime
<1>5. InitialIters(b, flags) \in Nat \ {0}
  BY <1>1, <1>2 DEF InitialIters
<1> QED
  BY <1>3, <1>4, <1>5

\* A record of numbers is the record of a round.
LEMMA RoundOfNumbers ==
  ASSUME NEW N, NEW T, NEW S, N \subseteq Nat, T \subseteq Nat, S \subseteq BOOLEAN,
         NEW r \in [iters : N, seconds : T, real_time_used : T, skipped : S]
  PROVE  r \in RoundType
  BY DEF RoundType

\* Whatever a round measures is a number.
LEMMA RoundsType ==
  ASSUME NEW n \in Nat, NEW r \in Rounds(n)
  PROVE  r \in RoundType
<1>1. CASE r \in [iters : 0 .. n, seconds : {0}, real_time_used : {0}, skipped : {TRUE}]
  <2>1. 0 .. n \subseteq Nat /\ {0} \subseteq Nat /\ {TRUE} \subseteq BOOLEAN
    OBVIOUS
  <2> QED
    BY <1>1, <2>1, RoundOfNumbers
<1>2. CASE r \in [iters : {n + o : o \in Overshoots}, seconds : Times,
                  real_time_used : Times, skipped : {FALSE}]
  <2>1. {n + o : o \in Overshoots} \subseteq Nat
    BY RunnerConstants
  <2>2. Times \subseteq Nat /\ {FALSE} \subseteq BOOLEAN
    BY RunnerConstants
  <2> QED
    BY <1>2, <2>1, <2>2, RoundOfNumbers
<1> QED
  BY <1>1, <1>2 DEF Rounds

\* The minimum in force is a number, in the warm-up and after it.
LEMMA MinTimeType ==
  ASSUME TypeOK
  PROVE  GetMinTimeToApply \in Nat
  BY Parameters DEF TypeOK, GetMinTimeToApply

\* The extrapolation is a number: it divides by the time of the round only if the
\* round took any.
LEMMA ExtrapolatedType ==
  ASSUME TypeOK, NEW r \in RoundType
  PROVE  Extrapolated(r) \in Nat
<1> DEFINE G == GetMinTimeToApply
<1>1. G \in Nat
  BY MinTimeType
<1>2. r.seconds \in Nat /\ r.iters \in Nat
  BY DEF RoundType
<1>3. CASE 10 * r.seconds > G
  <2>1. 20 * r.seconds \in Nat \ {0}
    BY <1>1, <1>2, <1>3, SMT
  <2>2. 28 * G * r.iters \in Nat
    BY <1>1, <1>2, SMT
  <2>3. 28 * G * r.iters + 10 * r.seconds \in Nat
    BY <1>2, <2>2, SMT
  <2>4. (28 * G * r.iters + 10 * r.seconds) \div (20 * r.seconds) \in Nat
    BY <2>1, <2>3, QuotientType
  <2> QED
    BY <1>3, <2>4 DEF Extrapolated
<1>4. CASE ~(10 * r.seconds > G)
  BY <1>2, <1>4 DEF Extrapolated
<1> QED
  BY <1>3, <1>4

\* What follows a round that is not accepted: more iterations, within the limit.
LEMMA PredictionGrows ==
  ASSUME TypeOK, NEW r \in RoundType, ~ShouldReport(r)
  PROVE  /\ PredictNumItersNeeded(r) \in Nat \ {0}
         /\ PredictNumItersNeeded(r) > r.iters
         /\ PredictNumItersNeeded(r) <= kMaxIterations
<1>1. Extrapolated(r) \in Nat
  BY ExtrapolatedType
<1>2. r.iters \in Nat /\ r.iters < kMaxIterations
  BY RunnerConstants DEF RoundType, ShouldReport
<1> QED
  BY <1>1, <1>2, RunnerConstants DEF PredictNumItersNeeded

-----------------------------------------------------------------------------
\* The constructor establishes the invariant, for every registration and flag.
THEOREM RunnerInitial == Init => RunnerInv
<1> SUFFICES ASSUME Init
             PROVE  RunnerInv
  OBVIOUS
<1>1. b \in Instances /\ flags \in FlagSettings
  BY DEF Init
<1>2. /\ WarmupTime(b, flags) \in Nat
      /\ InitialIters(b, flags) \in Nat \ {0}
  BY <1>1, Parameters
<1>3. NoRound \in RoundType
  BY DEF NoRound, RoundType
<1>4. TypeOK
  BY <1>1, <1>2, <1>3 DEF Init, TypeOK
<1>5. WarmUpPending
  BY DEF Init, WarmUpPending
<1>6. OneRequest
  BY DEF Init, OneRequest
<1>7. Accepted
  BY DEF Init, Accepted
<1>8. Done /\ FirstLongEnough
  BY DEF Init, Done, FirstLongEnough
<1> QED
  BY <1>4, <1>5, <1>6, <1>7, <1>8 DEF RunnerInv

\* The parameters never change, nor does what is computed from them alone.
LEMMA FixedStays ==
  ASSUME UNCHANGED fixed
  PROVE  /\ b' = b /\ flags' = flags /\ min_warmup_time' = min_warmup_time
         /\ min_time' = min_time
         /\ repeats' = repeats
         /\ InitialIters(b, flags)' = InitialIters(b, flags)
         /\ has_explicit_iteration_count' = has_explicit_iteration_count
  BY DEF fixed, min_time, repeats, InitialIters, has_explicit_iteration_count

\* A step that adds no report leaves what the first one says.
LEMMA NoReportAdded ==
  ASSUME FirstLongEnough,
         UNCHANGED <<fixed, num_repetitions_done, non_aggregates>>
  PROVE  FirstLongEnough'
  BY FixedStays, Zenon DEF FirstLongEnough

\* What a round brings back: if it was not skipped, no less than was asked for.
LEMMA RoundDone ==
  ASSUME NEW n \in Nat, NEW r \in Rounds(n), ~r.skipped
  PROVE  n <= r.iters
<1>1. r \notin [iters : 0 .. n, seconds : {0}, real_time_used : {0}, skipped : {TRUE}]
  OBVIOUS
<1>2. r.iters \in {n + o : o \in Overshoots}
  BY <1>1 DEF Rounds
<1> QED
  BY <1>2, RunnerConstants

\* Starting a repetition leaves everything the invariant speaks of alone.
LEMMA BeginRepetitionKeeps ==
  ASSUME RunnerInv, BeginRepetition
  PROVE  RunnerInv'
<1>1. TypeOK'
  BY DEF RunnerInv, TypeOK, BeginRepetition, fixed
<1>2. WarmUpPending'
  BY FixedStays DEF RunnerInv, TypeOK, WarmUpPending, BeginRepetition
<1>3. OneRequest' /\ Accepted'
  BY DEF RunnerInv, OneRequest, Accepted, BeginRepetition
<1>4. Done' /\ FirstLongEnough'
  BY NoReportAdded DEF RunnerInv, Done, BeginRepetition
<1> QED
  BY <1>1, <1>2, <1>3, <1>4 DEF RunnerInv

\* A round of the warm-up changes the count, which the end of the warm-up puts back.
LEMMA WarmUpRoundKeeps ==
  ASSUME RunnerInv, WarmUpRound
  PROVE  RunnerInv'
<1> PICK r \in Rounds(iters) :
      /\ i' = r
      /\ IF ShouldReport(r)
         THEN FinishWarmUp /\ pc' = "measure"
         ELSE iters' = PredictNumItersNeeded(r) /\ UNCHANGED <<pc, warmup_done>>
  BY DEF WarmUpRound
<1>0. TypeOK /\ pc = "warmup" /\ ~warmup_done /\ num_repetitions_done = 0
      /\ i_backup = InitialIters(b, flags)
  BY DEF RunnerInv, WarmUpRound, WarmUpPending, TypeOK
<1>1. r \in RoundType /\ iters \in Nat
  BY <1>0, RoundsType DEF TypeOK
<1>2. UNCHANGED <<fixed, i_backup, num_repetitions_done, non_aggregates>>
  BY DEF WarmUpRound
<1>5. FirstLongEnough'
  BY <1>2, NoReportAdded DEF RunnerInv
<1>3. CASE ShouldReport(r)
  <2>1. iters' = InitialIters(b, flags) /\ warmup_done' /\ pc' = "measure"
    BY <1>0, <1>3 DEF FinishWarmUp
  <2>2. InitialIters(b, flags) \in Nat \ {0}
    BY <1>0, Parameters DEF TypeOK
  <2>3. TypeOK'
    BY <1>0, <1>1, <1>2, <1>3, <2>1, <2>2 DEF TypeOK, fixed, FinishWarmUp
  <2>4. WarmUpPending' /\ Accepted' /\ Done'
    BY <2>1 DEF WarmUpPending, Accepted, Done
  <2>5. OneRequest'
    BY <1>0, <1>2 DEF RunnerInv, OneRequest
  <2> QED
    BY <1>5, <2>3, <2>4, <2>5 DEF RunnerInv
<1>4. CASE ~ShouldReport(r)
  <2>1. iters' = PredictNumItersNeeded(r) /\ UNCHANGED <<pc, warmup_done>>
    BY <1>4
  <2>2. iters' \in Nat \ {0}
    BY <1>0, <1>1, <1>4, <2>1, PredictionGrows
  <2>3. TypeOK'
    BY <1>0, <1>1, <1>2, <2>1, <2>2 DEF TypeOK, fixed
  <2>4. WarmUpPending' /\ Accepted' /\ Done'
    BY <1>0, <1>2, <2>1, FixedStays DEF WarmUpPending, Accepted, Done
  <2>5. OneRequest'
    BY <1>0, <1>2 DEF RunnerInv, OneRequest
  <2> QED
    BY <1>5, <2>3, <2>4, <2>5 DEF RunnerInv
<1> QED
  BY <1>3, <1>4

\* A round of the measurement is accepted or asks for more iterations.
LEMMA MeasuredRoundKeeps ==
  ASSUME RunnerInv, MeasuredRound
  PROVE  RunnerInv'
<1> PICK r \in Rounds(iters) :
      /\ i' = r
      /\ IF Significant(r)
         THEN pc' = "memory" /\ UNCHANGED iters
         ELSE iters' = PredictNumItersNeeded(r) /\ UNCHANGED pc
  BY DEF MeasuredRound
<1>0. TypeOK /\ pc = "measure" /\ warmup_done
  BY DEF RunnerInv, MeasuredRound, WarmUpPending, TypeOK
<1>1. r \in RoundType /\ iters \in Nat
  BY <1>0, RoundsType DEF TypeOK
<1>2. UNCHANGED <<fixed, warmup_done, i_backup, num_repetitions_done, non_aggregates>>
  BY DEF MeasuredRound
<1>6. FirstLongEnough'
  BY <1>2, NoReportAdded DEF RunnerInv
<1>3. WarmUpPending'
  BY <1>0, <1>2 DEF WarmUpPending, MeasuredRound
<1>4. CASE Significant(r)
  <2>1. pc' = "memory" /\ UNCHANGED iters
    BY <1>4
  <2>2. TypeOK'
    BY <1>0, <1>1, <1>2, <2>1 DEF TypeOK, fixed
  <2>3. OneRequest'
    BY <1>2, <2>1 DEF RunnerInv, OneRequest
  <2>4. num_repetitions_done = 0 => has_explicit_iteration_count \/ ShouldReport(r)
    BY <1>4 DEF Significant
  <2>5. has_explicit_iteration_count' = has_explicit_iteration_count
    BY <1>2, FixedStays
  <2>6. ShouldReport(i)' <=> ShouldReport(r)
    BY <1>2, FixedStays DEF ShouldReport, GetMinTimeToApply
  <2>7. Accepted'
    BY <1>2, <2>4, <2>5, <2>6 DEF Accepted
  <2>8. Done'
    BY <1>1, <2>1, RoundDone DEF Done
  <2> QED
    BY <1>3, <1>6, <2>2, <2>3, <2>7, <2>8 DEF RunnerInv
<1>5. CASE ~Significant(r)
  <2>1. iters' = PredictNumItersNeeded(r) /\ pc' = "measure"
    BY <1>0, <1>5
  <2>2. num_repetitions_done = 0 /\ ~ShouldReport(r)
    BY <1>5 DEF Significant
  <2>3. iters' \in Nat \ {0}
    BY <1>0, <1>1, <2>1, <2>2, PredictionGrows
  <2>4. TypeOK'
    BY <1>0, <1>1, <1>2, <2>1, <2>3 DEF TypeOK, fixed
  <2>5. OneRequest' /\ Accepted' /\ Done'
    BY <1>2, <2>1, <2>2 DEF RunnerInv, OneRequest, Accepted, Done
  <2> QED
    BY <1>3, <1>6, <2>4, <2>5 DEF RunnerInv
<1> QED
  BY <1>4, <1>5

\* The two extra passes leave the round that is being reported alone.
LEMMA ExtraPassKeeps ==
  ASSUME RunnerInv, RunMemoryManager \/ RunProfilerManager
  PROVE  RunnerInv'
<1>1. /\ UNCHANGED <<fixed, warmup_done, iters, i_backup, i, num_repetitions_done,
                     non_aggregates>>
      /\ pc \in {"memory", "profiler"} /\ pc' \in {"profiler", "report"}
  BY DEF RunMemoryManager, RunProfilerManager
<1>2. FirstLongEnough'
  BY <1>1, NoReportAdded DEF RunnerInv
<1>3. TypeOK' /\ Done'
  BY <1>1 DEF RunnerInv, TypeOK, Done, fixed
<1>4. WarmUpPending' /\ OneRequest'
  BY <1>1 DEF RunnerInv, WarmUpPending, OneRequest
<1>5. ShouldReport(i)' <=> ShouldReport(i)
  BY <1>1, FixedStays DEF ShouldReport, GetMinTimeToApply
<1>6. Accepted'
  BY <1>1, <1>5, FixedStays DEF RunnerInv, Accepted
<1> QED
  BY <1>2, <1>3, <1>4, <1>6 DEF RunnerInv

\* After the warm-up a round that is accepted without a skip was long enough.
LEMMA AcceptedIsLongEnough ==
  ASSUME RunnerInv, pc = "report", num_repetitions_done = 0, ~i.skipped,
         ~has_explicit_iteration_count, ~flags.dry_run
  PROVE  LongEnough(i)
<1>1. ShouldReport(i) /\ warmup_done
  BY DEF RunnerInv, Accepted, WarmUpPending
<1> QED
  BY <1>1 DEF ShouldReport, GetMinTimeToApply, LongEnough

\* A report copies the count of its repetition.
LEMMA ReportKeeps ==
  ASSUME RunnerInv, Report
  PROVE  RunnerInv'
<1>0. TypeOK /\ pc = "report" /\ warmup_done /\ pc' = "idle"
  BY DEF RunnerInv, Report, WarmUpPending
<1>1. UNCHANGED <<fixed, warmup_done, iters, i_backup>>
      /\ non_aggregates' = Append(non_aggregates, CreateRunReport)
      /\ num_repetitions_done' = num_repetitions_done + 1 /\ i' = NoRound
  BY DEF Report
<1>2. CreateRunReport \in ReportType /\ CreateRunReport.requested = iters
  BY <1>0 DEF TypeOK, CreateRunReport, ReportType, RoundType, LongEnough
<1>3. NoRound \in RoundType
  BY DEF NoRound, RoundType
<1>4. TypeOK'
  BY <1>0, <1>1, <1>2, <1>3 DEF TypeOK, fixed
<1>5. WarmUpPending' /\ Accepted' /\ Done'
  BY <1>0, <1>1 DEF WarmUpPending, Accepted, Done
<1>6. OneRequest'
  <2>1. non_aggregates \in Seq(ReportType)
    BY <1>0 DEF TypeOK
  <2>2. Len(non_aggregates') = Len(non_aggregates) + 1
    BY <1>1, <1>2, <2>1
  <2>3. \A k \in 1 .. Len(non_aggregates) : non_aggregates'[k] = non_aggregates[k]
    BY <1>1, <1>2, <2>1
  <2>4. non_aggregates'[Len(non_aggregates) + 1] = CreateRunReport
    BY <1>1, <1>2, <2>1
  <2>5. Len(non_aggregates) \in Nat
    BY <2>1
  <2> QED
    BY <1>1, <1>2, <2>2, <2>3, <2>4, <2>5 DEF RunnerInv, OneRequest
<1>7. FirstLongEnough'
  <2>1. non_aggregates \in Seq(ReportType) /\ Len(non_aggregates) = num_repetitions_done
    BY <1>0 DEF RunnerInv, OneRequest, TypeOK
  <2>2. CASE num_repetitions_done # 0
    <3>1. non_aggregates'[1] = non_aggregates[1]
      BY <1>1, <1>2, <2>1, <2>2
    <3> QED
      BY <1>1, <2>2, <3>1, FixedStays DEF RunnerInv, FirstLongEnough
  <2>3. CASE num_repetitions_done = 0
    <3>1. non_aggregates'[1] = CreateRunReport
      BY <1>1, <1>2, <2>1, <2>3
    <3>2. ASSUME ~i.skipped, ~has_explicit_iteration_count, ~flags.dry_run
          PROVE  LongEnough(i) /\ iters <= i.iters
      BY <1>0, <2>3, <3>2, AcceptedIsLongEnough DEF RunnerInv, Done
    <3>3. /\ non_aggregates'[1].skipped = i.skipped
          /\ non_aggregates'[1].long_enough = LongEnough(i)
          /\ non_aggregates'[1].requested = iters
          /\ non_aggregates'[1].iterations = i.iters
      BY <3>1 DEF CreateRunReport
    <3>4. flags' = flags /\ has_explicit_iteration_count' = has_explicit_iteration_count
      BY <1>1, FixedStays
    <3> QED
      BY <3>2, <3>3, <3>4, Zenon DEF FirstLongEnough
  <2> QED
    BY <2>2, <2>3
<1> QED
  BY <1>4, <1>5, <1>6, <1>7 DEF RunnerInv

\* Every step of the runner keeps the invariant: one lemma per kind of step.
THEOREM RunnerInductive == RunnerInv /\ [Next]_vars => RunnerInv'
<1> SUFFICES ASSUME RunnerInv, [Next]_vars
             PROVE  RunnerInv'
  OBVIOUS
<1>1. CASE GetResults
  <2>1. TypeOK'
    BY <1>1 DEF RunnerInv, TypeOK, GetResults, fixed
  <2>2. WarmUpPending' /\ OneRequest' /\ Accepted'
    BY <1>1 DEF RunnerInv, WarmUpPending, OneRequest, Accepted, GetResults
  <2>3. Done' /\ FirstLongEnough'
    BY <1>1, NoReportAdded DEF RunnerInv, Done, GetResults
  <2> QED
    BY <2>1, <2>2, <2>3 DEF RunnerInv
<1>2. CASE UNCHANGED vars
  <2>1. TypeOK'
    BY <1>2 DEF RunnerInv, TypeOK, vars
  <2>2. WarmUpPending' /\ OneRequest'
    BY <1>2 DEF RunnerInv, WarmUpPending, OneRequest, vars, InitialIters
  <2>3. UNCHANGED <<pc, i, warmup_done, num_repetitions_done>> /\ UNCHANGED fixed
    BY <1>2 DEF vars, fixed
  <2>4. ShouldReport(i)' <=> ShouldReport(i)
    BY <2>3, FixedStays DEF ShouldReport, GetMinTimeToApply
  <2>5. Accepted'
    BY <2>3, <2>4, FixedStays DEF RunnerInv, Accepted
  <2>6. Done' /\ FirstLongEnough'
    BY <1>2, NoReportAdded DEF RunnerInv, Done, vars, fixed
  <2> QED
    BY <2>1, <2>2, <2>5, <2>6 DEF RunnerInv
<1> QED
  BY <1>1, <1>2, BeginRepetitionKeeps, WarmUpRoundKeeps, MeasuredRoundKeeps,
     ExtraPassKeeps, ReportKeeps DEF Next, Stopped

\* The invariant holds in every reachable state of the runner.
THEOREM RunnerInvariant == Spec => []RunnerInv
  BY RunnerInitial, RunnerInductive, PTL DEF Spec

-----------------------------------------------------------------------------
\* The state of a runner keeps its type, whatever is registered and measured.
THEOREM RunnerTypeCorrect == Spec => []TypeOK
<1>1. RunnerInv => TypeOK
  BY DEF RunnerInv
<1> QED
  BY <1>1, RunnerInvariant, PTL

\* All repetitions are asked for the iteration count the first one settled on, so
\* the warm-up and the search leave no trace in the later ones.
THEOREM SameRequestCorrect == Spec => []SameRequest
<1>1. RunnerInv => SameRequest
  <2> SUFFICES ASSUME RunnerInv, NEW k \in 1 .. Len(non_aggregates)
               PROVE  non_aggregates[k].requested = non_aggregates[1].requested
    BY DEF SameRequest
  <2>1. 1 \in 1 .. Len(non_aggregates)
    BY DEF RunnerInv, TypeOK
  <2> QED
    BY <2>1 DEF RunnerInv, OneRequest
<1> QED
  BY <1>1, RunnerInvariant, PTL

\* Every report that was not skipped, of whatever repetition, was asked for a count with
\* which the first repetition ran long enough, unless that was skipped.
THEOREM CountFoundCorrect == Spec => []CountFound
<1>1. RunnerInv => CountFound
  <2> SUFFICES ASSUME RunnerInv, ~has_explicit_iteration_count, ~flags.dry_run,
                      NEW k \in Kept, ~non_aggregates[1].skipped
               PROVE  /\ non_aggregates[1].long_enough
                      /\ non_aggregates[k].requested = non_aggregates[1].requested
                      /\ non_aggregates[1].requested <= non_aggregates[1].iterations
    BY DEF CountFound
  <2>1. k \in 1 .. Len(non_aggregates) /\ 1 \in 1 .. Len(non_aggregates)
    BY DEF RunnerInv, TypeOK, Kept
  <2>2. non_aggregates[k].requested = iters /\ non_aggregates[1].requested = iters
    BY <2>1 DEF RunnerInv, OneRequest
  <2>3. num_repetitions_done # 0
    BY <2>1 DEF RunnerInv, OneRequest
  <2> QED
    BY <2>2, <2>3 DEF RunnerInv, FirstLongEnough
<1> QED
  BY <1>1, RunnerInvariant, PTL

\* The assertions of RunWarmUp and DoOneRepetition hold: a search step always asks
\* for more than was run, up to the limit, for all times a round may take.
THEOREM IterationsGrowCorrect == Spec => IterationsGrow
<1>1. RunnerInv /\ [Next]_vars =>
        [Searching /\ pc' = pc => iters' > i'.iters /\ iters' <= kMaxIterations]_vars
  <2> SUFFICES ASSUME RunnerInv, Next, Searching, pc' = pc, vars' # vars
               PROVE  iters' > i'.iters /\ iters' <= kMaxIterations
    OBVIOUS
  <2>1. TypeOK /\ iters \in Nat
    BY DEF RunnerInv, TypeOK
  <2>2. CASE WarmUpRound
    <3>1. pc = "warmup" /\ \E r \in Rounds(iters) :
             i' = r /\ ~ShouldReport(r) /\ iters' = PredictNumItersNeeded(r)
      BY <2>2 DEF WarmUpRound
    <3> QED
      BY <2>1, <3>1, RoundsType, PredictionGrows
  <2>3. CASE MeasuredRound
    <3>1. \E r \in Rounds(iters) :
             i' = r /\ ~ShouldReport(r) /\ iters' = PredictNumItersNeeded(r)
      BY <2>3 DEF MeasuredRound, Significant
    <3> QED
      BY <2>1, <3>1, RoundsType, PredictionGrows
  <2> QED
    BY <2>2, <2>3 DEF Next, Searching, BeginRepetition, RunMemoryManager,
       RunProfilerManager, Report, GetResults, Stopped
<1> QED
  BY <1>1, RunnerInvariant, PTL DEF Spec, IterationsGrow

\* After the warm-up the count is the constructor's, as if it never happened.
THEOREM WarmUpRestoresCorrect == Spec => WarmUpRestores
<1>1. RunnerInv /\ [Next]_vars =>
        [warmup_done' # warmup_done => iters' = InitialIters(b, flags)]_vars
  <2> SUFFICES ASSUME RunnerInv, Next, warmup_done' # warmup_done
               PROVE  iters' = InitialIters(b, flags)
    OBVIOUS
  <2>1. WarmUpRound
    BY DEF Next, BeginRepetition, MeasuredRound, RunMemoryManager,
       RunProfilerManager, Report, GetResults, Stopped, vars
  <2>2. pc = "warmup" /\ FinishWarmUp
    BY <2>1 DEF WarmUpRound
  <2> QED
    BY <2>2 DEF RunnerInv, WarmUpPending, FinishWarmUp
<1> QED
  BY <1>1, RunnerInvariant, PTL DEF Spec, WarmUpRestores
=============================================================================
