-------------------------- MODULE RunBenchmarksProofs --------------------------
(***************************************************************************)
(* What holds of RunBenchmarks for every list of instances, order of their *)
(* repetitions, choice of reporters and number of suites.                  *)
(*                                                                         *)
(* An instance is reported between its last repetition and the next step of*)
(* any other: the invariant says of every instance on which side of that it*)
(* is, and of a JSON reporter what it has written by then.                 *)
(*                                                                         *)
(* What the code counts for a family is a sum over its instances. It is    *)
(* shown to be the number of the family's repetitions as a set, so that two*)
(* counts that are equal stand for two sets that are.                      *)
(***************************************************************************)
EXTENDS RunBenchmarks, TLAPS, FiniteSetTheorems, WellFoundedInduction

Reporters == {"display", "file"}

Types ==
  /\ suite \in Nat \ {0}
  /\ pc \in {"context", "running", "repeated", "finalize", "done",
             "null statistics", "front of empty"}
  /\ non_aggregates \in [Instances -> Seq(BOOLEAN)]
  /\ \A b \in Instances : num_repetitions_done(b) <= Repeats(b)
  /\ pc = "repeated" => current \in Instances
  /\ refused \in {"none", "display", "file"}
  /\ pc \notin {"finalize", "done"} => refused = "none"
  /\ reported \in [Reporters -> [Instances -> [non_aggregates : Nat, aggregates : Nat]]]

\* The last repetition is done, and the report is still to come or has crashed.
BeforeReport(b) == current = b /\ pc \in {"repeated", "null statistics", "front of empty"}

AllDone(b) == num_repetitions_done(b) = Repeats(b)

\* What a reporter was told of an instance is complete, and nothing was said twice.
ToldAll(told, b) ==
  /\ told.non_aggregates <= 1 /\ told.aggregates <= 1
  /\ told.non_aggregates + told.aggregates >= 1
  /\ Kept(b) >= 2 => told.aggregates = 1

\* Nobody is told before the report, and everybody is told by it.
ToldByReport ==
  \A who \in Reporters : \A b \in Instances :
    /\ ~AllDone(b) \/ BeforeReport(b) => reported[who][b] = NotReported
    /\ AllDone(b) /\ ~BeforeReport(b) /\ (who = "file" => HasFileReporter)
         => ToldAll(reported[who][b], b)

\* A reporter has reported runs in this suite, and began its document.
ToldAny(who) == \E b \in Instances : reported[who][b] # NotReported

Opened(who) == pc # "context" /\ (refused = "none" \/ (who = "display" /\ refused = "file"))

\* Where the JSON document of a reporter in use can be, in any suite: what is in it
\* follows from whether it was opened, whether there were runs, and whether the reporter
\* had reported runs before.
JsonFollows(rep, who) ==
  LET told == ToldAny(who)
      spoilt == told /\ rep.reported_before
  IN  /\ rep \in R!ReporterType
      /\ ~told => rep.reported_before = ~rep.first_report_
      /\ told => Opened(who) /\ ~rep.first_report_
      /\ pc # "done" => rep.written = IF ~Opened(who) THEN "none"
                                      ELSE IF ~told THEN "open"
                                      ELSE IF spoilt THEN "malformed" ELSE "items"
      /\ pc = "done" => rep.written = IF ~Opened(who) THEN "unopened"
                                      ELSE IF spoilt THEN "malformed" ELSE "closed"

JsonInv ==
  /\ JsonFollows(display_reporter, "display")
  /\ file_reporter \in R!ReporterType
  /\ HasFileReporter => JsonFollows(file_reporter, "file")

ReportInv == Types /\ ToldByReport /\ JsonInv

-----------------------------------------------------------------------------
\* How the reporters change, for all the calls of this module.
LEMMA ReportersType ==
  ASSUME NEW rep \in R!ReporterType, NEW n
  PROVE  /\ R!NewReporter \in R!ReporterType
         /\ R!ReportContext(rep) \in R!ReporterType
         /\ R!ReportRuns(rep, n) \in R!ReporterType
         /\ R!Finalize(rep) \in R!ReporterType
         /\ R!NewDocument(rep) \in R!ReporterType
  BY DEF R!NewReporter, R!ReporterType, R!Written, R!ReportContext, R!ReportRuns, R!Finalize,
         R!NewDocument

\* A document that is open, and what a reporter's life so far says of its beginning.
Continued(rep) ==
  /\ rep \in R!ReporterType
  /\ rep.written \in {"open", "items", "malformed"}
  /\ rep.written = "open" => rep.reported_before = ~rep.first_report_
  /\ rep.written = "items" => ~rep.first_report_ /\ ~rep.reported_before
  /\ rep.written = "malformed" => ~rep.first_report_ /\ rep.reported_before

\* A call with runs puts them into the list, after a comma unless they are the first of
\* the reporter's life; a call without does nothing.
LEMMA RunsFollow ==
  ASSUME NEW rep, Continued(rep), NEW n
  PROVE  LET after == R!ReportRuns(rep, n)
         IN /\ n = 0 => after = rep
            /\ Continued(after) /\ after.reported_before = rep.reported_before
            /\ rep.written # "open" => after.written # "open"
            /\ n # 0 => after.written # "open"
  BY DEF Continued, R!ReporterType, R!Written, R!ReportRuns

\* Nothing has been said yet.
LEMMA NothingTold ==
  /\ NotReported \in [non_aggregates : Nat, aggregates : Nat]
  /\ \A b \in Instances : Repeats(b) \in Nat \ {0}
<1>1. NotReported \in [non_aggregates : Nat, aggregates : Nat]
  BY DEF NotReported
<1>2. ASSUME NEW b \in Instances
      PROVE  Repeats(b) \in Nat \ {0}
  <2> DEFINE B == [family : Nat, complexity : BOOLEAN, repeats : Nat \ {0},
                   display : BOOLEAN, file : BOOLEAN]
  <2>1. benchmarks[b] \in B
    <3>1. benchmarks \in Seq(B)
      BY BenchmarksAssumption
    <3> HIDE DEF B
    <3> QED
      BY <1>2, <3>1 DEF Instances
  <2> QED
    BY <2>1 DEF Repeats
<1> QED
  BY <1>1, <1>2

\* The calls of one report: some, each at most once, the statistics if there are any.
LEMMA CallsTell ==
  ASSUME NEW b \in Instances, NEW only
  PROVE  LET told == Told(NotReported, Calls(b, only))
         IN /\ told \in [non_aggregates : Nat, aggregates : Nat] /\ ToldAll(told, b)
            /\ Calls(b, only).non_aggregates # 0 \/ Calls(b, only).aggregates # 0
<1> DEFINE aggregates == HasStats(b) \/ HasBigO(b)
           calls == Calls(b, only)
           told == Told(NotReported, calls)
<1>1. /\ calls.non_aggregates = IF only /\ aggregates THEN 0 ELSE 1
      /\ calls.aggregates = IF aggregates THEN 1 ELSE 0
  BY Zenon DEF Calls
<1>2. Kept(b) >= 2 => aggregates
  BY DEF HasStats
<1> HIDE DEF aggregates, calls
<1>3. /\ calls.non_aggregates \in {0, 1} /\ calls.aggregates \in {0, 1}
      /\ calls.non_aggregates = 0 => calls.aggregates = 1
      /\ aggregates => calls.aggregates = 1
  BY <1>1
<1>4. told = [non_aggregates |-> calls.non_aggregates, aggregates |-> calls.aggregates]
  BY <1>3 DEF Told, NotReported
<1>5. told \in [non_aggregates : Nat, aggregates : Nat]
  BY <1>3, <1>4
<1> HIDE DEF told
<1>6. ToldAll(told, b)
  BY <1>2, <1>3, <1>4 DEF ToldAll
<1> QED
  BY <1>3, <1>5, <1>6 DEF told, calls

-----------------------------------------------------------------------------
\* A suite begins with nothing done, told or written.
THEOREM RunBenchmarksInitial == Init => ReportInv
<1> SUFFICES ASSUME Init
             PROVE  ReportInv
  OBVIOUS
<1>1. Types
  <2>1. \A b \in Instances : num_repetitions_done(b) = 0
    BY DEF Init, num_repetitions_done
  <2>2. non_aggregates \in [Instances -> Seq(BOOLEAN)]
    BY DEF Init
  <2>3. reported \in [Reporters -> [Instances -> [non_aggregates : Nat, aggregates : Nat]]]
    BY NothingTold DEF Init, Reporters
  <2> QED
    BY <2>1, <2>2, <2>3, NothingTold DEF Init, Types
<1>2. ToldByReport
  <2>1. \A b \in Instances : ~AllDone(b)
    BY NothingTold DEF Init, num_repetitions_done, AllDone
  <2> QED
    BY <2>1 DEF Init, ToldByReport, Reporters
<1>3. JsonInv
  BY DEF Init, JsonInv, JsonFollows, ToldAny, Opened, R!NewReporter, R!ReporterType,
         R!Written
<1> QED
  BY <1>1, <1>2, <1>3 DEF ReportInv

\* A step that does not report, repeat or begin leaves the instances alone.
LEMMA InstancesLeftAlone ==
  ASSUME ReportInv, UNCHANGED <<suite, non_aggregates, reported, current>>,
         refused' \in {"none", "display", "file"},
         pc' \notin {"finalize", "done"} => refused' = "none",
         pc' \in {"running", "repeated", "finalize", "done", "null statistics",
                  "front of empty"},
         pc' = "repeated" => pc = "repeated",
         \A b \in Instances : BeforeReport(b) => BeforeReport(b)' \/ ~AllDone(b),
         \A b \in Instances : BeforeReport(b)' => BeforeReport(b)
  PROVE  Types' /\ ToldByReport'
<1>1. Types'
  BY DEF ReportInv, Types, num_repetitions_done
<1>2. \A b \in Instances : (AllDone(b)' <=> AllDone(b)) /\ Kept(b)' = Kept(b)
  BY DEF AllDone, num_repetitions_done, Kept
<1>3. ToldByReport'
  <2> SUFFICES ASSUME NEW who \in Reporters, NEW b \in Instances
               PROVE  /\ ~AllDone(b)' \/ BeforeReport(b)' => reported'[who][b] = NotReported
                      /\ AllDone(b)' /\ ~BeforeReport(b)' /\ (who = "file" => HasFileReporter)
                           => ToldAll(reported[who][b], b)'
    BY DEF ToldByReport
  <2>1. ~AllDone(b)' \/ BeforeReport(b)' => reported'[who][b] = NotReported
    BY <1>2 DEF ReportInv, ToldByReport
  <2>2. ToldAll(reported[who][b], b) => ToldAll(reported[who][b], b)'
    BY <1>2 DEF ToldAll
  <2>3. AllDone(b)' /\ ~BeforeReport(b)' /\ (who = "file" => HasFileReporter)
          => ToldAll(reported[who][b], b)'
    BY <1>2, <2>2 DEF ReportInv, ToldByReport
  <2> QED
    BY <2>1, <2>3
<1> QED
  BY <1>1, <1>3

\* A step that leaves the reporters alone and stays within the suite.
LEMMA ReportersLeftAlone ==
  ASSUME ReportInv, UNCHANGED <<reported, refused, display_reporter, file_reporter>>,
         pc' # "context" /\ pc # "context", (pc' = "done") = (pc = "done")
  PROVE  JsonInv'
<1>1. \A who \in Reporters : (ToldAny(who)' <=> ToldAny(who)) /\ (Opened(who)' <=> Opened(who))
  BY DEF ToldAny, Opened
<1>2. ASSUME NEW rep, NEW who \in Reporters, JsonFollows(rep, who)
      PROVE  JsonFollows(rep, who)'
  BY <1>1, <1>2 DEF JsonFollows
<1> QED
  BY <1>2 DEF ReportInv, JsonInv, Reporters

\* Both reporters, or neither, begin; without a refusal the runners are made.
LEMMA ReportContextKeeps ==
  ASSUME ReportInv, ReportContext
  PROVE  ReportInv'
<1>1. /\ pc = "context" /\ pc' \in {"running", "finalize"} /\ UNCHANGED reported
      /\ refused' \in {"none", "display", "file"} /\ (pc' = "running" <=> refused' = "none")
  BY DEF ReportContext, Refusals
<1>2. Types' /\ ToldByReport'
  BY <1>1, InstancesLeftAlone DEF ReportContext, BeforeReport
<1>3. \A who \in Reporters : (ToldAny(who)' <=> ToldAny(who)) /\ ~Opened(who)
  BY <1>1 DEF ToldAny, Opened
<1>4. /\ Opened("display")' <=> refused' # "display"
      /\ Opened("file")' <=> refused' = "none"
  BY <1>1 DEF Opened
<1>5. ASSUME NEW rep, NEW who \in Reporters, JsonFollows(rep, who)
      PROVE  /\ rep \in R!ReporterType /\ rep.written = "none" /\ ~ToldAny(who)
             /\ rep.reported_before = ~rep.first_report_
             /\ R!ReportContext(rep) \in R!ReporterType
             /\ R!ReportContext(rep).written = "open"
             /\ R!ReportContext(rep).reported_before = ~R!ReportContext(rep).first_report_
  <2>1. rep \in R!ReporterType /\ rep.written = "none" /\ ~ToldAny(who)
    BY <1>1, <1>3, <1>5 DEF JsonFollows
  <2>2. rep.reported_before = ~rep.first_report_
    BY <1>5, <2>1 DEF JsonFollows
  <2> QED
    BY <2>1, <2>2 DEF R!ReporterType, R!Written, R!ReportContext
<1>6. JsonFollows(display_reporter, "display")'
  <2>1. JsonFollows(display_reporter, "display") /\ "display" \in Reporters
    BY DEF ReportInv, JsonInv, Reporters
  <2>2. display_reporter' = IF refused' # "display" THEN R!ReportContext(display_reporter)
                            ELSE display_reporter
    BY DEF ReportContext
  <2> QED
    BY <1>1, <1>3, <1>4, <1>5, <2>1, <2>2 DEF JsonFollows
<1>7. file_reporter' \in R!ReporterType
  BY ReportersType DEF ReportContext, ReportInv, JsonInv
<1>8. HasFileReporter => JsonFollows(file_reporter, "file")'
  <2> SUFFICES ASSUME HasFileReporter
               PROVE  JsonFollows(file_reporter, "file")'
    OBVIOUS
  <2>1. JsonFollows(file_reporter, "file") /\ "file" \in Reporters
    BY DEF ReportInv, JsonInv, Reporters
  <2>2. file_reporter' = IF refused' = "none" THEN R!ReportContext(file_reporter)
                         ELSE file_reporter
    BY DEF ReportContext
  <2> QED
    BY <1>1, <1>3, <1>4, <1>5, <2>1, <2>2 DEF JsonFollows
<1> QED
  BY <1>2, <1>6, <1>7, <1>8 DEF ReportInv, JsonInv

\* A repetition is of an instance that was not complete, and so not reported.
LEMMA DoOneRepetitionKeeps ==
  ASSUME ReportInv, NEW b \in Instances, DoOneRepetition(b)
  PROVE  ReportInv'
<1> PICK skipped \in BOOLEAN :
      non_aggregates' = [non_aggregates EXCEPT ![b] = Append(@, skipped)]
  BY DEF DoOneRepetition
<1>1. /\ pc = "running" /\ pc' = "repeated" /\ current' = b
      /\ UNCHANGED <<suite, reported, refused, display_reporter, file_reporter>>
  BY DEF DoOneRepetition, reporters
<1>2. /\ non_aggregates \in [Instances -> Seq(BOOLEAN)]
      /\ num_repetitions_done(b) < Repeats(b)
  BY DEF ReportInv, Types, DoOneRepetition, Remaining
<1>3. /\ non_aggregates' \in [Instances -> Seq(BOOLEAN)]
      /\ num_repetitions_done(b)' = num_repetitions_done(b) + 1
      /\ num_repetitions_done(b) \in Nat
      /\ \A c \in Instances \ {b} : non_aggregates'[c] = non_aggregates[c]
  BY <1>2 DEF num_repetitions_done
<1>4. Types'
  <2>1. \A c \in Instances : num_repetitions_done(c)' <= Repeats(c)
    <3>1. num_repetitions_done(b)' <= Repeats(b)
      BY <1>2, <1>3, NothingTold
    <3>2. \A c \in Instances \ {b} : num_repetitions_done(c)' = num_repetitions_done(c)
      BY <1>3 DEF num_repetitions_done
    <3> QED
      BY <3>1, <3>2 DEF ReportInv, Types
  <2> QED
    BY <1>1, <1>3, <2>1 DEF ReportInv, Types, Repeats
<1>5. ToldByReport'
  <2> SUFFICES ASSUME NEW who \in Reporters, NEW c \in Instances
               PROVE  /\ ~AllDone(c)' \/ BeforeReport(c)' => reported'[who][c] = NotReported
                      /\ AllDone(c)' /\ ~BeforeReport(c)' /\ (who = "file" => HasFileReporter)
                           => ToldAll(reported[who][c], c)'
    BY DEF ToldByReport
  <2>1. CASE c = b
    <3>1. ~AllDone(b)
      BY <1>2, <1>3, NothingTold DEF AllDone
    <3>2. reported'[who][b] = NotReported
      BY <1>1, <3>1 DEF ReportInv, ToldByReport
    <3> QED
      BY <1>1, <2>1, <3>2 DEF BeforeReport
  <2>2. CASE c # b
    <3>1. (AllDone(c)' <=> AllDone(c)) /\ Kept(c)' = Kept(c)
      BY <1>3, <2>2 DEF AllDone, num_repetitions_done, Kept
    <3>2. ~BeforeReport(c)' /\ ~BeforeReport(c)
      BY <1>1, <2>2 DEF BeforeReport
    <3>3. ToldAll(reported[who][c], c) => ToldAll(reported[who][c], c)'
      BY <1>1, <3>1 DEF ToldAll
    <3> QED
      BY <1>1, <3>1, <3>2, <3>3 DEF ReportInv, ToldByReport
  <2> QED
    BY <2>1, <2>2
<1>6. JsonInv'
  BY <1>1, ReportersLeftAlone
<1> QED
  BY <1>4, <1>5, <1>6 DEF ReportInv

\* The report: every reporter in use is told all of it, and only now.
LEMMA ReportInstanceKeeps ==
  ASSUME ReportInv, ReportInstance
  PROVE  ReportInv'
<1> DEFINE b == current
           display == Calls(b, benchmarks[b].display)
           file == Calls(b, benchmarks[b].file)
<1>1. /\ pc = "repeated" /\ pc' = "running" /\ b \in Instances /\ AllDone(b)
      /\ refused = "none" /\ UNCHANGED <<suite, non_aggregates, current, refused>>
  BY DEF ReportInv, Types, ReportInstance, HasRepeatsRemaining, AllDone
<1>2. \A who \in Reporters : reported[who][b] = NotReported
  BY <1>1 DEF ReportInv, ToldByReport, BeforeReport
<1>3. /\ reported' = [reported EXCEPT
                        !["display"][b] = Told(@, display),
                        !["file"][b] = IF HasFileReporter THEN Told(@, file) ELSE @]
      /\ display_reporter' = AfterCalls(display_reporter, display)
      /\ file_reporter' = IF HasFileReporter THEN AfterCalls(file_reporter, file)
                          ELSE file_reporter
  BY Zenon DEF ReportInstance, Report
<1>4. /\ Told(NotReported, display) \in [non_aggregates : Nat, aggregates : Nat]
      /\ Told(NotReported, file) \in [non_aggregates : Nat, aggregates : Nat]
      /\ ToldAll(Told(NotReported, display), b) /\ ToldAll(Told(NotReported, file), b)
      /\ display.non_aggregates # 0 \/ display.aggregates # 0
      /\ file.non_aggregates # 0 \/ file.aggregates # 0
  BY <1>1, CallsTell, Zenon
<1>5. reported \in [Reporters -> [Instances -> [non_aggregates : Nat, aggregates : Nat]]]
  BY DEF ReportInv, Types
<1>6. /\ reported' \in [Reporters -> [Instances -> [non_aggregates : Nat, aggregates : Nat]]]
      /\ reported'["display"][b] = Told(NotReported, display)
      /\ HasFileReporter => reported'["file"][b] = Told(NotReported, file)
      /\ \A who \in Reporters : \A c \in Instances \ {b} : reported'[who][c] = reported[who][c]
  <2> HIDE DEF display, file, b
  <2>1. "display" \in Reporters /\ "file" \in Reporters /\ "display" # "file"
    BY DEF Reporters
  <2> QED
    BY <1>1, <1>2, <1>3, <1>4, <1>5, <2>1 DEF Reporters
<1>7. Types'
  BY <1>1, <1>6 DEF ReportInv, Types, num_repetitions_done
<1>8. ToldByReport'
  <2> SUFFICES ASSUME NEW who \in Reporters, NEW c \in Instances
               PROVE  /\ ~AllDone(c)' \/ BeforeReport(c)' => reported'[who][c] = NotReported
                      /\ AllDone(c)' /\ ~BeforeReport(c)' /\ (who = "file" => HasFileReporter)
                           => ToldAll(reported[who][c], c)'
    BY DEF ToldByReport
  <2>1. (AllDone(c)' <=> AllDone(c)) /\ Kept(c)' = Kept(c) /\ ~BeforeReport(c)'
    BY <1>1 DEF AllDone, num_repetitions_done, Kept, BeforeReport
  <2>2. \A told : ToldAll(told, c) => ToldAll(told, c)'
    BY <2>1 DEF ToldAll
  <2>3. CASE c = b
    BY <1>1, <1>4, <1>6, <2>1, <2>2, <2>3 DEF Reporters, ToldAll
  <2>4. CASE c # b
    <3>1. reported'[who][c] = reported[who][c] /\ ~BeforeReport(c)
      BY <1>6, <2>4 DEF BeforeReport
    <3> QED
      BY <2>1, <2>2, <3>1 DEF ReportInv, ToldByReport, ToldAll
  <2> QED
    BY <2>3, <2>4
<1>9. JsonInv'
  <2>1. /\ JsonFollows(display_reporter, "display") /\ file_reporter \in R!ReporterType
        /\ HasFileReporter => JsonFollows(file_reporter, "file")
    BY DEF ReportInv, JsonInv
  <2>2. \A who \in Reporters : Opened(who) /\ Opened(who)'
    BY <1>1 DEF Opened
  <2>3. ASSUME NEW told, ToldAll(told, b)
        PROVE  told # NotReported
    BY <2>3 DEF ToldAll, NotReported
  <2>4. /\ ToldAny("display")'
        /\ HasFileReporter => ToldAny("file")'
    <3>1. /\ Told(NotReported, display) # NotReported
          /\ Told(NotReported, file) # NotReported
      BY <1>4, <2>3, Zenon
    <3> HIDE DEF display, file
    <3> QED
      BY <1>1, <1>6, <3>1 DEF ToldAny
  <2>5. ASSUME NEW rep, NEW who \in Reporters, JsonFollows(rep, who), NEW calls,
               calls.non_aggregates # 0 \/ calls.aggregates # 0
        PROVE  LET after == AfterCalls(rep, calls)
               IN  after \in R!ReporterType /\ ~after.first_report_ /\ after.written =
                     IF after.reported_before THEN "malformed" ELSE "items"
    <3> DEFINE first == R!ReportRuns(rep, calls.non_aggregates)
               after == R!ReportRuns(first, calls.aggregates)
    <3>1. Continued(rep)
      BY <1>1, <2>2, <2>5 DEF JsonFollows, Continued
    <3>2. /\ Continued(first)
          /\ calls.non_aggregates # 0 => first.written # "open"
      BY <3>1, RunsFollow
    <3> HIDE DEF first
    <3>3. /\ Continued(after)
          /\ first.written # "open" => after.written # "open"
          /\ calls.aggregates # 0 => after.written # "open"
      BY <3>2, RunsFollow
    <3>4. AfterCalls(rep, calls) = after
      BY DEF AfterCalls, first
    <3> HIDE DEF after
    <3>5. Continued(after) /\ after.written # "open"
      BY <2>5, <3>2, <3>3
    <3> QED
      BY <3>4, <3>5 DEF Continued
  <2> HIDE DEF display, file
  <2>6. ASSUME NEW rep, NEW who \in Reporters, ToldAny(who)', rep \in R!ReporterType,
               ~rep.first_report_,
               rep.written = IF rep.reported_before THEN "malformed" ELSE "items"
        PROVE  JsonFollows(rep, who)'
    BY <1>1, <2>2, <2>6 DEF JsonFollows
  <2>7. JsonFollows(display_reporter, "display")'
    BY <1>3, <1>4, <2>1, <2>4, <2>5, <2>6 DEF Reporters
  <2>8. HasFileReporter => JsonFollows(file_reporter, "file")'
    BY <1>3, <1>4, <2>1, <2>4, <2>5, <2>6 DEF Reporters
  <2>9. file_reporter' \in R!ReporterType
    BY <1>3, <2>1, <2>8 DEF JsonFollows
  <2> QED
    BY <2>7, <2>8, <2>9 DEF JsonInv
<1> QED
  BY <1>7, <1>8, <1>9 DEF ReportInv

\* The document ends, whatever it holds.
LEMMA FinalizeKeeps ==
  ASSUME ReportInv, Finalize
  PROVE  ReportInv'
<1>1. pc = "finalize" /\ pc' = "done" /\ UNCHANGED <<reported, refused>>
  BY DEF Finalize
<1>2. Types' /\ ToldByReport'
  <2>1. refused' \in {"none", "display", "file"}
    BY <1>1 DEF ReportInv, Types
  <2> QED
    BY <1>1, <2>1, InstancesLeftAlone DEF Finalize, BeforeReport
<1>3. \A who \in Reporters :
        (ToldAny(who)' <=> ToldAny(who)) /\ (Opened(who)' <=> Opened(who))
  BY <1>1 DEF ToldAny, Opened
<1>4. ASSUME NEW rep, NEW ended, NEW who \in Reporters, JsonFollows(rep, who),
             ended = R!Finalize(rep)
      PROVE  JsonFollows(ended, who)'
  <2>1. rep \in R!ReporterType
    BY <1>4 DEF JsonFollows
  <2>2. /\ ended \in R!ReporterType /\ ended.first_report_ = rep.first_report_
        /\ ended.reported_before = rep.reported_before
        /\ ended.written = IF rep.written \in {"open", "items"} THEN "closed"
                           ELSE IF rep.written = "none" THEN "unopened" ELSE "malformed"
    BY <1>4, <2>1 DEF R!Finalize, R!ReporterType, R!Written
  <2> QED
    BY <1>1, <1>3, <1>4, <2>2 DEF JsonFollows
<1>5. JsonInv'
  <2>1. JsonFollows(display_reporter, "display")'
    BY <1>4 DEF ReportInv, JsonInv, Finalize, Reporters
  <2>2. HasFileReporter => JsonFollows(file_reporter, "file")'
    BY <1>4 DEF ReportInv, JsonInv, Finalize, Reporters
  <2>3. file_reporter' \in R!ReporterType
    BY ReportersType DEF ReportInv, JsonInv, Finalize
  <2> QED
    BY <2>1, <2>2, <2>3 DEF JsonInv
<1> QED
  BY <1>2, <1>5 DEF ReportInv

\* Another suite: everything but the reporters begins again.
LEMMA NextSuiteKeeps ==
  ASSUME ReportInv, NextSuite
  PROVE  ReportInv'
<1>1. suite \in Nat \ {0} /\ suite' = suite + 1
  BY DEF ReportInv, Types, NextSuite
<1>2. /\ \A b \in Instances : num_repetitions_done(b)' = 0
      /\ non_aggregates' \in [Instances -> Seq(BOOLEAN)]
  BY DEF NextSuite, num_repetitions_done
<1>3. Types'
  <2>1. reported' \in [Reporters -> [Instances -> [non_aggregates : Nat, aggregates : Nat]]]
    BY NothingTold DEF NextSuite, Reporters
  <2> QED
    BY <1>1, <1>2, <2>1, NothingTold DEF NextSuite, Types
<1>4. ToldByReport'
  <2>1. \A b \in Instances : ~AllDone(b)'
    BY <1>2, NothingTold DEF AllDone, Repeats
  <2> QED
    BY <2>1 DEF NextSuite, ToldByReport, Reporters
<1>5. pc' = "context"
  BY DEF NextSuite
<1>6. JsonInv'
  <2>1. \A who \in Reporters : ~ToldAny(who)' /\ ~Opened(who)'
    BY DEF NextSuite, ToldAny, Opened, Reporters
  <2>2. ASSUME NEW rep, NEW who \in Reporters, rep \in R!ReporterType,
               NEW new, new = R!NewDocument(rep)
        PROVE  JsonFollows(new, who)'
    <3>1. /\ new \in R!ReporterType /\ new.written = "none"
          /\ new.reported_before = ~new.first_report_
      BY <2>2 DEF R!NewDocument, R!ReporterType, R!Written
    <3> QED
      BY <1>5, <2>1, <3>1 DEF JsonFollows
  <2>3. /\ display_reporter \in R!ReporterType /\ file_reporter \in R!ReporterType
        /\ display_reporter' = R!NewDocument(display_reporter)
        /\ file_reporter' = R!NewDocument(file_reporter)
    BY DEF ReportInv, JsonInv, JsonFollows, NextSuite
  <2>4. /\ JsonFollows(display_reporter, "display")' /\ JsonFollows(file_reporter, "file")'
    BY <2>2, <2>3 DEF Reporters
  <2>5. file_reporter' \in R!ReporterType
    BY <2>3, ReportersType
  <2> QED
    BY <2>4, <2>5 DEF JsonInv
<1> QED
  BY <1>3, <1>4, <1>6 DEF ReportInv

\* The steps that only move on.
LEMMA OtherStepsKeep ==
  ASSUME ReportInv,
         NextRepetition \/ CrashInStatistics \/ CrashInErase \/ AllRepetitionsDone
  PROVE  ReportInv'
<1>1. /\ UNCHANGED <<suite, non_aggregates, reported, refused, current, display_reporter,
                     file_reporter>>
      /\ refused \in {"none", "display", "file"} /\ refused = "none"
      /\ pc \in {"running", "repeated"}
      /\ pc' \in {"running", "finalize", "null statistics", "front of empty"}
  BY DEF NextRepetition, CrashInStatistics, CrashInErase, AllRepetitionsDone, reporters,
         ReportInv, Types
<1>2. \A b \in Instances : BeforeReport(b) => BeforeReport(b)' \/ ~AllDone(b)
  BY DEF NextRepetition, CrashInStatistics, CrashInErase, AllRepetitionsDone, BeforeReport,
         HasRepeatsRemaining, AllDone
<1>3. \A b \in Instances : BeforeReport(b)' => BeforeReport(b)
  BY DEF NextRepetition, CrashInStatistics, CrashInErase, AllRepetitionsDone, BeforeReport
<1>4. Types' /\ ToldByReport'
  BY <1>1, <1>2, <1>3, InstancesLeftAlone
<1>5. JsonInv'
  BY <1>1, ReportersLeftAlone
<1> QED
  BY <1>4, <1>5 DEF ReportInv

\* Every step keeps the invariant.
THEOREM RunBenchmarksInductive == ReportInv /\ [Next]_vars => ReportInv'
<1> SUFFICES ASSUME ReportInv, [Next]_vars
             PROVE  ReportInv'
  OBVIOUS
<1>1. CASE ReportContext
  BY <1>1, ReportContextKeeps
<1>2. ASSUME NEW b \in Instances, DoOneRepetition(b)
      PROVE  ReportInv'
  BY <1>2, DoOneRepetitionKeeps
<1>3. CASE ReportInstance
  BY <1>3, ReportInstanceKeeps
<1>4. CASE Finalize
  BY <1>4, FinalizeKeeps
<1>5. CASE NextSuite
  BY <1>5, NextSuiteKeeps
<1>6. CASE NextRepetition \/ CrashInStatistics \/ CrashInErase \/ AllRepetitionsDone
  BY <1>6, OtherStepsKeep
<1>7. CASE UNCHANGED vars
  <2>1. UNCHANGED <<suite, pc, non_aggregates, current, reported, refused,
                    display_reporter, file_reporter>>
    BY <1>7 DEF vars, reporters
  <2>2. Types'
    BY <2>1 DEF ReportInv, Types, num_repetitions_done
  <2>3. ToldByReport'
    BY <2>1 DEF ReportInv, ToldByReport, ToldAll, AllDone, BeforeReport, Kept,
                num_repetitions_done
  <2>4. JsonInv'
    BY <2>1 DEF ReportInv, JsonInv, JsonFollows, ToldAny, Opened
  <2> QED
    BY <2>2, <2>3, <2>4 DEF ReportInv
<1>8. CASE Stopped
  BY <1>7, <1>8 DEF Stopped
<1> QED
  BY <1>1, <1>2, <1>3, <1>4, <1>5, <1>6, <1>7, <1>8 DEF Next

\* The invariant of the reports, of the behaviours.
LEMMA RunBenchmarksInvariant == Spec => []ReportInv
  BY RunBenchmarksInitial, RunBenchmarksInductive, PTL DEF Spec

\* Every instance is reported in bulk and once to every reporter in use, in any order of
\* the repetitions and for any settings of the reporters.
THEOREM ReportedOnceCorrect == Spec => []ReportedOnce
<1>1. ASSUME ReportInv
      PROVE  ReportedOnce
  <2>1. \A who \in Reporters : \A b \in Instances :
          reported[who][b] # NotReported => AllDone(b)
    BY <1>1 DEF ReportInv, ToldByReport
  <2>2. ASSUME pc = "done", Remaining = {}, NEW who \in Reporters,
               who = "file" => HasFileReporter, NEW b \in Instances
        PROVE  ToldAll(reported[who][b], b)
    <3>1. AllDone(b)
      <4>1. num_repetitions_done(b) <= Repeats(b) /\ num_repetitions_done(b) \in Nat
        <5>1. non_aggregates[b] \in Seq(BOOLEAN)
          BY <1>1 DEF ReportInv, Types
        <5>2. Len(non_aggregates[b]) \in Nat
          BY <5>1
        <5> QED
          BY <1>1, <2>2, <5>2, Zenon DEF ReportInv, Types, num_repetitions_done
      <4> QED
        BY <2>2, <4>1, NothingTold DEF Remaining, AllDone
    <3> QED
      BY <1>1, <2>2, <3>1 DEF ReportInv, ToldByReport, BeforeReport
  <2> QED
    BY <2>1, <2>2 DEF ReportedOnce, Reporters, AllDone, ToldAll
<1> QED
  BY <1>1, RunBenchmarksInvariant, PTL

\* The JSON of every suite is one document, with the two exceptions that the property
\* names and no other: a list of a reporter that had reported before begins with a comma,
\* and a file that a refusal kept closed is finalized.
THEOREM JsonCorrect == Spec => []JsonWellFormed
<1>1. ASSUME ReportInv
      PROVE  JsonWellFormed
  <2>1. ASSUME NEW rep, NEW who \in Reporters, JsonFollows(rep, who), refused # who
        PROVE  JsonDocument(rep, who)
    <3>1. pc # "context" => (Opened(who) <=> who = "display" \/ refused = "none")
      BY <1>1, <2>1 DEF Opened, Reporters, ReportInv, Types
    <3>2. pc = "context" => rep.written = "none"
      BY <2>1 DEF JsonFollows, Opened
    <3> QED
      BY <2>1, <3>1, <3>2 DEF JsonFollows, JsonDocument, ToldAny
  <2> QED
    BY <1>1, <2>1 DEF ReportInv, JsonInv, JsonWellFormed, Reporters
<1> QED
  BY <1>1, RunBenchmarksInvariant, PTL

-----------------------------------------------------------------------------
(* What the code counts for a family: NumRunsTotal is a sum over its instances, made by
   a fold. The sum is the number of the repetitions there are, as a set of pairs, and the
   runs that were counted are those of them that are done: the two numbers are equal
   only if the two sets are. *)

\* The repetitions of the instances s, those that have been done, and the instances whose
\* pairs are counted.
Units(s) == {u \in s \X Nat : u[2] \in 1 .. Repeats(u[1])}

DoneUnits(s) == {u \in s \X Nat : u[2] \in 1 .. num_repetitions_done(u[1])}

\* A finite set has a smallest subset with a property that some subset has.
LEMMA SmallestSubset ==
  ASSUME NEW S, IsFiniteSet(S), NEW Bad \in SUBSET (SUBSET S), Bad # {}
  PROVE  \E T \in Bad : \A U \in Bad : U \subseteq T => U = T
<1>1. IsWellFoundedOn(StrictSubsetOrdering(S), SUBSET S)
  BY FS_StrictSubsetOrderingWellFounded, FS_FiniteSubsetsOfFinite
<1>2. \E T \in Bad : \A U \in Bad : <<U, T>> \notin StrictSubsetOrdering(S)
  BY <1>1, WFMin
<1>3. \A U, T \in SUBSET S : U \subseteq T /\ U # T => <<U, T>> \in StrictSubsetOrdering(S)
  BY DEF StrictSubsetOrdering
<1> QED
  BY <1>2, <1>3

\* There are finitely many instances.
LEMMA InstancesFinite ==
  /\ IsFiniteSet(Instances)
  /\ \A f : InFamily(f) \subseteq Instances /\ IsFiniteSet(InFamily(f))
<1> DEFINE B == [family : Nat, complexity : BOOLEAN, repeats : Nat \ {0},
                 display : BOOLEAN, file : BOOLEAN]
<1>1. benchmarks \in Seq(B)
  BY BenchmarksAssumption
<1> HIDE DEF B
<1>2. Instances = 1 .. Len(benchmarks) /\ Len(benchmarks) \in Nat
  BY <1>1 DEF Instances
<1>3. IsFiniteSet(Instances)
  BY <1>2, FS_Interval
<1> QED
  BY <1>3, FS_Subset DEF InFamily

\* One instance has as many repetitions as it repeats.
LEMMA UnitsOfOne ==
  ASSUME NEW s \in SUBSET Instances, NEW x \in s, IsFiniteSet(Units(s \ {x}))
  PROVE  /\ IsFiniteSet(Units(s))
         /\ Cardinality(Units(s)) = Repeats(x) + Cardinality(Units(s \ {x}))
<1> DEFINE mine == {x} \X (1 .. Repeats(x))
           others == Units(s \ {x})
<1>1. Repeats(x) \in Nat \ {0}
  BY NothingTold
<1>2. IsFiniteSet(1 .. Repeats(x)) /\ Cardinality(1 .. Repeats(x)) = Repeats(x)
  BY <1>1, FS_Interval
<1>3. IsFiniteSet(mine) /\ Cardinality(mine) = Repeats(x)
  <2>1. IsFiniteSet({x}) /\ Cardinality({x}) = 1
    BY FS_Singleton
  <2>2. IsFiniteSet(mine) /\ Cardinality(mine) = 1 * Cardinality(1 .. Repeats(x))
    BY <1>2, <2>1, FS_Product
  <2> QED
    BY <1>1, <1>2, <2>2
<1>4. Units(s) = mine \cup others /\ mine \cap others = {}
  BY <1>1 DEF Units
<1> HIDE DEF mine, others
<1>5. /\ IsFiniteSet(Units(s))
      /\ Cardinality(Units(s)) = Cardinality(mine) + Cardinality(others) - Cardinality({})
  <2>1. IsFiniteSet(others)
    BY DEF others
  <2>2. /\ IsFiniteSet(mine \cup others)
        /\ Cardinality(mine \cup others) =
             Cardinality(mine) + Cardinality(others) - Cardinality(mine \cap others)
    BY <1>3, <2>1, FS_Union
  <2> QED
    BY <1>4, <2>2
<1>6. Cardinality(others) \in Nat
  BY FS_CardinalityType DEF others
<1> QED
  BY <1>1, <1>3, <1>5, <1>6, FS_EmptySet DEF others

\* There are finitely many repetitions.
LEMMA UnitsFinite ==
  ASSUME NEW s \in SUBSET Instances
  PROVE  IsFiniteSet(Units(s))
<1> DEFINE Bad == {r \in SUBSET Instances : ~IsFiniteSet(Units(r))}
<1> SUFFICES ASSUME Bad # {}
             PROVE  FALSE
  OBVIOUS
<1>1. PICK r \in Bad : \A q \in Bad : q \subseteq r => q = r
  <2>1. IsFiniteSet(Instances) /\ Bad \in SUBSET (SUBSET Instances)
    BY InstancesFinite
  <2> HIDE DEF Bad
  <2> QED
    BY <2>1, SmallestSubset
<1>2. r # {}
  BY FS_EmptySet DEF Units
<1>3. PICK x : x \in r
  BY <1>2
<1>4. r \ {x} \notin Bad
  BY <1>1, <1>3
<1> QED
  BY <1>1, <1>3, <1>4, UnitsOfOne

\* The sum of the repeats is the number of the repetitions.
LEMMA TotalCounts ==
  ASSUME NEW f
  PROVE  NumRunsTotal(f) = Cardinality(Units(InFamily(f)))
<1> DEFINE F == InFamily(f)
           Pick(s) == CHOOSE x \in s : TRUE
           Sums(iter) ==
             iter = [s \in SUBSET F |->
                       IF s = {} THEN 0 ELSE Repeats(Pick(s)) + iter[s \ {Pick(s)}]]
           count == [s \in SUBSET F |-> Cardinality(Units(s))]
           sum == CHOOSE iter : Sums(iter)
<1>1. NumRunsTotal(f) = sum[F]
  BY DEF NumRunsTotal, MapThenSumSet, MapThenFoldSet
<1>2. \A s \in SUBSET F : s # {} => Pick(s) \in s
  OBVIOUS
<1>3. \A s \in SUBSET F :
        Cardinality(Units(s)) =
          IF s = {} THEN 0 ELSE Repeats(Pick(s)) + Cardinality(Units(s \ {Pick(s)}))
  <2> SUFFICES ASSUME NEW s \in SUBSET F
               PROVE  Cardinality(Units(s)) =
                        IF s = {} THEN 0
                        ELSE Repeats(Pick(s)) + Cardinality(Units(s \ {Pick(s)}))
    OBVIOUS
  <2>1. CASE s = {}
    <3>1. Units(s) = {}
      BY <2>1 DEF Units
    <3> QED
      BY <2>1, <3>1, FS_EmptySet
  <2>2. CASE s # {}
    <3>1. Pick(s) \in s /\ s \in SUBSET Instances /\ s \ {Pick(s)} \in SUBSET Instances
      BY <1>2, <2>2, InstancesFinite
    <3> HIDE DEF Pick, F
    <3> QED
      BY <2>2, <3>1, UnitsOfOne, UnitsFinite
  <2> QED
    BY <2>1, <2>2
<1> HIDE DEF Pick, F
<1>4. Sums(count)
  <2>1. ASSUME NEW s \in SUBSET F
        PROVE  Cardinality(Units(s)) =
                 IF s = {} THEN 0 ELSE Repeats(Pick(s)) + count[s \ {Pick(s)}]
    <3>1. s \ {Pick(s)} \in SUBSET F
      OBVIOUS
    <3> QED
      BY <1>3, <3>1
  <2> QED
    BY <2>1
<1>5. Sums(sum)
  BY <1>4
<1> HIDE DEF sum, count
<1> DEFINE Bad == {s \in SUBSET F : sum[s] # Cardinality(Units(s))}
<1>6. Bad = {}
  <2> SUFFICES ASSUME Bad # {}
               PROVE  FALSE
    OBVIOUS
  <2>1. PICK s \in Bad : \A r \in Bad : r \subseteq s => r = s
    <3>1. IsFiniteSet(F) /\ Bad \in SUBSET (SUBSET F)
      BY InstancesFinite DEF F
    <3> HIDE DEF Bad
    <3> QED
      BY <3>1, SmallestSubset
  <2>2. sum[s] = IF s = {} THEN 0 ELSE Repeats(Pick(s)) + sum[s \ {Pick(s)}]
    BY <1>5
  <2>3. s # {} => s \ {Pick(s)} \notin Bad /\ s \ {Pick(s)} \in SUBSET F
    BY <1>2, <2>1
  <2> QED
    BY <1>3, <2>1, <2>2, <2>3
<1>7. F \in SUBSET F /\ F \notin Bad
  BY <1>6
<1>8. sum[F] = Cardinality(Units(F))
  BY <1>7
<1> QED
  BY <1>1, <1>8 DEF F

-----------------------------------------------------------------------------
\* Its report is all that a family can still wait for: every instance of it has been run
\* and reported.
FamilyDone(f) ==
  InFamily(f) # {} /\ \A b \in InFamily(f) : AllDone(b) /\ ~BeforeReport(b)

FamilyType == [live : BOOLEAN, total : Nat, done : Nat, Runs : Nat]

\* A family is complete when as many runs were counted as there are, and then its
\* complexity is computed and it is erased.
FamilyInv ==
  /\ per_family_reports \in [Families -> FamilyType]
  /\ bigO \in [Families -> Nat]
  /\ \A f \in Families :
       /\ per_family_reports[f].total = NumRunsTotal(f)
       /\ per_family_reports[f].done = Cardinality(DoneUnits(InFamily(f)))
       /\ bigO[f] = IF FamilyDone(f) THEN 1 ELSE 0
       /\ per_family_reports[f].live <=> InFamily(f) # {} /\ ~FamilyDone(f)

\* What is left of the type invariant.
OtherTypes ==
  suite <= Suites /\ interleaving \in BOOLEAN /\ current \in Instances \cup {0}

RunInv == ReportInv /\ FamilyInv /\ OtherTypes

\* The repetitions that are done are repetitions there are; if they are as many, they are
\* all.
LEMMA DoneOrNot ==
  ASSUME ReportInv, NEW f
  PROVE  LET done == DoneUnits(InFamily(f))
             all == Units(InFamily(f))
         IN  /\ IsFiniteSet(done) /\ Cardinality(done) \in Nat /\ Cardinality(all) \in Nat
             /\ Cardinality(done) <= Cardinality(all)
             /\ Cardinality(done) = Cardinality(all) <=> \A b \in InFamily(f) : AllDone(b)
<1> DEFINE done == DoneUnits(InFamily(f))
           all == Units(InFamily(f))
<1>1. \A b \in Instances : /\ Repeats(b) \in Nat \ {0} /\ num_repetitions_done(b) \in Nat
                           /\ num_repetitions_done(b) <= Repeats(b)
  <2> SUFFICES ASSUME NEW b \in Instances
               PROVE  num_repetitions_done(b) \in Nat /\ num_repetitions_done(b) <= Repeats(b)
    BY NothingTold
  <2>1. non_aggregates[b] \in Seq(BOOLEAN)
    BY Zenon DEF ReportInv, Types
  <2>2. num_repetitions_done(b) \in Nat
    BY <2>1 DEF num_repetitions_done
  <2> QED
    BY <2>2, Zenon DEF ReportInv, Types
<1>2. InFamily(f) \subseteq Instances
  BY InstancesFinite
<1>3. done \in SUBSET all
  BY <1>1, <1>2 DEF Units, DoneUnits
<1>4. IsFiniteSet(all)
  BY <1>2, UnitsFinite
<1>5. /\ IsFiniteSet(done) /\ Cardinality(done) <= Cardinality(all)
      /\ Cardinality(all) = Cardinality(done) => all = done
  BY <1>3, <1>4, FS_Subset
<1>6. Cardinality(done) \in Nat /\ Cardinality(all) \in Nat
  BY <1>4, <1>5, FS_CardinalityType
<1>7. done = all <=> \A b \in InFamily(f) : AllDone(b)
  <2>1. ASSUME done = all, NEW b \in InFamily(f)
        PROVE  AllDone(b)
    <3>1. <<b, Repeats(b)>> \in all
      BY <1>1, <1>2 DEF Units
    <3>2. Repeats(b) \in 1 .. num_repetitions_done(b)
      BY <2>1, <3>1 DEF DoneUnits
    <3> QED
      BY <1>1, <1>2, <3>2 DEF AllDone
  <2>2. ASSUME \A b \in InFamily(f) : AllDone(b)
        PROVE  done = all
    BY <2>2 DEF AllDone, Units, DoneUnits
  <2> QED
    BY <2>1, <2>2
<1> QED
  BY <1>5, <1>6, <1>7

\* An instance with a complexity is in its family, and in no other.
LEMMA OwnFamily ==
  /\ \A b \in Instances : benchmarks[b].family \in Families
  /\ \A f : \A b \in InFamily(f) : b \in Instances /\ benchmarks[b].family = f
  /\ \A b \in Instances : benchmarks[b].complexity <=> b \in InFamily(benchmarks[b].family)
  BY DEF Families, InFamily

\* A new suite counts from nothing.
LEMMA NewFamilies ==
  ASSUME NEW f \in Families
  PROVE  /\ NewFamily(f) \in FamilyType
         /\ NewFamily(f).total = NumRunsTotal(f) /\ NewFamily(f).done = 0
         /\ NewFamily(f).live <=> InFamily(f) # {}
<1>1. NumRunsTotal(f) \in Nat
  <2>1. InFamily(f) \in SUBSET Instances
    BY InstancesFinite
  <2>2. IsFiniteSet(Units(InFamily(f)))
    BY <2>1, UnitsFinite
  <2> QED
    BY <2>2, TotalCounts, FS_CardinalityType
<1> QED
  BY <1>1 DEF NewFamily, FamilyType

\* At first no family has runs or reports.
LEMMA FamiliesInitial ==
  ASSUME Init
  PROVE  RunInv
<1>1. ReportInv
  BY RunBenchmarksInitial
<1>2. OtherTypes
  BY BenchmarksAssumption DEF Init, OtherTypes
<1>3. per_family_reports = [f \in Families |-> NewFamily(f)] /\ bigO = [f \in Families |-> 0]
  BY DEF Init
<1>4. ASSUME NEW f \in Families
      PROVE  /\ Cardinality(DoneUnits(InFamily(f))) = 0
             /\ ~FamilyDone(f)
  <2>1. \A b \in Instances : num_repetitions_done(b) = 0
    BY DEF Init, num_repetitions_done
  <2>2. DoneUnits(InFamily(f)) = {}
    BY <2>1, InstancesFinite DEF DoneUnits
  <2>3. ~FamilyDone(f)
    BY <2>1, InstancesFinite, NothingTold DEF FamilyDone, AllDone
  <2> QED
    BY <2>2, <2>3, FS_EmptySet
<1>5. FamilyInv
  BY <1>3, <1>4, NewFamilies DEF FamilyInv
<1> QED
  BY <1>1, <1>2, <1>5 DEF RunInv

\* A step that neither repeats nor reports nor begins leaves the families alone.
LEMMA FamiliesLeftAlone ==
  ASSUME FamilyInv, UNCHANGED <<non_aggregates, per_family_reports, bigO>>,
         \A b \in Instances : BeforeReport(b) => BeforeReport(b)' \/ ~AllDone(b),
         \A b \in Instances : BeforeReport(b)' => BeforeReport(b)
  PROVE  FamilyInv'
<1>1. \A b \in Instances : num_repetitions_done(b)' = num_repetitions_done(b)
                           /\ (AllDone(b)' <=> AllDone(b))
  BY DEF AllDone, num_repetitions_done
<1>2. \A f \in Families : FamilyDone(f)' <=> FamilyDone(f)
  BY <1>1, OwnFamily DEF FamilyDone
<1>3. \A f \in Families : DoneUnits(InFamily(f))' = DoneUnits(InFamily(f))
  BY DEF DoneUnits, num_repetitions_done
<1> QED
  BY <1>2, <1>3 DEF FamilyInv

\* A repetition is one more of its instance, and counts for the family if the instance
\* has a complexity.
LEMMA RepetitionCounts ==
  ASSUME RunInv, NEW b \in Instances, DoOneRepetition(b)
  PROVE  FamilyInv'
<1> DEFINE F == benchmarks[b].family
           n == num_repetitions_done(b)
<1> PICK skipped \in BOOLEAN :
      /\ non_aggregates' = [non_aggregates EXCEPT ![b] = Append(@, skipped)]
      /\ per_family_reports' =
           IF benchmarks[b].complexity
           THEN [per_family_reports EXCEPT
                   ![benchmarks[b].family].done = @ + 1,
                   ![benchmarks[b].family].Runs = @ + IF skipped THEN 0 ELSE 1]
           ELSE per_family_reports
  BY DEF DoOneRepetition
<1>1. pc = "running" /\ pc' = "repeated" /\ current' = b /\ UNCHANGED bigO /\ ~AllDone(b)
  <2>1. n < Repeats(b) /\ Repeats(b) \in Nat /\ non_aggregates[b] \in Seq(BOOLEAN)
    BY NothingTold DEF DoOneRepetition, Remaining, RunInv, ReportInv, Types
  <2>2. n \in Nat
    BY <2>1 DEF num_repetitions_done
  <2> QED
    BY <2>1, <2>2 DEF DoOneRepetition, AllDone
<1>2. /\ non_aggregates \in [Instances -> Seq(BOOLEAN)] /\ n \in Nat
      /\ num_repetitions_done(b)' = n + 1
      /\ \A c \in Instances \ {b} : num_repetitions_done(c)' = num_repetitions_done(c)
  <2>1. non_aggregates \in [Instances -> Seq(BOOLEAN)]
    BY Zenon DEF RunInv, ReportInv, Types
  <2> QED
    BY <2>1 DEF num_repetitions_done
<1> HIDE DEF n
<1>3. \A f \in Families : FamilyDone(f)' <=> FamilyDone(f)
  <2> SUFFICES ASSUME NEW f \in Families
               PROVE  FamilyDone(f)' <=> FamilyDone(f)
    OBVIOUS
  <2>1. CASE b \in InFamily(f)
    BY <1>1, <2>1 DEF FamilyDone, BeforeReport
  <2>2. CASE b \notin InFamily(f)
    <3>1. \A c \in InFamily(f) :
            /\ c \in Instances \ {b} /\ ~BeforeReport(c) /\ ~BeforeReport(c)'
            /\ AllDone(c)' <=> AllDone(c)
      BY <1>1, <1>2, <2>2, OwnFamily DEF BeforeReport, AllDone
    <3> QED
      BY <3>1 DEF FamilyDone
  <2> QED
    BY <2>1, <2>2
<1>4. ASSUME NEW f \in Families
      PROVE  Cardinality(DoneUnits(InFamily(f)))' =
               Cardinality(DoneUnits(InFamily(f))) + IF b \in InFamily(f) THEN 1 ELSE 0
  <2> DEFINE done == DoneUnits(InFamily(f))
  <2>1. IsFiniteSet(done) /\ Cardinality(done) \in Nat
    BY DoneOrNot DEF RunInv
  <2>2. CASE b \in InFamily(f)
    <3>1. done' = done \cup {<<b, n + 1>>} /\ <<b, n + 1>> \notin done
      <4>1. ASSUME NEW c \in InFamily(f), NEW i \in Nat
            PROVE  i \in 1 .. num_repetitions_done(c)' <=>
                     (i \in 1 .. num_repetitions_done(c) \/ (c = b /\ i = n + 1))
        <5>1. CASE c = b
          BY <1>2, <5>1 DEF n
        <5>2. CASE c # b
          BY <1>2, <5>2, OwnFamily
        <5> QED
          BY <5>1, <5>2
      <4>2. n + 1 \in Nat /\ n + 1 \notin 1 .. num_repetitions_done(b)
        BY <1>2 DEF n
      <4> QED
        BY <2>2, <4>1, <4>2 DEF DoneUnits
    <3>2. Cardinality(done') = Cardinality(done) + 1
      BY <2>1, <3>1, FS_AddElement
    <3> QED
      BY <2>2, <3>2
  <2>3. CASE b \notin InFamily(f)
    <3>1. \A c \in InFamily(f) : num_repetitions_done(c)' = num_repetitions_done(c)
      BY <1>2, <2>3, OwnFamily
    <3>2. done' = done
      BY <3>1, SMTT(30) DEF DoneUnits
    <3> QED
      BY <2>1, <2>3, <3>2
  <2> QED
    BY <2>2, <2>3
<1>5. /\ per_family_reports' \in [Families -> FamilyType]
      /\ \A f \in Families :
           /\ per_family_reports'[f].total = per_family_reports[f].total
           /\ per_family_reports'[f].live = per_family_reports[f].live
           /\ per_family_reports'[f].done =
                per_family_reports[f].done + IF b \in InFamily(f) THEN 1 ELSE 0
  <2>1. per_family_reports \in [Families -> FamilyType] /\ F \in Families
    BY OwnFamily DEF RunInv, FamilyInv
  <2>2. CASE benchmarks[b].complexity
    <3>1. \A f \in Families : b \in InFamily(f) <=> f = F
      BY <2>2, OwnFamily
    <3> DEFINE one == IF skipped THEN 0 ELSE 1
               r == per_family_reports[F]
               s1 == [r EXCEPT !.done = @ + 1]
               s == [s1 EXCEPT !.Runs = @ + one]
    <3>2. per_family_reports' = [per_family_reports EXCEPT ![F] = s]
      BY <2>1, <2>2
    <3>3. r \in FamilyType
      BY <2>1
    <3> HIDE DEF r
    <3>4. /\ s1 \in FamilyType /\ s1.done = r.done + 1 /\ s1.total = r.total
          /\ s1.live = r.live
      BY <3>3 DEF FamilyType
    <3> HIDE DEF s1
    <3>5. s \in FamilyType /\ s.done = s1.done /\ s.total = s1.total /\ s.live = s1.live
      BY <3>4 DEF FamilyType
    <3> HIDE DEF s
    <3>6. /\ per_family_reports' \in [Families -> FamilyType] /\ per_family_reports'[F] = s
          /\ \A f \in Families \ {F} : per_family_reports'[f] = per_family_reports[f]
      BY <2>1, <3>2, <3>5
    <3>7. ASSUME NEW f \in Families
          PROVE  /\ per_family_reports'[f].total = per_family_reports[f].total
                 /\ per_family_reports'[f].live = per_family_reports[f].live
                 /\ per_family_reports'[f].done =
                      per_family_reports[f].done + IF b \in InFamily(f) THEN 1 ELSE 0
      <4>1. CASE f = F
        <5>1. per_family_reports'[f] = s /\ per_family_reports[f] = r /\ b \in InFamily(f)
          BY <3>1, <3>6, <4>1 DEF r
        <5> QED
          BY <3>4, <3>5, <5>1
      <4>2. CASE f # F
        <5>1. per_family_reports'[f] = per_family_reports[f] /\ b \notin InFamily(f)
          BY <3>1, <3>6, <4>2
        <5>2. per_family_reports[f].done \in Nat
          BY <2>1 DEF FamilyType
        <5>3. \A m \in Nat : m = m + 0
          OBVIOUS
        <5> QED
          BY <5>1, <5>2, <5>3, Zenon
      <4> QED
        BY <4>1, <4>2
    <3> QED
      BY <3>6, <3>7, Zenon
  <2>3. CASE ~benchmarks[b].complexity
    <3>1. \A f \in Families : b \notin InFamily(f)
      BY <2>3, OwnFamily
    <3>2. \A f \in Families : per_family_reports[f].done \in Nat
      BY <2>1 DEF FamilyType
    <3> QED
      BY <2>1, <2>3, <3>1, <3>2
  <2> QED
    BY <2>2, <2>3
<1> QED
  <2>1. bigO' \in [Families -> Nat] /\ per_family_reports' \in [Families -> FamilyType]
    BY <1>1, <1>5 DEF RunInv, FamilyInv
  <2>2. ASSUME NEW f \in Families
        PROVE  /\ per_family_reports'[f].total = NumRunsTotal(f)
               /\ per_family_reports'[f].done = Cardinality(DoneUnits(InFamily(f)))'
               /\ bigO'[f] = IF FamilyDone(f)' THEN 1 ELSE 0
               /\ per_family_reports'[f].live <=> InFamily(f) # {} /\ ~FamilyDone(f)'
    <3>1. /\ per_family_reports[f].total = NumRunsTotal(f)
          /\ per_family_reports[f].done = Cardinality(DoneUnits(InFamily(f)))
          /\ bigO[f] = IF FamilyDone(f) THEN 1 ELSE 0
          /\ per_family_reports[f].live <=> InFamily(f) # {} /\ ~FamilyDone(f)
      BY Zenon DEF RunInv, FamilyInv
    <3>2. bigO'[f] = bigO[f]
      BY <1>1
    <3>3. FamilyDone(f)' <=> FamilyDone(f)
      BY <1>3
    <3> QED
      <4>1. /\ per_family_reports'[f].total = per_family_reports[f].total
            /\ per_family_reports'[f].live = per_family_reports[f].live
            /\ per_family_reports'[f].done =
                 per_family_reports[f].done + IF b \in InFamily(f) THEN 1 ELSE 0
        BY <1>5
      <4>2. Cardinality(DoneUnits(InFamily(f)))' =
              Cardinality(DoneUnits(InFamily(f))) + IF b \in InFamily(f) THEN 1 ELSE 0
        BY <1>4
      <4>3. per_family_reports'[f].done = Cardinality(DoneUnits(InFamily(f)))'
        BY <3>1, <4>1, <4>2
      <4>4. bigO'[f] = IF FamilyDone(f)' THEN 1 ELSE 0
        BY <3>1, <3>2, <3>3
      <4>5. per_family_reports'[f].live <=> InFamily(f) # {} /\ ~FamilyDone(f)'
        BY <3>1, <3>3, <4>1
      <4> QED
        BY <3>1, <4>1, <4>3, <4>4, <4>5
  <2> QED
    BY <2>1, <2>2, Zenon DEF FamilyInv

\* The report of an instance that is not the last of its family leaves the family alone;
\* that of the last one computes the complexity and erases the family.
LEMMA ReportCounts ==
  ASSUME RunInv, ReportInstance
  PROVE  FamilyInv'
<1> DEFINE b == current
           F == benchmarks[b].family
<1>1. /\ pc = "repeated" /\ pc' = "running" /\ b \in Instances /\ AllDone(b)
      /\ BeforeReport(b) /\ UNCHANGED <<non_aggregates, current>>
  <2>1. pc = "repeated" => current \in Instances
    BY Zenon DEF RunInv, ReportInv, Types
  <2> QED
    BY <2>1 DEF ReportInstance, HasRepeatsRemaining, AllDone, BeforeReport
<1>2. /\ FamilyInv /\ F \in Families /\ per_family_reports \in [Families -> FamilyType]
      /\ bigO \in [Families -> Nat]
  BY <1>1, OwnFamily DEF RunInv, FamilyInv
<1>3. \A c \in Instances : /\ num_repetitions_done(c)' = num_repetitions_done(c)
                           /\ AllDone(c)' <=> AllDone(c)
                           /\ BeforeReport(c) <=> c = b
                           /\ ~BeforeReport(c)'
  BY <1>1 DEF num_repetitions_done, AllDone, BeforeReport
<1>4. \A f \in Families : DoneUnits(InFamily(f))' = DoneUnits(InFamily(f))
  BY <1>1 DEF DoneUnits, num_repetitions_done
<1>5. \A f \in Families : FamilyDone(f)' <=>
                            FamilyDone(f) \/ (b \in InFamily(f) /\ FamilyComplete(b))
  <2> SUFFICES ASSUME NEW f \in Families
               PROVE  FamilyDone(f)' <=>
                        FamilyDone(f) \/ (b \in InFamily(f) /\ FamilyComplete(b))
    OBVIOUS
  <2>1. CASE b \in InFamily(f)
    <3>1. f = F /\ benchmarks[b].complexity
      BY <1>1, <2>1, OwnFamily
    <3>2. FamilyComplete(b) <=> \A c \in InFamily(f) : AllDone(c)
      <4>1. FamilyComplete(b) <=> per_family_reports[f].done = per_family_reports[f].total
        BY <3>1 DEF FamilyComplete
      <4>2. /\ per_family_reports[f].total = Cardinality(Units(InFamily(f)))
            /\ per_family_reports[f].done = Cardinality(DoneUnits(InFamily(f)))
        BY TotalCounts DEF RunInv, FamilyInv
      <4> QED
        BY <4>1, <4>2, DoneOrNot DEF RunInv
    <3>3. ~FamilyDone(f)
      BY <1>1, <2>1 DEF FamilyDone
    <3> QED
      BY <1>3, <2>1, <3>2, <3>3, OwnFamily DEF FamilyDone
  <2>2. CASE b \notin InFamily(f)
    BY <1>3, <2>2, OwnFamily DEF FamilyDone
  <2> QED
    BY <2>1, <2>2
<1>6. CASE FamilyComplete(b)
  <2>1. \A f \in Families : b \in InFamily(f) <=> f = F
    BY <1>1, <1>6, OwnFamily DEF FamilyComplete
  <2>2. ~FamilyDone(F)
    BY <1>1, <1>2, <2>1 DEF FamilyDone
  <2> DEFINE r == per_family_reports[F]
             s == [r EXCEPT !.live = FALSE]
  <2>3. /\ bigO' = [bigO EXCEPT ![F] = @ + 1]
        /\ per_family_reports' = [per_family_reports EXCEPT ![F] = s]
    BY <1>2, <1>6 DEF ReportInstance
  <2>4. r \in FamilyType
    BY <1>2
  <2> HIDE DEF r
  <2>5. s \in FamilyType /\ s.total = r.total /\ s.done = r.done /\ s.live = FALSE
    BY <2>4 DEF FamilyType
  <2> HIDE DEF s
  <2>6. /\ per_family_reports' \in [Families -> FamilyType] /\ per_family_reports'[F] = s
        /\ bigO' \in [Families -> Nat] /\ bigO'[F] = bigO[F] + 1
        /\ \A f \in Families \ {F} :
             per_family_reports'[f] = per_family_reports[f] /\ bigO'[f] = bigO[f]
    BY <1>2, <2>3, <2>5
  <2>7. ASSUME NEW f \in Families
        PROVE  /\ per_family_reports'[f].total = NumRunsTotal(f)
               /\ per_family_reports'[f].done = Cardinality(DoneUnits(InFamily(f)))
               /\ bigO'[f] = IF FamilyDone(f)' THEN 1 ELSE 0
               /\ per_family_reports'[f].live <=> InFamily(f) # {} /\ ~FamilyDone(f)'
    <3>1. /\ per_family_reports[f].total = NumRunsTotal(f)
          /\ per_family_reports[f].done = Cardinality(DoneUnits(InFamily(f)))
          /\ bigO[f] = IF FamilyDone(f) THEN 1 ELSE 0
          /\ per_family_reports[f].live <=> InFamily(f) # {} /\ ~FamilyDone(f)
      BY <1>2 DEF FamilyInv
    <3>2. CASE f = F
      BY <1>2, <1>5, <1>6, <2>1, <2>2, <2>5, <2>6, <3>1, <3>2 DEF r
    <3>3. CASE f # F
      BY <1>5, <2>1, <2>6, <3>1, <3>3
    <3> QED
      BY <3>2, <3>3
  <2> QED
    BY <1>4, <2>6, <2>7 DEF FamilyInv
<1>7. CASE ~FamilyComplete(b)
  <2>1. UNCHANGED <<bigO, per_family_reports>>
    BY <1>7 DEF ReportInstance
  <2> QED
    BY <1>2, <1>4, <1>5, <1>7, <2>1 DEF FamilyInv
<1> QED
  BY <1>6, <1>7

\* Another suite counts its families anew.
LEMMA SuiteCounts ==
  ASSUME RunInv, NextSuite
  PROVE  FamilyInv'
<1>1. /\ per_family_reports' = [f \in Families |-> NewFamily(f)]
      /\ bigO' = [f \in Families |-> 0] /\ non_aggregates' = [b \in Instances |-> << >>]
  BY DEF NextSuite
<1>2. \A b \in Instances : num_repetitions_done(b)' = 0
  BY <1>1 DEF num_repetitions_done
<1>3. ASSUME NEW f \in Families
      PROVE  /\ Cardinality(DoneUnits(InFamily(f)))' = 0
             /\ ~FamilyDone(f)'
  <2>1. DoneUnits(InFamily(f))' = {}
    BY <1>2, InstancesFinite DEF DoneUnits
  <2>2. ~FamilyDone(f)'
    BY <1>2, InstancesFinite, NothingTold DEF FamilyDone, AllDone
  <2> QED
    BY <2>1, <2>2, FS_EmptySet
<1> QED
  BY <1>1, <1>3, NewFamilies DEF FamilyInv

\* Every step keeps the count of the families.
THEOREM FamiliesInductive == RunInv /\ [Next]_vars => RunInv'
<1> SUFFICES ASSUME RunInv, [Next]_vars
             PROVE  FamilyInv' /\ OtherTypes'
  BY RunBenchmarksInductive DEF RunInv
<1>1. ASSUME NEW b \in Instances, DoOneRepetition(b)
      PROVE  FamilyInv' /\ OtherTypes'
  BY <1>1, RepetitionCounts DEF DoOneRepetition, RunInv, OtherTypes
<1>2. CASE ReportInstance
  BY <1>2, ReportCounts DEF ReportInstance, RunInv, OtherTypes
<1>3. CASE NextSuite
  <2>1. suite \in Nat /\ Suites \in Nat
    BY Zenon, BenchmarksAssumption DEF RunInv, ReportInv, Types
  <2>2. OtherTypes'
    BY <1>3, <2>1 DEF NextSuite, RunInv, OtherTypes
  <2> QED
    BY <1>3, <2>2, SuiteCounts
<1>4. CASE ReportContext \/ NextRepetition \/ CrashInStatistics \/ CrashInErase
           \/ AllRepetitionsDone \/ Finalize \/ UNCHANGED vars
  <2>1. UNCHANGED <<non_aggregates, per_family_reports, bigO, suite, interleaving, current>>
    BY <1>4 DEF ReportContext, NextRepetition, CrashInStatistics, CrashInErase,
                AllRepetitionsDone, Finalize, vars
  <2>2. \A b \in Instances : BeforeReport(b) => BeforeReport(b)' \/ ~AllDone(b)
    BY <1>4 DEF ReportContext, NextRepetition, CrashInStatistics, CrashInErase, vars,
                AllRepetitionsDone, Finalize, BeforeReport, HasRepeatsRemaining, AllDone
  <2>3. \A b \in Instances : BeforeReport(b)' => BeforeReport(b)
    BY <1>4 DEF ReportContext, NextRepetition, CrashInStatistics, CrashInErase, vars,
                AllRepetitionsDone, Finalize, BeforeReport
  <2>4. FamilyInv'
    BY <2>1, <2>2, <2>3, FamiliesLeftAlone DEF RunInv
  <2>5. OtherTypes'
    BY <2>1 DEF RunInv, OtherTypes
  <2> QED
    BY <2>4, <2>5
<1>5. CASE Stopped
  BY <1>4, <1>5 DEF Stopped
<1> QED
  BY <1>1, <1>2, <1>3, <1>4, <1>5 DEF Next

\* The invariant of the families, of the behaviours.
LEMMA FamiliesInvariant == Spec => []RunInv
<1>1. Init => RunInv
  BY FamiliesInitial
<1> QED
  BY <1>1, FamiliesInductive, PTL DEF Spec

\* Type correctness, and no family counts more runs than it has, for every list of
\* instances.
THEOREM RunBenchmarksTypeCorrect == Spec => []TypeOK
<1>1. ASSUME RunInv
      PROVE  TypeOK
  <2>1. /\ suite \in Nat \ {0} /\ non_aggregates \in [Instances -> Seq(BOOLEAN)]
        /\ pc \in {"context", "running", "repeated", "finalize", "done",
                   "null statistics", "front of empty"}
        /\ \A b \in Instances : num_repetitions_done(b) <= Repeats(b)
        /\ refused \in {"none", "display", "file"}
        /\ reported \in [Reporters -> [Instances -> [non_aggregates : Nat, aggregates : Nat]]]
    BY <1>1, Zenon DEF RunInv, ReportInv, Types
  <2>2. suite \in 1 .. Suites /\ interleaving \in BOOLEAN /\ current \in Instances \cup {0}
    <3>1. suite \in Nat \ {0}
      BY <1>1, Zenon DEF RunInv, ReportInv, Types
    <3>2. Suites \in Nat
      BY Zenon, BenchmarksAssumption
    <3> QED
      BY <1>1, <3>1, <3>2 DEF RunInv, OtherTypes
  <2>3. display_reporter \in R!ReporterType /\ file_reporter \in R!ReporterType
    BY <1>1, Zenon DEF RunInv, ReportInv, JsonInv, JsonFollows
  <2>4. \A f \in Families : per_family_reports[f].done <= per_family_reports[f].total
    <3> SUFFICES ASSUME NEW f \in Families
                 PROVE  per_family_reports[f].done <= per_family_reports[f].total
      OBVIOUS
    <3>1. /\ per_family_reports[f].total = Cardinality(Units(InFamily(f)))
          /\ per_family_reports[f].done = Cardinality(DoneUnits(InFamily(f)))
      BY <1>1, TotalCounts DEF RunInv, FamilyInv
    <3> QED
      BY <1>1, <3>1, DoneOrNot DEF RunInv
  <2>5. per_family_reports \in [Families -> FamilyType] /\ bigO \in [Families -> Nat]
    BY <1>1 DEF RunInv, FamilyInv
  <2> QED
    BY <2>1, <2>2, <2>3, <2>4, <2>5, Zenon DEF TypeOK, FamilyType, Reporters
<1> QED
  BY <1>1, FamiliesInvariant, PTL

\* No pointer into the reports of a family is used after the family was erased, in every
\* order of the repetitions.
THEOREM NoDanglingCorrect == Spec => []NoDanglingFamily
<1>1. ASSUME RunInv, NEW f \in Families, InFamily(f) # {}, ~per_family_reports[f].live
      PROVE  InFamily(f) \cap Remaining = {}
  <2>1. FamilyDone(f)
    BY <1>1 DEF RunInv, FamilyInv
  <2>2. \A b \in InFamily(f) : num_repetitions_done(b) = Repeats(b) /\ Repeats(b) \in Nat
    BY <2>1, OwnFamily, NothingTold DEF FamilyDone, AllDone
  <2> QED
    BY <2>2 DEF Remaining
<1>2. RunInv => NoDanglingFamily
  BY <1>1 DEF NoDanglingFamily
<1> QED
  BY <1>2, FamiliesInvariant, PTL

\* The complexity of a family is computed once, from all of its runs, whichever of its
\* instances is the last to finish.
THEOREM BigOOnceCorrect == Spec => []BigOOnce
<1>1. ASSUME RunInv
      PROVE  BigOOnce
  <2>1. \A f \in Families : bigO[f] = IF FamilyDone(f) THEN 1 ELSE 0
    BY <1>1 DEF RunInv, FamilyInv
  <2>2. ASSUME pc = "finalize", Remaining = {}, NEW f \in Families
        PROVE  FamilyDone(f) <=> InFamily(f) # {}
    <3>1. ASSUME NEW b \in Instances
          PROVE  AllDone(b) /\ ~BeforeReport(b)
      <4>1. num_repetitions_done(b) <= Repeats(b) /\ non_aggregates[b] \in Seq(BOOLEAN)
        BY <1>1, Zenon DEF RunInv, ReportInv, Types
      <4>2. num_repetitions_done(b) \in Nat /\ Repeats(b) \in Nat
        BY <4>1, NothingTold DEF num_repetitions_done
      <4> QED
        BY <2>2, <4>1, <4>2 DEF Remaining, AllDone, BeforeReport
    <3> QED
      BY <3>1, OwnFamily DEF FamilyDone
  <2> QED
    BY <2>1, <2>2 DEF BigOOnce
<1> QED
  BY <1>1, FamiliesInvariant, PTL
================================================================================
